\* Every short output, cut anywhere.
CONSTANTS
    Outputs <- MCOutputs
    Statuses <- MCStatuses
SPECIFICATION Spec
INVARIANTS SuccessIsSuccess
PROPERTY NeatRoundTrip
CHECK_DEADLOCK FALSE
