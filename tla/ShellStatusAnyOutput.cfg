\* The status of a command whose output is any text.
CONSTANTS
    Outputs <- MCOutputs
    Statuses <- MCStatuses
SPECIFICATION Spec
INVARIANT CollectsStatus
CHECK_DEADLOCK FALSE
