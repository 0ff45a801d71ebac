\* A preference of the file that libssh2 refuses and the options override.
CONSTANTS
    Texts <- MCTexts
    Empty = ""
    Options <- MCOptions
    HostParams <- MCHostParams
    Agents <- MCAgents
    MaxAddresses = 1
    Algos <- MCAlgos
    Supported <- MCSupported
SPECIFICATION Spec
INVARIANT OnlyEffectivePrefsRefuse
