\* A command after the working directory was removed.
CONSTANTS
    Names = {"a", "b"}
    MaxDepth = 2
    MaxLinks = 2
    Clients = {c1}
    Protocols <- MCScp
    Home <- MCHome
    InitTrees <- MCEmptyTree
    Marked <- MCMarked
    Requests <- MCExec
    MaxCalls = 3
    MaxFaults = 0
SPECIFICATION Spec
PROPERTY ExecInWrkdir
