\* A symlink in another directory, to a relative target.
CONSTANTS
    Names = {"a", "b"}
    MaxDepth = 2
    MaxLinks = 2
    Clients = {c1}
    Protocols <- MCScp
    Home <- MCHome
    InitTrees <- MCEmptyTree
    Marked <- MCMarked
    Requests <- MCSymlinkAway
    MaxCalls = 1
    MaxFaults = 0
SPECIFICATION Spec
INVARIANT SymlinkResolves
