\* One client of either kind, two calls, two faults: any request unsent, any
\* answer lost, the link broken; the client goes on and a broken link is noticed.
CONSTANTS
    Names = {"a", "b"}
    MaxDepth = 2
    MaxLinks = 2
    Clients = {c1}
    Protocols <- MCBoth
    Home <- MCHome
    InitTrees <- MCTrees
    Marked <- MCMarked
    Requests <- MCAll
    MaxCalls = 2
    MaxFaults = 2
SPECIFICATION FairSpec
INVARIANTS TypeOK OkIsDone DefiniteErrors HonestLookups ListingFaithful
PROPERTIES EffectsEntitled CallsReturn
