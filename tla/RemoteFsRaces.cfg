\* Two clients, each of either kind, two calls, no fault: every interleaving of
\* their requests.
CONSTANTS
    Names = {"a", "b"}
    MaxDepth = 2
    MaxLinks = 2
    Clients = {c1, c2}
    Protocols <- MCBoth
    Home <- MCHome
    InitTrees <- MCRaceTrees
    Marked <- MCMarked
    Requests <- MCRace
    MaxCalls = 2
    MaxFaults = 0
SPECIFICATION Spec
SYMMETRY Symmetry
INVARIANTS OkIsDone DefiniteErrors HonestLookups ListingFaithful
PROPERTIES EffectsEntitled ImplementsContract
