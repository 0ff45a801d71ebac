\* All three methods, any announced size (5 does not fit the usize of this
\* instance), a source that may change once.
CONSTANTS
    Ops <- MCOps
    BufLen = 3
    UsizeMod = 5
    Sizes <- MCUpTo5
    Lengths <- MCUpTo5
    OldLengths <- MCUpTo2
    MinWrite = 1
    MaxChanges = 1
SPECIFICATION FairSpec
INVARIANTS TypeOK SinkIsPrefix OkCount BoundedOvershoot LoopInv
PROPERTIES ImplementsCopy ReturnsUnlessShort
