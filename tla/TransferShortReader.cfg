\* The reader ends before the announced size.
CONSTANTS
    Ops <- MCUploads
    BufLen = 2
    UsizeMod = 16
    Sizes <- MCExactly5
    Lengths <- MCUpTo5
    OldLengths <- MCUpTo2
    MinWrite = 1
    MaxChanges = 0
SPECIFICATION FairSpec
PROPERTY AlwaysReturns
