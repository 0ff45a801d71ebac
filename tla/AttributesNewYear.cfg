\* A file of last year's last days looked at in the first ones of this year.
CONSTANTS
    Second = 2
    Minute = 4
    DayLen = 8
    Files <- MCOldFiles
    Asks <- MCNoAsks
    Zones <- MCUtc
    Starts <- MCNewYear
    MaxTicks = 1
    Recent = 6
    Named <- MCNamed
    WireMod = 100
    MaxCalls <- MCStatOnly
    MaxFaults = 0
SPECIFICATION Spec
INVARIANT LsTimeIsRight
CHECK_DEADLOCK FALSE
