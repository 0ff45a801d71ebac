\* A setstat by either client and a stat by either, in two time zones, at the end
\* of a year and on a leap day; the file may be removed, any request refused, one
\* of them lost.  The behaviour ends with the calls and the clock.
CONSTANTS
    Second = 2
    Minute = 4
    DayLen = 8
    Files <- MCFiles
    Asks <- MCAsks
    Zones <- MCZones
    Starts <- MCStarts
    MaxTicks = 2
    Recent = 6
    Named <- MCNamed
    WireMod = 100
    MaxCalls <- MCEach
    MaxFaults = 1
SPECIFICATION Spec
INVARIANTS TypeOK SetInOrder StatHonest ReadsBack
PROPERTIES OnlyAsked NoFileFromNothing
CHECK_DEADLOCK FALSE
