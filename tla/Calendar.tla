------------------------------ MODULE Calendar ------------------------------
(***************************************************************************)
(* A calendar with the traits of the real one that matter to the times of  *)
(* src/utils/parser.rs and fmt.rs: seconds, minutes and days of so many    *)
(* ticks, years of three days, every other year with a fourth (its 29      *)
(* February), and years before the epoch, the first tick of year 0.        *)
(***************************************************************************)
EXTENDS Integers

CONSTANTS Second, Minute, DayLen  \* their ticks

ASSUME CalendarAssumption ==
    /\ {Second, Minute, DayLen} \subseteq Nat \ {0}
    /\ Minute % Second = 0 /\ DayLen % Minute = 0

\* The instant t without what is less than a unit.
Whole(t, unit) == t - (t % unit)

DaysIn(year) == IF year % 2 = 0 THEN 4 ELSE 3

\* The date and time of day of the instant t: what a format string shows of it.
Civil(t) ==
    LET day == (t \div DayLen) % 7
        pair == 2 * ((t \div DayLen) \div 7)
    IN  [year |-> IF day < 4 THEN pair ELSE pair + 1,
         day |-> IF day < 4 THEN day ELSE day - 4,
         tod |-> t % DayLen]

\* The day exists in its year.
IsDate(c) == c.day \in 0..DaysIn(c.year) - 1

\* The instant of a date and time of day.
Instant(c) ==
    (7 * (c.year \div 2) + (IF c.year % 2 = 0 THEN 0 ELSE 4) + c.day) * DayLen + c.tod

=============================================================================
