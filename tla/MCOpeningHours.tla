--------------------------- MODULE MCOpeningHours ---------------------------
(***************************************************************************)
(* Instances of OpeningHours for TLC: days of a few ticks of the clock,    *)
(* and clocks that are changed at most once.                               *)
(***************************************************************************)
EXTENDS OpeningHours

Clock(at, before, after) == [t \in Instants |-> IF t < at THEN before ELSE after]

(* Steady clocks, ones set forward and ones set back, at midnight or not.  *)
AnyZones ==
  {Clock(at, before, after) : at \in {0, SecondMillis},
     before, after \in {0, SecondMillis, -2 * SecondMillis}} \cup {NoZone}
SteadyZones == {Clock(0, 0, 0)}
(* Set back by one, at midnight or an hour later, back to midnight.        *)
SetBackZones == {Clock(at, 0, - SecondMillis) : at \in {0, 1}}

AnyStarts == Instants \cup {NaN, MaxInstant + 1}
AnyDurations == 0..9 \cup {NaN}

Day(opens, closes) == [opens |-> opens, closes |-> closes]

(* The same hours every day but day 1, which is closed.                    *)
Week(hours) == [d \in 0..6 |-> IF d = 1 THEN Closed ELSE hours]

(* All day, from opening to midnight, an ordinary day, and a time column   *)
(* with a fraction of a second when seconds have one.                      *)
AnyWeeks ==
  {Week(Day(o * SecondMillis, c * SecondMillis)) :
     <<o, c>> \in {<<0, DaySeconds>>, <<DaySeconds \div 2, DaySeconds>>,
                   <<1, DaySeconds - 1>>, <<0, 1>>}}
    \cup {Week(Day(1, 3 * SecondMillis))}
=============================================================================
