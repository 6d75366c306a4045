------------------------- MODULE OpeningHoursProofs -------------------------
(***************************************************************************)
(* Comparing the two rendered endpoints of an interval with the hours of   *)
(* the day it starts in decides whether the doors are open throughout: for *)
(* any clocks, hours, starts and durations, any length of the second, the  *)
(* minute and the day.                                                     *)
(*                                                                         *)
(* The argument counts milliseconds from the midnight that begins the day  *)
(* of the start: an instant's rendering is its count cut to whole seconds  *)
(* and then to days, and the hours are whole seconds, so that an endpoint  *)
(* is on the right side of them when its rendering is.                     *)
(***************************************************************************)
EXTENDS OpeningHours, TLAPS

-----------------------------------------------------------------------------
(* Arithmetic.                                                             *)

(* Cutting a count into whole units and a rest.                            *)
LEMMA Cut ==
  ASSUME NEW n \in Int, NEW unit \in Nat \ {0}
  PROVE  /\ n \div unit \in Int
         /\ n % unit \in 0 .. (unit - 1)
         /\ n = unit * (n \div unit) + (n % unit)
OBVIOUS

(* Products over sums and over what is not less.                           *)
LEMMA Distributes ==
  ASSUME NEW a \in Int, NEW b \in Int, NEW c \in Int
  PROVE  a * (b + c) = a * b + a * c
OBVIOUS

(* A factor keeps an order.                                                *)
LEMMA Monotone ==
  ASSUME NEW a \in Nat, NEW b \in Int, NEW c \in Int, b <= c
  PROVE  a * b <= a * c
<1>1. a * c = a * b + a * (c - b)
  BY Distributes
<1>2. a * (c - b) \in Nat
  OBVIOUS
<1> QED
  BY <1>1, <1>2

(* What fits into n + 1 units, the last one begun, holds n whole ones.     *)
LEMMA WholeUnits ==
  ASSUME NEW unit \in Nat \ {0}, NEW a \in Int, NEW b \in Int, NEW rest \in 0 .. (unit - 1),
         unit * a <= unit * b + rest
  PROVE  a <= b
<1> SUFFICES ASSUME b + 1 <= a PROVE FALSE
  OBVIOUS
<1>1. unit * (b + 1) <= unit * a
  BY Monotone
<1>2. unit * (b + 1) = unit * b + unit
  BY Distributes
<1> QED
  BY <1>1, <1>2

(* A number between n units and n + 1 is n units and a rest.               *)
LEMMA CutIs ==
  ASSUME NEW unit \in Nat \ {0}, NEW n \in Int, NEW rest \in 0 .. (unit - 1)
  PROVE  (unit * n + rest) \div unit = n /\ (unit * n + rest) % unit = rest
<1> DEFINE x == unit * n + rest
<1>1. x \in Int
  OBVIOUS
<1>2. /\ x \div unit \in Int /\ x % unit \in 0 .. (unit - 1)
      /\ x = unit * (x \div unit) + (x % unit)
  BY <1>1, Cut
<1> HIDE DEF x
<1>3. unit * n <= unit * (x \div unit) + (x % unit)
  BY <1>2 DEF x
<1>4. unit * (x \div unit) <= unit * n + rest
  BY <1>2 DEF x
<1>5. n <= x \div unit /\ x \div unit <= n
  BY <1>2, <1>3, <1>4, WholeUnits
<1> QED
  BY <1>2, <1>5 DEF x

-----------------------------------------------------------------------------
(* Local time.                                                             *)

(* The midnight that begins a local day, in milliseconds of its clock.     *)
Midnight(date) == date * DaySeconds * SecondMillis

(* renderLocal: since midnight, an instant is its second of the day and a  *)
(* rest of that second.                                                    *)
LEMMA Rendering ==
  ASSUME NEW z \in [Instants -> Int], NEW t \in Instants
  PROVE  /\ t \in Int /\ Wall(z, t) \in Int /\ LocalDate(z, t) \in Int
         /\ LocalSecond(z, t) \in Int
         /\ SecondsOfDay(z, t) \in 0 .. (DaySeconds - 1)
         /\ Wall(z, t) % SecondMillis \in 0 .. (SecondMillis - 1)
         /\ LocalSecond(z, t) = DaySeconds * LocalDate(z, t) + SecondsOfDay(z, t)
         /\ Wall(z, t) = SecondMillis * LocalSecond(z, t) + (Wall(z, t) % SecondMillis)
<1>1. SecondMillis \in Nat \ {0} /\ DaySeconds \in Nat \ {0}
  BY UnitAssumption
<1>2. t \in Int /\ Wall(z, t) \in Int
  BY UnitAssumption DEF Instants, Wall
<1>3. /\ LocalSecond(z, t) \in Int
      /\ Wall(z, t) % SecondMillis \in 0 .. (SecondMillis - 1)
      /\ Wall(z, t) = SecondMillis * LocalSecond(z, t) + (Wall(z, t) % SecondMillis)
  BY <1>1, <1>2, Cut DEF LocalSecond
<1>4. /\ LocalDate(z, t) \in Int
      /\ SecondsOfDay(z, t) \in 0 .. (DaySeconds - 1)
      /\ LocalSecond(z, t) = DaySeconds * LocalDate(z, t) + SecondsOfDay(z, t)
  BY <1>1, <1>3, Cut DEF LocalDate, SecondsOfDay
<1> QED
  BY <1>2, <1>3, <1>4

(* Midnights are numbers.                                                  *)
LEMMA MidnightIsInt == ASSUME NEW date \in Int PROVE Midnight(date) \in Int
BY UnitAssumption DEF Midnight

(* Whole seconds since the midnight of a date, in milliseconds.            *)
LEMMA SecondsSince ==
  ASSUME NEW date \in Int, NEW seconds \in Int
  PROVE  /\ Midnight(date) \in Int
         /\ SecondMillis * (DaySeconds * date + seconds) = Midnight(date) + SecondMillis * seconds
<1>1. SecondMillis \in Int /\ DaySeconds \in Int
  BY UnitAssumption
<1>2. Midnight(date) \in Int
  BY <1>1 DEF Midnight
<1>3. SecondMillis * (DaySeconds * date + seconds)
        = SecondMillis * (DaySeconds * date) + SecondMillis * seconds
  BY <1>1, Distributes
<1>4. SecondMillis * (DaySeconds * date) = Midnight(date)
  BY <1>1 DEF Midnight
<1> QED
  BY <1>2, <1>3, <1>4

(* A wall reading is the midnight of its date, whole seconds, and a rest.  *)
LEMMA SinceMidnight ==
  ASSUME NEW z \in [Instants -> Int], NEW t \in Instants
  PROVE  Wall(z, t) = Midnight(LocalDate(z, t)) + SecondMillis * SecondsOfDay(z, t)
                        + (Wall(z, t) % SecondMillis)
<1>1. SecondMillis * LocalSecond(z, t)
        = Midnight(LocalDate(z, t)) + SecondMillis * SecondsOfDay(z, t)
  BY Rendering, SecondsSince
<1>2. SecondMillis \in Int /\ SecondsOfDay(z, t) \in Int /\ LocalDate(z, t) \in Int
  BY Rendering, UnitAssumption
<1>3. SecondMillis * SecondsOfDay(z, t) \in Int /\ Midnight(LocalDate(z, t)) \in Int
  BY <1>2, MidnightIsInt
<1> QED
  BY <1>1, <1>3, Rendering

(* A midnight that is the next day's is this day's 24:00.                  *)
LEMMA NextMidnight ==
  ASSUME NEW date \in Int
  PROVE  Midnight(date + 1) = Midnight(date) + SecondMillis * DaySeconds
<1>1. SecondMillis \in Int /\ DaySeconds \in Int
  BY UnitAssumption
<1>2. DaySeconds * (date + 1) + 0 = DaySeconds * date + DaySeconds
  BY <1>1, Distributes
<1>3. SecondMillis * (DaySeconds * (date + 1) + 0) = Midnight(date + 1) + SecondMillis * 0
  BY SecondsSince
<1>4. SecondMillis * (DaySeconds * date + DaySeconds) = Midnight(date) + SecondMillis * DaySeconds
  BY <1>1, SecondsSince
<1>5. Midnight(date + 1) \in Int /\ SecondMillis * 0 = 0
  BY <1>1, MidnightIsInt
<1> QED
  BY <1>2, <1>3, <1>4, <1>5

(* parseTimeToSeconds: what parses is that many whole seconds.             *)
LEMMA Parsed ==
  ASSUME NEW raw \in Times
  PROVE  /\ ParseTime(raw) # NaN => /\ ParseTime(raw) \in Int
                                    /\ raw = SecondMillis * ParseTime(raw)
         /\ raw % SecondMillis = 0 => ParseTime(raw) # NaN
<1>1. SecondMillis \in Nat \ {0} /\ DaySeconds \in Nat
  BY UnitAssumption
<1>2. raw \in Int
  BY <1>1 DEF Times
<1>3. raw \div SecondMillis \in Int
      /\ raw = SecondMillis * (raw \div SecondMillis) + (raw % SecondMillis)
  BY <1>1, <1>2, Cut
<1>4. raw % SecondMillis = 0 => raw = SecondMillis * (raw \div SecondMillis)
  BY <1>1, <1>3
<1> QED
  BY <1>3, <1>4, NotNumbers DEF ParseTime

-----------------------------------------------------------------------------
(* One derivation.                                                         *)

Calls == [start : Starts, minutes : Durations, zone : Zones, week : Weeks]

(* What a call that passed every refusal but the last two is like: the end *)
(* comes later, the clock is there, and the day of the start has hours.    *)
LEMMA EndComesLater ==
  ASSUME NEW c \in Calls, c.start \in Instants, c.minutes # NaN, c.minutes > 0
  PROVE  c.start \in Int /\ EndOf(c) \in Int /\ c.start < EndOf(c)
<1>1. c.start \in Int
  BY UnitAssumption DEF Instants
<1>2. c.minutes \in Nat \ {0}
  <2>1. c.minutes \in Durations
    BY DEF Calls
  <2>2. c.minutes \in Int
    BY <2>1, DurationAssumption
  <2> QED
    BY <2>2
<1>3. MinuteMillis \in Nat \ {0}
  BY UnitAssumption
<1>4. c.minutes * MinuteMillis \in Nat \ {0}
  <2>1. MinuteMillis * 1 <= MinuteMillis * c.minutes
    BY <1>2, <1>3, Monotone
  <2> QED
    BY <1>2, <1>3, <2>1
<1> QED
  BY <1>1, <1>4 DEF EndOf

(* The hours of a weekday on which the dealership opens.                   *)
LEMMA HoursOf ==
  ASSUME NEW c \in Calls, c.zone # NoZone, c.start \in Instants,
         NEW hours, hours = c.week[DayOfWeek(LocalDate(c.zone, c.start))], hours # Closed
  PROVE  /\ c.zone \in [Instants -> Int]
         /\ hours.opens \in Times /\ hours.closes \in Times /\ hours.opens < hours.closes
<1>1. c.zone \in [Instants -> Int]
  BY ZoneAssumption DEF Calls
<1>2. LocalDate(c.zone, c.start) \in Int
  BY <1>1, Rendering
<1>3. DayOfWeek(LocalDate(c.zone, c.start)) \in 0 .. 6
  BY <1>2 DEF DayOfWeek
<1>4. hours \in Hours
  BY <1>3, WeekAssumption DEF Calls
<1> QED
  BY <1>1, <1>4 DEF Hours

(* deriveInterval derives nothing outside the hours: with a clock that is  *)
(* not set back meanwhile, every instant up to the second of the end is    *)
(* between opening and closing time of the day of the start.               *)
LEMMA DerivedIsInside ==
  ASSUME NEW c \in Calls, deriveInterval(c) = "derived", ClockNeverBack(c)
  PROVE  OpenUntil(c, RenderedEnd(c))
<1> DEFINE s == c.start
           e == EndOf(c)
           z == c.zone
           midnight == EndsAtLocalMidnight(z, s, e)
           end == IF midnight THEN DaySeconds ELSE SecondsOfDay(z, e)
           date == LocalDate(z, s)
           hours == c.week[DayOfWeek(date)]
           opens == ParseTime(hours.opens)
           closes == ParseTime(hours.closes)
<1>1. /\ s \in Instants /\ c.minutes # NaN /\ c.minutes > 0
      /\ withinOpeningHours(s, e, z, c.week) = "within"
  BY DurationAssumption DEF deriveInterval, serviceDuration, Calls
<1>2. /\ s \in Instants /\ e \in Instants /\ s < e /\ z # NoZone
      /\ midnight \/ date = LocalDate(z, e)
      /\ hours # Closed /\ opens # NaN /\ closes # NaN
      /\ opens <= SecondsOfDay(z, s) /\ end <= closes
  BY <1>1 DEF withinOpeningHours
<1>3. /\ z \in [Instants -> Int]
      /\ hours.opens \in Times /\ hours.closes \in Times
  BY <1>2, HoursOf
<1>4. /\ opens \in Int /\ hours.opens = SecondMillis * opens
      /\ closes \in Int /\ hours.closes = SecondMillis * closes
  BY <1>2, <1>3, Parsed
<1>5. SecondMillis \in Nat \ {0} /\ DaySeconds \in Nat \ {0}
  BY UnitAssumption
<1>6. /\ date \in Int /\ LocalDate(z, e) \in Int
      /\ SecondsOfDay(z, s) \in Int /\ SecondsOfDay(z, e) \in Int /\ LocalSecond(z, e) \in Int
      /\ Wall(z, s) % SecondMillis \in Nat /\ Wall(z, e) % SecondMillis \in Nat
      /\ Wall(z, s) \in Int /\ Wall(z, e) \in Int
  BY <1>2, <1>3, Rendering
<1>7. Midnight(date) + hours.opens <= Wall(z, s)
  <2>1. SecondMillis * opens <= SecondMillis * SecondsOfDay(z, s)
    BY <1>2, <1>4, <1>5, <1>6, Monotone
  <2>2. /\ SecondMillis * opens \in Int /\ SecondMillis * SecondsOfDay(z, s) \in Int
        /\ Midnight(date) \in Int
    BY <1>4, <1>5, <1>6, MidnightIsInt
  <2>3. Wall(z, s) = Midnight(date) + SecondMillis * SecondsOfDay(z, s)
                       + (Wall(z, s) % SecondMillis)
    BY <1>2, <1>3, SinceMidnight
  <2> QED
    BY <1>4, <1>6, <2>1, <2>2, <2>3
<1>8. Wall(z, e) - (Wall(z, e) % SecondMillis) <= Midnight(date) + hours.closes
  <2>1. end \in Int /\ SecondMillis * end <= SecondMillis * closes
    BY <1>2, <1>4, <1>5, <1>6, Monotone
  <2>2. Wall(z, e) = Midnight(LocalDate(z, e)) + SecondMillis * SecondsOfDay(z, e)
                       + (Wall(z, e) % SecondMillis)
    BY <1>2, <1>3, SinceMidnight
  <2>3. Midnight(LocalDate(z, e)) + SecondMillis * SecondsOfDay(z, e)
          = Midnight(date) + SecondMillis * end
    <3>1. CASE midnight
      <4>1. LocalDate(z, e) = date + 1 /\ SecondsOfDay(z, e) = 0 /\ end = DaySeconds
        BY <3>1 DEF EndsAtLocalMidnight, nextLocalDate
      <4>2. Midnight(date + 1) = Midnight(date) + SecondMillis * DaySeconds
        BY <1>6, NextMidnight
      <4>3. Midnight(date + 1) \in Int /\ SecondMillis * 0 = 0
        BY <1>5, <1>6, MidnightIsInt
      <4> QED
        BY <4>1, <4>2, <4>3
    <3>2. CASE ~ midnight
      BY <1>2, <3>2
    <3> QED
      BY <3>1, <3>2
  <2>4. /\ SecondMillis * end \in Int /\ SecondMillis * closes \in Int
        /\ Midnight(date) \in Int /\ Midnight(LocalDate(z, e)) \in Int
        /\ SecondMillis * SecondsOfDay(z, e) \in Int
    BY <1>4, <1>5, <1>6, <2>1, MidnightIsInt
  <2> QED
    BY <1>4, <1>6, <2>1, <2>2, <2>3, <2>4
<1> SUFFICES ASSUME NEW t \in s .. (RenderedEnd(c) - 1)
             PROVE  OpenAt(c, date, t)
  BY DEF OpenUntil
<1>9. s \in Int /\ e \in Int /\ RenderedEnd(c) = e - (Wall(z, e) % SecondMillis)
  BY <1>2, UnitAssumption DEF Instants, RenderedEnd
<1>10. t \in Int /\ s <= t /\ t < e - (Wall(z, e) % SecondMillis) /\ t \in s .. e /\ t \in Instants
  BY <1>2, <1>6, <1>9, UnitAssumption DEF Instants
<1>11. z[s] <= z[t] /\ z[t] <= z[e]
  BY <1>2, <1>9, <1>10 DEF ClockNeverBack
<1>12. z[s] \in Int /\ z[t] \in Int /\ z[e] \in Int
  BY <1>2, <1>3, <1>10
<1>13. Wall(z, s) <= Wall(z, t) /\ Wall(z, t) < Wall(z, e) - (Wall(z, e) % SecondMillis)
  BY <1>6, <1>9, <1>10, <1>11, <1>12 DEF Wall
<1>14. Midnight(date) \in Int /\ hours.opens \in Int /\ hours.closes \in Int /\ Wall(z, t) \in Int
  BY <1>4, <1>5, <1>6, <1>10, <1>12, MidnightIsInt DEF Wall
<1>15. hours.opens <= Wall(z, t) - Midnight(date) /\ Wall(z, t) - Midnight(date) < hours.closes
  BY <1>6, <1>7, <1>8, <1>13, <1>14
<1> QED
  BY <1>2, <1>15 DEF OpenAt, Midnight

(* Nor does it refuse what is inside: the end of an interval open          *)
(* throughout is rendered on the day of its start, no later than closing   *)
(* time, or is the midnight that closes that day.                          *)
LEMMA InsideIsDerived ==
  ASSUME NEW c \in Calls, SoundCall(c), OpenUntil(c, EndOf(c)),
         c.zone[EndOf(c)] = c.zone[EndOf(c) - 1]
  PROVE  deriveInterval(c) = "derived"
<1> DEFINE s == c.start
           e == EndOf(c)
           z == c.zone
           midnight == EndsAtLocalMidnight(z, s, e)
           end == IF midnight THEN DaySeconds ELSE SecondsOfDay(z, e)
           date == LocalDate(z, s)
           hours == c.week[DayOfWeek(date)]
           opens == ParseTime(hours.opens)
           closes == ParseTime(hours.closes)
           since == Wall(z, e) - Midnight(date)
<1>1. /\ s \in Instants /\ z # NoZone /\ c.minutes # NaN /\ c.minutes > 0
      /\ e \in Instants
      /\ hours # Closed => {hours.opens % SecondMillis, hours.closes % SecondMillis} = {0}
  BY DEF SoundCall
<1>2. s \in Int /\ e \in Int /\ s < e
  BY <1>1, EndComesLater
<1>3. OpenAt(c, date, s) /\ OpenAt(c, date, e - 1)
  <2>1. s \in s .. (e - 1) /\ e - 1 \in s .. (e - 1)
    BY <1>2
  <2> QED
    BY <2>1 DEF OpenUntil
<1>4. /\ hours # Closed
      /\ hours.opens <= Wall(z, s) - Midnight(date)
      /\ hours.opens <= Wall(z, e - 1) - Midnight(date)
      /\ Wall(z, e - 1) - Midnight(date) < hours.closes
  BY <1>3 DEF OpenAt, Midnight
<1>5. /\ z \in [Instants -> Int]
      /\ hours.opens \in Times /\ hours.closes \in Times /\ hours.opens < hours.closes
  BY <1>1, <1>4, HoursOf
<1>6. SecondMillis \in Nat \ {0} /\ DaySeconds \in Nat \ {0}
  BY UnitAssumption
<1>7. /\ opens # NaN /\ opens \in Int /\ hours.opens = SecondMillis * opens
      /\ closes # NaN /\ closes \in Int /\ hours.closes = SecondMillis * closes
  <2>1. hours.opens % SecondMillis = 0 /\ hours.closes % SecondMillis = 0
    BY <1>1, <1>4
  <2> QED
    BY <1>5, <2>1, Parsed
<1>8. /\ date \in Int /\ LocalDate(z, e) \in Int /\ Midnight(date) \in Int
      /\ SecondsOfDay(z, s) \in Int /\ SecondsOfDay(z, e) \in Int /\ LocalSecond(z, e) \in Int
      /\ Wall(z, s) % SecondMillis \in 0 .. (SecondMillis - 1)
      /\ Wall(z, e) % SecondMillis \in 0 .. (SecondMillis - 1)
      /\ Wall(z, s) \in Int /\ Wall(z, e) \in Int
  BY <1>1, <1>5, Rendering, MidnightIsInt
<1>9. opens <= SecondsOfDay(z, s)
  <2>1. Wall(z, s) - Midnight(date) = SecondMillis * SecondsOfDay(z, s)
                                        + (Wall(z, s) % SecondMillis)
    <3>1. Wall(z, s) = Midnight(date) + SecondMillis * SecondsOfDay(z, s)
                         + (Wall(z, s) % SecondMillis)
      BY <1>1, <1>5, SinceMidnight
    <3>2. SecondMillis * SecondsOfDay(z, s) \in Int
      BY <1>6, <1>8
    <3> QED
      BY <1>8, <3>1, <3>2
  <2>2. SecondMillis * opens <= SecondMillis * SecondsOfDay(z, s) + (Wall(z, s) % SecondMillis)
    BY <1>4, <1>7, <2>1
  <2> QED
    BY <1>6, <1>7, <1>8, <2>2, WholeUnits
<1>10. opens < closes
  <2>1. SecondMillis * opens < SecondMillis * closes
    BY <1>5, <1>7
  <2>2. ASSUME closes <= opens PROVE FALSE
    <3>1. SecondMillis * closes <= SecondMillis * opens
      BY <1>6, <1>7, <2>2, Monotone
    <3> QED
      BY <1>6, <1>7, <2>1, <3>1
  <2> QED
    BY <1>7, <2>2
(* The end is the instant after the last one, on the same clock.           *)
<1>11. /\ since \in Int /\ hours.opens < since /\ since <= hours.closes
       /\ hours.opens \in Nat /\ hours.closes \in Nat
       /\ hours.closes <= SecondMillis * DaySeconds
  <2>1. z[e] \in Int /\ z[e] = z[e - 1]
    BY <1>1, <1>5
  <2>2. Wall(z, e) = Wall(z, e - 1) + 1 /\ Wall(z, e - 1) \in Int
    BY <1>2, <2>1 DEF Wall
  <2>3. hours.opens \in Nat /\ hours.closes \in Nat /\ hours.closes <= DaySeconds * SecondMillis
    BY <1>5, <1>6 DEF Times
  <2>4. DaySeconds * SecondMillis = SecondMillis * DaySeconds
    BY <1>6
  <2> QED
    BY <1>4, <1>8, <2>2, <2>3, <2>4
(* Counted in seconds of the day of the start.                             *)
<1> DEFINE second == since \div SecondMillis
           rest == since % SecondMillis
<1>12. /\ second \in Int /\ rest \in 0 .. (SecondMillis - 1)
       /\ since = SecondMillis * second + rest
  BY <1>6, <1>11, Cut
<1> HIDE DEF second, rest
<1>13. 0 <= second /\ second <= closes /\ closes <= DaySeconds
  <2>1. SecondMillis * 0 <= SecondMillis * second + rest
    BY <1>6, <1>11, <1>12
  <2>2. SecondMillis * second <= SecondMillis * closes + 0
    <3>1. SecondMillis * second \in Int /\ SecondMillis * closes \in Int
      BY <1>6, <1>7, <1>12
    <3> QED
      BY <1>6, <1>7, <1>11, <1>12, <3>1
  <2>3. SecondMillis * closes <= SecondMillis * DaySeconds + 0
    <3>1. SecondMillis * DaySeconds \in Int
      BY <1>6
    <3> QED
      BY <1>7, <1>11, <3>1
  <2>4. 0 \in 0 .. (SecondMillis - 1)
    BY <1>6
  <2> QED
    BY <1>6, <1>7, <1>12, <2>1, <2>2, <2>3, <2>4, WholeUnits
<1>14. LocalSecond(z, e) = DaySeconds * date + second
  <2>1. SecondMillis * (DaySeconds * date + second) = Midnight(date) + SecondMillis * second
    BY <1>8, <1>12, SecondsSince
  <2>2. DaySeconds * date + second \in Int /\ SecondMillis * second \in Int
    BY <1>6, <1>8, <1>12
  <2>3. Wall(z, e) = SecondMillis * (DaySeconds * date + second) + rest
    BY <1>8, <1>12, <2>1, <2>2
  <2> QED
    BY <1>6, <1>12, <2>2, <2>3, CutIs DEF LocalSecond
<1>15. (midnight \/ LocalDate(z, s) = LocalDate(z, e)) /\ end <= closes
  <2>1. CASE second = DaySeconds
    <3>1. DaySeconds * (date + 1) = DaySeconds * date + DaySeconds
      BY <1>6, <1>8, Distributes
    <3>2. LocalSecond(z, e) = DaySeconds * (date + 1) + 0 /\ 0 \in 0 .. (DaySeconds - 1)
      BY <1>6, <1>8, <1>14, <2>1, <3>1
    <3>3. date + 1 \in Int
      BY <1>8
    <3>4. LocalDate(z, e) = date + 1 /\ SecondsOfDay(z, e) = 0
      BY <1>6, <3>2, <3>3, CutIs DEF LocalDate, SecondsOfDay
    <3>5. midnight
      BY <3>4 DEF EndsAtLocalMidnight, nextLocalDate
    <3> QED
      BY <1>13, <2>1, <3>5
  <2>2. CASE second # DaySeconds
    <3>1. second \in 0 .. (DaySeconds - 1)
      BY <1>6, <1>7, <1>12, <1>13, <2>2
    <3>2. LocalDate(z, e) = date /\ SecondsOfDay(z, e) = second
      <4>1. /\ (DaySeconds * date + second) \div DaySeconds = date
            /\ (DaySeconds * date + second) % DaySeconds = second
        BY <1>6, <1>8, <3>1, CutIs
      <4>2. /\ LocalDate(z, e) = LocalSecond(z, e) \div DaySeconds
            /\ SecondsOfDay(z, e) = LocalSecond(z, e) % DaySeconds
        BY DEF LocalDate, SecondsOfDay
      <4> QED
        BY <1>14, <4>1, <4>2
    <3>3. ~ midnight
      BY <1>8, <3>2 DEF EndsAtLocalMidnight, nextLocalDate
    <3> QED
      BY <1>13, <3>2, <3>3
  <2> QED
    BY <2>1, <2>2
<1>16. withinOpeningHours(s, e, z, c.week) = "within"
  BY <1>1, <1>2, <1>4, <1>7, <1>9, <1>10, <1>15 DEF withinOpeningHours
<1>17. serviceDuration(c.minutes) # NaN
  BY <1>1 DEF serviceDuration
<1> QED
  BY <1>1, <1>16, <1>17 DEF deriveInterval

-----------------------------------------------------------------------------
(* Every derivation.                                                       *)

(* What is decided is what the call determines.                            *)
DecidedByCall == call \in Calls /\ outcome \in {"none", deriveInterval(call)}

(* It always is.                                                           *)
LEMMA AlwaysDecidedByCall == Spec => []DecidedByCall
<1>1. Init => DecidedByCall
  BY DEF Init, DecidedByCall, Calls
<1>2. DecidedByCall /\ [Next]_vars => DecidedByCall'
  BY DEF DecidedByCall, Next, Derive, Quiet, vars
<1> QED
  BY <1>1, <1>2, PTL DEF Spec

(* DerivedIsOpenToTheSecond, for any clocks and any hours: an interval     *)
(* that withinOpeningHours let through lies in one day's opening hours, up *)
(* to the second it ends in, unless the clock is set back meanwhile.       *)
THEOREM DerivedIsInOpeningHours == Spec => []DerivedIsOpenToTheSecond
<1>1. DecidedByCall => DerivedIsOpenToTheSecond
  BY DerivedIsInside DEF DecidedByCall, DerivedIsOpenToTheSecond
<1> QED
  BY <1>1, AlwaysDecidedByCall, PTL

(* OpenIsDerived, for any clocks and any hours: an interval that is open   *)
(* throughout is derived.                                                  *)
THEOREM OpeningHoursAreDerived == Spec => []OpenIsDerived
<1>1. DecidedByCall => OpenIsDerived
  BY InsideIsDerived DEF DecidedByCall, OpenIsDerived
<1> QED
  BY <1>1, AlwaysDecidedByCall, PTL
=============================================================================
