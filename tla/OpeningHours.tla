---------------------------- MODULE OpeningHours ----------------------------
(***************************************************************************)
(* From a requested start to the interval a booking occupies, gated by the *)
(* dealership's opening hours (deriveInterval.ts, openingHours.ts): a pure *)
(* decision, against a reference definition that looks at every instant.   *)
(*                                                                         *)
(* An instant is epoch milliseconds; a zone is the offset of its clock at  *)
(* each instant; a local date is its day number, day 0 being a Sunday.     *)
(***************************************************************************)
EXTENDS Integers

CONSTANTS
  MaxInstant,    \* MAX_RENDERABLE_EPOCH_MILLIS
  SecondMillis,  \* milliseconds in a second
  MinuteMillis,  \* milliseconds in a minute
  DaySeconds,    \* 86_400
  Starts,        \* the starts a client may send, NaN included
  Durations,     \* duration_minutes of the service types
  Zones,         \* the dealerships' clocks, NoZone if the name does not resolve
  Weeks,         \* the dealerships' weekly opening hours
  NaN,           \* not a number of milliseconds, seconds or minutes
  NoZone,        \* an IANA name that constructs no formatter
  Closed         \* a day with no opening_hours row

Instants == (- MaxInstant)..MaxInstant

(* opens_at and closes_at: time columns, in milliseconds since midnight,   *)
(* up to and including '24:00:00', with CHECK (closes_at > opens_at).      *)
Times == 0..(DaySeconds * SecondMillis)
Hours == {h \in [opens : Times, closes : Times] : h.opens < h.closes}

ASSUME UnitAssumption ==
  /\ MaxInstant \in Nat
  /\ {SecondMillis, MinuteMillis, DaySeconds} \subseteq Nat \ {0}
(* Whatever is not an integer number of minutes is NaN here.               *)
ASSUME DurationAssumption == Durations \subseteq Int \cup {NaN}
ASSUME ZoneAssumption == Zones \subseteq [Instants -> Int] \cup {NoZone}
ASSUME WeekAssumption == Weeks \subseteq [0..6 -> Hours \cup {Closed}]
ASSUME NotNumbers == NaN \notin Int /\ Closed \notin Hours

VARIABLES
  call,     \* the start, duration, zone and week of one derivation
  outcome   \* its outcome, "none" until derived

vars == <<call, outcome>>

Init ==
  /\ call \in [start : Starts, minutes : Durations, zone : Zones, week : Weeks]
  /\ outcome = "none"

-----------------------------------------------------------------------------
(* renderLocal: an instant's local date and second of the day.             *)

Wall(z, t) == t + z[t]
LocalSecond(z, t)  == Wall(z, t) \div SecondMillis
LocalDate(z, t)    == LocalSecond(z, t) \div DaySeconds
SecondsOfDay(z, t) == LocalSecond(z, t) % DaySeconds

DayOfWeek(date) == date % 7

(* parseTimeToSeconds: whole seconds only; a fraction does not parse.      *)
ParseTime(raw) ==
  IF raw % SecondMillis = 0 THEN raw \div SecondMillis ELSE NaN

nextLocalDate(date) == date + 1

(* Mutants: no normalisation at all, and one without the successor test.   *)
NeverAtLocalMidnight(z, s, e) == FALSE
AnyLocalMidnight(z, s, e) == SecondsOfDay(z, e) = 0

(* An end at midnight of the day after the start's is the start's 24:00.   *)
EndsAtLocalMidnight(z, s, e) ==
  SecondsOfDay(z, e) = 0 /\ LocalDate(z, e) = nextLocalDate(LocalDate(z, s))

withinOpeningHours(s, e, z, week) ==
  LET midnight == EndsAtLocalMidnight(z, s, e)
      end    == IF midnight THEN DaySeconds ELSE SecondsOfDay(z, e)
      hours  == week[DayOfWeek(LocalDate(z, s))]
      opens  == ParseTime(hours.opens)
      closes == ParseTime(hours.closes)
  IN  IF ~ (s \in Instants /\ e \in Instants /\ s < e) THEN "malformed-interval"
      ELSE IF z = NoZone THEN "unknown-zone"
      ELSE IF ~ midnight /\ LocalDate(z, s) # LocalDate(z, e) THEN "spans-local-days"
      ELSE IF hours = Closed THEN "closed-day"
      ELSE IF NaN \in {opens, closes} \/ ~ opens < closes THEN "malformed-hours"
      ELSE IF opens <= SecondsOfDay(z, s) /\ end <= closes THEN "within"
      ELSE "outside-window"

serviceDuration(minutes) == IF minutes # NaN /\ minutes > 0 THEN minutes ELSE NaN

(* appointmentInterval's end; occupancyInterval is the identity.           *)
EndOf(c) == c.start + c.minutes * MinuteMillis

deriveInterval(c) ==
  IF c.start \notin Instants THEN "unparsable-instant"
  ELSE IF serviceDuration(c.minutes) = NaN THEN "invalid-duration"
  ELSE LET verdict == withinOpeningHours(c.start, EndOf(c), c.zone, c.week)
       IN  IF verdict = "within" THEN "derived"
           ELSE IF verdict \in {"unknown-zone", "malformed-hours"}
           THEN "reference-data-invalid"
           ELSE "outside-opening-hours"

Derive ==
  /\ outcome = "none"
  /\ outcome' = deriveInterval(call)
  /\ UNCHANGED call

Quiet == outcome # "none" /\ UNCHANGED vars

Next == Derive \/ Quiet

Spec == Init /\ [][Next]_vars

-----------------------------------------------------------------------------
(* The reference definition and the properties.                            *)

(* The doors are open at instant t, in the window of local day date.       *)
OpenAt(c, date, t) ==
  LET hours == c.week[DayOfWeek(date)]
      sinceMidnight == Wall(c.zone, t) - date * DaySeconds * SecondMillis
  IN  hours # Closed /\ hours.opens <= sinceMidnight /\ sinceMidnight < hours.closes

(* One local day's window holds every instant of [start, end).             *)
OpenUntil(c, finish) ==
  \A t \in c.start..(finish - 1) : OpenAt(c, LocalDate(c.zone, c.start), t)

(* The zone's clock is not set back before the end of the interval.        *)
ClockNeverBack(c) ==
  \A t, u \in c.start..EndOf(c) : t <= u => c.zone[t] <= c.zone[u]

(* The second the interval ends in, at which its end is rendered.          *)
RenderedEnd(c) == EndOf(c) - (Wall(c.zone, EndOf(c)) % SecondMillis)

(* "The whole derived interval must fall within opening hours" (ADR-0001). *)
DerivedIsOpen == outcome = "derived" => OpenUntil(call, EndOf(call))

(* Comparing the two rendered endpoints is enough: unless the clock is set *)
(* back meanwhile, a derived interval lies in one day's window, up to the  *)
(* second in which it ends (withinOpeningHours).                           *)
DerivedIsOpenToTheSecond ==
  outcome = "derived" /\ ClockNeverBack(call) => OpenUntil(call, RenderedEnd(call))

(* Hours and duration that the schema and serviceDuration accept.          *)
SoundCall(c) ==
  /\ c.start \in Instants /\ c.zone # NoZone
  /\ c.minutes # NaN /\ c.minutes > 0 /\ EndOf(c) \in Instants
  /\ LET hours == c.week[DayOfWeek(LocalDate(c.zone, c.start))]
     IN  hours # Closed => {hours.opens % SecondMillis, hours.closes % SecondMillis} = {0}

(* No needless refusal: an interval open throughout is derived, one that   *)
(* ends at closing time or at the midnight that closes the day included,   *)
(* unless the clock is changed at the instant it ends (ADR-0015's case in  *)
(* withinOpeningHours).                                                    *)
OpenIsDerived ==
  outcome # "none" /\ SoundCall(call) /\ OpenUntil(call, EndOf(call))
    /\ call.zone[EndOf(call)] = call.zone[EndOf(call) - 1]
    => outcome = "derived"
=============================================================================
