SPECIFICATION Spec
CONSTANTS
  NaN = NaN
  NoZone = NoZone
  Closed = Closed
  MaxInstant = 60
  SecondMillis = 1
  MinuteMillis = 1
  DaySeconds = 24
  Starts <- AnyStarts
  Durations <- AnyDurations
  Zones <- SetBackZones
  Weeks <- AnyWeeks
INVARIANT DerivedIsOpen
