SPECIFICATION Spec
CONSTANTS
  NaN = NaN
  NoZone = NoZone
  Closed = Closed
  MaxInstant = 22
  SecondMillis = 2
  MinuteMillis = 2
  DaySeconds = 4
  Starts <- AnyStarts
  Durations <- AnyDurations
  Zones <- AnyZones
  Weeks <- AnyWeeks
INVARIANT DerivedIsOpenToTheSecond
INVARIANT OpenIsDerived
