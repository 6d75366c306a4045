SPECIFICATION FairSpec
CONSTANTS
  r1 = r1
  r2 = r2
  r3 = r3
  a1 = a1
  a2 = a2
  None = None
  Requests = {r1, r2}
  Ids = {r1, r2, a1, a2}
  Bays <- MCBays
  Techs <- MCTechs
  Services <- MCServices
  Qualified <- MCQualified
  Slots <- MCSlots
  Commands <- AllCommands
  InitialTables <- MCTables
  Hash <- MCCollidingHash
  AttemptCap = 16
  UseLocks = TRUE
  MaxFaults = 1
INVARIANT NoDoubleBooking
INVARIANT NoDeadlock
INVARIANT LoopBounded
PROPERTY ImplementsBook
PROPERTY CancelledIsFinal
PROPERTY Answered
