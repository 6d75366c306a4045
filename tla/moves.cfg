SPECIFICATION Spec
CONSTANTS
  r1 = r1
  r2 = r2
  r3 = r3
  a1 = a1
  a2 = a2
  None = None
  Requests = {r1, r2, r3}
  Ids = {r1, r2, r3, a1, a2}
  Bays <- MCBays
  Techs <- MCTechs
  Services <- MCServices
  Qualified <- MCQualified
  Slots <- MCSlots
  Commands <- MoveAndBookCommands
  InitialTables <- MCOrNoRows
  Hash <- MCHash
  AttemptCap = 3
  UseLocks = TRUE
  MaxFaults = 0
SYMMETRY Symmetry
INVARIANT TypeOK
INVARIANT NoDeadlock
INVARIANT ExhaustedIsProven
PROPERTY NoSpuriousRefusal
