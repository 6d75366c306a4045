SPECIFICATION FairSpec
CONSTANTS
  r1 = r1
  r2 = r2
  r3 = r3
  Nobody = Nobody
  Requests = {r1, r2, r3}
  Inputs <- MCInputs
  Environments <- MCEnvironments
  MaxTries = 2
  MaxOutages = 1
  Leaving = {r1}
INVARIANT TypeOK
INVARIANT PoolOutlivesRequests
INVARIANT CleanExitLosesNothing
PROPERTY OutlivesDatabase
PROPERTY EveryoneIsAnswered
PROPERTY SignalEnds
