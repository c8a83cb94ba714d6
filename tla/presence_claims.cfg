CONSTANTS
  ra = ra  rb = rb
  Daemons = {1, 2}
  Routers = {ra, rb}
  RouterOf <- TwoRouters
  Federated = {2}
  Watched = {2}
  MaxFaults = 2
SPECIFICATION FairSpec
INVARIANTS OneOwner
PROPERTIES NodeKept ClaimsEnd CollisionReported OrphanCleared
CHECK_DEADLOCK FALSE
