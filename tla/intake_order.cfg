\* Three messages of two conversations on one slot.
\* No symmetry: it is unsound for liveness.
SPECIFICATION LiveSpec
CONSTANTS
  NumMessages = 3
  b1 = b1  b2 = b2 
  ann = ann  team = team
  NoBatch = none
  Batches <- MCBatches2
  Routes = {ann, team}
  RouteOf <- MCTwoRoutes
  Limit = 2
  Pool = 1
  Mode = "proactive"
  Environment = {"deadline", "recall", "crash", "stop", "declare"}
  MaxRevision = 1
  MaxEvents = 1
INVARIANTS
  ReceiveOrder
PROPERTIES
  EveryMessageSettles
\* An idle runtime waits for messages.
CHECK_DEADLOCK FALSE
