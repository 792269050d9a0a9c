\* One message; the deadline may pass after the answer.
SPECIFICATION LiveSpec
CONSTANTS
  NumMessages = 1
  b1 = b1  b2 = b2 
  ann = ann  team = team
  NoBatch = none
  Batches <- MCBatches1
  Routes = {ann, team}
  RouteOf <- MCOneRoute
  Limit = 1
  Pool = 1
  Mode = "proactive"
  Environment = {"late"}
  MaxRevision = 1
  MaxEvents = 0
PROPERTIES
  OverdueBatchEnds
\* An idle runtime waits for messages.
CHECK_DEADLOCK FALSE
