\* Two messages of one conversation in batches of up to two, on two slots.
SPECIFICATION Spec
CONSTANTS
  NumMessages = 2
  b1 = b1  b2 = b2 
  ann = ann  team = team
  NoBatch = none
  Batches <- MCBatches2
  Routes = {ann, team}
  RouteOf <- MCOneRoute
  Limit = 2
  Pool = 2
  Mode = "proactive"
  Environment = {"edit", "recall", "late", "declare"}
  MaxRevision = 2
  MaxEvents = 1
SYMMETRY Rows
INVARIANTS
  TypeOK
  MessagesAreAnalysed
\* An idle runtime waits for messages.
CHECK_DEADLOCK FALSE
