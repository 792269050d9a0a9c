\* Three tasks on two slots, kept apart by write roots or by lanes, and one action.
SPECIFICATION MCSpec
CONSTANTS
  x1 = x1  a1 = a1  a2 = a2  a3 = a3  ann = ann  bob = bob
  NumTasks = 3
  NoAction = none
  Actions <- MCActions
  Attempts <- MCAttempts
  Declarations = {"d1"}
  Mode = "proactive"
  Concurrency = 2
  Requester <- MCRequester
  Anonymous = nobody
  WriteRoots <- MCWriteRoots
  Environment = {"operator", "withdraw", "deadline"}
  MaxVersion = 2
  MaxCrashes = 0
SYMMETRY Rows
INVARIANTS
  AgentsIsolated
  ExternalEffectAtMostOnce
\* An idle service waits for messages and operators.
CHECK_DEADLOCK FALSE
