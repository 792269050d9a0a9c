\* A crash under a running Agent, and a retry of its task.
SPECIFICATION Spec
CONSTANTS
  NumTasks = 1
  x1 = x1  a1 = a1  a2 = a2  d1 = d1  d2 = d2  ann = ann  nobody = nobody
  NoAction = none
  Actions <- MCActions
  Attempts <- MCAttempts
  Declarations = {d1}
  Mode = "group_mention"
  Concurrency = 2
  Requester <- MCMember
  Anonymous = nobody
  WriteRoots <- MCNoRoots
  Environment = {"operator"}
  MaxVersion = 2
  MaxCrashes = 1
SYMMETRY Rows
INVARIANTS
  AgentsIsolatedAfterCrash
\* An idle service waits for messages and operators.
CHECK_DEADLOCK FALSE
