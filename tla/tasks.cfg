\* One group task under everything that can happen to it.
SPECIFICATION Spec
CONSTANTS
  NumTasks = 1
  x1 = x1  a1 = a1  a2 = a2  d1 = d1  d2 = d2  ann = ann  nobody = nobody
  NoAction = none
  Actions <- MCActions
  Attempts <- MCAttempts
  Declarations = {d1, d2}
  Mode = "group_mention"
  Concurrency = 2
  Requester <- MCMember
  Anonymous = nobody
  WriteRoots <- MCNoRoots
  Environment = {"edit", "recall", "purge", "operator", "card", "update", "config", "status", "lost", "deadline"}
  MaxVersion = 2
  MaxCrashes = 1
SYMMETRY Rows
INVARIANTS
  TypeOK
  OutcomeTold
  OldActionsSettled
PROPERTIES
  ConfirmedEffectImplemented
  DecisionsStand
\* An idle service waits for messages and operators.
CHECK_DEADLOCK FALSE
