\* One message of the Agent, its echo and a message of the owner; or one draft.
SPECIFICATION MCSpec
CONSTANTS
  Keys = {k1}
  Contents = {c1}
  Commands = {p1, p2}
  Humans = {h1}
  Environment = {"fault", "kill", "restart", "retry", "update", "edit"}
  MaxVersion = 2
  MaxEvents = 3
  Contexts = {x1}
  Texts = {y1}
  Callers = {u1, u2}
  MaxRoute = 3
INVARIANTS
  TypesOK
  OneSendPerKey
  EchoIsBackground
  NothingSentBehindARetry
  HandedOverOnce
PROPERTIES
  WaitingEnds
\* A finished task, or a dispatched draft, leaves nothing to do.
CHECK_DEADLOCK FALSE
