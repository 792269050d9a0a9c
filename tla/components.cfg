\* The components that share no state, each on a small instance of its own.
SPECIFICATION MCSpec
CONSTANTS
  \* The workspace: two attempts write one file, with one failure between any two steps.
  Writers = {v1, v2}  Contents = {a, b}  Absent = absent  Initial = a
  MaxCalls = 3  MaxFailures = 1
  \* One group task, its answer, its failure and its marks; a queue of one.
  Tasks = {t1}  Deliverers = {w1}  DeliveryMode = "group_mention"  QueueLimit = 1
  DeliveryFaults = {"refuse", "fault", "crash", "route", "config"}
  MaxVersion = 1  MaxDeliveryEvents = 2
  \* One import of three days, two workers, and claims shorter than a stalled read.
  Fraction = 1  Span = 4  Overlap = 1  RetentionTime = 1  PageSize = 1  HistoryDays = 3
  Imports = {i1}  Importers = {v1, v2}  LeaseTime = 1  MaxImportFailures = 0
  ImportFaults = {"cancel", "fail", "stall"}  Enabled = 3  MaxImportTime = 4  MaxImportEvents = 1
  \* One group and one private conversation; a receipt proves for one tick, and for
  \* collection a second one.
  Groups = {g1}  Directs = {d1}  Lifetime = 1  FallbackFor = 2
  Configurations <- MCConfigurations
  ScopeFaults = {"unavailable", "denied", "operator"}  MaxScopeTime = 3  MaxScopeEvents = 1
  \* Three applied declarations of one source with one group and one application.
  Policies = {p1, p2}  ConfigFaults = {"expire", "manual", "receiving"}
  MaxEdits = 2  MaxVersions = 3  MaxConfigEvents = 1
  \* An old and two new binaries, two writes, one restore.
  OldBinaries = {o1}  NewBinaries = {n1, n2}  WriteKeys = {k1, k2}  RestoreKeys = {x1}
  RemovedSources = {s1}  MaxBackups = 2  MaxDatabaseFailures = 1
  \* Two messages, one task, a cleanup of one message at a time.
  Messages = {m1, m2}  Limit = 1  TextEvents = {"edit", "recall", "late"}
  g1 = g1  v1 = v1  v2 = v2
SYMMETRY Rows
INVARIANTS
  TypesOK
  RowsTellTheTruth
  AnswerBeforeMark
  ProcessingIsProved
  
  HistoryIsComplete
  AnsweredIsKept
  SessionIsRemembered
PROPERTIES
  OutcomeIsFinal
  ImportIsComplete
  AppliesWhatWasReviewed
  ImplementsRegister
  
\* Bounded counters and finished work leave nothing to do.
CHECK_DEADLOCK FALSE
