---------------------------- MODULE MCComponents ----------------------------
(***************************************************************************)
(* The safety of the components that share no state: MCInit chooses the    *)
(* one that takes all the steps of the behaviour.  components.cfg gives    *)
(* each its own small instance.                                            *)
(***************************************************************************)
EXTENDS MCAgentResults, Integers, TLC

CONSTANTS
  \* HistoryCoverage, with the import jobs that the channels run leaves out
  Fraction, Span, Overlap, RetentionTime, PageSize, HistoryDays, Imports, Importers, LeaseTime,
  MaxImportFailures, ImportFaults, Enabled, MaxImportTime, MaxImportEvents,
  \* SourceScope and ConfigApply
  Groups, Directs, Lifetime, FallbackFor, Configurations, ScopeFaults, MaxScopeTime,
  MaxScopeEvents, Policies, ConfigFaults, MaxEdits, MaxVersions, MaxConfigEvents,
  \* Store
  OldBinaries, NewBinaries, WriteKeys, RestoreKeys, RemovedSources, MaxBackups, MaxDatabaseFailures,
  \* RawTextRetention
  Messages, Limit, TextEvents,
  \* model values
  g1, v1, v2

MCConfigurations ==
  [ignore : {{}}, direct : BOOLEAN] \cup {[ignore |-> {g1}, direct |-> FALSE]}

\* Which of two workers comes first makes no difference.
Rows == Permutations({v1, v2})

VARIABLES
  kind,
  clock, storedRange, expired, coverage, recorded, pull, running, import, worker, importEvents,
  now, source, route, contact, receipt, cycle, collects, verdict, scopeEvents,
  declaration, applied, declared, lease, runtime, alive, plan, touched, edits, configEvents,
  db, generation, process, backups, answered, upgraded, replaced, databaseFailures,
  messages, turns, queue, sessions, processes, transcripts, run, events,
  availability, raw, old, links, context, stored

Imported == INSTANCE HistoryCoverage WITH
  Retention <- RetentionTime, Workers <- Importers, MaxFailures <- MaxImportFailures,
  Environment <- ImportFaults, MaxTime <- MaxImportTime, MaxEvents <- MaxImportEvents,
  now <- clock, stored <- storedRange, events <- importEvents

Scope == INSTANCE SourceScope WITH
  Environment <- ScopeFaults, MaxTime <- MaxScopeTime, MaxEvents <- MaxScopeEvents,
  events <- scopeEvents

Config == INSTANCE ConfigApply WITH
  Environment <- ConfigFaults, MaxEvents <- MaxConfigEvents,
  file <- declaration, source <- declared, process <- alive, events <- configEvents

Database == INSTANCE Store WITH
  Keys <- WriteKeys, Removed <- RemovedSources,
  MaxFailures <- MaxDatabaseFailures, failures <- databaseFailures

Texts == INSTANCE RawTextRetention WITH Environment <- TextEvents

\* Three messages of the owner and one interference of any kind,
\* or two messages and two interferences: a failure and a retry.
Interferences == {"clear", "edit", "recall", "fail", "undelivered", "crash", "lost", "retry",
                  "continue"}
Session == INSTANCE DirectSession WITH
  Environment <- Interferences, MaxMessages <- 3, MaxEvents <- 1
Retried == INSTANCE DirectSession WITH
  Environment <- Interferences, MaxMessages <- 2, MaxEvents <- 2

ASSUME ComponentsAssumption ==
  /\ Imported!HistoryCoverageAssumption
  /\ Scope!SourceScopeAssumption /\ Config!ConfigApplyAssumption /\ Database!StoreAssumption

deliveryVars  == <<status, version, current, acting, row, relabelled, sent, marks, job, script,
                   call, service, deliveryEvents>>
importVars    == <<clock, storedRange, expired, coverage, recorded, pull, running, import, worker,
                   importEvents>>
scopeVars     == <<now, source, route, contact, receipt, cycle, collects, verdict, scopeEvents>>
configVars    == <<declaration, applied, declared, lease, runtime, alive, plan, touched, edits,
                   configEvents>>
workspaceVars == <<file, archive, revisions, published, lock, tx, operations, authorized, request,
                   step, effect, cached, calls, failures>>
databaseVars  == <<db, generation, process, backups, answered, upgraded, replaced,
                   databaseFailures>>
sessionVars   == <<messages, turns, queue, sessions, processes, transcripts, run, events>>
textVars      == <<availability, raw, old, links, context, stored>>
all == <<kind, deliveryVars, importVars, scopeVars, configVars, workspaceVars, databaseVars,
         sessionVars, textVars>>

MCInit ==
  /\ kind \in {"delivery", "import", "scope", "config", "workspace", "database", "session",
               "retried", "texts"}
  /\ Delivery!Init /\ Imported!Init /\ Config!Init /\ Init /\ Session!Init /\ Texts!Init
  \* These two have several initial states; they matter to their own behaviours only.
  /\ Scope!Init /\ (kind # "scope" => ~source.direct /\ source.ignore = {})
  /\ Database!Init /\ (kind # "database" => db.tombstones = {} /\ backups = {})

MCNext ==
  /\ UNCHANGED kind
  /\ \/ /\ kind = "delivery" /\ Delivery!Next
        /\ UNCHANGED <<importVars, scopeVars, configVars, workspaceVars,
                       databaseVars, sessionVars, textVars>>
     \/ /\ kind = "import" /\ Imported!Next
        /\ UNCHANGED <<deliveryVars, scopeVars, configVars, workspaceVars,
                       databaseVars, sessionVars, textVars>>
     \/ /\ kind = "scope" /\ Scope!Next
        /\ UNCHANGED <<deliveryVars, importVars, configVars, workspaceVars,
                       databaseVars, sessionVars, textVars>>
     \/ /\ kind = "config" /\ Config!Next
        /\ UNCHANGED <<deliveryVars, importVars, scopeVars, workspaceVars,
                       databaseVars, sessionVars, textVars>>
     \/ /\ kind = "workspace" /\ Next
        /\ UNCHANGED <<deliveryVars, importVars, scopeVars, configVars,
                       databaseVars, sessionVars, textVars>>
     \/ /\ kind = "database" /\ Database!Next
        /\ UNCHANGED <<deliveryVars, importVars, scopeVars, configVars,
                       workspaceVars, sessionVars, textVars>>
     \/ /\ kind = "session" /\ Session!Next
        /\ UNCHANGED <<deliveryVars, importVars, scopeVars, configVars,
                       workspaceVars, databaseVars, textVars>>
     \/ /\ kind = "retried" /\ Retried!Next
        /\ UNCHANGED <<deliveryVars, importVars, scopeVars, configVars,
                       workspaceVars, databaseVars, textVars>>
     \/ /\ kind = "texts" /\ Texts!Next
        /\ UNCHANGED <<deliveryVars, importVars, scopeVars, configVars,
                       workspaceVars, databaseVars, sessionVars>>

MCSpec == MCInit /\ [][MCNext]_all

TypesOK ==
  /\ kind = "delivery" => Delivery!TypeOK
  /\ kind = "import" => Imported!TypeOK
  /\ kind = "scope" => Scope!TypeOK
  /\ kind = "config" => Config!TypeOK
  /\ kind = "workspace" => TypeOK
  /\ kind = "database" => Database!TypeOK
  /\ kind = "session" => Session!TypeOK
  /\ kind = "retried" => Retried!TypeOK
  /\ kind = "texts" => Texts!TypeOK

RowsTellTheTruth == Delivery!RowsTellTheTruth
AnswerBeforeMark == Delivery!AnswerBeforeMark
OutcomeIsFinal == Delivery!OutcomeIsFinal
ImportIsComplete == Imported!ImportIsComplete
ProcessingIsProved == Scope!ProcessingIsProved
RunsAsApplied == Config!RunsAsApplied
AppliesWhatWasReviewed == Config!AppliesWhatWasReviewed
AnsweredIsKept == Database!AnsweredIsKept
SessionIsRemembered == Session!SessionIsRemembered
CleanedEverywhere == Texts!CleanedEverywhere
=============================================================================
