---------------------------- MODULE RuntimeTask ----------------------------
(***************************************************************************)
(* Tasks, attempts, confirmed actions and work leases of one runtime       *)
(* (internal/core/runtime.go and runtime_scheduling.go) and the worker     *)
(* goroutines and Agent processes that drive them                          *)
(* (internal/runtime/service.go and workers.go).                           *)
(*                                                                         *)
(* Every action is one SQLite write transaction of internal/core (the      *)
(* store serialises writers), one step of a worker goroutine, or one event *)
(* of the process or of the world.  Rows are functions from row            *)
(* identities; a row that does not exist yet has status "absent".          *)
(***************************************************************************)
EXTENDS Integers, FiniteSets, Sequences

CONSTANTS
  NumTasks,     \* tasks, numbered in order of created_at
  Actions,      \* rows of runtime_pending_actions
  Attempts,     \* rows of runtime_attempts and runtime_action_attempts
  NoAction,     \* the action of an attempt that executes the task itself
  Declarations, \* the policy-relevant contents of the applied configuration
  Mode,         \* application_mode: "proactive" or "group_mention"
  Concurrency,  \* execution_concurrency
  Requester,    \* Requester[t]: who asked for task t
  Anonymous,    \* the requester of a task without a stored identity
  WriteRoots,   \* WriteRoots[t]: canonical directories, as sequences of names
  Environment,  \* which events of the world and of operators can happen
  MaxVersion,   \* bound on task versions
  MaxCrashes    \* bound on process crashes

Tasks == 1..NumTasks
NoTask == 0

ASSUME RuntimeTaskAssumption ==
  /\ NumTasks \in Nat
  /\ IsFiniteSet(Attempts)
  /\ NoAction \notin Actions
  /\ Mode \in {"proactive", "group_mention"}
  /\ Concurrency \in 1..32
  /\ MaxVersion \in Nat
  /\ MaxCrashes \in Nat

VARIABLES
  taskStatus, taskVersion,        \* runtime_tasks
  source,       \* the linked messages, seen from runtime_task_messages
  actionStatus, actionTask, actionVersion,  \* runtime_pending_actions
  byCard,       \* actions whose confirmation_origin is a card
  withdrawn,    \* actions whose approving message was edited or recalled
  attemptStatus, attemptTask, attemptAction, attemptVersion,
  attemptDecl,  \* attempts; attemptDecl is the applied config at claim time
  lease,        \* runtime_work_leases.released, by attempt
  expired,      \* leases past deadline_at
  ownerDead,    \* leases whose owner_pid is no longer alive
  locks,        \* leases that hold their write roots in runtime_resource_locks
  worker,       \* where the goroutine and the Agent process of an attempt are
  invoked,      \* how often the external call of an action was made
  service,      \* the life cycle of Service.Run
  rtStatus,     \* runtime_configs.status ("paused" stands for "degraded" too)
  declaration,  \* the latest applied configuration
  crashes

taskVars == <<taskStatus, taskVersion, source>>
actionVars == <<actionStatus, actionTask, actionVersion, byCard, withdrawn>>
attemptVars == <<attemptStatus, attemptTask, attemptAction, attemptVersion, attemptDecl>>
leaseVars == <<lease, expired, ownerDead, locks>>
workerVars == <<worker, invoked>>
serviceVars == <<service, rtStatus, declaration, crashes>>
vars == <<taskVars, actionVars, attemptVars, leaseVars, workerVars, serviceVars>>

----------------------------------------------------------------------------
TaskStates == {"absent", "pending", "clarification", "running",
  "awaiting_confirmation", "blocked", "completed", "failed", "stale",
  "cancelled", "action_failed", "action_unknown"}
ActionStates == {"absent", "pending", "confirmed", "rejected", "executing",
  "executed", "failed", "unknown", "stale"}
AttemptStates == {"absent", "running", "completed", "failed", "stale", "unknown"}
\* "current": as linked; "edited", "recalled": changed but not synchronised;
\* "outdated", "gone": synchronised, the link still names the old revision.
SourceStates == {"current", "edited", "outdated", "recalled", "gone"}
LeaseStates == {"none", "held", "released"}
\* Before the call: preparing, checked, locked, ready.  During it: agent, or
\* orphan when the service process died under it.
WorkerStates == {"none", "preparing", "checked", "locked", "ready", "agent",
  "returned", "leaving", "gone", "orphan"}
BeforeCall == {"preparing", "checked", "locked", "ready"}
Live == BeforeCall \cup {"agent", "returned", "leaving"}
\* "stopped": Run returned but the service process lives; "down": it does not.
ServiceStates == {"down", "starting", "blocked", "recovered", "up", "draining", "stopped"}

TypeOK ==
  /\ taskStatus \in [Tasks -> TaskStates]
  /\ taskVersion \in [Tasks -> Nat]
  /\ source \in [Tasks -> SourceStates]
  /\ actionStatus \in [Actions -> ActionStates]
  /\ actionTask \in [Actions -> Tasks \cup {NoTask}]
  /\ actionVersion \in [Actions -> Nat]
  /\ byCard \subseteq Actions
  /\ withdrawn \subseteq Actions
  /\ attemptStatus \in [Attempts -> AttemptStates]
  /\ attemptTask \in [Attempts -> Tasks \cup {NoTask}]
  /\ attemptAction \in [Attempts -> Actions \cup {NoAction}]
  /\ attemptVersion \in [Attempts -> Nat]
  /\ attemptDecl \in [Attempts -> Declarations]
  /\ lease \in [Attempts -> LeaseStates]
  /\ expired \subseteq Attempts
  /\ ownerDead \subseteq Attempts
  /\ locks \subseteq Attempts
  /\ worker \in [Attempts -> WorkerStates]
  /\ invoked \in [Actions -> Nat]
  /\ service \in ServiceStates
  /\ rtStatus \in {"running", "paused", "stopped"}
  /\ declaration \in Declarations
  /\ crashes \in 0..MaxCrashes

Init ==
  /\ taskStatus = [t \in Tasks |-> "absent"]
  /\ taskVersion = [t \in Tasks |-> 0]
  /\ source = [t \in Tasks |-> "current"]
  /\ actionStatus = [x \in Actions |-> "absent"]
  /\ actionTask = [x \in Actions |-> NoTask]
  /\ actionVersion = [x \in Actions |-> 0]
  /\ byCard = {} /\ withdrawn = {}
  /\ attemptStatus = [a \in Attempts |-> "absent"]
  /\ attemptTask = [a \in Attempts |-> NoTask]
  /\ attemptAction = [a \in Attempts |-> NoAction]
  /\ attemptVersion = [a \in Attempts |-> 0]
  /\ declaration \in Declarations
  /\ attemptDecl = [a \in Attempts |-> declaration]
  /\ lease = [a \in Attempts |-> "none"]
  /\ expired = {} /\ ownerDead = {} /\ locks = {}
  /\ worker = [a \in Attempts |-> "none"]
  /\ invoked = [x \in Actions |-> 0]
  /\ service = "down"
  /\ rtStatus = "stopped"
  /\ crashes = 0

----------------------------------------------------------------------------
(* Predicates the transactions evaluate. *)

SameRequester(s, t) ==
  \/ Anonymous \in {Requester[s], Requester[t]}
  \/ Requester[s] = Requester[t]

\* Directory p is q or lies below it.
Within(p, q) == Len(q) <= Len(p) /\ SubSeq(p, 1, Len(q)) = q
RootsConflict(s, t) ==
  \E p \in WriteRoots[s], q \in WriteRoots[t] : Within(p, q) \/ Within(q, p)

RootsFree(a) == \A b \in locks \ {a} : ~RootsConflict(attemptTask[a], attemptTask[b])

Running == {a \in Attempts : attemptStatus[a] = "running"}
Held == {a \in Attempts : lease[a] = "held"}
OpenAction(x, t) == actionTask[x] = t /\ actionVersion[x] = taskVersion[t]
ActionsOf(t) == {x \in Actions : OpenAction(x, t)}

\* PoolAvailable: the group counts running attempts that lost their lease too.
PoolAvailable ==
  Cardinality(IF Mode = "group_mention" THEN Held \cup Running ELSE Held) < Concurrency

\* Mutant: lanes are read off the attempt rows, which a cancelled task ends
\* before its process does.
LaneFreeByRows(t) ==
  Mode = "group_mention" => \A a \in Running : ~SameRequester(attemptTask[a], t)

\* reserveSlot, the active count of the claim, and PoolAvailable.
CapacityLeft ==
  /\ Cardinality({a \in Attempts : worker[a] \in Live}) < Concurrency
  /\ Cardinality(Running) < Concurrency
  /\ PoolAvailable

\* runtimeExecutionLaneSQL without its ordering part.
LaneFree(t) ==
  Mode = "group_mention" =>
    \A a \in Held \cup Running : ~SameRequester(attemptTask[a], t)

\* ... and the ordering part, for pending tasks.
FirstInLane(t) ==
  Mode = "group_mention" =>
    \A s \in 1..(t - 1) : taskStatus[s] = "pending" => ~SameRequester(s, t)

CheckWorkLease(a) ==
  /\ lease[a] = "held" /\ a \notin expired
  /\ attemptVersion[a] = taskVersion[attemptTask[a]]
  /\ attemptDecl[a] = declaration

\* destructiveApprovalCurrent and runtimeCardActionCurrent.
ApprovalCurrent(x) ==
  /\ Mode = "proactive" => x \notin withdrawn
  /\ x \in byCard =>
       /\ rtStatus = "running"
       /\ source[actionTask[x]] = "current"
       /\ taskStatus[actionTask[x]] = "awaiting_confirmation"
       /\ OpenAction(x, actionTask[x])

\* RuntimeAttemptPolicyCurrent and RuntimeActionAttemptPolicyCurrent.
PolicyCurrent(a) ==
  /\ CheckWorkLease(a)
  /\ attemptStatus[a] = "running"
  /\ attemptAction[a] # NoAction => ApprovalCurrent(attemptAction[a])

----------------------------------------------------------------------------
(* Updates several transactions share. *)

\* Mutants: a status of tasks, a call that is forgotten, an approval that
\* survives.
SettleCancelled(status) ==
  IF status \in {"pending", "confirmed"} THEN "cancelled"
  ELSE IF status = "executing" THEN "unknown" ELSE status
SettleForgets(status) ==
  IF status \in {"pending", "confirmed", "executing"} THEN "stale" ELSE status
SettlePending(status) ==
  IF status = "pending" THEN "stale"
  ELSE IF status = "executing" THEN "unknown" ELSE status

\* The action rows of a changed task: never run ones are stale, a call that
\* may be under way is unknown.
Settle(status) ==
  IF status \in {"pending", "confirmed"} THEN "stale"
  ELSE IF status = "executing" THEN "unknown" ELSE status

SettleActions(T) ==
  actionStatus' = [x \in Actions |->
    IF actionTask[x] \in T THEN Settle(actionStatus[x]) ELSE actionStatus[x]]

\* Running attempts end as onTask or, for an action attempt, as unknown.
EndAttempts(T, onTask) ==
  attemptStatus' = [a \in Attempts |->
    IF attemptTask[a] \in T /\ attemptStatus[a] = "running"
      THEN IF attemptAction[a] = NoAction THEN onTask ELSE "unknown"
      ELSE attemptStatus[a]]

staleRuntimeTaskWork(T) == SettleActions(T) /\ EndAttempts(T, "stale")

\* A new version of task t, with everything the old version had under way.
NewVersion(t, status) ==
  /\ taskVersion[t] < MaxVersion
  /\ taskStatus' = [taskStatus EXCEPT ![t] = status]
  /\ taskVersion' = [taskVersion EXCEPT ![t] = @ + 1]
  /\ staleRuntimeTaskWork({t})
  /\ UNCHANGED <<actionTask, actionVersion, byCard, withdrawn, attemptTask,
                 attemptAction, attemptVersion, attemptDecl, leaseVars, workerVars>>

ReleaseWorkLease(a) ==
  /\ lease' = [lease EXCEPT ![a] = "released"]
  /\ locks' = locks \ {a}
  /\ UNCHANGED <<expired, ownerDead>>

Goto(a, place) == worker' = [worker EXCEPT ![a] = place]

\* The rows and the goroutine of a fresh attempt of task t.
NewAttempt(a, t, x) ==
  /\ attemptStatus[a] = "absent"
  /\ attemptStatus' = [attemptStatus EXCEPT ![a] = "running"]
  /\ attemptTask' = [attemptTask EXCEPT ![a] = t]
  /\ attemptAction' = [attemptAction EXCEPT ![a] = x]
  /\ attemptVersion' = [attemptVersion EXCEPT ![a] = taskVersion[t]]
  /\ attemptDecl' = [attemptDecl EXCEPT ![a] = declaration]
  /\ lease' = [lease EXCEPT ![a] = "held"]
  /\ Goto(a, "preparing")
  /\ UNCHANGED <<expired, ownerDead, locks, invoked>>

----------------------------------------------------------------------------
(* Decisions of an analysis batch (CompleteRuntimeBatch).  Tasks come into *)
(* being in order; an update reopens a task whatever its status.           *)

Analysing == service \in {"up", "draining"}

NewTaskStatus == {"pending"} \cup (IF Mode = "proactive" THEN {} ELSE {"clarification"})

CreateTask(t, status) ==
  /\ Analysing
  /\ taskStatus[t] = "absent" /\ \A s \in 1..(t - 1) : taskStatus[s] # "absent"
  /\ taskStatus' = [taskStatus EXCEPT ![t] = status]
  /\ taskVersion' = [taskVersion EXCEPT ![t] = 1]
  /\ UNCHANGED <<source, actionVars, attemptVars, leaseVars, workerVars, serviceVars>>

\* The decision may cite the edited message again, at its new revision.
CiteAgain(t) ==
  \/ UNCHANGED source
  \/ source[t] = "outdated" /\ source' = [source EXCEPT ![t] = "current"]

UpdateTask(t, status) ==
  /\ Analysing
  /\ "update" \in Environment
  /\ taskStatus[t] # "absent"
  /\ NewVersion(t, status)
  /\ CiteAgain(t)
  /\ UNCHANGED serviceVars

\* Also a repeated request for a completed task; closing it twice only links.
CloseTask(t, status) ==
  /\ Analysing
  /\ "update" \in Environment
  /\ taskStatus[t] # "absent"
  /\ \/ taskStatus[t] # status /\ NewVersion(t, status)
     \/ /\ taskStatus[t] = status
        /\ UNCHANGED <<taskStatus, taskVersion, actionVars, attemptVars, leaseVars, workerVars>>
  /\ CiteAgain(t)
  /\ UNCHANGED serviceVars

----------------------------------------------------------------------------
(* Source messages: edited or recalled at the platform, expired by the     *)
(* retention purge, and synchronised by the tick.                          *)

EditSource(t) ==
  /\ "edit" \in Environment
  /\ taskStatus[t] # "absent" /\ source[t] = "current"
  /\ source' = [source EXCEPT ![t] = "edited"]
  /\ UNCHANGED <<taskStatus, taskVersion, actionVars, attemptVars, leaseVars,
                 workerVars, serviceVars>>

RecallSource(t) ==
  /\ "recall" \in Environment
  /\ taskStatus[t] # "absent" /\ source[t] \in {"current", "edited", "outdated"}
  /\ source' = [source EXCEPT ![t] = "recalled"]
  /\ UNCHANGED <<taskStatus, taskVersion, actionVars, attemptVars, leaseVars,
                 workerVars, serviceVars>>

\* The purge of expired text settles the actions but not their attempts.
PurgeSource(t) ==
  /\ "purge" \in Environment
  /\ taskStatus[t] # "absent" /\ source[t] \in {"current", "edited", "outdated"}
  /\ source' = [source EXCEPT ![t] = "recalled"]
  /\ SettleActions({t})
  /\ UNCHANGED <<taskStatus, taskVersion, actionTask, actionVersion, byCard, withdrawn,
                 attemptVars, leaseVars, workerVars, serviceVars>>

\* One pass over changed messages (at most 100, so not always all of them); a
\* cancelled task is left alone.
SyncRuntimeMessages ==
  \E changed \in SUBSET {t \in Tasks : source[t] \in {"edited", "recalled"}} :
  LET hit == {t \in changed : taskStatus[t] # "cancelled"} IN
  /\ service = "up" /\ changed # {}
  /\ \A t \in hit : taskVersion[t] < MaxVersion
  /\ source' = [t \in Tasks |->
       IF t \notin changed THEN source[t]
       ELSE IF source[t] = "edited" THEN "outdated" ELSE "gone"]
  /\ taskStatus' = [t \in Tasks |->
       IF t \notin hit THEN taskStatus[t]
       ELSE IF source[t] = "edited" THEN "stale" ELSE "cancelled"]
  /\ taskVersion' = [t \in Tasks |-> IF t \in hit THEN taskVersion[t] + 1 ELSE taskVersion[t]]
  /\ staleRuntimeTaskWork(hit)
  /\ UNCHANGED <<actionTask, actionVersion, byCard, withdrawn, attemptTask, attemptAction,
                 attemptVersion, attemptDecl, leaseVars, workerVars, serviceVars>>

----------------------------------------------------------------------------
(* Operators: the CLI and the console. *)

CancelTask(t) ==
  /\ "operator" \in Environment
  /\ taskStatus[t] \notin {"absent", "completed"}
  /\ NewVersion(t, "cancelled")
  /\ UNCHANGED <<source, serviceVars>>

\* The refusal while a message the Agent sent itself is uncertain
\* (runtime_message_actions) only removes retries and is left out.
RetryTask(t) ==
  /\ "operator" \in Environment
  /\ taskStatus[t] \in {"failed", "stale", "cancelled", "clarification",
                        "blocked", "action_failed", "action_unknown"}
  /\ NewVersion(t, "pending")
  /\ UNCHANGED <<source, serviceVars>>

\* Continue a failed task in its old working directory, and wake the runtime.
ResumeRuntimeTask(t) ==
  /\ "operator" \in Environment
  /\ taskStatus[t] = "failed" /\ source[t] = "current"
  /\ \E a \in Attempts : /\ attemptTask[a] = t /\ attemptAction[a] = NoAction
                         /\ attemptVersion[a] = taskVersion[t]
                         /\ attemptStatus[a] = "failed"
  /\ \A x \in Actions : actionTask[x] = t =>
       actionStatus[x] \notin {"unknown", "executing", "confirmed"}
  /\ NewVersion(t, "pending")
  /\ rtStatus' = "running"
  /\ UNCHANGED <<source, service, declaration, crashes>>

SetRuntimeStatus(status) ==
  /\ "status" \in Environment /\ status # rtStatus
  /\ rtStatus' = status
  /\ UNCHANGED <<service, declaration, crashes, taskVars, actionVars, attemptVars,
                 leaseVars, workerVars>>

\* A declaration is applied that leaves this runtime's own settings alone.
CommitAppliedConfig(d) ==
  /\ "config" \in Environment /\ d # declaration
  /\ declaration' = d
  /\ UNCHANGED <<service, rtStatus, crashes, taskVars, actionVars, attemptVars,
                 leaseVars, workerVars>>

\* A declaration that changes this runtime (ConfigureRuntime, dual apply).
InvalidateRuntimeConfigWork(d, status) ==
  LET hit == {t \in Tasks : taskStatus[t] \in {"pending", "running", "clarification",
                "blocked", "awaiting_confirmation", "failed", "action_failed"}}
  IN
  /\ "config" \in Environment /\ d # declaration
  /\ \A t \in hit : taskVersion[t] < MaxVersion
  /\ declaration' = d
  /\ rtStatus' = status
  /\ taskStatus' = [t \in Tasks |-> IF t \in hit THEN "stale" ELSE taskStatus[t]]
  /\ taskVersion' = [t \in Tasks |-> IF t \in hit THEN taskVersion[t] + 1 ELSE taskVersion[t]]
  /\ staleRuntimeTaskWork(Tasks)
  /\ UNCHANGED <<source, actionTask, actionVersion, byCard, withdrawn, attemptTask,
                 attemptAction, attemptVersion, attemptDecl, leaseVars, workerVars,
                 service, crashes>>

----------------------------------------------------------------------------
(* The owner's decision on proposed actions. *)

Decidable(x) ==
  /\ actionStatus[x] = "pending"
  /\ taskStatus[actionTask[x]] = "awaiting_confirmation"
  /\ OpenAction(x, actionTask[x])
  /\ source[actionTask[x]] = "current"

\* A chat message with the token of one action.
ConfirmRuntimeActionFromMessage(x) ==
  /\ Decidable(x)
  /\ actionStatus' = [actionStatus EXCEPT ![x] = "confirmed"]
  /\ UNCHANGED <<actionTask, actionVersion, byCard, withdrawn, taskVars, attemptVars,
                 leaseVars, workerVars, serviceVars>>

\* A click on the card that shows all open actions of a group task.  A
\* rejection cancels the task at the same version.
ConfirmRuntimeCard(t, decision) ==
  LET shown == ActionsOf(t) IN
  /\ "card" \in Environment
  /\ Mode = "group_mention" /\ rtStatus = "running"
  /\ shown # {} /\ \A x \in shown : Decidable(x)
  /\ actionStatus' = [x \in Actions |-> IF x \in shown THEN decision ELSE actionStatus[x]]
  /\ byCard' = byCard \cup shown
  /\ taskStatus' = IF decision = "rejected"
                     THEN [taskStatus EXCEPT ![t] = "cancelled"] ELSE taskStatus
  /\ UNCHANGED <<taskVersion, source, actionTask, actionVersion, withdrawn, attemptVars,
                 leaseVars, workerVars, serviceVars>>

\* The approving chat message is edited or recalled.
WithdrawApproval(x) ==
  /\ "withdraw" \in Environment
  /\ actionStatus[x] \in {"confirmed", "executing"} /\ x \notin byCard \cup withdrawn
  /\ withdrawn' = withdrawn \cup {x}
  /\ UNCHANGED <<actionStatus, actionTask, actionVersion, byCard, taskVars, attemptVars,
                 leaseVars, workerVars, serviceVars>>

----------------------------------------------------------------------------
(* Claims of the tick.  Which of several rows comes first (ORDER BY, LIMIT *)
(* 1) is left open, except for the lanes of a group.                       *)

Claiming == service = "up" /\ rtStatus = "running" /\ CapacityLeft

ClaimRuntimeTask(a, t) ==
  /\ Claiming
  /\ taskStatus[t] = "pending"
  /\ \A b \in Held : attemptTask[b] # t
  /\ LaneFree(t) /\ FirstInLane(t)
  /\ taskStatus' = [taskStatus EXCEPT ![t] = "running"]
  /\ NewAttempt(a, t, NoAction)
  /\ UNCHANGED <<taskVersion, source, actionVars, serviceVars>>

ClaimRuntimeAction(a, x) ==
  /\ Claiming
  /\ actionStatus[x] = "confirmed"
  /\ taskStatus[actionTask[x]] = "awaiting_confirmation"
  /\ OpenAction(x, actionTask[x])
  /\ \A b \in Held : attemptTask[b] # actionTask[x]
  /\ LaneFree(actionTask[x])
  /\ ApprovalCurrent(x)
  /\ actionStatus' = [actionStatus EXCEPT ![x] = "executing"]
  /\ NewAttempt(a, actionTask[x], x)
  /\ UNCHANGED <<taskVars, actionTask, actionVersion, byCard, withdrawn, serviceVars>>

----------------------------------------------------------------------------
(* The worker goroutine of attempt a (executeClaimed and                   *)
(* executeClaimedAction).  A failing check is the step to FailRuntimeTask  *)
(* or FailRuntimeAction, which any error before the call leads to.         *)

Step(a, from, to) ==
  /\ worker[a] = from /\ Goto(a, to)
  /\ UNCHANGED <<taskVars, actionVars, attemptVars, lease, expired, ownerDead, serviceVars>>

\* Group attempts work in an isolated directory and lock no roots.
CheckPolicy(a) ==
  /\ PolicyCurrent(a)
  /\ Step(a, "preparing", IF Mode = "proactive" THEN "checked" ELSE "locked")
  /\ UNCHANGED <<locks, invoked>>

LockWorkRoots(a) ==
  /\ CheckWorkLease(a)
  /\ RootsFree(a)
  /\ Step(a, "checked", "locked")
  /\ locks' = locks \cup {a}
  /\ UNCHANGED invoked

RecheckPolicy(a) ==
  /\ attemptAction[a] # NoAction
  /\ PolicyCurrent(a)
  /\ Step(a, "locked", "ready")
  /\ UNCHANGED <<locks, invoked>>

\* Executor.Execute: the Agent process of the task starts.
Execute(a) ==
  /\ attemptAction[a] = NoAction
  /\ Step(a, "locked", "agent")
  /\ UNCHANGED <<locks, invoked>>

\* Actioner.ExecuteConfirmedAction: the external effect happens.
ExecuteConfirmedAction(a) ==
  /\ attemptAction[a] # NoAction
  /\ Step(a, "ready", "agent")
  /\ invoked' = [invoked EXCEPT ![attemptAction[a]] = @ + 1]
  /\ UNCHANGED locks

\* Mutant: the worker repeats a call that ends with an error.
AgentReturnsOrRepeats(a) ==
  /\ \E place \in {"returned"} \cup (IF attemptAction[a] = NoAction THEN {} ELSE {"ready"}) :
       Step(a, "agent", place)
  /\ UNCHANGED <<locks, invoked>>

\* With a result or an error; the deadline of the lease and the watcher of
\* taskContext kill the process group, so it does return.
AgentReturns(a) == Step(a, "agent", "returned") /\ UNCHANGED <<locks, invoked>>

\* A result that proposes the actions proposed; a proactive result ends
\* blocked unless it proposes destructive operations only.
ResultStatus(proposed) ==
  IF proposed = {} THEN {"completed"}
  ELSE {"awaiting_confirmation"} \cup (IF Mode = "proactive" THEN {"blocked"} ELSE {})

CompleteRuntimeTask(a, proposed, status) ==
  LET t == attemptTask[a] IN
  /\ worker[a] = "returned" /\ attemptAction[a] = NoAction
  /\ taskStatus[t] = "running" /\ PolicyCurrent(a) /\ source[t] = "current"
  /\ \A x \in proposed : actionStatus[x] = "absent"
  /\ status \in ResultStatus(proposed)
  /\ taskStatus' = [taskStatus EXCEPT ![t] = status]
  /\ attemptStatus' = [attemptStatus EXCEPT ![a] = "completed"]
  /\ actionStatus' = [x \in Actions |-> IF x \in proposed THEN "pending" ELSE actionStatus[x]]
  /\ actionTask' = [x \in Actions |-> IF x \in proposed THEN t ELSE actionTask[x]]
  /\ actionVersion' = [x \in Actions |->
       IF x \in proposed THEN taskVersion[t] ELSE actionVersion[x]]
  /\ ReleaseWorkLease(a)
  /\ Goto(a, "leaving")
  /\ UNCHANGED <<taskVersion, source, byCard, withdrawn, attemptTask, attemptAction,
                 attemptVersion, attemptDecl, invoked, serviceVars>>

\* Mutants: a late failure overwrites whatever the task became; a failure is
\* recorded under a valid lease only.
StillRunsAlways(a) == TRUE
StillRunsLeased(a) == taskStatus[attemptTask[a]] = "running" /\ CheckWorkLease(a)

\* The task of attempt a is still the one that was claimed.
StillRuns(a) ==
  /\ taskStatus[attemptTask[a]] = "running"
  /\ taskVersion[attemptTask[a]] = attemptVersion[a]

\* failTask follows every error, also a refused completion; it changes
\* nothing when the task moved on.
FailRuntimeTask(a) ==
  LET t == attemptTask[a]
      mine == StillRuns(a)
  IN
  /\ worker[a] \in BeforeCall \cup {"returned"} /\ attemptAction[a] = NoAction
  /\ taskStatus' = IF mine THEN [taskStatus EXCEPT ![t] = "failed"] ELSE taskStatus
  /\ attemptStatus' = IF mine THEN [attemptStatus EXCEPT ![a] = "failed"] ELSE attemptStatus
  /\ Goto(a, "leaving")
  /\ UNCHANGED <<taskVersion, source, actionVars, attemptTask, attemptAction,
                 attemptVersion, attemptDecl, leaseVars, invoked, serviceVars>>

CompleteRuntimeAction(a) ==
  LET x == attemptAction[a]
      t == attemptTask[a]
      last == \A y \in ActionsOf(t) \ {x} : actionStatus[y] = "executed"
  IN
  /\ worker[a] = "returned" /\ x # NoAction
  /\ actionStatus[x] = "executing" /\ PolicyCurrent(a)
  /\ attemptStatus' = [attemptStatus EXCEPT ![a] = "completed"]
  /\ actionStatus' = [actionStatus EXCEPT ![x] = "executed"]
  /\ taskStatus' = IF last /\ taskStatus[t] = "awaiting_confirmation"
                     THEN [taskStatus EXCEPT ![t] = "completed"] ELSE taskStatus
  /\ Goto(a, "leaving")
  /\ UNCHANGED <<taskVersion, source, actionTask, actionVersion, byCard, withdrawn,
                 attemptTask, attemptAction, attemptVersion, attemptDecl, leaseVars,
                 invoked, serviceVars>>

\* failAction: outcome is the action's and the attempt's new status.
EndAction(a, outcome, onTask) ==
  LET x == attemptAction[a]
      t == attemptTask[a]
      mine == actionStatus[x] = "executing"
  IN
  /\ actionStatus' = IF mine THEN [actionStatus EXCEPT ![x] = outcome] ELSE actionStatus
  /\ attemptStatus' = IF mine /\ attemptStatus[a] = "running"
                        THEN [attemptStatus EXCEPT ![a] = outcome] ELSE attemptStatus
  /\ taskStatus' = IF mine /\ taskStatus[t] = "awaiting_confirmation" /\ OpenAction(x, t)
                     THEN [taskStatus EXCEPT ![t] = onTask] ELSE taskStatus
  /\ Goto(a, "leaving")
  /\ UNCHANGED <<taskVersion, source, actionTask, actionVersion, byCard, withdrawn,
                 attemptTask, attemptAction, attemptVersion, attemptDecl, leaseVars,
                 invoked, serviceVars>>

FailRuntimeAction(a) ==
  /\ worker[a] \in BeforeCall /\ attemptAction[a] # NoAction
  /\ EndAction(a, "failed", "action_failed")

\* Mutant: an error of the call is recorded as "not done".
DenyRuntimeAction(a) ==
  /\ worker[a] = "returned" /\ attemptAction[a] # NoAction
  /\ EndAction(a, "failed", "action_failed")

UnknownRuntimeAction(a) ==
  /\ worker[a] = "returned" /\ attemptAction[a] # NoAction
  /\ EndAction(a, "unknown", "action_unknown")

\* The write of failTask or failAction itself fails (its error is dropped).
LoseOutcome(a) ==
  /\ "lost" \in Environment
  /\ \E place \in BeforeCall \cup {"returned"} : Step(a, place, "leaving")
  /\ UNCHANGED <<locks, invoked>>

\* The deferred finish of workContext releases the lease ...
Leave(a) ==
  /\ worker[a] = "leaving" /\ Goto(a, "gone")
  /\ ReleaseWorkLease(a)
  /\ UNCHANGED <<taskVars, actionVars, attemptVars, invoked, serviceVars>>

\* ... unless that write fails: releaseWork drops the error.
LeaveUnreleased(a) ==
  /\ "lost" \in Environment
  /\ Step(a, "leaving", "gone")
  /\ UNCHANGED <<locks, invoked>>

PassDeadline(a) ==
  /\ "deadline" \in Environment
  /\ lease[a] = "held" /\ a \notin expired
  /\ expired' = expired \cup {a}
  /\ UNCHANGED <<lease, ownerDead, locks, taskVars, actionVars, attemptVars, workerVars,
                 serviceVars>>

----------------------------------------------------------------------------
(* The process: crash, start with recovery, orderly stop. *)

\* The service process dies.  Agent processes have their own process group
\* and live on; no process id was recorded for them.
Crash ==
  /\ crashes < MaxCrashes
  /\ crashes' = crashes + 1
  /\ service' = "down"
  /\ worker' = [a \in Attempts |->
       IF worker[a] = "agent" THEN "orphan"
       ELSE IF worker[a] \in Live THEN "gone" ELSE worker[a]]
  /\ ownerDead' = ownerDead \cup Held
  /\ UNCHANGED <<rtStatus, declaration, taskVars, actionVars, attemptVars, lease, expired,
                 locks, invoked>>

OrphanExits(a) == Step(a, "orphan", "gone") /\ UNCHANGED <<locks, invoked>>

Move(from, to) ==
  /\ service = from /\ service' = to
  /\ UNCHANGED <<declaration, crashes, taskVars, actionVars, attemptVars, leaseVars, workerVars>>

Restart == Move("down", "starting") /\ UNCHANGED rtStatus
StartAgain == Move("stopped", "starting") /\ UNCHANGED rtStatus

\* recoverWork: process_pid is 0, so Reap kills nothing and the lease goes.
ReapDeadOwner(a) ==
  /\ service = "starting"
  /\ lease[a] = "held" /\ a \in ownerDead
  /\ ReleaseWorkLease(a)
  /\ UNCHANGED <<taskVars, actionVars, attemptVars, workerVars, serviceVars>>

\* A lease of a living process: the start fails with a conflict, and the
\* supervisor blocks the module.
RefuseLiveOwner ==
  /\ \E a \in Held : a \notin ownerDead
  /\ Move("starting", "blocked")
  /\ UNCHANGED rtStatus

\* The release of a dead owner's lease may be lost too: it stays held.
RecoverRuntime ==
  LET lost == {x \in Actions : actionStatus[x] = "executing"} IN
  /\ service = "starting"
  /\ \A a \in Held : a \in ownerDead /\ "lost" \in Environment
  /\ service' = "recovered"
  /\ taskStatus' = [t \in Tasks |->
       IF taskStatus[t] = "running" THEN "failed"
       ELSE IF taskStatus[t] = "awaiting_confirmation" /\ lost # {} THEN "action_unknown"
       ELSE taskStatus[t]]
  /\ actionStatus' = [x \in Actions |-> IF x \in lost THEN "unknown" ELSE actionStatus[x]]
  /\ EndAttempts(Tasks, "failed")
  /\ UNCHANGED <<taskVersion, source, actionTask, actionVersion, byCard, withdrawn,
                 attemptTask, attemptAction, attemptVersion, attemptDecl, leaseVars,
                 workerVars, rtStatus, declaration, crashes>>

StartRunning == Move("recovered", "up") /\ rtStatus' = "running"

ObserveStopped == rtStatus = "stopped" /\ Move("up", "draining") /\ UNCHANGED rtStatus

\* The context of Run is cancelled; stop() records it whatever the status was.
CancelRun == "status" \in Environment /\ Move("up", "draining") /\ rtStatus' = "stopped"

Drained ==
  /\ \A a \in Attempts : worker[a] \notin Live
  /\ Move("draining", "stopped") /\ UNCHANGED rtStatus

----------------------------------------------------------------------------
WorkerStep(a) ==
  \/ CheckPolicy(a) \/ LockWorkRoots(a) \/ RecheckPolicy(a)
  \/ Execute(a) \/ ExecuteConfirmedAction(a) \/ AgentReturns(a)
  \/ \E proposed \in SUBSET Actions, status \in TaskStates :
       CompleteRuntimeTask(a, proposed, status)
  \/ FailRuntimeTask(a)
  \/ CompleteRuntimeAction(a) \/ FailRuntimeAction(a) \/ UnknownRuntimeAction(a)
  \/ Leave(a)

TaskEvent(t) ==
  \/ \E status \in NewTaskStatus : CreateTask(t, status) \/ UpdateTask(t, status)
  \/ \E status \in {"completed", "cancelled"} : CloseTask(t, status)
  \/ EditSource(t) \/ RecallSource(t) \/ PurgeSource(t)
  \/ CancelTask(t) \/ RetryTask(t) \/ ResumeRuntimeTask(t)
  \/ \E decision \in {"confirmed", "rejected"} : ConfirmRuntimeCard(t, decision)

Recovery == Restart \/ (\E a \in Attempts : ReapDeadOwner(a)) \/ RecoverRuntime \/ StartRunning

Next ==
  \/ \E t \in Tasks : TaskEvent(t) \/ \E a \in Attempts : ClaimRuntimeTask(a, t)
  \/ \E x \in Actions : \/ ConfirmRuntimeActionFromMessage(x) \/ WithdrawApproval(x)
                        \/ \E a \in Attempts : ClaimRuntimeAction(a, x)
  \/ \E a \in Attempts : \/ WorkerStep(a) \/ LoseOutcome(a) \/ LeaveUnreleased(a)
                         \/ PassDeadline(a) \/ OrphanExits(a)
  \/ SyncRuntimeMessages
  \/ \E status \in {"running", "paused", "stopped"} : SetRuntimeStatus(status)
  \/ \E d \in Declarations : \/ CommitAppliedConfig(d)
                             \/ \E status \in {rtStatus, "stopped"} :
                                  InvalidateRuntimeConfigWork(d, status)
  \/ Crash \/ Recovery \/ StartAgain \/ RefuseLiveOwner
  \/ ObserveStopped \/ CancelRun \/ Drained

Spec == Init /\ [][Next]_vars

\* Goroutines run; the deadline of a lease and the shutdown kill an Agent that
\* does not return by itself.  After a crash launchd (KeepAlive) restarts the
\* process, and the supervisor starts a runtime that is not paused.
Fairness ==
  /\ \A a \in Attempts : WF_vars(WorkerStep(a))
  /\ WF_vars(Recovery /\ rtStatus # "paused")
  /\ WF_vars(Drained)

LiveSpec == Spec /\ Fairness

----------------------------------------------------------------------------
(* Properties. *)

AgentOf(a) == worker[a] = "agent"
IsTaskAttempt(a) == attemptStatus[a] # "absent" /\ attemptAction[a] = NoAction

\* The external call of a confirmed action is made at most once, whatever
\* crashes, retries, edits and operator commands do in between: no code path
\* brings an action row back to "confirmed" or gives it a second attempt.
ExternalEffectAtMostOnce == \A x \in Actions : invoked[x] <= 1

\* What the row of an action tells the owner is true.  Statuses that say the
\* action did not run are only reached without the call (FailRuntimeAction
\* before it, stale and rejected instead of it), and "executed" only after it;
\* "unknown" is the one status that may hide either.
OutcomeTold ==
  \A x \in Actions :
    /\ actionStatus[x] \in {"absent", "pending", "confirmed", "rejected", "stale", "failed"}
         => invoked[x] = 0
    /\ actionStatus[x] = "executed" => invoked[x] = 1

\* An action of a superseded task version can no longer be approved, claimed
\* or completed: every transaction that raises the version settles them.
OldActionsSettled ==
  \A x \in Actions :
    /\ actionStatus[x] # "absent"
    /\ actionVersion[x] < taskVersion[actionTask[x]]
    => actionStatus[x] \notin {"pending", "confirmed", "executing"}

\* Inside one service process, no two Agent processes work for one task, for
\* one group requester, or on overlapping write roots - also when the task of
\* one of them was cancelled, superseded or ran past its deadline while its
\* process still lived.
AgentsIsolated ==
  \A a, b \in Attempts : a # b /\ AgentOf(a) /\ AgentOf(b) =>
    LET s == attemptTask[a]
        t == attemptTask[b]
    IN /\ s # t
       /\ Mode = "group_mention" => ~SameRequester(s, t)
       /\ Mode = "proactive" => ~RootsConflict(s, t)

\* Never more Agent processes than execution_concurrency in one process.
AgentsBounded == Cardinality({a \in Attempts : AgentOf(a)}) <= Concurrency

\* Within one version a task only moves forward, and an action and an attempt
\* always do: a late result, failure or recovery never revives or rewrites
\* what was decided.
TaskRank(s) ==
  CASE s = "absent" -> 0
    [] s \in {"pending", "clarification"} -> 1
    [] s = "running" -> 2
    [] s = "awaiting_confirmation" -> 3
    [] OTHER -> 4
ActionRank(s) ==
  CASE s = "absent" -> 0 [] s = "pending" -> 1 [] s = "confirmed" -> 2
    [] s = "executing" -> 3 [] OTHER -> 4
AttemptRank(s) == CASE s = "absent" -> 0 [] s = "running" -> 1 [] OTHER -> 2
DecisionsStand ==
  [][/\ \A t \in Tasks : taskVersion'[t] = taskVersion[t] =>
          \/ taskStatus'[t] = taskStatus[t]
          \/ TaskRank(taskStatus[t]) < TaskRank(taskStatus'[t])
     /\ \A x \in Actions :
          \/ actionStatus'[x] = actionStatus[x]
          \/ ActionRank(actionStatus[x]) < ActionRank(actionStatus'[x])
     /\ \A a \in Attempts :
          \/ attemptStatus'[a] = attemptStatus[a]
          \/ AttemptRank(attemptStatus[a]) < AttemptRank(attemptStatus'[a])]_vars

\* The operator paused the runtime while its service is not running: nobody
\* recovers it until it is resumed.
RecoverySuspended == rtStatus = "paused" /\ service # "up"

\* A claimed task, and an approved action that was claimed, leave their
\* in-flight status: completed, failed, superseded or recovered, also when the
\* process dies at any point of the work; and its lease, and with it the lane,
\* the capacity and the directories it blocks, is given back.
WorkSettles ==
  /\ \A t \in Tasks :
       (taskStatus[t] = "running") ~> (taskStatus[t] # "running" \/ RecoverySuspended)
  /\ \A x \in Actions :
       (actionStatus[x] = "executing") ~> (actionStatus[x] # "executing" \/ RecoverySuspended)
  /\ \A a \in Attempts :
       (lease[a] = "held") ~> (lease[a] = "released" \/ RecoverySuspended)

\* Claims about the code that it does not keep (see the README).

\* Recovery gives a task up as "action_unknown" when the outcome of one of its
\* own actions is unknown.
RecoveryMarksLostWorkOnly ==
  [][\A t \in Tasks : taskStatus[t] = "awaiting_confirmation" /\ taskStatus'[t] = "action_unknown"
       => \E x \in Actions : actionTask[x] = t /\ actionStatus[x] = "executing"]_vars

\* A task whose Agent process still lives is not given to another Agent, also
\* when the service process that started it is gone.
AgentsIsolatedAfterCrash ==
  \A a, b \in Attempts :
    a # b /\ {worker[a], worker[b]} \subseteq {"agent", "orphan"} =>
      attemptTask[a] # attemptTask[b]

----------------------------------------------------------------------------
(* The abstract specification RuntimeTask implements, and the invariants   *)
(* behind the safety properties (proved in RuntimeTaskProofs).             *)

PhaseOf(status) ==
  IF status = "absent" THEN "none"
  ELSE IF status = "pending" THEN "proposed"
  ELSE IF status = "confirmed" THEN "approved"
  ELSE IF status \in {"rejected", "stale"} THEN "void" ELSE status

Effect == INSTANCE ConfirmedEffect WITH
  phase <- [x \in Actions |-> PhaseOf(actionStatus[x])],
  calls <- invoked

\* Every run is one that the owner-facing promise allows: the crashes, edits,
\* retries and races below only ever show up as an operation that is void,
\* failed before its call, or unknown.
ConfirmedEffectImplemented == Effect!EffectSpec

\* A row that no claim used yet has no goroutine, task, action or lease.
UnusedAttempts ==
  \A a \in Attempts : attemptStatus[a] = "absent" =>
    worker[a] = "none" /\ attemptAction[a] = NoAction /\ lease[a] = "none"

\* Goroutines work on attempts of existing tasks.
UsedAttempts ==
  \A a \in Attempts : worker[a] # "none" => attemptTask[a] \in Tasks

\* An action is claimed by at most one attempt, ever.
OneAttemptPerAction ==
  \A a, b \in Attempts :
    attemptAction[a] = attemptAction[b] /\ attemptAction[a] # NoAction => a = b

\* Where the goroutine of an action attempt is, tells whether the call was
\* made and what the row of the action can be.
CallFollowsWorker ==
  \A a \in Attempts : attemptAction[a] # NoAction =>
    /\ actionStatus[attemptAction[a]] \in {"executing", "executed", "failed", "unknown"}
    /\ worker[a] \in BeforeCall =>
         /\ actionStatus[attemptAction[a]] \in {"executing", "unknown"}
         /\ invoked[attemptAction[a]] = 0
    /\ worker[a] \in {"agent", "returned", "orphan"} => invoked[attemptAction[a]] = 1

\* No action is left open by the version of its task.
OpenActionsAreCurrent ==
  \A x \in Actions :
    /\ actionStatus[x] = "absent" <=> actionTask[x] = NoTask
    /\ actionTask[x] # NoTask => taskStatus[actionTask[x]] # "absent"
    /\ actionStatus[x] \in {"pending", "confirmed", "executing"} =>
         actionVersion[x] = taskVersion[actionTask[x]]

CallInv ==
  /\ UnusedAttempts /\ UsedAttempts /\ OneAttemptPerAction /\ CallFollowsWorker
  /\ OpenActionsAreCurrent /\ ExternalEffectAtMostOnce /\ OutcomeTold
IInv == TypeOK /\ CallInv

\* A goroutine that has not finished holds its lease, and in proactive mode
\* its directories from LockWorkRoots on.
LeasedWorkers ==
  \A a \in Attempts :
    /\ worker[a] \in Live \ {"leaving"} => lease[a] = "held" /\ a \notin ownerDead
    /\ a \in ownerDead => lease[a] # "none"
    /\ a \in locks => lease[a] = "held"
    /\ Mode = "proactive" /\ worker[a] \in {"locked", "ready", "agent"} => a \in locks

\* Leases, unlike the status of their tasks, are what keeps work apart.
LeasesApart ==
  \A a, b \in Attempts : a # b /\ lease[a] = "held" /\ lease[b] = "held" =>
    /\ attemptTask[a] # attemptTask[b]
    /\ Mode = "group_mention" => ~SameRequester(attemptTask[a], attemptTask[b])
    /\ a \in locks /\ b \in locks => ~RootsConflict(attemptTask[a], attemptTask[b])

WorkersBounded == Cardinality({a \in Attempts : worker[a] \in Live}) <= Concurrency

IsolationInv == LeasedWorkers /\ LeasesApart /\ WorkersBounded
=============================================================================
