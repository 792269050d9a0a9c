-------------------------- MODULE RuntimeTaskProofs --------------------------
(***************************************************************************)
(* Theorems about RuntimeTask, for every number of tasks, actions and      *)
(* attempts, every mode, concurrency and environment.                      *)
(***************************************************************************)
EXTENDS RuntimeTask, FiniteSetTheorems, TLAPS

----------------------------------------------------------------------------
(* Type correctness. *)

LEMMA TypeInit == Init => TypeOK
  BY RuntimeTaskAssumption DEF Init, TypeOK, Tasks, NoTask, TaskStates, ActionStates,
     AttemptStates, SourceStates, LeaseStates, WorkerStates, ServiceStates

LEMMA TypeTaskEvent ==
  ASSUME TypeOK, NEW t \in Tasks, TaskEvent(t)
  PROVE  TypeOK'
<1> USE RuntimeTaskAssumption DEF TypeOK, vars, taskVars, actionVars, attemptVars, leaseVars,
      workerVars, serviceVars, NewVersion, staleRuntimeTaskWork, SettleActions, Settle, EndAttempts,
      TaskStates, ActionStates, AttemptStates, SourceStates
<1>1. ASSUME NEW status \in NewTaskStatus, CreateTask(t, status) PROVE TypeOK'
  BY <1>1 DEF CreateTask, NewTaskStatus
<1>2. ASSUME NEW status \in NewTaskStatus, UpdateTask(t, status) PROVE TypeOK'
  BY <1>2 DEF UpdateTask, CiteAgain, NewTaskStatus
<1>3. ASSUME NEW status \in {"completed", "cancelled"}, CloseTask(t, status) PROVE TypeOK'
  BY <1>3 DEF CloseTask, CiteAgain
<1>4. CASE EditSource(t)
  BY <1>4 DEF EditSource
<1>5. CASE RecallSource(t)
  BY <1>5 DEF RecallSource
<1>6. CASE PurgeSource(t)
  BY <1>6 DEF PurgeSource
<1>7. CASE CancelTask(t)
  BY <1>7 DEF CancelTask
<1>8. CASE RetryTask(t)
  BY <1>8 DEF RetryTask
<1>9. CASE ResumeRuntimeTask(t)
  BY <1>9 DEF ResumeRuntimeTask
<1>10. ASSUME NEW decision \in {"confirmed", "rejected"}, ConfirmRuntimeCard(t, decision)
       PROVE TypeOK'
  BY <1>10 DEF ConfirmRuntimeCard, ActionsOf
<1> QED
  BY <1>1, <1>2, <1>3, <1>4, <1>5, <1>6, <1>7, <1>8, <1>9, <1>10 DEF TaskEvent

LEMMA TypeDecision ==
  ASSUME TypeOK, OpenActionsAreCurrent, NEW x \in Actions,
         \/ ConfirmRuntimeActionFromMessage(x) \/ WithdrawApproval(x)
         \/ \E a \in Attempts : ClaimRuntimeAction(a, x)
  PROVE  TypeOK'
<1> USE RuntimeTaskAssumption DEF TypeOK, taskVars, actionVars, attemptVars, leaseVars,
      workerVars, serviceVars, ActionStates, TaskStates
<1>1. CASE ConfirmRuntimeActionFromMessage(x)
  BY <1>1 DEF ConfirmRuntimeActionFromMessage
<1>2. CASE WithdrawApproval(x)
  BY <1>2 DEF WithdrawApproval
<1>3. ASSUME NEW a \in Attempts, ClaimRuntimeAction(a, x) PROVE TypeOK'
  <2>1. actionTask[x] \in Tasks
    BY <1>3 DEF ClaimRuntimeAction, OpenActionsAreCurrent
  <2> QED
    BY <1>3, <2>1 DEF ClaimRuntimeAction, NewAttempt, Goto, AttemptStates, LeaseStates, WorkerStates
<1> QED
  BY <1>1, <1>2, <1>3

LEMMA TypeClaim ==
  ASSUME TypeOK, NEW t \in Tasks, NEW a \in Attempts, ClaimRuntimeTask(a, t)
  PROVE  TypeOK'
  BY DEF TypeOK, ClaimRuntimeTask, NewAttempt, Goto, AttemptStates, LeaseStates, WorkerStates,
     TaskStates, actionVars, serviceVars

LEMMA TypeWorker ==
  ASSUME TypeOK, UsedAttempts, NEW a \in Attempts,
         WorkerStep(a) \/ LoseOutcome(a) \/ LeaveUnreleased(a) \/ PassDeadline(a) \/ OrphanExits(a)
  PROVE  TypeOK'
<1> USE RuntimeTaskAssumption DEF TypeOK, taskVars, actionVars, attemptVars, leaseVars,
      workerVars, serviceVars, Goto, WorkerStates
<1>1. ASSUME NEW from, NEW to \in WorkerStates, Step(a, from, to),
             locks' = locks \/ locks' = locks \cup {a},
             \/ invoked' = invoked
             \/ /\ attemptAction[a] # NoAction
                /\ invoked' = [invoked EXCEPT ![attemptAction[a]] = @ + 1]
      PROVE  TypeOK'
  BY <1>1 DEF Step
<1>2. CASE \/ CheckPolicy(a) \/ LockWorkRoots(a) \/ RecheckPolicy(a) \/ Execute(a)
           \/ ExecuteConfirmedAction(a) \/ AgentReturns(a) \/ LoseOutcome(a)
           \/ LeaveUnreleased(a) \/ OrphanExits(a)
  BY <1>1, <1>2 DEF CheckPolicy, LockWorkRoots, RecheckPolicy, Execute, ExecuteConfirmedAction,
     AgentReturns, LoseOutcome, LeaveUnreleased, OrphanExits
<1>3. ASSUME NEW proposed \in SUBSET Actions, NEW status \in TaskStates,
             CompleteRuntimeTask(a, proposed, status)
      PROVE  TypeOK'
  <2>1. attemptTask[a] \in Tasks
    BY <1>3 DEF CompleteRuntimeTask, UsedAttempts
  <2> QED
    BY <1>3, <2>1 DEF CompleteRuntimeTask, ReleaseWorkLease, ActionStates, AttemptStates,
       LeaseStates
<1>4. CASE FailRuntimeTask(a)
  BY <1>4 DEF FailRuntimeTask, TaskStates, AttemptStates
<1>5. CASE CompleteRuntimeAction(a)
  BY <1>5 DEF CompleteRuntimeAction, TaskStates, ActionStates, AttemptStates
<1>6. CASE FailRuntimeAction(a) \/ UnknownRuntimeAction(a)
  BY <1>6 DEF FailRuntimeAction, UnknownRuntimeAction, EndAction, TaskStates, ActionStates,
     AttemptStates
<1>7. CASE Leave(a)
  BY <1>7 DEF Leave, ReleaseWorkLease, LeaseStates
<1>8. CASE PassDeadline(a)
  BY <1>8 DEF PassDeadline
<1> QED
  BY <1>2, <1>3, <1>4, <1>5, <1>6, <1>7, <1>8 DEF WorkerStep

LEMMA TypeRuntime ==
  ASSUME TypeOK,
         \/ SyncRuntimeMessages
         \/ \E status \in {"running", "paused", "stopped"} : SetRuntimeStatus(status)
         \/ \E d \in Declarations : CommitAppliedConfig(d)
         \/ \E d \in Declarations, status \in {rtStatus, "stopped"} :
              InvalidateRuntimeConfigWork(d, status)
  PROVE  TypeOK'
<1> USE RuntimeTaskAssumption DEF TypeOK, taskVars, actionVars, attemptVars, leaseVars,
      workerVars, serviceVars, staleRuntimeTaskWork, SettleActions, Settle, EndAttempts,
      TaskStates, ActionStates, AttemptStates
<1>1. CASE SyncRuntimeMessages
  BY <1>1 DEF SyncRuntimeMessages, SourceStates
<1>2. ASSUME NEW status \in {"running", "paused", "stopped"}, SetRuntimeStatus(status)
      PROVE  TypeOK'
  BY <1>2 DEF SetRuntimeStatus
<1>3. ASSUME NEW d \in Declarations, CommitAppliedConfig(d) PROVE TypeOK'
  BY <1>3 DEF CommitAppliedConfig
<1>4. ASSUME NEW d \in Declarations, NEW status \in {rtStatus, "stopped"},
             InvalidateRuntimeConfigWork(d, status)
      PROVE  TypeOK'
  BY <1>4 DEF InvalidateRuntimeConfigWork
<1> QED
  BY <1>1, <1>2, <1>3, <1>4

LEMMA TypeProcess ==
  ASSUME TypeOK,
         \/ Crash \/ Recovery \/ StartAgain \/ RefuseLiveOwner
         \/ ObserveStopped \/ CancelRun \/ Drained
  PROVE  TypeOK'
<1> USE RuntimeTaskAssumption DEF TypeOK, taskVars, actionVars, attemptVars, leaseVars,
      workerVars, serviceVars, ServiceStates
<1>1. CASE Crash
  BY <1>1 DEF Crash, Held, WorkerStates
<1>2. CASE Restart \/ StartRunning \/ StartAgain \/ RefuseLiveOwner \/ ObserveStopped
           \/ CancelRun \/ Drained
  BY <1>2 DEF Restart, StartRunning, StartAgain, RefuseLiveOwner, ObserveStopped, CancelRun,
     Drained, Move
<1>3. ASSUME NEW a \in Attempts, ReapDeadOwner(a) PROVE TypeOK'
  BY <1>3 DEF ReapDeadOwner, ReleaseWorkLease, LeaseStates
<1>4. CASE RecoverRuntime
  BY <1>4 DEF RecoverRuntime, EndAttempts, TaskStates, ActionStates, AttemptStates
<1> QED
  BY <1>1, <1>2, <1>3, <1>4 DEF Recovery


----------------------------------------------------------------------------
(* The call invariant. *)

LEMMA CallInit == Init => CallInv
  BY RuntimeTaskAssumption DEF Init, CallInv, UnusedAttempts, UsedAttempts, OneAttemptPerAction,
     CallFollowsWorker, OpenActionsAreCurrent, ExternalEffectAtMostOnce, OutcomeTold

\* A transaction that settles the actions of the tasks it changes, and touches
\* no goroutine, keeps the call invariant.
LEMMA SettlingKeepsCalls ==
  ASSUME IInv, NEW T \in SUBSET Tasks, SettleActions(T),
         UNCHANGED <<actionTask, actionVersion, attemptTask, attemptAction, worker, invoked,
           lease>>,
         \A a \in Attempts : attemptStatus'[a] = "absent" => attemptStatus[a] = "absent",
         \A t \in Tasks : taskStatus'[t] = "absent" => taskStatus[t] = "absent",
         \A t \in Tasks \ T : taskVersion'[t] = taskVersion[t] \/ taskStatus[t] = "absent"
  PROVE  CallInv'
<1> USE DEF IInv, CallInv
<1>1. \A x \in Actions : /\ actionStatus[x] \in ActionStates
                         /\ actionTask[x] \in Tasks \cup {NoTask}
  BY DEF TypeOK
<1>2. \A x \in Actions : actionStatus'[x] = IF actionTask[x] \in T THEN Settle(actionStatus[x])
                                            ELSE actionStatus[x]
  BY DEF SettleActions
<1>3. UnusedAttempts' /\ UsedAttempts' /\ OneAttemptPerAction'
  BY DEF UnusedAttempts, UsedAttempts, OneAttemptPerAction
<1>4. CallFollowsWorker'
  BY <1>2, RuntimeTaskAssumption DEF CallFollowsWorker, Settle, TypeOK
<1>5. OpenActionsAreCurrent'
  BY <1>1, <1>2 DEF OpenActionsAreCurrent, Settle, Tasks, NoTask
<1>6. ExternalEffectAtMostOnce'
  BY DEF ExternalEffectAtMostOnce
<1>7. OutcomeTold'
  BY <1>1, <1>2 DEF OutcomeTold, CallFollowsWorker, Settle
<1> QED
  BY <1>3, <1>4, <1>5, <1>6, <1>7

\* The same for a transaction that leaves the action rows alone.
LEMMA IdleKeepsCalls ==
  ASSUME IInv,
         UNCHANGED <<actionStatus, actionTask, actionVersion, attemptTask, attemptAction, worker,
                     invoked, lease>>,
         \A a \in Attempts : attemptStatus'[a] = "absent" => attemptStatus[a] = "absent",
         \A t \in Tasks : taskStatus'[t] = "absent" => taskStatus[t] = "absent",
         \A t \in Tasks : taskVersion'[t] = taskVersion[t] \/ taskStatus[t] = "absent"
  PROVE  CallInv'
<1>1. SettleActions({})
  BY DEF SettleActions, IInv, TypeOK
<1> QED
  BY <1>1, SettlingKeepsCalls

LEMMA NewVersionKeepsCalls ==
  ASSUME IInv, NEW t \in Tasks, NEW status \in TaskStates \ {"absent"}, NewVersion(t, status)
  PROVE  CallInv'
<1>1. SettleActions({t}) /\ EndAttempts({t}, "stale")
  BY DEF NewVersion, staleRuntimeTaskWork
<1>2. \A a \in Attempts : attemptStatus'[a] = "absent" => attemptStatus[a] = "absent"
  BY <1>1 DEF EndAttempts
<1>3. /\ \A s \in Tasks : taskStatus'[s] = "absent" => taskStatus[s] = "absent"
      /\ \A s \in Tasks \ {t} : taskVersion'[s] = taskVersion[s]
  BY DEF NewVersion, IInv, TypeOK
<1> QED
  BY <1>1, <1>2, <1>3, SettlingKeepsCalls DEF NewVersion, leaseVars, workerVars

LEMMA CallTaskEvent ==
  ASSUME IInv, NEW t \in Tasks, TaskEvent(t)
  PROVE  CallInv'
<1>1. ASSUME NEW status \in NewTaskStatus, CreateTask(t, status) PROVE CallInv'
  <2>1. \A s \in Tasks : /\ taskStatus'[s] = "absent" => taskStatus[s] = "absent"
                         /\ taskVersion'[s] = taskVersion[s] \/ taskStatus[s] = "absent"
    BY <1>1 DEF CreateTask, NewTaskStatus, IInv, TypeOK
  <2> QED
    BY <1>1, <2>1, IdleKeepsCalls DEF CreateTask, actionVars, attemptVars, leaseVars, workerVars
<1>2. ASSUME NEW status \in NewTaskStatus, UpdateTask(t, status) PROVE CallInv'
  BY <1>2, NewVersionKeepsCalls DEF UpdateTask, NewTaskStatus, TaskStates
<1>3. ASSUME NEW status \in {"completed", "cancelled"}, CloseTask(t, status) PROVE CallInv'
  BY <1>3, NewVersionKeepsCalls, IdleKeepsCalls DEF CloseTask, TaskStates, actionVars, attemptVars,
     leaseVars, workerVars
<1>4. CASE EditSource(t) \/ RecallSource(t)
  BY <1>4, IdleKeepsCalls DEF EditSource, RecallSource, actionVars, attemptVars, leaseVars,
     workerVars
<1>5. CASE PurgeSource(t)
  BY <1>5, SettlingKeepsCalls DEF PurgeSource, attemptVars, leaseVars, workerVars
<1>6. CASE CancelTask(t) \/ RetryTask(t) \/ ResumeRuntimeTask(t)
  BY <1>6, NewVersionKeepsCalls DEF CancelTask, RetryTask, ResumeRuntimeTask, TaskStates
<1>7. ASSUME NEW decision \in {"confirmed", "rejected"}, ConfirmRuntimeCard(t, decision)
      PROVE  CallInv'
  <2> USE <1>7 DEF ConfirmRuntimeCard, Decidable, IInv, CallInv, attemptVars, leaseVars, workerVars
  <2>1. \A x \in Actions : \/ actionStatus'[x] = actionStatus[x]
                           \/ actionStatus[x] = "pending" /\ actionStatus'[x] = decision
    BY DEF TypeOK
  <2>2. \A s \in Tasks : taskStatus'[s] = "absent" => taskStatus[s] = "absent"
    BY DEF TypeOK
  <2>3. UnusedAttempts' /\ UsedAttempts' /\ OneAttemptPerAction' /\ ExternalEffectAtMostOnce'
    BY DEF UnusedAttempts, UsedAttempts, OneAttemptPerAction, ExternalEffectAtMostOnce
  <2>4. CallFollowsWorker'
    BY <2>1, RuntimeTaskAssumption DEF CallFollowsWorker, TypeOK
  <2>5. OpenActionsAreCurrent'
    BY <2>1, <2>2 DEF OpenActionsAreCurrent, TypeOK, NoTask
  <2>6. OutcomeTold'
    BY <2>1 DEF OutcomeTold
  <2> QED
    BY <2>3, <2>4, <2>5, <2>6
<1> QED
  BY <1>1, <1>2, <1>3, <1>4, <1>5, <1>6, <1>7 DEF TaskEvent

LEMMA CallRuntime ==
  ASSUME IInv,
         \/ SyncRuntimeMessages
         \/ \E status \in {"running", "paused", "stopped"} : SetRuntimeStatus(status)
         \/ \E d \in Declarations : CommitAppliedConfig(d)
         \/ \E d \in Declarations, status \in {rtStatus, "stopped"} :
              InvalidateRuntimeConfigWork(d, status)
  PROVE  CallInv'
<1> USE DEF IInv, TypeOK, leaseVars, workerVars
<1>1. CASE SyncRuntimeMessages
  <2>1. PICK hit \in SUBSET Tasks :
          /\ SettleActions(hit) /\ EndAttempts(hit, "stale")
          /\ \A s \in Tasks : taskStatus'[s] = "absent" => taskStatus[s] = "absent"
          /\ \A s \in Tasks \ hit : taskVersion'[s] = taskVersion[s]
    <3>1. PICK changed \in SUBSET Tasks :
            LET hit == {t \in changed : taskStatus[t] # "cancelled"} IN
            /\ taskStatus' = [t \in Tasks |->
                 IF t \notin hit THEN taskStatus[t]
                 ELSE IF source[t] = "edited" THEN "stale" ELSE "cancelled"]
            /\ taskVersion' = [t \in Tasks |->
                 IF t \in hit THEN taskVersion[t] + 1 ELSE taskVersion[t]]
            /\ SettleActions(hit) /\ EndAttempts(hit, "stale")
      BY <1>1 DEF SyncRuntimeMessages, staleRuntimeTaskWork
    <3> WITNESS {t \in changed : taskStatus[t] # "cancelled"} \in SUBSET Tasks
    <3> QED
      BY <3>1
  <2>2. \A a \in Attempts : attemptStatus'[a] = "absent" => attemptStatus[a] = "absent"
    BY <2>1 DEF EndAttempts
  <2> QED
    BY <1>1, <2>1, <2>2, SettlingKeepsCalls DEF SyncRuntimeMessages
<1>2. CASE \/ \E status \in {"running", "paused", "stopped"} : SetRuntimeStatus(status)
           \/ \E d \in Declarations : CommitAppliedConfig(d)
  BY <1>2, IdleKeepsCalls DEF SetRuntimeStatus, CommitAppliedConfig, taskVars, actionVars,
     attemptVars
<1>3. ASSUME NEW d \in Declarations, NEW status \in {rtStatus, "stopped"},
             InvalidateRuntimeConfigWork(d, status)
      PROVE  CallInv'
  <2>1. SettleActions(Tasks) /\ EndAttempts(Tasks, "stale")
    BY <1>3 DEF InvalidateRuntimeConfigWork, staleRuntimeTaskWork
  <2>2. \A a \in Attempts : attemptStatus'[a] = "absent" => attemptStatus[a] = "absent"
    BY <2>1 DEF EndAttempts
  <2>3. \A s \in Tasks : taskStatus'[s] = "absent" => taskStatus[s] = "absent"
    BY <1>3 DEF InvalidateRuntimeConfigWork
  <2> QED
    BY <1>3, <2>1, <2>2, <2>3, SettlingKeepsCalls DEF InvalidateRuntimeConfigWork
<1> QED
  BY <1>1, <1>2, <1>3

LEMMA CallDecision ==
  ASSUME IInv, NEW x \in Actions, ConfirmRuntimeActionFromMessage(x) \/ WithdrawApproval(x)
  PROVE  CallInv'
<1>1. CASE WithdrawApproval(x)
  BY <1>1, IdleKeepsCalls DEF WithdrawApproval, taskVars, attemptVars, leaseVars, workerVars
<1>2. CASE ConfirmRuntimeActionFromMessage(x)
  <2> USE <1>2 DEF ConfirmRuntimeActionFromMessage, Decidable, IInv, CallInv, taskVars, attemptVars,
        leaseVars, workerVars
  <2>1. /\ actionStatus[x] = "pending"
        /\ actionStatus' = [actionStatus EXCEPT ![x] = "confirmed"]
    OBVIOUS
  <2>2. UnusedAttempts' /\ UsedAttempts' /\ OneAttemptPerAction' /\ ExternalEffectAtMostOnce'
    BY DEF UnusedAttempts, UsedAttempts, OneAttemptPerAction, ExternalEffectAtMostOnce
  <2>3. CallFollowsWorker'
    BY <2>1, RuntimeTaskAssumption DEF CallFollowsWorker, TypeOK
  <2>4. OpenActionsAreCurrent'
    BY <2>1 DEF OpenActionsAreCurrent, TypeOK, NoTask
  <2>5. OutcomeTold'
    BY <2>1 DEF OutcomeTold, TypeOK
  <2> QED
    BY <2>2, <2>3, <2>4, <2>5
<1> QED
  BY <1>1, <1>2

LEMMA CallClaimTask ==
  ASSUME IInv, NEW t \in Tasks, NEW a \in Attempts, ClaimRuntimeTask(a, t)
  PROVE  CallInv'
<1> USE DEF ClaimRuntimeTask, NewAttempt, Goto, IInv, CallInv, actionVars, TypeOK
<1>1. /\ attemptAction[a] = NoAction /\ attemptAction' = attemptAction
      /\ \A b \in Attempts \ {a} : worker'[b] = worker[b]
  BY DEF UnusedAttempts
<1>2. UnusedAttempts' /\ UsedAttempts'
  BY DEF UnusedAttempts, UsedAttempts
<1>3. OneAttemptPerAction' /\ CallFollowsWorker'
  BY <1>1 DEF OneAttemptPerAction, CallFollowsWorker
<1>4. OpenActionsAreCurrent'
  BY DEF OpenActionsAreCurrent, NoTask
<1>5. ExternalEffectAtMostOnce' /\ OutcomeTold'
  BY DEF ExternalEffectAtMostOnce, OutcomeTold
<1> QED
  BY <1>2, <1>3, <1>4, <1>5

LEMMA CallClaimAction ==
  ASSUME IInv, NEW x \in Actions, NEW a \in Attempts, ClaimRuntimeAction(a, x)
  PROVE  CallInv'
<1> USE DEF ClaimRuntimeAction, NewAttempt, Goto, IInv, CallInv, taskVars, TypeOK
<1>1. /\ actionTask[x] \in Tasks
      /\ invoked[x] = 0
      /\ \A b \in Attempts : attemptAction[b] # x
  BY RuntimeTaskAssumption DEF OpenActionsAreCurrent, OutcomeTold, CallFollowsWorker
<1>2. UnusedAttempts' /\ UsedAttempts'
  BY <1>1 DEF UnusedAttempts, UsedAttempts
<1>3. OneAttemptPerAction'
  BY <1>1 DEF OneAttemptPerAction
<1>4. CallFollowsWorker'
  BY <1>1, RuntimeTaskAssumption DEF CallFollowsWorker, BeforeCall
<1>5. OpenActionsAreCurrent'
  BY <1>1 DEF OpenActionsAreCurrent, OpenAction, NoTask
<1>6. ExternalEffectAtMostOnce' /\ OutcomeTold'
  BY DEF ExternalEffectAtMostOnce, OutcomeTold
<1> QED
  BY <1>2, <1>3, <1>4, <1>5, <1>6

\* A step of a goroutine that changes no row of a task or action.
LEMMA StepKeepsCalls ==
  ASSUME IInv, NEW a \in Attempts, NEW from, NEW to \in WorkerStates,
         Step(a, from, to),
         from # "none",
         to \in BeforeCall => from \in BeforeCall,
         \/ /\ invoked' = invoked
            /\ to \in {"returned", "orphan"} => from \in {"agent", "returned", "orphan"}
            /\ to = "agent" => attemptAction[a] = NoAction
         \/ /\ attemptAction[a] # NoAction /\ from \in BeforeCall /\ to = "agent"
            /\ invoked' = [invoked EXCEPT ![attemptAction[a]] = @ + 1]
  PROVE  CallInv'
<1> USE DEF Step, Goto, IInv, CallInv, TypeOK, taskVars, actionVars, attemptVars
<1>1. UnusedAttempts' /\ UsedAttempts' /\ OneAttemptPerAction'
  BY DEF UnusedAttempts, UsedAttempts, OneAttemptPerAction
<1>2. OpenActionsAreCurrent'
  BY DEF OpenActionsAreCurrent
<1>3. CASE invoked' = invoked
  <2>1. CallFollowsWorker'
    BY <1>3 DEF CallFollowsWorker, BeforeCall
  <2>2. ExternalEffectAtMostOnce' /\ OutcomeTold'
    BY <1>3 DEF ExternalEffectAtMostOnce, OutcomeTold
  <2> QED
    BY <1>1, <1>2, <2>1, <2>2
<1>4. CASE /\ attemptAction[a] # NoAction /\ from \in BeforeCall /\ to = "agent"
           /\ invoked' = [invoked EXCEPT ![attemptAction[a]] = @ + 1]
  <2> DEFINE x == attemptAction[a]
  <2>1. /\ x \in Actions
        /\ invoked[x] = 0 /\ actionStatus[x] \in {"executing", "unknown"}
    BY <1>4 DEF CallFollowsWorker
  <2>2. \A y \in Actions : invoked'[y] = IF y = x THEN 1 ELSE invoked[y]
    BY <1>4, <2>1
  <2>3. CallFollowsWorker'
    <3> SUFFICES ASSUME NEW b \in Attempts, attemptAction[b] # NoAction
                 PROVE  /\ actionStatus[attemptAction[b]] \in
                             {"executing", "executed", "failed", "unknown"}
                        /\ worker'[b] \in BeforeCall =>
                             /\ actionStatus[attemptAction[b]] \in {"executing", "unknown"}
                             /\ invoked'[attemptAction[b]] = 0
                        /\ worker'[b] \in {"agent", "returned", "orphan"} =>
                             invoked'[attemptAction[b]] = 1
      BY DEF CallFollowsWorker
    <3>1. CASE b = a
      BY <1>4, <2>1, <2>2, <3>1 DEF CallFollowsWorker, BeforeCall
    <3>2. CASE b # a
      BY <1>4, <2>2, <3>2 DEF CallFollowsWorker, OneAttemptPerAction
    <3> QED
      BY <3>1, <3>2
  <2>4. ExternalEffectAtMostOnce' /\ OutcomeTold'
    BY <2>1, <2>2 DEF ExternalEffectAtMostOnce, OutcomeTold
  <2> QED
    BY <1>1, <1>2, <2>3, <2>4
<1> QED
  BY <1>3, <1>4

LEMMA CallCompleteTask ==
  ASSUME IInv, NEW a \in Attempts, NEW proposed \in SUBSET Actions, NEW status \in TaskStates,
         CompleteRuntimeTask(a, proposed, status)
  PROVE  CallInv'
<1> USE DEF CompleteRuntimeTask, ReleaseWorkLease, Goto, IInv, CallInv, TypeOK
<1>1. /\ attemptTask[a] \in Tasks /\ attemptAction[a] = NoAction
      /\ attemptStatus[a] # "absent"
      /\ status # "absent"
  BY DEF UsedAttempts, UnusedAttempts, ResultStatus
<1>2. \A x \in Actions : /\ x \in proposed => /\ actionStatus[x] = "absent"
                                              /\ actionStatus'[x] = "pending"
                         /\ x \notin proposed => actionStatus'[x] = actionStatus[x]
  OBVIOUS
<1>3. UnusedAttempts' /\ UsedAttempts' /\ OneAttemptPerAction'
  BY <1>1 DEF UnusedAttempts, UsedAttempts, OneAttemptPerAction
<1>4. CallFollowsWorker'
  BY <1>1, <1>2, RuntimeTaskAssumption DEF CallFollowsWorker
<1>5. OpenActionsAreCurrent'
  BY <1>1, <1>2 DEF OpenActionsAreCurrent, Tasks, NoTask
<1>6. ExternalEffectAtMostOnce' /\ OutcomeTold'
  BY <1>2 DEF ExternalEffectAtMostOnce, OutcomeTold
<1> QED
  BY <1>3, <1>4, <1>5, <1>6

LEMMA CallFailTask ==
  ASSUME IInv, NEW a \in Attempts, FailRuntimeTask(a)
  PROVE  CallInv'
<1> USE DEF FailRuntimeTask, Goto, IInv, CallInv, TypeOK, actionVars, leaseVars
<1>1. attemptAction[a] = NoAction /\ attemptStatus[a] # "absent"
  BY DEF UnusedAttempts, BeforeCall
<1>2. UnusedAttempts' /\ UsedAttempts' /\ OneAttemptPerAction'
  BY <1>1 DEF UnusedAttempts, UsedAttempts, OneAttemptPerAction, BeforeCall
<1>3. CallFollowsWorker'
  BY <1>1 DEF CallFollowsWorker
<1>4. OpenActionsAreCurrent'
  BY DEF OpenActionsAreCurrent
<1>5. ExternalEffectAtMostOnce' /\ OutcomeTold'
  BY DEF ExternalEffectAtMostOnce, OutcomeTold
<1> QED
  BY <1>2, <1>3, <1>4, <1>5

\* The end of an action attempt: its outcome agrees with the call.
LEMMA CallEndAction ==
  ASSUME IInv, NEW a \in Attempts,
         CompleteRuntimeAction(a) \/ FailRuntimeAction(a) \/ UnknownRuntimeAction(a)
  PROVE  CallInv'
<1> USE DEF Goto, IInv, CallInv, TypeOK, leaseVars
<1> DEFINE x == attemptAction[a]
<1>1. /\ x \in Actions /\ attemptStatus[a] # "absent" /\ worker[a] # "none"
  BY DEF CompleteRuntimeAction, FailRuntimeAction, UnknownRuntimeAction, UnusedAttempts, BeforeCall
<1>2. /\ UNCHANGED <<attemptTask, attemptAction, actionTask, actionVersion, taskVersion, lease,
                     invoked>>
      /\ worker' = [worker EXCEPT ![a] = "leaving"]
  BY DEF CompleteRuntimeAction, FailRuntimeAction, UnknownRuntimeAction, EndAction
<1>3. /\ \A y \in Actions \ {x} : actionStatus'[y] = actionStatus[y]
      /\ \/ actionStatus'[x] = actionStatus[x]
         \/ /\ actionStatus[x] = "executing"
            /\ \/ actionStatus'[x] = "executed" /\ invoked[x] = 1
               \/ actionStatus'[x] = "failed" /\ invoked[x] = 0
               \/ actionStatus'[x] = "unknown"
  BY <1>1 DEF CompleteRuntimeAction, FailRuntimeAction, UnknownRuntimeAction, EndAction,
     CallFollowsWorker
<1>4. \A t \in Tasks : taskStatus'[t] = "absent" => taskStatus[t] = "absent"
  BY DEF CompleteRuntimeAction, FailRuntimeAction, UnknownRuntimeAction, EndAction
<1>5. \A b \in Attempts : attemptStatus'[b] = "absent" => attemptStatus[b] = "absent"
  BY DEF CompleteRuntimeAction, FailRuntimeAction, UnknownRuntimeAction, EndAction
<1>6. UnusedAttempts' /\ UsedAttempts' /\ OneAttemptPerAction'
  BY <1>1, <1>2, <1>5 DEF UnusedAttempts, UsedAttempts, OneAttemptPerAction
<1>7. CallFollowsWorker'
  BY <1>1, <1>2, <1>3 DEF CallFollowsWorker, OneAttemptPerAction, BeforeCall
<1>8. OpenActionsAreCurrent'
  BY <1>2, <1>3, <1>4 DEF OpenActionsAreCurrent, NoTask
<1>9. ExternalEffectAtMostOnce' /\ OutcomeTold'
  BY <1>2, <1>3 DEF ExternalEffectAtMostOnce, OutcomeTold
<1> QED
  BY <1>6, <1>7, <1>8, <1>9

LEMMA CallWorker ==
  ASSUME IInv, NEW a \in Attempts,
         WorkerStep(a) \/ LoseOutcome(a) \/ LeaveUnreleased(a) \/ PassDeadline(a) \/ OrphanExits(a)
  PROVE  CallInv'
<1> USE DEF BeforeCall, WorkerStates
<1>1. CASE CheckPolicy(a) \/ LockWorkRoots(a) \/ RecheckPolicy(a)
  BY <1>1, StepKeepsCalls DEF CheckPolicy, LockWorkRoots, RecheckPolicy
<1>2. CASE Execute(a) \/ ExecuteConfirmedAction(a) \/ AgentReturns(a)
  BY <1>2, StepKeepsCalls DEF Execute, ExecuteConfirmedAction, AgentReturns
<1>3. CASE LoseOutcome(a) \/ LeaveUnreleased(a) \/ OrphanExits(a)
  BY <1>3, StepKeepsCalls DEF LoseOutcome, LeaveUnreleased, OrphanExits
<1>4. ASSUME NEW proposed \in SUBSET Actions, NEW status \in TaskStates,
             CompleteRuntimeTask(a, proposed, status)
      PROVE  CallInv'
  BY <1>4, CallCompleteTask
<1>5. CASE FailRuntimeTask(a)
  BY <1>5, CallFailTask
<1>6. CASE CompleteRuntimeAction(a) \/ FailRuntimeAction(a) \/ UnknownRuntimeAction(a)
  BY <1>6, CallEndAction
<1>7. CASE Leave(a)
  <2> USE <1>7 DEF Leave, ReleaseWorkLease, Goto, IInv, CallInv, TypeOK, taskVars, actionVars,
        attemptVars
  <2>1. UnusedAttempts' /\ UsedAttempts' /\ OneAttemptPerAction' /\ CallFollowsWorker'
    BY DEF UnusedAttempts, UsedAttempts, OneAttemptPerAction, CallFollowsWorker
  <2>2. OpenActionsAreCurrent' /\ ExternalEffectAtMostOnce' /\ OutcomeTold'
    BY DEF OpenActionsAreCurrent, ExternalEffectAtMostOnce, OutcomeTold
  <2> QED
    BY <2>1, <2>2
<1>8. CASE PassDeadline(a)
  BY <1>8, IdleKeepsCalls DEF PassDeadline, taskVars, actionVars, attemptVars, workerVars
<1> QED
  BY <1>1, <1>2, <1>3, <1>4, <1>5, <1>6, <1>7, <1>8 DEF WorkerStep

LEMMA CallProcess ==
  ASSUME IInv,
         \/ Crash \/ Recovery \/ StartAgain \/ RefuseLiveOwner
         \/ ObserveStopped \/ CancelRun \/ Drained
  PROVE  CallInv'
<1> USE DEF IInv, CallInv, TypeOK, taskVars, actionVars, attemptVars, leaseVars, workerVars
<1>1. CASE Crash
  <2>1. \A a \in Attempts : /\ worker'[a] = "none" <=> worker[a] = "none"
                            /\ worker'[a] \notin BeforeCall
                            /\ worker'[a] = "orphan" => worker[a] \in {"agent", "orphan"}
                            /\ worker'[a] \notin {"agent", "returned"}
    BY <1>1 DEF Crash, Live, BeforeCall, WorkerStates
  <2>2. UnusedAttempts' /\ UsedAttempts' /\ OneAttemptPerAction' /\ CallFollowsWorker'
    BY <1>1, <2>1 DEF Crash, UnusedAttempts, UsedAttempts, OneAttemptPerAction, CallFollowsWorker
  <2>3. OpenActionsAreCurrent' /\ ExternalEffectAtMostOnce' /\ OutcomeTold'
    BY <1>1 DEF Crash, OpenActionsAreCurrent, ExternalEffectAtMostOnce, OutcomeTold
  <2> QED
    BY <2>2, <2>3
<1>2. CASE Restart \/ StartRunning \/ StartAgain \/ RefuseLiveOwner \/ ObserveStopped
           \/ CancelRun \/ Drained
  BY <1>2, IdleKeepsCalls DEF Restart, StartRunning, StartAgain, RefuseLiveOwner, ObserveStopped,
     CancelRun, Drained, Move
<1>3. ASSUME NEW a \in Attempts, ReapDeadOwner(a) PROVE CallInv'
  <2>1. UnusedAttempts' /\ UsedAttempts' /\ OneAttemptPerAction' /\ CallFollowsWorker'
    BY <1>3 DEF ReapDeadOwner, ReleaseWorkLease, Held, UnusedAttempts, UsedAttempts,
       OneAttemptPerAction, CallFollowsWorker
  <2>2. OpenActionsAreCurrent' /\ ExternalEffectAtMostOnce' /\ OutcomeTold'
    BY <1>3 DEF ReapDeadOwner, OpenActionsAreCurrent, ExternalEffectAtMostOnce, OutcomeTold
  <2> QED
    BY <2>1, <2>2
<1>4. CASE RecoverRuntime
  <2>1. \A x \in Actions : actionStatus'[x] = IF actionStatus[x] = "executing" THEN "unknown"
                                              ELSE actionStatus[x]
    BY <1>4 DEF RecoverRuntime
  <2>2. /\ \A t \in Tasks : taskStatus'[t] = "absent" => taskStatus[t] = "absent"
        /\ \A a \in Attempts : attemptStatus'[a] = "absent" => attemptStatus[a] = "absent"
    BY <1>4 DEF RecoverRuntime, EndAttempts
  <2>3. UnusedAttempts' /\ UsedAttempts' /\ OneAttemptPerAction'
    BY <1>4, <2>2 DEF RecoverRuntime, UnusedAttempts, UsedAttempts, OneAttemptPerAction
  <2>4. CallFollowsWorker'
    BY <1>4, <2>1, RuntimeTaskAssumption DEF RecoverRuntime, CallFollowsWorker
  <2>5. OpenActionsAreCurrent'
    BY <1>4, <2>1, <2>2 DEF RecoverRuntime, OpenActionsAreCurrent, NoTask
  <2>6. ExternalEffectAtMostOnce' /\ OutcomeTold'
    BY <1>4, <2>1 DEF RecoverRuntime, ExternalEffectAtMostOnce, OutcomeTold
  <2> QED
    BY <2>3, <2>4, <2>5, <2>6
<1> QED
  BY <1>1, <1>2, <1>3, <1>4 DEF Recovery

LEMMA InvNext == IInv /\ [Next]_vars => IInv'
<1> SUFFICES ASSUME IInv, [Next]_vars PROVE IInv'
  OBVIOUS
<1>1. CASE UNCHANGED vars
  BY <1>1, IdleKeepsCalls DEF IInv, TypeOK, vars, taskVars, actionVars, attemptVars, leaseVars,
     workerVars, serviceVars
<1>2. CASE Next
  <2>1. TypeOK /\ UsedAttempts /\ OpenActionsAreCurrent
    BY DEF IInv, CallInv
  <2>2. TypeOK'
    BY <1>2, <2>1, TypeTaskEvent, TypeDecision, TypeClaim, TypeWorker, TypeRuntime, TypeProcess
       DEF Next
  <2>3. CallInv'
    BY <1>2, CallTaskEvent, CallDecision, CallClaimTask, CallClaimAction, CallWorker, CallRuntime,
       CallProcess DEF Next
  <2> QED
    BY <2>2, <2>3 DEF IInv
<1> QED
  BY <1>1, <1>2

THEOREM CallInvariant == Spec => []IInv
<1>1. Init => IInv
  BY TypeInit, CallInit DEF IInv
<1>2. IInv /\ [Next]_vars => IInv'
  BY InvNext
<1> QED
  BY <1>1, <1>2, PTL DEF Spec

\* No interleaving of the scheduler, the workers, the operators and restarts
\* gives a row a status, or a reference, that it cannot have.
THEOREM TypeCorrect == Spec => []TypeOK
<1>1. IInv => TypeOK
  BY DEF IInv
<1> QED
  BY <1>1, CallInvariant, PTL

\* Crashes, retries, edits, card clicks and operator commands never make the
\* external call of a confirmed action happen twice.
THEOREM EffectAtMostOnce == Spec => []ExternalEffectAtMostOnce
<1>1. IInv => ExternalEffectAtMostOnce
  BY DEF IInv, CallInv
<1> QED
  BY <1>1, CallInvariant, PTL

\* What the row of an action says of the outside world is true.
THEOREM OutcomeIsTold == Spec => []OutcomeTold
<1>1. IInv => OutcomeTold
  BY DEF IInv, CallInv
<1> QED
  BY <1>1, CallInvariant, PTL

\* No action of a superseded task version stays open.
THEOREM OldActionsAreSettled == Spec => []OldActionsSettled
<1>1. ASSUME IInv, NEW x \in Actions, actionStatus[x] # "absent",
             actionVersion[x] < taskVersion[actionTask[x]]
      PROVE  actionStatus[x] \notin {"pending", "confirmed", "executing"}
  <2>1. actionTask[x] \in Tasks
    BY <1>1 DEF IInv, CallInv, TypeOK, OpenActionsAreCurrent
  <2>2. actionVersion[x] # taskVersion[actionTask[x]]
    BY <1>1, <2>1 DEF IInv, TypeOK
  <2> QED
    BY <1>1, <2>2 DEF IInv, CallInv, OpenActionsAreCurrent
<1>2. IInv => OldActionsSettled
  BY <1>1 DEF OldActionsSettled
<1> QED
  BY <1>2, CallInvariant, PTL

----------------------------------------------------------------------------
(* RuntimeTask implements ConfirmedEffect. *)

\* What one transaction or step can do to an action and its calls.
Moves(x) ==
  LET old == actionStatus[x]
      new == actionStatus'[x]
  IN
  \/ /\ invoked'[x] = invoked[x]
     /\ \/ new = old
        \/ old = "absent" /\ new = "pending"
        \/ old = "pending" /\ new \in {"confirmed", "rejected", "stale"}
        \/ old = "confirmed" /\ new \in {"executing", "stale"}
        \/ old = "executing" /\ new = "unknown"
        \/ old = "executing" /\ new = "executed" /\ invoked[x] = 1
        \/ old = "executing" /\ new = "failed" /\ invoked[x] = 0
  \/ /\ new = old /\ old \in {"executing", "unknown"}
     /\ invoked[x] = 0 /\ invoked'[x] = 1

LEMMA MovesAreEffectSteps ==
  ASSUME TypeOK, TypeOK', \A x \in Actions : Moves(x)
  PROVE  Effect!EffectNext
<1>1. [x \in Actions |-> PhaseOf(actionStatus[x])]' \in [Actions -> Effect!Phases]
  BY DEF TypeOK, ActionStates, PhaseOf, Effect!Phases
<1>2. ASSUME NEW x \in Actions PROVE Effect!EffectStep(x)
  BY <1>2 DEF Moves, PhaseOf, TypeOK, ActionStates, Effect!EffectStep, Effect!Propose,
     Effect!Approve, Effect!Withdraw, Effect!Begin, Effect!Call, Effect!Succeed, Effect!Fail,
     Effect!GiveUp, Effect!Rest, Effect!Quiet
<1> QED
  BY <1>1, <1>2 DEF Effect!EffectNext, TypeOK

LEMMA SettlingMoves ==
  ASSUME TypeOK, NEW T, SettleActions(T), invoked' = invoked
  PROVE  \A x \in Actions : Moves(x)
  BY DEF TypeOK, SettleActions, Settle, ActionStates, Moves

LEMMA IdleMoves ==
  ASSUME actionStatus' = actionStatus, invoked' = invoked
  PROVE  \A x \in Actions : Moves(x)
  BY DEF Moves

LEMMA RowMoves ==
  ASSUME IInv,
         \/ \E t \in Tasks : TaskEvent(t) \/ \E a \in Attempts : ClaimRuntimeTask(a, t)
         \/ \E x \in Actions : \/ ConfirmRuntimeActionFromMessage(x) \/ WithdrawApproval(x)
                               \/ \E a \in Attempts : ClaimRuntimeAction(a, x)
         \/ SyncRuntimeMessages
         \/ \E status \in {"running", "paused", "stopped"} : SetRuntimeStatus(status)
         \/ \E d \in Declarations : CommitAppliedConfig(d)
         \/ \E d \in Declarations, status \in {rtStatus, "stopped"} :
              InvalidateRuntimeConfigWork(d, status)
  PROVE  \A y \in Actions : Moves(y)
<1> USE DEF IInv, actionVars, workerVars
<1>1. ASSUME NEW t \in Tasks, TaskEvent(t) PROVE \A y \in Actions : Moves(y)
  <2>1. ASSUME NEW status, NewVersion(t, status) PROVE \A y \in Actions : Moves(y)
    BY <2>1, SettlingMoves DEF NewVersion, staleRuntimeTaskWork
  <2>2. CASE PurgeSource(t)
    BY <2>2, SettlingMoves DEF PurgeSource
  <2>3. ASSUME NEW decision \in {"confirmed", "rejected"}, ConfirmRuntimeCard(t, decision)
        PROVE  \A y \in Actions : Moves(y)
    BY <2>3 DEF ConfirmRuntimeCard, Decidable, Moves, TypeOK
  <2>4. CASE EditSource(t) \/ RecallSource(t) \/ \E status \in NewTaskStatus : CreateTask(t, status)
    BY <2>4, IdleMoves DEF EditSource, RecallSource, CreateTask
  <2> QED
    BY <1>1, IdleMoves, <2>1, <2>2, <2>3, <2>4 DEF TaskEvent, UpdateTask, CloseTask, CancelTask,
      RetryTask,
       ResumeRuntimeTask
<1>2. ASSUME NEW t \in Tasks, NEW a \in Attempts, ClaimRuntimeTask(a, t)
      PROVE  \A y \in Actions : Moves(y)
  BY <1>2, IdleMoves DEF ClaimRuntimeTask, NewAttempt
<1>3. ASSUME NEW x \in Actions,
             \/ ConfirmRuntimeActionFromMessage(x) \/ WithdrawApproval(x)
             \/ \E a \in Attempts : ClaimRuntimeAction(a, x)
      PROVE  \A y \in Actions : Moves(y)
  BY <1>3 DEF ConfirmRuntimeActionFromMessage, Decidable, WithdrawApproval, ClaimRuntimeAction,
     NewAttempt, Moves, TypeOK
<1>4. CASE SyncRuntimeMessages
  <2>1. \E T \in SUBSET Tasks : SettleActions(T)
    BY <1>4 DEF SyncRuntimeMessages, staleRuntimeTaskWork
  <2> QED
    BY <1>4, <2>1, SettlingMoves DEF SyncRuntimeMessages
<1>5. CASE \E d \in Declarations, status \in {rtStatus, "stopped"} :
             InvalidateRuntimeConfigWork(d, status)
  BY <1>5, SettlingMoves DEF InvalidateRuntimeConfigWork, staleRuntimeTaskWork
<1>6. CASE \/ \E status \in {"running", "paused", "stopped"} : SetRuntimeStatus(status)
           \/ \E d \in Declarations : CommitAppliedConfig(d)
  BY <1>6, IdleMoves DEF SetRuntimeStatus, CommitAppliedConfig
<1> QED
  BY <1>1, <1>2, <1>3, <1>4, <1>5, <1>6

LEMMA WorkerMoves ==
  ASSUME IInv, NEW a \in Attempts,
         WorkerStep(a) \/ LoseOutcome(a) \/ LeaveUnreleased(a) \/ PassDeadline(a) \/ OrphanExits(a)
  PROVE  \A y \in Actions : Moves(y)
<1> USE DEF IInv, CallInv, TypeOK, actionVars, workerVars
<1>1. CASE \/ CheckPolicy(a) \/ LockWorkRoots(a) \/ RecheckPolicy(a) \/ Execute(a)
           \/ AgentReturns(a) \/ LoseOutcome(a) \/ LeaveUnreleased(a) \/ OrphanExits(a)
           \/ PassDeadline(a) \/ Leave(a) \/ FailRuntimeTask(a)
  BY <1>1, IdleMoves DEF CheckPolicy, LockWorkRoots, RecheckPolicy, Execute, AgentReturns,
     LoseOutcome, LeaveUnreleased, OrphanExits, Step, PassDeadline, Leave, FailRuntimeTask
<1>2. CASE ExecuteConfirmedAction(a)
  BY <1>2 DEF ExecuteConfirmedAction, Step, CallFollowsWorker, BeforeCall, Moves
<1>3. ASSUME NEW proposed \in SUBSET Actions, NEW status \in TaskStates,
             CompleteRuntimeTask(a, proposed, status)
      PROVE  \A y \in Actions : Moves(y)
  BY <1>3 DEF CompleteRuntimeTask, Moves
<1>4. CASE CompleteRuntimeAction(a) \/ FailRuntimeAction(a) \/ UnknownRuntimeAction(a)
  BY <1>4 DEF CompleteRuntimeAction, FailRuntimeAction, UnknownRuntimeAction, EndAction,
     CallFollowsWorker, Moves
<1> QED
  BY <1>1, <1>2, <1>3, <1>4 DEF WorkerStep

LEMMA ProcessMoves ==
  ASSUME IInv,
         \/ Crash \/ Recovery \/ StartAgain \/ RefuseLiveOwner
         \/ ObserveStopped \/ CancelRun \/ Drained
  PROVE  \A y \in Actions : Moves(y)
<1> USE DEF actionVars, workerVars
<1>1. CASE RecoverRuntime
  BY <1>1 DEF RecoverRuntime, IInv, TypeOK, Moves
<1>2. CASE Crash \/ \E a \in Attempts : ReapDeadOwner(a)
  BY <1>2, IdleMoves DEF Crash, ReapDeadOwner
<1>3. CASE Restart \/ StartRunning \/ StartAgain \/ RefuseLiveOwner \/ ObserveStopped
           \/ CancelRun \/ Drained
  BY <1>3, IdleMoves DEF Restart, StartRunning, StartAgain, RefuseLiveOwner, ObserveStopped,
     CancelRun, Drained, Move
<1> QED
  BY <1>1, <1>2, <1>3 DEF Recovery

\* Every behaviour of the runtime is one the promise to the owner allows.
THEOREM ImplementsConfirmedEffect == Spec => ConfirmedEffectImplemented
<1>1. Init => Effect!EffectInit
  BY DEF Init, PhaseOf, Effect!EffectInit
<1>2. IInv /\ IInv' /\ [Next]_vars => Effect!EffectNext
  <2> SUFFICES ASSUME IInv, IInv', [Next]_vars PROVE Effect!EffectNext
    OBVIOUS
  <2>1. CASE UNCHANGED vars
    BY <2>1, IdleMoves, MovesAreEffectSteps DEF IInv, vars, actionVars, workerVars
  <2>2. CASE Next
    <3>1. \A x \in Actions : Moves(x)
      BY <2>2, RowMoves, WorkerMoves, ProcessMoves DEF Next
    <3> QED
      BY <3>1, MovesAreEffectSteps DEF IInv
  <2> QED
    BY <2>1, <2>2
<1> QED
  BY <1>1, <1>2, CallInvariant, PTL DEF Spec, ConfirmedEffectImplemented, Effect!EffectSpec

----------------------------------------------------------------------------
(* Mutual exclusion and capacity of the Agent processes: leases, lanes and *)
(* write roots.                                                            *)


LiveSet == {a \in Attempts : worker[a] \in Live}

LEMMA IsolationInit == Init => IsolationInv
<1> SUFFICES ASSUME Init PROVE IsolationInv
  OBVIOUS
<1>1. LeasedWorkers /\ LeasesApart
  BY DEF Init, LeasedWorkers, LeasesApart, Live, BeforeCall
<1>2. {a \in Attempts : worker[a] \in Live} = {}
  BY DEF Init, Live, BeforeCall
<1>3. WorkersBounded
  BY <1>2, FS_EmptySet, RuntimeTaskAssumption DEF WorkersBounded
<1> QED
  BY <1>1, <1>3 DEF IsolationInv

LEMMA LiveSetFinite == IsFiniteSet(LiveSet) /\ Cardinality(LiveSet) \in Nat
  BY FS_Subset, FS_CardinalityType, RuntimeTaskAssumption DEF LiveSet

\* A step that brings no goroutine to life keeps their number bounded.
LEMMA FewerWorkersBounded ==
  ASSUME WorkersBounded, \A a \in Attempts : worker'[a] \in Live => worker[a] \in Live
  PROVE  WorkersBounded'
<1>1. LiveSet' \subseteq LiveSet
  BY DEF LiveSet
<1>2. Cardinality(LiveSet') <= Cardinality(LiveSet) /\ Cardinality(LiveSet') \in Nat
  BY <1>1, LiveSetFinite, FS_Subset, FS_CardinalityType
<1> QED
  BY <1>2, LiveSetFinite, RuntimeTaskAssumption DEF WorkersBounded, LiveSet

LEMMA UnleasedStep ==
  ASSUME IsolationInv, UNCHANGED <<lease, locks, ownerDead, worker, attemptTask>>
  PROVE  IsolationInv'
<1>1. LeasedWorkers' /\ LeasesApart'
  BY DEF IsolationInv, LeasedWorkers, LeasesApart
<1>2. WorkersBounded'
  BY FewerWorkersBounded DEF IsolationInv
<1> QED
  BY <1>1, <1>2 DEF IsolationInv

\* A new attempt on a free lane, within the capacity.
LEMMA ClaimIsolated ==
  ASSUME IInv, IsolationInv, NEW a \in Attempts, NEW t \in Tasks, NEW x, NewAttempt(a, t, x),
         Claiming, LaneFree(t), \A b \in Held : attemptTask[b] # t
  PROVE  IsolationInv'
<1> USE DEF IInv, CallInv, TypeOK, IsolationInv, NewAttempt, Goto
<1>1. worker[a] = "none" /\ lease[a] = "none" /\ a \notin locks /\ a \notin ownerDead
  BY DEF UnusedAttempts, LeasedWorkers
<1>2. LeasedWorkers'
  BY <1>1 DEF LeasedWorkers
<1>3. LeasesApart'
  <2> SUFFICES ASSUME NEW b \in Attempts, NEW c \in Attempts, b # c,
                      lease'[b] = "held", lease'[c] = "held"
               PROVE  /\ attemptTask'[b] # attemptTask'[c]
                      /\ Mode = "group_mention" => ~SameRequester(attemptTask'[b], attemptTask'[c])
                      /\ b \in locks' /\ c \in locks' =>
                           ~RootsConflict(attemptTask'[b], attemptTask'[c])
    BY DEF LeasesApart
  <2>1. CASE b # a /\ c # a
    BY <2>1 DEF LeasesApart
  <2>2. CASE b = a
    BY <1>1, <2>2 DEF Held, LaneFree, SameRequester
  <2>3. CASE c = a
    BY <1>1, <2>3 DEF Held, LaneFree, SameRequester
  <2> QED
    BY <2>1, <2>2, <2>3
<1>4. WorkersBounded'
  <2>1. LiveSet' = LiveSet \cup {a}
    BY <1>1 DEF LiveSet, Live, BeforeCall
  <2>2. a \notin LiveSet
    BY <1>1 DEF LiveSet, Live, BeforeCall
  <2>3. Cardinality(LiveSet') = Cardinality(LiveSet) + 1
    BY <2>1, <2>2, LiveSetFinite, FS_AddElement
  <2>4. Cardinality(LiveSet) < Concurrency
    BY DEF Claiming, CapacityLeft, LiveSet
  <2> QED
    BY <2>3, <2>4, LiveSetFinite, RuntimeTaskAssumption DEF WorkersBounded, LiveSet
<1> QED
  BY <1>2, <1>3, <1>4

\* A goroutine goes on, and may take the write roots that are free.
LEMMA PlaceIsolated ==
  ASSUME TypeOK, IsolationInv, NEW a \in Attempts, NEW to, Goto(a, to),
         UNCHANGED <<lease, ownerDead, attemptTask>>,
         to \in Live => worker[a] \in Live,
         to \in Live \ {"leaving"} => worker[a] \in Live \ {"leaving"},
         \/ locks' = locks
         \/ /\ locks' = locks \cup {a} /\ lease[a] = "held"
            /\ \A b \in locks \ {a} : ~RootsConflict(attemptTask[a], attemptTask[b]),
         Mode = "proactive" /\ to \in {"locked", "ready", "agent"} => a \in locks'
  PROVE  IsolationInv'
<1> USE DEF TypeOK, IsolationInv, Goto
<1>1. LeasedWorkers'
  BY DEF LeasedWorkers
<1>2. \A s, t : RootsConflict(s, t) <=> RootsConflict(t, s)
  BY DEF RootsConflict
<1>3. LeasesApart'
  BY <1>2 DEF LeasesApart
<1>4. WorkersBounded'
  BY FewerWorkersBounded
<1> QED
  BY <1>1, <1>3, <1>4

\* A lease goes when its goroutine is done or died with its process.
LEMMA ReleaseIsolated ==
  ASSUME TypeOK, IsolationInv, NEW a \in Attempts, ReleaseWorkLease(a), attemptTask' = attemptTask,
         \/ worker' = worker /\ a \in ownerDead
         \/ worker[a] \in Live /\ \E to \in {"leaving", "gone"} : Goto(a, to)
  PROVE  IsolationInv'
<1> USE DEF TypeOK, IsolationInv, Goto, ReleaseWorkLease
<1>1. LeasedWorkers'
  BY DEF LeasedWorkers, Live, BeforeCall
<1>2. LeasesApart'
  BY DEF LeasesApart
<1>3. WorkersBounded'
  BY FewerWorkersBounded DEF Live, BeforeCall
<1> QED
  BY <1>1, <1>2, <1>3

LEMMA WorkerIsolated ==
  ASSUME IInv, IsolationInv, NEW a \in Attempts,
         WorkerStep(a) \/ LoseOutcome(a) \/ LeaveUnreleased(a) \/ PassDeadline(a) \/ OrphanExits(a)
  PROVE  IsolationInv'
<1> USE DEF IInv, Live, BeforeCall, attemptVars
<1>1. CASE CheckPolicy(a)
  BY <1>1, PlaceIsolated DEF CheckPolicy, Step
<1>2. CASE LockWorkRoots(a)
  BY <1>2, PlaceIsolated DEF LockWorkRoots, RootsFree, CheckWorkLease, Step
<1>3. CASE RecheckPolicy(a)
  BY <1>3, PlaceIsolated DEF RecheckPolicy, Step, IsolationInv, LeasedWorkers
<1>4. CASE Execute(a) \/ ExecuteConfirmedAction(a)
  BY <1>4, PlaceIsolated DEF Execute, ExecuteConfirmedAction, Step, IsolationInv, LeasedWorkers
<1>5. CASE AgentReturns(a) \/ LoseOutcome(a) \/ LeaveUnreleased(a) \/ OrphanExits(a)
  BY <1>5, PlaceIsolated DEF AgentReturns, LoseOutcome, LeaveUnreleased, OrphanExits, Step
<1>6. CASE FailRuntimeTask(a)
  BY <1>6, PlaceIsolated DEF FailRuntimeTask, leaseVars
<1>7. CASE CompleteRuntimeAction(a)
  BY <1>7, PlaceIsolated DEF CompleteRuntimeAction, leaseVars
<1>8. CASE FailRuntimeAction(a) \/ UnknownRuntimeAction(a)
  BY <1>8, PlaceIsolated DEF FailRuntimeAction, UnknownRuntimeAction, EndAction, leaseVars
<1>9. ASSUME NEW proposed \in SUBSET Actions, NEW status \in TaskStates,
             CompleteRuntimeTask(a, proposed, status)
      PROVE  IsolationInv'
  BY <1>9, ReleaseIsolated DEF CompleteRuntimeTask
<1>10. CASE Leave(a)
  BY <1>10, ReleaseIsolated DEF Leave
<1>11. CASE PassDeadline(a)
  BY <1>11, UnleasedStep DEF PassDeadline, workerVars
<1> QED
  BY <1>1, <1>2, <1>3, <1>4, <1>5, <1>6, <1>7, <1>8, <1>9, <1>10, <1>11 DEF WorkerStep

LEMMA ProcessIsolated ==
  ASSUME IInv, IsolationInv,
         \/ Crash \/ Recovery \/ StartAgain \/ RefuseLiveOwner
         \/ ObserveStopped \/ CancelRun \/ Drained
  PROVE  IsolationInv'
<1> USE DEF attemptVars, leaseVars, workerVars
<1>1. CASE Crash
  <2>1. \A a \in Attempts : worker'[a] \notin Live
    BY <1>1 DEF Crash, Live, BeforeCall, IInv, TypeOK, WorkerStates
  <2>2. LeasedWorkers'
    BY <1>1, <2>1 DEF Crash, LeasedWorkers, IsolationInv, Held, Live, BeforeCall
  <2>3. LeasesApart'
    BY <1>1 DEF Crash, LeasesApart, IsolationInv
  <2>4. WorkersBounded'
    BY <2>1, FewerWorkersBounded DEF IsolationInv
  <2> QED
    BY <2>2, <2>3, <2>4 DEF IsolationInv
<1>2. CASE \E a \in Attempts : ReapDeadOwner(a)
  BY <1>2, ReleaseIsolated DEF ReapDeadOwner, IInv
<1>3. CASE RecoverRuntime
  BY <1>3, UnleasedStep DEF RecoverRuntime
<1>4. CASE Restart \/ StartRunning \/ StartAgain \/ RefuseLiveOwner \/ ObserveStopped
           \/ CancelRun \/ Drained
  BY <1>4, UnleasedStep DEF Restart, StartRunning, StartAgain, RefuseLiveOwner, ObserveStopped,
     CancelRun, Drained, Move
<1> QED
  BY <1>1, <1>2, <1>3, <1>4 DEF Recovery

LEMMA RowIsolated ==
  ASSUME IInv, IsolationInv,
         \/ \E t \in Tasks : TaskEvent(t) \/ \E a \in Attempts : ClaimRuntimeTask(a, t)
         \/ \E x \in Actions : \/ ConfirmRuntimeActionFromMessage(x) \/ WithdrawApproval(x)
                               \/ \E a \in Attempts : ClaimRuntimeAction(a, x)
         \/ SyncRuntimeMessages
         \/ \E status \in {"running", "paused", "stopped"} : SetRuntimeStatus(status)
         \/ \E d \in Declarations : CommitAppliedConfig(d)
         \/ \E d \in Declarations, status \in {rtStatus, "stopped"} :
              InvalidateRuntimeConfigWork(d, status)
  PROVE  IsolationInv'
<1> USE DEF attemptVars, leaseVars, workerVars
<1>1. ASSUME NEW t \in Tasks, TaskEvent(t) PROVE IsolationInv'
  BY <1>1, UnleasedStep DEF TaskEvent, CreateTask, UpdateTask, CloseTask, NewVersion, EditSource,
     RecallSource, PurgeSource, CancelTask, RetryTask, ResumeRuntimeTask, ConfirmRuntimeCard
<1>2. ASSUME NEW t \in Tasks, NEW a \in Attempts, ClaimRuntimeTask(a, t) PROVE IsolationInv'
  BY <1>2, ClaimIsolated DEF ClaimRuntimeTask
<1>3. ASSUME NEW x \in Actions, NEW a \in Attempts, ClaimRuntimeAction(a, x) PROVE IsolationInv'
  <2>1. actionTask[x] \in Tasks
    BY <1>3 DEF ClaimRuntimeAction, IInv, CallInv, OpenActionsAreCurrent, TypeOK
  <2> QED
    BY <1>3, <2>1, ClaimIsolated DEF ClaimRuntimeAction
<1>4. ASSUME NEW x \in Actions, ConfirmRuntimeActionFromMessage(x) \/ WithdrawApproval(x)
      PROVE  IsolationInv'
  BY <1>4, UnleasedStep DEF ConfirmRuntimeActionFromMessage, WithdrawApproval
<1>5. CASE \/ SyncRuntimeMessages
           \/ \E status \in {"running", "paused", "stopped"} : SetRuntimeStatus(status)
           \/ \E d \in Declarations : CommitAppliedConfig(d)
           \/ \E d \in Declarations, status \in {rtStatus, "stopped"} :
                InvalidateRuntimeConfigWork(d, status)
  BY <1>5, UnleasedStep DEF SyncRuntimeMessages, SetRuntimeStatus, CommitAppliedConfig,
     InvalidateRuntimeConfigWork
<1> QED
  BY <1>1, <1>2, <1>3, <1>4, <1>5

THEOREM IsolationInvariant == Spec => []IsolationInv
<1>1. Init => IsolationInv
  BY IsolationInit
<1>2. IInv /\ IsolationInv /\ [Next]_vars => IsolationInv'
  <2>1. IInv /\ IsolationInv /\ UNCHANGED vars => IsolationInv'
    BY UnleasedStep DEF vars, attemptVars, leaseVars, workerVars
  <2>2. IInv /\ IsolationInv /\ Next => IsolationInv'
    BY RowIsolated, WorkerIsolated, ProcessIsolated DEF Next
  <2> QED
    BY <2>1, <2>2
<1> QED
  BY <1>1, <1>2, CallInvariant, PTL DEF Spec

\* However tasks are cancelled, superseded, retried, failed or recovered while
\* their Agents still run: no two Agents of the service process share a task,
\* a group requester or a write root.
THEOREM AgentsAreIsolated == Spec => []AgentsIsolated
<1>1. IsolationInv => AgentsIsolated
  BY DEF IsolationInv, LeasedWorkers, LeasesApart, AgentsIsolated, AgentOf, Live, BeforeCall
<1> QED
  BY <1>1, IsolationInvariant, PTL

\* The service never runs more Agents than execution_concurrency allows.
THEOREM AgentsAreBounded == Spec => []AgentsBounded
<1>1. ASSUME IsolationInv PROVE AgentsBounded
  <2> DEFINE agents == {a \in Attempts : AgentOf(a)}
  <2>1. agents \subseteq LiveSet
    BY DEF AgentOf, LiveSet, Live, BeforeCall
  <2>2. Cardinality(agents) <= Cardinality(LiveSet) /\ Cardinality(agents) \in Nat
    BY <2>1, LiveSetFinite, FS_Subset, FS_CardinalityType
  <2> QED
    BY <1>1, <2>2, LiveSetFinite, RuntimeTaskAssumption
       DEF IsolationInv, WorkersBounded, AgentsBounded, LiveSet
<1> QED
  BY <1>1, IsolationInvariant, PTL

----------------------------------------------------------------------------
(* What was decided stands.  A task is claimed once per version, so that a *)
(* late failure that finds its task running at its own version is the one  *)
(* of the attempt that runs it.                                            *)

TaskAttempts ==
  \A a \in Attempts : attemptStatus[a] # "absent" /\ attemptAction[a] = NoAction =>
    /\ attemptTask[a] \in Tasks
    /\ attemptVersion[a] <= taskVersion[attemptTask[a]]
    /\ taskStatus[attemptTask[a]] # "absent"
    /\ attemptVersion[a] = taskVersion[attemptTask[a]] =>
         /\ taskStatus[attemptTask[a]] \notin {"pending", "clarification"}
         /\ taskStatus[attemptTask[a]] = "running" => attemptStatus[a] = "running"

\* What one transaction or step can do to a task of the same version.
TaskMoves(t) ==
  LET old == taskStatus[t]
      new == taskStatus'[t]
  IN
  \/ new = old
  \/ taskVersion[t] + 1 = taskVersion'[t]
  \/ old = "absent" /\ new \in {"pending", "clarification"}
  \/ old = "pending" /\ new = "running"
  \/ old = "running" /\ new \in {"awaiting_confirmation", "completed", "blocked", "failed"}
  \/ old = "awaiting_confirmation"
     /\ new \in {"completed", "cancelled", "action_failed", "action_unknown"}

\* ... and to an attempt.
AttemptMoves(a) ==
  LET old == attemptStatus[a]
      new == attemptStatus'[a]
  IN
  \/ new = old
  \/ old = "absent" /\ new = "running"
  \/ old = "running" /\ new \in {"completed", "failed", "stale", "unknown"}

Moved == (\A t \in Tasks : TaskMoves(t)) /\ (\A a \in Attempts : AttemptMoves(a))


LEMMA NewVersionMoves ==
  ASSUME TypeOK, TaskAttempts, NEW t \in Tasks, NEW status, status # "absent",
         NewVersion(t, status)
  PROVE  TaskAttempts' /\ Moved
<1> USE DEF TypeOK
<1>1. /\ taskStatus' = [taskStatus EXCEPT ![t] = status]
      /\ taskVersion' = [taskVersion EXCEPT ![t] = taskVersion[t] + 1]
      /\ UNCHANGED <<attemptTask, attemptAction, attemptVersion>>
  BY DEF NewVersion
<1>2. attemptStatus' = [a \in Attempts |->
         IF attemptTask[a] \in {t} /\ attemptStatus[a] = "running"
           THEN IF attemptAction[a] = NoAction THEN "stale" ELSE "unknown"
           ELSE attemptStatus[a]]
  BY DEF NewVersion, staleRuntimeTaskWork, EndAttempts
<1>3. \A a \in Attempts : AttemptMoves(a)
  BY <1>2 DEF AttemptMoves
<1>4. \A s \in Tasks : TaskMoves(s)
  BY <1>1 DEF TaskMoves
<1>5. TaskAttempts'
  <2> SUFFICES ASSUME NEW a \in Attempts, attemptStatus'[a] # "absent", attemptAction[a] = NoAction
               PROVE  /\ attemptTask[a] \in Tasks
                      /\ attemptVersion[a] <= taskVersion'[attemptTask[a]]
                      /\ taskStatus'[attemptTask[a]] # "absent"
                      /\ attemptVersion[a] = taskVersion'[attemptTask[a]] =>
                           /\ taskStatus'[attemptTask[a]] \notin {"pending", "clarification"}
                           /\ taskStatus'[attemptTask[a]] = "running"
                              => attemptStatus'[a] = "running"
    BY <1>1 DEF TaskAttempts
  <2>1. attemptStatus[a] # "absent"
    BY <1>2
  <2>2. /\ attemptTask[a] \in Tasks
        /\ attemptVersion[a] <= taskVersion[attemptTask[a]]
        /\ taskStatus[attemptTask[a]] # "absent"
        /\ attemptVersion[a] = taskVersion[attemptTask[a]] =>
             /\ taskStatus[attemptTask[a]] \notin {"pending", "clarification"}
             /\ taskStatus[attemptTask[a]] = "running" => attemptStatus[a] = "running"
    BY <2>1 DEF TaskAttempts
  <2>3. CASE attemptTask[a] = t
    BY <1>1, <2>2, <2>3
  <2>4. CASE attemptTask[a] # t
    BY <1>1, <1>2, <2>2, <2>4
  <2> QED
    BY <2>3, <2>4
<1> QED
  BY <1>3, <1>4, <1>5 DEF Moved

\* A step that leaves the tasks, the versions and the attempts alone.
LEMMA IdleStands ==
  ASSUME TaskAttempts,
         UNCHANGED <<taskStatus, taskVersion, attemptStatus, attemptTask, attemptAction,
                     attemptVersion>>
  PROVE  TaskAttempts' /\ Moved
  BY DEF TaskAttempts, Moved, TaskMoves, AttemptMoves

LEMMA TaskEventStands ==
  ASSUME TypeOK, TaskAttempts, NEW t \in Tasks, TaskEvent(t)
  PROVE  TaskAttempts' /\ Moved
<1> USE DEF actionVars, attemptVars, leaseVars, workerVars, serviceVars
<1>1. ASSUME NEW status \in NewTaskStatus, CreateTask(t, status) PROVE TaskAttempts' /\ Moved
  <2>1. /\ taskStatus[t] = "absent" /\ status \in {"pending", "clarification"}
        /\ taskStatus' = [taskStatus EXCEPT ![t] = status]
        /\ taskVersion' = [taskVersion EXCEPT ![t] = 1]
        /\ UNCHANGED <<attemptStatus, attemptTask, attemptAction, attemptVersion>>
    BY <1>1 DEF CreateTask, NewTaskStatus
  <2>2. \A s \in Tasks : TaskMoves(s)
    BY <2>1 DEF TypeOK, TaskMoves
  <2>3. \A a \in Attempts : attemptStatus[a] # "absent" /\ attemptAction[a] = NoAction =>
          attemptTask[a] # t
    BY <2>1 DEF TaskAttempts
  <2>4. TaskAttempts'
    BY <2>1, <2>3 DEF TypeOK, TaskAttempts
  <2> QED
    BY <2>1, <2>2, <2>4 DEF Moved, AttemptMoves
<1>2. CASE \E status \in NewTaskStatus : UpdateTask(t, status)
  BY <1>2, NewVersionMoves DEF UpdateTask, NewTaskStatus
<1>3. CASE \E status \in {"completed", "cancelled"} : CloseTask(t, status)
  BY <1>3, NewVersionMoves, IdleStands DEF CloseTask
<1>4. CASE EditSource(t) \/ RecallSource(t) \/ PurgeSource(t)
  BY <1>4, IdleStands DEF EditSource, RecallSource, PurgeSource
<1>5. CASE CancelTask(t) \/ RetryTask(t) \/ ResumeRuntimeTask(t)
  BY <1>5, NewVersionMoves DEF CancelTask, RetryTask, ResumeRuntimeTask
<1>6. ASSUME NEW decision \in {"confirmed", "rejected"}, ConfirmRuntimeCard(t, decision)
      PROVE  TaskAttempts' /\ Moved
  <2>1. PICK x \in Actions : actionTask[x] = t /\ Decidable(x)
    BY <1>6 DEF ConfirmRuntimeCard, ActionsOf, OpenAction
  <2>2. taskStatus[t] = "awaiting_confirmation"
    BY <2>1 DEF Decidable
  <2>3. /\ taskStatus' = taskStatus \/ taskStatus' = [taskStatus EXCEPT ![t] = "cancelled"]
        /\ UNCHANGED <<taskVersion, attemptStatus, attemptTask, attemptAction, attemptVersion>>
    BY <1>6 DEF ConfirmRuntimeCard
  <2>4. Moved
    BY <2>2, <2>3 DEF TypeOK, Moved, TaskMoves, AttemptMoves
  <2>5. TaskAttempts'
    BY <2>2, <2>3 DEF TypeOK, TaskAttempts
  <2> QED
    BY <2>4, <2>5
<1> QED
  BY <1>1, <1>2, <1>3, <1>4, <1>5, <1>6 DEF TaskEvent

LEMMA ClaimStands ==
  ASSUME TypeOK, TaskAttempts, NEW t \in Tasks, NEW a \in Attempts,
         \/ ClaimRuntimeTask(a, t)
         \/ \E x \in Actions : ClaimRuntimeAction(a, x) /\ actionTask[x] = t
  PROVE  TaskAttempts' /\ Moved
<1> USE DEF actionVars, serviceVars, taskVars
<1>1. CASE ClaimRuntimeTask(a, t)
  <2>1. /\ taskStatus[t] = "pending" /\ attemptStatus[a] = "absent"
        /\ taskStatus' = [taskStatus EXCEPT ![t] = "running"]
        /\ attemptStatus' = [attemptStatus EXCEPT ![a] = "running"]
        /\ attemptTask' = [attemptTask EXCEPT ![a] = t]
        /\ attemptAction' = [attemptAction EXCEPT ![a] = NoAction]
        /\ attemptVersion' = [attemptVersion EXCEPT ![a] = taskVersion[t]]
        /\ UNCHANGED taskVersion
    BY <1>1 DEF ClaimRuntimeTask, NewAttempt
  <2>2. Moved
    BY <2>1 DEF TypeOK, Moved, TaskMoves, AttemptMoves
  <2>3. \A b \in Attempts : attemptStatus[b] # "absent" /\ attemptAction[b] = NoAction =>
          attemptTask[b] # t \/ attemptVersion[b] # taskVersion[t]
    BY <2>1 DEF TaskAttempts
  <2>4. TaskAttempts'
    <3> SUFFICES ASSUME NEW b \in Attempts, attemptStatus'[b] # "absent", attemptAction'[b] = NoAction
                 PROVE  /\ attemptTask'[b] \in Tasks
                        /\ attemptVersion'[b] <= taskVersion[attemptTask'[b]]
                        /\ taskStatus'[attemptTask'[b]] # "absent"
                        /\ attemptVersion'[b] = taskVersion[attemptTask'[b]] =>
                             /\ taskStatus'[attemptTask'[b]] \notin {"pending", "clarification"}
                             /\ taskStatus'[attemptTask'[b]] = "running" =>
                                  attemptStatus'[b] = "running"
      BY <2>1 DEF TaskAttempts
    <3>1. CASE b = a
      BY <2>1, <3>1 DEF TypeOK
    <3>2. CASE b # a
      BY <2>1, <2>3, <3>2 DEF TypeOK, TaskAttempts
    <3> QED
      BY <3>1, <3>2
  <2> QED
    BY <2>2, <2>4
<1>2. CASE \E x \in Actions : ClaimRuntimeAction(a, x) /\ actionTask[x] = t
  <2>1. PICK x \in Actions : ClaimRuntimeAction(a, x) /\ actionTask[x] = t
    BY <1>2
  <2>2. /\ attemptStatus[a] = "absent"
        /\ attemptStatus' = [attemptStatus EXCEPT ![a] = "running"]
        /\ attemptTask' = [attemptTask EXCEPT ![a] = t]
        /\ attemptAction' = [attemptAction EXCEPT ![a] = x]
        /\ attemptVersion' = [attemptVersion EXCEPT ![a] = taskVersion[t]]
        /\ UNCHANGED <<taskStatus, taskVersion>>
    BY <2>1 DEF ClaimRuntimeAction, NewAttempt
  <2>3. Moved
    BY <2>2 DEF TypeOK, Moved, TaskMoves, AttemptMoves
  <2>4. x # NoAction
    BY RuntimeTaskAssumption
  <2>5. TaskAttempts'
    BY <2>2, <2>4 DEF TypeOK, TaskAttempts
  <2> QED
    BY <2>3, <2>5
<1> QED
  BY <1>1, <1>2

LEMMA WorkerStands ==
  ASSUME IInv, TaskAttempts, NEW a \in Attempts,
         WorkerStep(a) \/ LoseOutcome(a) \/ LeaveUnreleased(a) \/ PassDeadline(a) \/ OrphanExits(a)
  PROVE  TaskAttempts' /\ Moved
<1> USE DEF attemptVars, actionVars, workerVars, taskVars, leaseVars, serviceVars
<1>0. TypeOK /\ UnusedAttempts /\ UsedAttempts
        /\ (worker[a] # "none" => attemptStatus[a] # "absent")
  BY DEF IInv, CallInv, UnusedAttempts
<1>1. CASE \/ CheckPolicy(a) \/ LockWorkRoots(a) \/ RecheckPolicy(a) \/ Execute(a)
           \/ ExecuteConfirmedAction(a) \/ AgentReturns(a) \/ LoseOutcome(a)
           \/ LeaveUnreleased(a) \/ OrphanExits(a) \/ PassDeadline(a) \/ Leave(a)
  BY <1>1, IdleStands DEF CheckPolicy, LockWorkRoots, RecheckPolicy, Execute,
     ExecuteConfirmedAction, AgentReturns, LoseOutcome, LeaveUnreleased, OrphanExits, Step,
     PassDeadline, Leave
<1>2. ASSUME NEW proposed \in SUBSET Actions, NEW status \in TaskStates,
             CompleteRuntimeTask(a, proposed, status)
      PROVE  TaskAttempts' /\ Moved
  <2>1. /\ attemptAction[a] = NoAction /\ worker[a] = "returned"
        /\ taskStatus[attemptTask[a]] = "running" /\ attemptStatus[a] = "running"
        /\ status \in {"completed", "awaiting_confirmation", "blocked"}
        /\ taskStatus' = [taskStatus EXCEPT ![attemptTask[a]] = status]
        /\ attemptStatus' = [attemptStatus EXCEPT ![a] = "completed"]
        /\ UNCHANGED <<taskVersion, attemptTask, attemptAction, attemptVersion>>
    BY <1>2 DEF CompleteRuntimeTask, PolicyCurrent, ResultStatus
  <2>2. Moved
    BY <1>0, <2>1 DEF TypeOK, Moved, TaskMoves, AttemptMoves
  <2>3. TaskAttempts'
    BY <1>0, <2>1 DEF TypeOK, TaskAttempts
  <2> QED
    BY <2>2, <2>3
<1>3. CASE FailRuntimeTask(a)
  <2>1. CASE ~StillRuns(a)
    BY <1>3, <2>1, IdleStands DEF FailRuntimeTask
  <2>2. CASE StillRuns(a)
    <3>1. /\ attemptAction[a] = NoAction /\ worker[a] # "none"
          /\ taskStatus[attemptTask[a]] = "running"
          /\ taskVersion[attemptTask[a]] = attemptVersion[a]
          /\ taskStatus' = [taskStatus EXCEPT ![attemptTask[a]] = "failed"]
          /\ attemptStatus' = [attemptStatus EXCEPT ![a] = "failed"]
          /\ UNCHANGED <<taskVersion, attemptTask, attemptAction, attemptVersion>>
      BY <1>3, <2>2 DEF FailRuntimeTask, StillRuns, BeforeCall
    <3>2. attemptStatus[a] = "running"
      BY <1>0, <3>1 DEF TaskAttempts
    <3>3. Moved
      BY <1>0, <3>1, <3>2 DEF TypeOK, Moved, TaskMoves, AttemptMoves
    <3>4. TaskAttempts'
      BY <1>0, <3>1 DEF TypeOK, TaskAttempts
    <3> QED
      BY <3>3, <3>4
  <2> QED
    BY <2>1, <2>2
<1>4. CASE CompleteRuntimeAction(a)
  <2>1. /\ attemptAction[a] # NoAction /\ attemptStatus[a] = "running"
        /\ attemptStatus' = [attemptStatus EXCEPT ![a] = "completed"]
        /\ \/ taskStatus' = taskStatus
           \/ /\ taskStatus[attemptTask[a]] = "awaiting_confirmation"
              /\ taskStatus' = [taskStatus EXCEPT ![attemptTask[a]] = "completed"]
        /\ UNCHANGED <<taskVersion, attemptTask, attemptAction, attemptVersion>>
    BY <1>4 DEF CompleteRuntimeAction, PolicyCurrent
  <2>2. Moved
    BY <1>0, <2>1 DEF TypeOK, Moved, TaskMoves, AttemptMoves
  <2>3. TaskAttempts'
    BY <1>0, <2>1 DEF TypeOK, TaskAttempts
  <2> QED
    BY <2>2, <2>3
<1>5. CASE FailRuntimeAction(a) \/ UnknownRuntimeAction(a)
  <2>1. PICK outcome \in {"failed", "unknown"}, onTask \in {"action_failed", "action_unknown"} :
          EndAction(a, outcome, onTask)
    BY <1>5 DEF FailRuntimeAction, UnknownRuntimeAction
  <2>2. attemptAction[a] # NoAction
    BY <1>5 DEF FailRuntimeAction, UnknownRuntimeAction
  <2>3. /\ \/ attemptStatus' = attemptStatus
           \/ /\ attemptStatus[a] = "running"
              /\ attemptStatus' = [attemptStatus EXCEPT ![a] = outcome]
        /\ \/ taskStatus' = taskStatus
           \/ /\ taskStatus[attemptTask[a]] = "awaiting_confirmation"
              /\ taskStatus' = [taskStatus EXCEPT ![attemptTask[a]] = onTask]
        /\ UNCHANGED <<taskVersion, attemptTask, attemptAction, attemptVersion>>
    BY <2>1 DEF EndAction
  <2>4. Moved
    BY <1>0, <2>3 DEF TypeOK, Moved, TaskMoves, AttemptMoves
  <2>5. TaskAttempts'
    BY <1>0, <2>2, <2>3 DEF TypeOK, TaskAttempts
  <2> QED
    BY <2>4, <2>5
<1> QED
  BY <1>1, <1>2, <1>3, <1>4, <1>5 DEF WorkerStep

\* The transactions that settle the work of several tasks.
LEMMA ManyStand ==
  ASSUME TypeOK, TaskAttempts,
         \/ SyncRuntimeMessages \/ RecoverRuntime
         \/ \E d \in Declarations, status \in {rtStatus, "stopped"} :
              InvalidateRuntimeConfigWork(d, status)
  PROVE  TaskAttempts' /\ Moved
<1> USE DEF TypeOK
<1>1. PICK T \in SUBSET Tasks, onTask \in {"stale", "failed"} :
        /\ attemptStatus' = [a \in Attempts |->
             IF attemptTask[a] \in T /\ attemptStatus[a] = "running"
               THEN IF attemptAction[a] = NoAction THEN onTask ELSE "unknown"
               ELSE attemptStatus[a]]
        /\ \A t \in Tasks :
             \/ taskStatus'[t] = taskStatus[t] /\ taskVersion'[t] = taskVersion[t]
                /\ (taskStatus[t] = "running" => t \notin T)
             \/ /\ taskStatus'[t] \in {"stale", "cancelled"}
                /\ taskVersion'[t] = taskVersion[t] + 1
             \/ /\ taskStatus[t] = "running" /\ taskStatus'[t] = "failed"
                /\ taskVersion'[t] = taskVersion[t]
             \/ /\ taskStatus[t] = "awaiting_confirmation" /\ taskStatus'[t] = "action_unknown"
                /\ taskVersion'[t] = taskVersion[t]
  <2>1. CASE SyncRuntimeMessages
    <3>1. PICK changed \in SUBSET {t \in Tasks : source[t] \in {"edited", "recalled"}} :
            LET hit == {t \in changed : taskStatus[t] # "cancelled"} IN
            /\ taskStatus' = [t \in Tasks |->
                 IF t \notin hit THEN taskStatus[t]
                 ELSE IF source[t] = "edited" THEN "stale" ELSE "cancelled"]
            /\ taskVersion' = [t \in Tasks |-> IF t \in hit THEN taskVersion[t] + 1
               ELSE taskVersion[t]]
            /\ staleRuntimeTaskWork(hit)
      BY <2>1 DEF SyncRuntimeMessages
    <3>2. PICK hit \in SUBSET Tasks :
            /\ taskStatus' = [t \in Tasks |->
                 IF t \notin hit THEN taskStatus[t]
                 ELSE IF source[t] = "edited" THEN "stale" ELSE "cancelled"]
            /\ taskVersion' = [t \in Tasks |-> IF t \in hit THEN taskVersion[t] + 1
               ELSE taskVersion[t]]
            /\ staleRuntimeTaskWork(hit)
      BY <3>1
    <3> WITNESS hit \in SUBSET Tasks, "stale" \in {"stale", "failed"}
    <3> QED
      BY <3>2 DEF staleRuntimeTaskWork, EndAttempts
  <2>2. CASE RecoverRuntime
    <3> WITNESS Tasks \in SUBSET Tasks, "failed" \in {"stale", "failed"}
    <3> QED
      BY <2>2 DEF RecoverRuntime, EndAttempts
  <2>3. CASE \E d \in Declarations, status \in {rtStatus, "stopped"} :
               InvalidateRuntimeConfigWork(d, status)
    <3>1. PICK hit \in SUBSET Tasks :
            /\ \A t \in Tasks : taskStatus[t] = "running" => t \in hit
            /\ taskStatus' = [t \in Tasks |-> IF t \in hit THEN "stale" ELSE taskStatus[t]]
            /\ taskVersion' = [t \in Tasks |-> IF t \in hit THEN taskVersion[t] + 1
               ELSE taskVersion[t]]
            /\ staleRuntimeTaskWork(Tasks)
      BY <2>3 DEF InvalidateRuntimeConfigWork
    <3> WITNESS Tasks \in SUBSET Tasks, "stale" \in {"stale", "failed"}
    <3> QED
      BY <3>1 DEF staleRuntimeTaskWork, EndAttempts
  <2> QED
    BY <2>1, <2>2, <2>3
<1>2. \A a \in Attempts : AttemptMoves(a)
  BY <1>1 DEF AttemptMoves
<1>3. UNCHANGED <<attemptTask, attemptAction, attemptVersion>>
  BY DEF SyncRuntimeMessages, RecoverRuntime, InvalidateRuntimeConfigWork
<1>4. \A t \in Tasks : TaskMoves(t)
  BY <1>1 DEF TaskMoves
<1>5. TaskAttempts'
  <2> SUFFICES ASSUME NEW a \in Attempts, attemptStatus'[a] # "absent", attemptAction[a] = NoAction
               PROVE  /\ attemptTask[a] \in Tasks
                      /\ attemptVersion[a] <= taskVersion'[attemptTask[a]]
                      /\ taskStatus'[attemptTask[a]] # "absent"
                      /\ attemptVersion[a] = taskVersion'[attemptTask[a]] =>
                           /\ taskStatus'[attemptTask[a]] \notin {"pending", "clarification"}
                           /\ taskStatus'[attemptTask[a]] = "running"
                              => attemptStatus'[a] = "running"
    BY <1>3 DEF TaskAttempts
  <2>1. attemptStatus[a] # "absent"
    BY <1>1
  <2>2. /\ attemptTask[a] \in Tasks
        /\ attemptVersion[a] <= taskVersion[attemptTask[a]]
        /\ taskStatus[attemptTask[a]] # "absent"
        /\ attemptVersion[a] = taskVersion[attemptTask[a]] =>
             /\ taskStatus[attemptTask[a]] \notin {"pending", "clarification"}
             /\ taskStatus[attemptTask[a]] = "running" => attemptStatus[a] = "running"
    BY <2>1 DEF TaskAttempts
  <2>3. PICK t \in Tasks : t = attemptTask[a]
    BY <2>2
  <2>4. \/ taskStatus'[t] = taskStatus[t] /\ taskVersion'[t] = taskVersion[t]
           /\ (taskStatus[t] = "running" => t \notin T)
        \/ /\ taskStatus'[t] \in {"stale", "cancelled"}
           /\ taskVersion'[t] = taskVersion[t] + 1
        \/ /\ taskStatus[t] = "running" /\ taskStatus'[t] = "failed"
           /\ taskVersion'[t] = taskVersion[t]
        \/ /\ taskStatus[t] = "awaiting_confirmation" /\ taskStatus'[t] = "action_unknown"
           /\ taskVersion'[t] = taskVersion[t]
    BY <1>1
  <2> QED
    BY <1>1, <2>2, <2>3, <2>4
<1> QED
  BY <1>2, <1>4, <1>5 DEF Moved

LEMMA NextStands == IInv /\ TaskAttempts /\ [Next]_vars => TaskAttempts' /\ Moved
<1> SUFFICES ASSUME IInv, TaskAttempts, [Next]_vars PROVE TaskAttempts' /\ Moved
  OBVIOUS
<1> USE DEF actionVars, attemptVars, leaseVars, workerVars, serviceVars, taskVars
<1>0. TypeOK
  BY DEF IInv
<1>1. CASE \E t \in Tasks : TaskEvent(t) \/ \E a \in Attempts : ClaimRuntimeTask(a, t)
  BY <1>0, <1>1, TaskEventStands, ClaimStands
<1>2. ASSUME NEW x \in Actions,
             \/ ConfirmRuntimeActionFromMessage(x) \/ WithdrawApproval(x)
             \/ \E a \in Attempts : ClaimRuntimeAction(a, x)
      PROVE  TaskAttempts' /\ Moved
  <2>1. CASE ConfirmRuntimeActionFromMessage(x) \/ WithdrawApproval(x)
    BY <2>1, IdleStands DEF ConfirmRuntimeActionFromMessage, WithdrawApproval
  <2>2. ASSUME NEW a \in Attempts, ClaimRuntimeAction(a, x) PROVE TaskAttempts' /\ Moved
    <3>1. actionTask[x] \in Tasks
      BY <1>0, <2>2 DEF ClaimRuntimeAction, IInv, CallInv, OpenActionsAreCurrent, TypeOK
    <3> QED
      BY <1>0, <2>2, <3>1, ClaimStands
  <2> QED
    BY <1>2, <2>1, <2>2
<1>3. CASE \E a \in Attempts : \/ WorkerStep(a) \/ LoseOutcome(a) \/ LeaveUnreleased(a)
                               \/ PassDeadline(a) \/ OrphanExits(a)
  BY <1>3, WorkerStands
<1>4. CASE \/ SyncRuntimeMessages \/ RecoverRuntime
           \/ \E d \in Declarations, status \in {rtStatus, "stopped"} :
                InvalidateRuntimeConfigWork(d, status)
  BY <1>0, <1>4, ManyStand
<1>5. CASE \/ \E status \in {"running", "paused", "stopped"} : SetRuntimeStatus(status)
           \/ \E d \in Declarations : CommitAppliedConfig(d)
           \/ Crash \/ Restart \/ StartRunning \/ StartAgain \/ RefuseLiveOwner \/ ObserveStopped
           \/ CancelRun \/ Drained \/ \E a \in Attempts : ReapDeadOwner(a)
  BY <1>5, IdleStands DEF SetRuntimeStatus, CommitAppliedConfig, Crash, Restart, StartRunning,
     StartAgain, RefuseLiveOwner, ObserveStopped, CancelRun, Drained, Move, ReapDeadOwner
<1>6. CASE UNCHANGED vars
  BY <1>6, IdleStands DEF vars
<1> QED
  BY <1>1, <1>2, <1>3, <1>4, <1>5, <1>6 DEF Next, Recovery

LEMMA NextMoves == IInv /\ [Next]_vars => \A x \in Actions : Moves(x)
<1>1. CASE UNCHANGED vars
  BY <1>1, IdleMoves DEF vars, actionVars, workerVars
<1>2. CASE Next
  BY <1>2, RowMoves, WorkerMoves, ProcessMoves DEF Next
<1> QED
  BY <1>1, <1>2

LEMMA Ranks ==
  /\ TaskRank("absent") = 0 /\ TaskRank("pending") = 1 /\ TaskRank("clarification") = 1
  /\ TaskRank("running") = 2 /\ TaskRank("awaiting_confirmation") = 3
  /\ \A s \in {"completed", "blocked", "failed", "cancelled", "action_failed", "action_unknown"} :
       TaskRank(s) = 4
  /\ ActionRank("absent") = 0 /\ ActionRank("pending") = 1 /\ ActionRank("confirmed") = 2
  /\ ActionRank("executing") = 3
  /\ \A s \in {"rejected", "stale", "executed", "failed", "unknown"} : ActionRank(s) = 4
  /\ AttemptRank("absent") = 0 /\ AttemptRank("running") = 1
  /\ \A s \in {"completed", "failed", "stale", "unknown"} : AttemptRank(s) = 2
BY DEF TaskRank, ActionRank, AttemptRank

\* Nothing that was decided of a task, an action or an attempt is taken back by
\* a late result, failure or recovery (runtime.go:1787, :2271), for any number of
\* tasks, actions and attempts.
THEOREM DecidedStands == Spec => DecisionsStand
<1>1. Init => TaskAttempts
  BY DEF Init, TaskAttempts
<1>2. IInv /\ TaskAttempts /\ [Next]_vars => TaskAttempts'
  BY NextStands
<1>3. IInv /\ TaskAttempts /\ [Next]_vars =>
      [/\ \A t \in Tasks : taskVersion'[t] = taskVersion[t] =>
            \/ taskStatus'[t] = taskStatus[t]
            \/ TaskRank(taskStatus[t]) < TaskRank(taskStatus'[t])
       /\ \A x \in Actions :
            \/ actionStatus'[x] = actionStatus[x]
            \/ ActionRank(actionStatus[x]) < ActionRank(actionStatus'[x])
       /\ \A a \in Attempts :
            \/ attemptStatus'[a] = attemptStatus[a]
            \/ AttemptRank(attemptStatus[a]) < AttemptRank(attemptStatus'[a])]_vars
  <2> SUFFICES ASSUME IInv, TaskAttempts, [Next]_vars
               PROVE  /\ \A t \in Tasks : taskVersion'[t] = taskVersion[t] =>
                            \/ taskStatus'[t] = taskStatus[t]
                            \/ TaskRank(taskStatus[t]) < TaskRank(taskStatus'[t])
                      /\ \A x \in Actions :
                            \/ actionStatus'[x] = actionStatus[x]
                            \/ ActionRank(actionStatus[x]) < ActionRank(actionStatus'[x])
                      /\ \A a \in Attempts :
                            \/ attemptStatus'[a] = attemptStatus[a]
                            \/ AttemptRank(attemptStatus[a]) < AttemptRank(attemptStatus'[a])
    OBVIOUS
  <2>1. ASSUME NEW t \in Tasks, taskVersion'[t] = taskVersion[t], taskStatus'[t] # taskStatus[t]
        PROVE  TaskRank(taskStatus[t]) < TaskRank(taskStatus'[t])
    <3>1. TaskMoves(t) /\ taskVersion[t] \in Nat
      BY NextStands DEF Moved, IInv, TypeOK
    <3> QED
      BY <2>1, <3>1, Ranks DEF TaskMoves
  <2>2. ASSUME NEW x \in Actions, actionStatus'[x] # actionStatus[x]
        PROVE  ActionRank(actionStatus[x]) < ActionRank(actionStatus'[x])
    <3>1. Moves(x)
      BY NextMoves
    <3> QED
      BY <2>2, <3>1, Ranks DEF Moves
  <2>3. ASSUME NEW a \in Attempts, attemptStatus'[a] # attemptStatus[a]
        PROVE  AttemptRank(attemptStatus[a]) < AttemptRank(attemptStatus'[a])
    <3>1. AttemptMoves(a)
      BY NextStands DEF Moved
    <3> QED
      BY <2>3, <3>1, Ranks DEF AttemptMoves
  <2> QED
    BY <2>1, <2>2, <2>3
<1> QED
  BY <1>1, <1>2, <1>3, CallInvariant, PTL DEF Spec, DecisionsStand
=============================================================================
