--------------------------- MODULE ResultDelivery ---------------------------
(***************************************************************************)
(* What an interactive runtime (application_mode direct or group_mention)  *)
(* tells the requester of a task: the answer, the text that closes a       *)
(* failure, and the mark on the original message that follows the task's   *)
(* stages (internal/core/runtime.go and runtime_failure_notice.go,         *)
(* internal/runtime/service.go and direct_failure_notice.go).              *)
(*                                                                         *)
(* A delivery is one outbox row, identified by what its digest covers: the *)
(* task, the task's version and the content.  It is prepared (row "ready"),*)
(* begun ("sending"), handed to the platform and finished, in separate     *)
(* transactions; answers are delivered by the goroutine that worked on the *)
(* task, marks pass through one ordered queue with its own goroutine.      *)
(***************************************************************************)
EXTENDS Integers, FiniteSets, Sequences, SequencesExt

CONSTANTS
  Tasks,        \* tasks, each with one original message
  Workers,      \* goroutines that execute claimed tasks and confirmed actions
  Mode,         \* application_mode: "direct" or "group_mention"
  QueueLimit,   \* capacity of stageQueue, 32 in the code
  Environment,  \* which events of the world and of operators can happen
  MaxVersion,   \* bound on task versions
  MaxEvents     \* bound on the events of Environment in a behaviour

\* What the proofs and the runs take for granted of the constants.
ResultDeliveryAssumption ==
  /\ IsFiniteSet(Tasks) /\ Mode \in {"direct", "group_mention"}
  /\ Mode = "direct" => Cardinality(Workers) = 1
  /\ QueueLimit \in Nat \ {0}
  /\ MaxVersion \in Nat \ {0}
  /\ MaxEvents \in Nat
  /\ Workers \cap {"intake", "stages", "startup"} = {}

Marks == {"receipt", "processing", "completion", "failure"}
Kinds == Marks \cup {"result", "confirmation", "notice"}
Keys == Tasks \X (1..MaxVersion) \X Kinds
RowStates == {"absent", "ready", "sending", "accepted", "failed", "unknown", "stale"}
Final == {"accepted", "failed", "unknown", "stale"}

\* Mutant: the startup makes up marks only.
PassesMarks == <<"processing", "completion", "failure">>

\* The startup reconciliation scans for one kind of delivery after the other.
Passes == <<"processing", "completion", "failure", "notice">>

\* Service.Run: not running, then at each pass, then serving.
Down == 0
Live == Len(Passes) + 2

Failed == {"failed", "action_unknown", "cancelled"}
TaskStatus == {"absent", "pending", "running", "awaiting_confirmation", "completed",
               "clarification", "stale"} \cup Failed

\* The goroutines that deliver: "intake" finished an analysis (in direct mode
\* the tick's own goroutine, which also works on tasks), "stages" serves the
\* queue, "startup" reconciles before the queue exists.
Intake == IF Mode = "direct" THEN CHOOSE w \in Workers : TRUE ELSE "intake"
Actors == Workers \cup {"intake", "stages", "startup"}

VARIABLES
  status, version,  \* runtime_tasks
  current,      \* tasks whose source messages are current
  acting,       \* tasks with a confirmed action in status executing
  row,          \* outbox.state
  relabelled,   \* rows whose reason no longer names their purpose
  sent,         \* how often the platform took the content of a row
  marks,        \* the marks the platform shows on the original message
  job,          \* what a worker is executing
  script,       \* the deliveries an actor still has to make, in order
  call,         \* the delivery an actor is in the middle of
  service,      \* Service.Run: down, in a pass of the reconciliation, or live
  events        \* how many events of Environment happened

taskVars == <<status, version, current, acting>>
rowVars == <<row, relabelled>>
world == <<sent, marks>>
vars == <<status, version, current, acting, row, relabelled, sent, marks, job, script,
          call, service, events>>

NoJob == [doing |-> "nothing"]
NoCall == [step |-> "none"]
Jobs == {NoJob} \cup [doing : {"task", "action"}, task : Tasks, version : 1..MaxVersion]
Calls == {NoCall}
  \cup [step : {"prepared", "begun", "removed"}, key : Keys, cleanup : {"ok", "denied", "unclear"}]
  \cup [step : {"answered"}, key : Keys, outcome : {"accepted", "failed", "unknown"}]

TypeOK ==
  /\ status \in [Tasks -> TaskStatus]
  /\ version \in [Tasks -> 1..MaxVersion]
  /\ current \in [Tasks -> BOOLEAN]
  /\ acting \in [Tasks -> BOOLEAN]
  /\ row \in [Keys -> RowStates]
  /\ relabelled \subseteq Keys
  /\ sent \in [Keys -> Nat]
  /\ marks \in [Tasks -> SUBSET Marks]
  /\ job \in [Workers -> Jobs]
  /\ script \in [Actors -> Seq(Tasks \X (Marks \cup {"answer", "notice"}))]
  /\ Len(script["stages"]) <= QueueLimit
  /\ call \in [Actors -> Calls]
  /\ service \in Down..Live
  /\ events \in 0..MaxEvents

Init ==
  /\ status = [t \in Tasks |-> "absent"]
  /\ version = [t \in Tasks |-> 1]
  /\ current = [t \in Tasks |-> TRUE]
  /\ acting = [t \in Tasks |-> FALSE]
  /\ row = [k \in Keys |-> "absent"]
  /\ relabelled = {}
  /\ sent = [k \in Keys |-> 0]
  /\ marks = [t \in Tasks |-> {}]
  /\ job = [w \in Workers |-> NoJob]
  /\ script = [a \in Actors |-> <<>>]
  /\ call = [a \in Actors |-> NoCall]
  /\ service = Live
  /\ events = 0

\* An event of the world, an operator or a fault.
Event(e) == e \in Environment /\ events < MaxEvents /\ events' = events + 1

----------------------------------------------------------------------------
(* Rows.                                                                   *)

\* The statuses in which each kind of delivery may be prepared and begun.
StatusFor(kind) ==
  CASE kind = "receipt" -> {"pending", "running"}
    [] kind = "processing" -> {"running", "awaiting_confirmation"}
    [] kind = "completion" -> {"completed"}
    [] kind \in {"failure", "notice"} -> Failed
    [] OTHER -> {"completed", "awaiting_confirmation", "clarification"}

\* An answer that still asks for a confirmation has another content.
KindOf(t, item) ==
  IF item # "answer" THEN item
  ELSE IF status[t] = "awaiting_confirmation" THEN "confirmation" ELSE "result"

Key(t, item) == <<t, version[t], KindOf(t, item)>>

Deliverable(k) ==
  /\ version[k[1]] = k[2] /\ current[k[1]]
  /\ status[k[1]] \in StatusFor(k[3])

\* What a query by reason finds.
RowsNamed(t, kind) == {k \in Keys \ relabelled : k[1] = t /\ k[3] = kind /\ row[k] # "absent"}
Accepted(t, kind) == \E k \in RowsNamed(t, kind) : row[k] = "accepted"

\* The mark that the next one replaces; nothing replaces itself by a receipt.
Predecessor(t, kind) ==
  IF kind \in {"completion", "failure"} /\ Accepted(t, "processing") THEN "processing" ELSE "receipt"

----------------------------------------------------------------------------
(* One delivery.                                                           *)

Pending(a) == script[a] # <<>>
Drop(a) == /\ script' = [script EXCEPT ![a] = Tail(@)]
           /\ call' = [call EXCEPT ![a] = NoCall]

\* Marks of a live service go through the queue; the rest is synchronous.
Queued(a, item) == item \in Marks /\ a \in Workers \cup {"intake"}

\* Any of the checks that this module abstracts from refuses: the route, the
\* sender, the mentions or the runtime's status changed, the channel cannot
\* send, the actor's context ended.
Refused(a) ==
  /\ Event("refuse")
  /\ call[a].step = "prepared" \/ (call[a] = NoCall /\ Pending(a))
  /\ Drop(a)
  /\ UNCHANGED <<taskVars, rowVars, world, job, service>>

\* Mutant: a queue without a limit.
EnqueueAlways(a) ==
  /\ script' = [script EXCEPT ![a] = Tail(@), !["stages"] = Append(@, Head(script[a]))]
  /\ call' = [call EXCEPT ![a] = NoCall]

Enqueue(a) ==
  /\ Len(script["stages"]) < QueueLimit
  /\ script' = [script EXCEPT ![a] = Tail(@), !["stages"] = Append(@, Head(script[a]))]
  /\ call' = [call EXCEPT ![a] = NoCall]

Prepared(a, k) ==
  /\ call' = [call EXCEPT ![a] = [step |-> "prepared", key |-> k, cleanup |-> "ok"]]
  /\ UNCHANGED script

\* A mark is queued with its row ready; the send on the channel blocks while
\* the queue is full.
prepareTaskDelivery(a) ==
  /\ Pending(a) /\ call[a] = NoCall
  /\ LET t == Head(script[a])[1]
         item == Head(script[a])[2]
         k == Key(t, item)
     IN IF Deliverable(k) /\ row[k] \in {"absent", "ready"}
        THEN /\ row' = [row EXCEPT ![k] = "ready"]
             /\ IF Queued(a, item) /\ Len(script["stages"]) < QueueLimit
                THEN Enqueue(a) ELSE Prepared(a, k)
        ELSE Drop(a) /\ UNCHANGED row
  /\ UNCHANGED <<taskVars, relabelled, world, job, service, events>>

deliverStage(a) ==
  /\ call[a].step = "prepared" /\ Queued(a, Head(script[a])[2])
  /\ Enqueue(a)
  /\ UNCHANGED <<taskVars, rowVars, world, job, service, events>>

BeginDelivery(a) ==
  /\ call[a].step = "prepared" /\ ~Queued(a, Head(script[a])[2])
  /\ LET k == call[a].key
     IN IF Deliverable(k) /\ row[k] = "ready"
        THEN /\ row' = [row EXCEPT ![k] = "sending"]
             /\ call' = [call EXCEPT ![a].step = "begun"]
             /\ UNCHANGED script
        ELSE Drop(a) /\ UNCHANGED row
  /\ UNCHANGED <<taskVars, relabelled, world, job, service, events>>

Replaces(k) == k[3] # "receipt" /\ k[3] \in Marks /\ Accepted(k[1], Predecessor(k[1], k[3]))

\* Remove the previous mark; a failed call may have removed it or not.
RemoveReaction(a) ==
  /\ call[a].step = "begun" /\ Replaces(call[a].key)
  /\ LET t == call[a].key[1]
         old == Predecessor(t, call[a].key[3])
         Removed(cleanup) == call' = [call EXCEPT ![a].step = "removed", ![a].cleanup = cleanup]
     IN \/ Removed("ok") /\ marks' = [marks EXCEPT ![t] = @ \ {old}] /\ UNCHANGED events
        \/ /\ Event("fault")
           /\ \/ Removed("denied") /\ UNCHANGED marks
              \/ Removed("unclear") /\ UNCHANGED marks
              \/ Removed("unclear") /\ marks' = [marks EXCEPT ![t] = @ \ {old}]
  /\ UNCHANGED <<taskVars, rowVars, sent, job, script, service>>

\* What the platform answers, and whether it did what it was asked for.  An
\* error of the removal replaces the outcome of a successful AddReaction.
Send(a) ==
  /\ call[a].step = "removed" \/ (call[a].step = "begun" /\ ~Replaces(call[a].key))
  /\ LET k == call[a].key
         Answer(done, outcome) ==
           /\ sent' = [sent EXCEPT ![k] = IF done THEN @ + 1 ELSE @]
           /\ marks' = [marks EXCEPT ![k[1]] = IF done /\ k[3] \in Marks THEN @ \cup {k[3]} ELSE @]
           /\ call' = [call EXCEPT ![a] = [step |-> "answered", key |-> k, outcome |-> outcome]]
     IN \/ /\ Answer(TRUE, CASE call[a].cleanup = "ok" -> "accepted"
                             [] call[a].cleanup = "denied" -> "failed"
                             [] OTHER -> "unknown")
           /\ UNCHANGED events
        \/ /\ Event("fault")
           /\ \/ Answer(FALSE, "failed")
              \/ \E done \in BOOLEAN : Answer(done, "unknown")
  /\ UNCHANGED <<taskVars, rowVars, job, script, service>>

\* Mutant: the outcome is written whatever became of the row.
FinishAny(a) ==
  /\ call[a].step = "answered"
  /\ Drop(a)
  /\ \/ /\ row' = [row EXCEPT ![call[a].key] = call[a].outcome]
        /\ UNCHANGED events
     \/ Event("fault") /\ UNCHANGED row
  /\ UNCHANGED <<taskVars, relabelled, world, job, service>>

\* Only a row still "sending" takes the outcome; a transaction that fails, or
\* whose context ended, leaves the row as it is.
FinishDelivery(a) ==
  /\ call[a].step = "answered"
  /\ Drop(a)
  /\ \/ /\ row' = [row EXCEPT ![call[a].key] = IF @ = "sending" THEN call[a].outcome ELSE @]
        /\ UNCHANGED events
     \/ Event("fault") /\ UNCHANGED row
  /\ UNCHANGED <<taskVars, relabelled, world, job, service>>

Deliver(a) ==
  prepareTaskDelivery(a) \/ deliverStage(a) \/ BeginDelivery(a) \/ RemoveReaction(a)
    \/ Send(a) \/ FinishDelivery(a)

----------------------------------------------------------------------------
(* Tasks: the transitions of RuntimeTask that deliveries depend on, with   *)
(* "failed" for action_failed too.                                         *)

Then(a, t, items) == script' = [script EXCEPT ![a] = @ \o [i \in 1..Len(items) |-> <<t, items[i]>>]]

\* Mutant: the mark is queued before the answer is delivered.
ClosingMarkFirst(s) ==
  CASE s \in Failed -> <<"failure", "notice">>
    [] s = "completed" -> <<"completion", "answer">>
    [] OTHER -> <<"answer">>

\* What the goroutine delivers when the task reached status s.
Closing(s) ==
  CASE s \in Failed -> <<"failure", "notice">>
    [] s = "completed" -> <<"answer", "completion">>
    [] OTHER -> <<"answer">>

Free(w) == job[w] = NoJob /\ ~Pending(w)

Analysing == service = Live /\ (Mode = "direct" => Free(Intake))

\* An analysis creates a task; the group's analysis may answer at once.
CompleteRuntimeBatch(t, s) ==
  /\ Analysing /\ status[t] = "absent"
  /\ s \in {"pending"} \cup (IF Mode = "direct" THEN {} ELSE {"clarification", "completed"})
  /\ status' = [status EXCEPT ![t] = s]
  /\ Then(Intake, t, <<"receipt">> \o (IF s = "pending" THEN <<>> ELSE Closing(s)))
  /\ UNCHANGED <<version, current, acting, rowVars, world, job, call, service, events>>

\* A message edited or recalled, not yet synchronised with its task.
EditSource(t) ==
  /\ Event("edit") /\ status[t] # "absent" /\ current[t]
  /\ current' = [current EXCEPT ![t] = FALSE]
  /\ UNCHANGED <<status, version, acting, rowVars, world, job, script, call, service>>

NewVersion(t, s) ==
  /\ version[t] < MaxVersion
  /\ version' = [version EXCEPT ![t] = @ + 1]
  /\ status' = [status EXCEPT ![t] = s]
  /\ acting' = [acting EXCEPT ![t] = FALSE]
  /\ UNCHANGED <<rowVars, world, job, call>>

\* A further message changes the task (again current) and acknowledges it.
UpdateTask(t) ==
  /\ Event("update") /\ Analysing /\ status[t] # "absent"
  /\ NewVersion(t, "pending")
  /\ current' = [current EXCEPT ![t] = TRUE]
  /\ Then(Intake, t, <<"receipt">>)
  /\ UNCHANGED service

SyncRuntimeMessages(t) ==
  /\ service = Live /\ ~current[t] /\ status[t] \notin {"stale", "cancelled"}
  /\ \E s \in {"stale", "cancelled"} : NewVersion(t, s)
  /\ UNCHANGED <<current, script, service, events>>

CancelTask(t) ==
  /\ Event("operator") /\ status[t] \notin {"absent", "completed", "cancelled"}
  /\ NewVersion(t, "cancelled")
  /\ UNCHANGED <<current, script, service>>

RetryTask(t) ==
  /\ Event("operator")
  /\ status[t] \in Failed \cup {"stale", "clarification"}
  /\ NewVersion(t, "pending")
  /\ UNCHANGED <<current, script, service>>

\* A continuation is refused while an answer may or may not have arrived.
ResumeRuntimeTask(t) ==
  /\ Event("operator")
  /\ status[t] = "failed" /\ current[t]
  /\ \A k \in Keys : k[1] = t /\ (k[3] \notin Marks \/ k \in relabelled) =>
       row[k] \notin {"sending", "unknown"}
  /\ NewVersion(t, "pending")
  /\ UNCHANGED <<current, script, service>>

ClaimRuntimeTask(w, t) ==
  /\ service = Live /\ Free(w) /\ status[t] = "pending" /\ current[t]
  /\ status' = [status EXCEPT ![t] = "running"]
  /\ job' = [job EXCEPT ![w] = [doing |-> "task", task |-> t, version |-> version[t]]]
  /\ Then(w, t, <<"receipt", "processing">>)
  /\ UNCHANGED <<version, current, acting, rowVars, world, call, service, events>>

\* The owner can only confirm what a delivered answer asked for.
ClaimRuntimeAction(w, t) ==
  /\ service = Live /\ Free(w) /\ current[t]
  /\ status[t] = "awaiting_confirmation" /\ ~acting[t]
  /\ sent[<<t, version[t], "confirmation">>] > 0
  /\ acting' = [acting EXCEPT ![t] = TRUE]
  /\ job' = [job EXCEPT ![w] = [doing |-> "action", task |-> t, version |-> version[t]]]
  /\ Then(w, t, <<"processing">>)
  /\ UNCHANGED <<status, version, current, rowVars, world, call, service, events>>

\* The work of the job is over, in status s, if the task is still the one claimed.
Ends(w, s) ==
  LET t == job[w].task IN
  /\ job[w] # NoJob /\ ~Pending(w) /\ service = Live
  /\ job' = [job EXCEPT ![w] = NoJob]
  /\ IF version[t] = job[w].version /\ (acting[t] \/ job[w].doing = "task")
     THEN /\ status' = [status EXCEPT ![t] = s]
          /\ acting' = [acting EXCEPT ![t] = FALSE]
          /\ Then(w, t, Closing(s))
     ELSE /\ UNCHANGED <<status, acting>>
          /\ Then(w, t, IF job[w].doing = "task" /\ status[t] = "cancelled"
                        THEN Closing("cancelled") ELSE <<>>)
  /\ UNCHANGED <<version, current, rowVars, world, call, service, events>>

executeClaimed(w) ==
  /\ job[w].doing = "task"
  /\ \E s \in {"completed", "clarification", "awaiting_confirmation", "failed"} : Ends(w, s)

executeClaimedAction(w) ==
  /\ job[w].doing = "action"
  /\ \E s \in {"completed", "failed", "action_unknown"} : Ends(w, s)

----------------------------------------------------------------------------
(* Policy changes, events and recovery.                                   *)

\* Mutant: a send in progress is invalidated like an unsent row.
UpdateRouteSending ==
  LET hit == {k \in Keys : row[k] \in {"ready", "sending"}} IN
  /\ Event("route") /\ hit # {}
  /\ row' = [k \in Keys |-> IF k \in hit THEN "stale" ELSE row[k]]
  /\ relabelled' = relabelled \cup hit
  /\ UNCHANGED <<taskVars, world, job, script, call, service>>

\* A route changes: its unsent rows go stale under another reason.
UpdateRoute ==
  LET hit == {k \in Keys : row[k] = "ready"} IN
  /\ Event("route") /\ hit # {}
  /\ row' = [k \in Keys |-> IF k \in hit THEN "stale" ELSE row[k]]
  /\ relabelled' = relabelled \cup hit
  /\ UNCHANGED <<taskVars, world, job, script, call, service>>

\* A managed configuration change; only the notice loses its reason.
InvalidateRuntimeConfigWork ==
  LET hit == {k \in Keys : row[k] \in {"ready", "sending"}}
      open == {t \in Tasks : status[t] \in {"pending", "running", "clarification",
                                            "awaiting_confirmation", "failed"}}
  IN
  /\ Event("config") /\ hit \cup open # {}
  /\ \A t \in open : version[t] < MaxVersion
  /\ row' = [k \in Keys |-> IF k \notin hit THEN row[k]
                            ELSE IF row[k] = "ready" THEN "stale" ELSE "unknown"]
  /\ relabelled' = relabelled \cup {k \in hit : k[3] = "notice"}
  /\ status' = [t \in Tasks |-> IF t \in open THEN "stale" ELSE status[t]]
  /\ version' = [t \in Tasks |-> IF t \in open THEN version[t] + 1 ELSE version[t]]
  /\ acting' = [t \in Tasks |-> FALSE]
  /\ UNCHANGED <<current, world, job, script, call, service>>

Crash ==
  /\ Event("crash") /\ service # Down
  /\ service' = Down
  /\ job' = [w \in Workers |-> NoJob]
  /\ script' = [a \in Actors |-> <<>>]
  /\ call' = [a \in Actors |-> NoCall]
  /\ UNCHANGED <<taskVars, rowVars, world>>

\* The tasks a pass finds, by the reasons of their rows of any version.
Owed(kind) == {t \in Tasks :
  /\ status[t] \in StatusFor(kind)
  /\ IF kind = "notice" THEN Accepted(t, "receipt") ELSE RowsNamed(t, "receipt") # {}
  /\ \A k \in RowsNamed(t, kind) : row[k] = "ready"}

RecoverRuntime ==
  LET lost == \E t \in Tasks : acting[t] IN
  /\ service = Down
  /\ service' = 1
  /\ status' = [t \in Tasks |->
       IF status[t] = "running" THEN "failed"
       ELSE IF status[t] = "awaiting_confirmation" /\ lost THEN "action_unknown" ELSE status[t]]
  /\ acting' = [t \in Tasks |-> FALSE]
  /\ row' = [k \in Keys |-> IF row[k] = "sending" THEN "unknown" ELSE row[k]]
  /\ UNCHANGED <<version, current, relabelled, world, job, script, call, events>>

reconcileStageAcknowledgements ==
  /\ service \in 1..Len(Passes) /\ ~Pending("startup")
  /\ \E order \in SetToSeqs(Owed(Passes[service])) :
       script' = [script EXCEPT !["startup"] =
                    [i \in 1..Len(order) |-> <<order[i], Passes[service]>>]]
  /\ service' = service + 1
  /\ UNCHANGED <<taskVars, rowVars, world, job, call, events>>

\* The queue and its goroutine exist from here on.
Serve ==
  /\ service = Len(Passes) + 1 /\ ~Pending("startup")
  /\ service' = Live
  /\ UNCHANGED <<taskVars, rowVars, world, job, script, call, events>>

----------------------------------------------------------------------------
Operator(t) == EditSource(t) \/ CancelTask(t) \/ RetryTask(t) \/ ResumeRuntimeTask(t)

\* What happens while the store takes every write and no policy changes.
Undisturbed ==
  \/ \E t \in Tasks : Operator(t) \/ UpdateTask(t) \/ SyncRuntimeMessages(t)
                      \/ \E s \in TaskStatus : CompleteRuntimeBatch(t, s)
  \/ \E w \in Workers : \/ \E t \in Tasks : ClaimRuntimeTask(w, t) \/ ClaimRuntimeAction(w, t)
                        \/ executeClaimed(w) \/ executeClaimedAction(w)
  \/ \E a \in Actors : Deliver(a)
  \/ Crash \/ RecoverRuntime \/ reconcileStageAcknowledgements \/ Serve

Next ==
  \/ Undisturbed
  \/ \E a \in Actors : Refused(a)
  \/ UpdateRoute \/ InvalidateRuntimeConfigWork

Spec == Init /\ [][Next]_vars

\* Go schedules every goroutine, the tick claims work, SQLite admits writers,
\* the platform answers, the service is started again after a crash.
Fairness ==
  /\ \A a \in Actors : WF_vars(Deliver(a))
  /\ \A w \in Workers : WF_vars(executeClaimed(w)) /\ WF_vars(executeClaimedAction(w))
  /\ WF_vars(RecoverRuntime) /\ WF_vars(reconcileStageAcknowledgements) /\ WF_vars(Serve)

LiveSpec == Spec /\ Fairness

----------------------------------------------------------------------------
(* Properties.                                                             *)

\* The console never claims more or less than happened: an accepted row was
\* sent, a row that is ready or that went stale was not, and whatever events,
\* retries, policy changes and late answers happen, the platform takes the
\* content of one outbox row at most once.
RowsTellTheTruth == \A k \in Keys :
  /\ sent[k] <= 1
  /\ row[k] = "accepted" => sent[k] = 1
  /\ row[k] \in {"absent", "ready", "stale"} => sent[k] = 0

\* An outcome is never rewritten: an answer that comes after recovery or a
\* configuration change closed the row does not revive it.
OutcomeIsFinal == [][\A k \in Keys : row[k] \in Final => row'[k] = row[k]]_row

\* Once everything is delivered, and every outcome was clear, the message of a
\* completed task carries the mark of that stage and no other.
OnlyCurrentMark == \A t \in Tasks :
  /\ status[t] = "completed" /\ \A a \in Actors : script[a] = <<>>
  /\ \A k \in Keys : k[1] = t => row[k] \notin {"failed", "unknown", "sending", "stale"}
  => marks[t] \subseteq {"completion"}

\* The mark that says a task is completed never overtakes its answer, for a
\* task that stayed at its first version: later an actor that still delivers
\* for the old version takes up the answer of the new one.
AnswerBeforeMark == \A k \in Keys : k[2] = 1 /\ k[3] = "completion" /\ sent[k] > 0 =>
  \A a \in Actors : call[a] # NoCall => call[a].key # <<k[1], k[2], "result">>

\* However often the process dies, the mark of a completed task that was
\* acknowledged is attempted in the end, and a task that failed after its
\* receipt was shown, and was not retried before, is explained to the
\* requester, while no policy changes and the store takes every write.
OutcomeIsAnnounced == \A t \in Tasks :
  /\ status[t] = "completed" /\ RowsNamed(t, "receipt") # {} ~>
       \/ status[t] # "completed" \/ ~current[t]
       \/ \E k \in Keys : k[1] = t /\ k[3] = "completion" /\ row[k] \in Final
  /\ status[t] \in {"failed", "action_unknown"} /\ version[t] = 1 /\ Accepted(t, "receipt") ~>
       \/ version[t] > 1 \/ ~current[t]
       \/ \E k \in Keys : k[1] = t /\ k[3] = "notice" /\ row[k] \in Final
=============================================================================
