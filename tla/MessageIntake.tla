--------------------------- MODULE MessageIntake ---------------------------
(***************************************************************************)
(* From received messages to analysed ones: the messages a channel stored  *)
(* (internal/core/message.go), their processing state in one runtime, the  *)
(* analysis batches (internal/core/runtime.go, runtime_scheduling.go) and  *)
(* the goroutines that analyse them (Service.analyze).                     *)
(*                                                                         *)
(* Every action is one write transaction or one step of a goroutine.  Left *)
(* out: rows that wait for a receipt or were claimed by a linked runtime,  *)
(* the item threshold and waiting time of a claim (a claim may come at any *)
(* time), and the pause of a runtime (which only disables the claim).      *)
(***************************************************************************)
EXTENDS Integers, FiniteSets

CONSTANTS
  NumMessages,  \* messages, numbered in the order they are received
  Batches,      \* rows of runtime_batches; one that is over is used again
  NoBatch,
  Routes,
  RouteOf,      \* RouteOf[m]: the conversation of message m
  Limit,        \* messages per batch: item_threshold, or 1
  Pool,         \* analysis_concurrency
  Mode,         \* application_mode: "proactive" or "group_mention"
  Environment,  \* which events of the world and of operators can happen
  MaxRevision,  \* bound on the revisions of a message
  MaxEvents     \* bound on recalls, declarations, crashes and orderly stops

Messages == 1..NumMessages
MaxAttempts == 3   \* the literal of FailRuntimeBatch

ASSUME MessageIntakeAssumption ==
  /\ NumMessages \in Nat
  /\ NoBatch \notin Batches
  /\ RouteOf \in [Messages -> Routes]
  /\ Mode \in {"proactive", "group_mention"}
  /\ Limit \in 1..100 /\ (Mode = "group_mention" => Limit = 1)
  /\ Pool \in 1..32
  /\ MaxRevision \in Nat \ {0} /\ MaxEvents \in Nat

VARIABLES
  revision,     \* messages.current_revision; 0: not received
  gone,         \* messages that were recalled
  state,        \* runtime_message_states.state; "none": no row
  seenRevision, \* ... .revision
  retryCount,   \* ... .retry_count up to MaxAttempts, while it can be read
  inBatch,      \* ... .batch_id, dropped when the batch is over
  deferred,     \* rows whose next_run_at is in the future
  ahead,        \* the order by first_seen_at: <<n, m>> when n comes before m
  batchStatus,  \* runtime_batches.status; "over": finished, or unused
  content,      \* runtime_batch_messages: the revisions in a batch, or 0
  attempt,      \* runtime_batches.attempt
  lease,        \* batches with an unreleased work lease
  overdue,      \* batches past the deadline_at of their lease
  outdated,     \* batches claimed under a declaration that no longer applies
  analyst,      \* the goroutine of a batch
  service,      \* the life cycle of Service.Run
  events,
  analysed      \* history: the revisions that completed batches held

messageVars == <<revision, gone>>
rowVars == <<state, seenRevision, retryCount, inBatch, deferred, ahead>>
batchVars == <<batchStatus, content, attempt, lease, overdue, outdated, analyst,
               analysed>>
serviceVars == <<service, events>>
vars == <<messageVars, rowVars, batchVars, serviceVars>>

States == {"none", "pending", "context", "batched", "processed", "recalled", "analysis_failed"}

TypeOK ==
  /\ revision \in [Messages -> 0..MaxRevision]
  /\ gone \subseteq Messages
  /\ state \in [Messages -> States]
  /\ seenRevision \in [Messages -> 0..MaxRevision]
  /\ retryCount \in [Messages -> 0..MaxAttempts]
  /\ inBatch \in [Messages -> Batches \cup {NoBatch}]
  /\ deferred \subseteq Messages
  /\ ahead \subseteq Messages \X Messages
  /\ batchStatus \in [Batches -> {"over", "analyzing", "failed"}]
  /\ content \in [Batches -> [Messages -> 0..MaxRevision]]
  /\ attempt \in [Batches -> 0..(MaxAttempts + 1)]
  /\ lease \subseteq Batches
  /\ overdue \subseteq Batches /\ outdated \subseteq Batches
  /\ analyst \in [Batches -> {"none", "working", "decided"}]
  /\ service \in {"up", "draining", "down", "stopped"}
  /\ events \in 0..MaxEvents
  /\ analysed \in [Messages -> SUBSET (1..MaxRevision)]

NoContent == [m \in Messages |-> 0]

Init ==
  /\ revision = [m \in Messages |-> 0] /\ gone = {}
  /\ state = [m \in Messages |-> "none"]
  /\ seenRevision = [m \in Messages |-> 0]
  /\ retryCount = [m \in Messages |-> 0]
  /\ inBatch = [m \in Messages |-> NoBatch]
  /\ deferred = {} /\ ahead = {}
  /\ batchStatus = [b \in Batches |-> "over"]
  /\ content = [b \in Batches |-> NoContent]
  /\ attempt = [b \in Batches |-> 0]
  /\ lease = {} /\ overdue = {} /\ outdated = {}
  /\ analyst = [b \in Batches |-> "none"]
  /\ service = "up" /\ events = 0
  /\ analysed = [m \in Messages |-> {}]

CountEvent == events < MaxEvents /\ events' = events + 1

----------------------------------------------------------------------------
(* Messages: received, edited, recalled. *)

Received == {m \in Messages : revision[m] > 0}

Intake(m) ==
  /\ m \notin Received /\ 1..(m - 1) \subseteq Received
  /\ revision' = [revision EXCEPT ![m] = 1]
  /\ ahead' = ahead \cup (Received \X {m})
  /\ UNCHANGED <<gone, state, seenRevision, retryCount, inBatch, deferred, batchVars, serviceVars>>

\* A new body of a known message; a recalled one gets revisions too.
applyMessage(m) ==
  /\ "edit" \in Environment
  /\ revision[m] \in 1..(MaxRevision - 1)
  /\ revision' = [revision EXCEPT ![m] = @ + 1]
  /\ UNCHANGED <<gone, rowVars, batchVars, serviceVars>>

markRecalled(m) ==
  /\ "recall" \in Environment /\ CountEvent
  /\ m \in Received \ gone
  /\ gone' = gone \cup {m}
  /\ UNCHANGED <<revision, rowVars, batchVars, service>>

----------------------------------------------------------------------------
(* The tick brings the rows up to date, in the order of reception and at   *)
(* most 100 in one pass.                                                   *)

Unsynced == {m \in Received : \/ state[m] = "none"
                              \/ seenRevision[m] # revision[m]
                              \/ m \in gone /\ state[m] # "recalled"}

SyncRuntimeMessages ==
  /\ service = "up"
  /\ \E changed \in SUBSET Unsynced \ {{}}, background \in SUBSET Unsynced :
       LET again == {m \in changed : state[m] # "none"} IN
       /\ \A m \in changed, n \in Unsynced :
            n < m /\ RouteOf[n] = RouteOf[m] => n \in changed
       /\ background \subseteq changed \ gone
       /\ state' = [m \in Messages |->
            IF m \notin changed THEN state[m]
            ELSE IF m \in gone THEN "recalled"
            ELSE IF m \in background THEN "context" ELSE "pending"]
       /\ seenRevision' = [m \in Messages |->
            IF m \in changed THEN revision[m] ELSE seenRevision[m]]
       /\ retryCount' = [m \in Messages |-> IF m \in changed THEN 0 ELSE retryCount[m]]
       /\ inBatch' = [m \in Messages |-> IF m \in changed THEN NoBatch ELSE inBatch[m]]
       /\ deferred' = deferred \ changed
       /\ ahead' = {p \in ahead : p[1] \notin again /\ p[2] \notin again}
                     \cup ((Received \ again) \X again)
                     \cup {p \in again \X again : p[1] < p[2]}
  /\ UNCHANGED <<messageVars, batchVars, serviceVars>>

BackoffPasses(m) ==
  /\ m \in deferred /\ deferred' = deferred \ {m}
  /\ UNCHANGED <<messageVars, state, seenRevision, retryCount, inBatch, ahead, batchVars,
                 serviceVars>>

----------------------------------------------------------------------------
(* Claiming a batch. *)

\* Mutant: rows that back off are not seen, and let later ones pass.
PendingDue(r) ==
  {m \in Messages : RouteOf[m] = r /\ state[m] = "pending" /\ m \notin deferred}

PendingOf(r) == {m \in Messages : RouteOf[m] = r /\ state[m] = "pending"}

\* The pending rows of the route that are older than m.
Older(m, r) == {n \in PendingOf(r) : <<n, m>> \in ahead}

BatchesOf(r) == {b \in Batches : \E m \in Messages : content[b][m] > 0 /\ RouteOf[m] = r}

\* No unreleased lease on the route, and its oldest pending row is due.
Eligible(r) ==
  /\ \A b \in BatchesOf(r) : b \notin lease
  /\ \E m \in PendingOf(r) : Older(m, r) = {} /\ m \notin deferred

\* The rows a claim selects: the oldest ones ...
Selected(r) == {m \in PendingOf(r) : Cardinality(Older(m, r)) < Limit}

\* Mutant: the rows are marked without a look at their revision.
MarkedAll(r) == Selected(r)

\* ... and marks, which have to be at the revision that was read.
Marked(r) == {m \in Selected(r) : seenRevision[m] = revision[m]}

Highest(r) == CHOOSE n \in {retryCount[m] : m \in PendingOf(r)} :
                \A m \in PendingOf(r) : retryCount[m] <= n

ClaimRuntimeBatch(b, r) ==
  /\ service = "up"
  /\ Eligible(r)
  /\ Cardinality({x \in Batches : analyst[x] # "none"}) < Pool
  /\ Mode = "group_mention" => Cardinality(lease) < Pool
  /\ batchStatus[b] # "analyzing" /\ analyst[b] = "none" /\ b \notin lease
  /\ content' = [content EXCEPT ![b] =
       [m \in Messages |-> IF m \in Selected(r) THEN revision[m] ELSE 0]]
  /\ attempt' = [attempt EXCEPT ![b] = 1 + Highest(r)]
  /\ batchStatus' = [batchStatus EXCEPT ![b] = "analyzing"]
  /\ state' = [m \in Messages |-> IF m \in Marked(r) THEN "batched" ELSE state[m]]
  /\ inBatch' = [m \in Messages |-> IF m \in Marked(r) THEN b ELSE inBatch[m]]
  /\ lease' = lease \cup {b}
  /\ analyst' = [analyst EXCEPT ![b] = "working"]
  /\ UNCHANGED <<messageVars, seenRevision, retryCount, deferred, ahead, overdue, outdated, analysed,
                 serviceVars>>

----------------------------------------------------------------------------
(* The end of a batch. *)

BatchMessages(b) == {m \in Messages : content[b][m] > 0}
Unchanged(b) == \A m \in BatchMessages(b) : m \notin gone /\ content[b][m] = revision[m]

Transient == {"unavailable", "analysis_timeout", "runtime_restarted"}

\* Mutants: a batch is tried again without end; the rows get the status of the
\* batch.
OutcomeForever(b, code) ==
  IF code = "conflict" \/ code \in Transient THEN "pending" ELSE "analysis_failed"
OutcomeFailed(b, code) ==
  IF code = "conflict" \/ (code \in Transient /\ attempt[b] < MaxAttempts)
    THEN "pending" ELSE "failed"

\* What becomes of the rows of a batch that failed with this code.
Outcome(b, code) ==
  IF code = "conflict" \/ (code \in Transient /\ attempt[b] < MaxAttempts)
    THEN "pending" ELSE "analysis_failed"

AtMost(n) == IF n > MaxAttempts THEN MaxAttempts ELSE n

\* The message rows of the batches B, if these are still open.
FailRows(B, code) ==
  LET hit == {m \in Messages : state[m] = "batched" /\ inBatch[m] \in B}
      delayed == {m \in hit : /\ code \in Transient /\ attempt[inBatch[m]] < MaxAttempts
                              /\ ~(Mode = "group_mention" /\ code = "runtime_restarted")}
  IN
  /\ state' = [m \in Messages |-> IF m \in hit THEN Outcome(inBatch[m], code) ELSE state[m]]
  /\ retryCount' = [m \in Messages |->
       IF m \notin hit THEN retryCount[m]
       ELSE IF Outcome(inBatch[m], code) = "pending" THEN AtMost(retryCount[m] + 1) ELSE 0]
  /\ inBatch' = [m \in Messages |-> IF m \in hit THEN NoBatch ELSE inBatch[m]]
  /\ deferred' = (deferred \ hit) \cup delayed
  /\ UNCHANGED <<seenRevision, ahead>>

\* Batches that are over and have no goroutine any more leave the model.
Forget(B) ==
  /\ content' = [b \in Batches |-> IF b \in B THEN NoContent ELSE content[b]]
  /\ attempt' = [b \in Batches |-> IF b \in B THEN 0 ELSE attempt[b]]
  /\ overdue' = overdue \ B

Open == {b \in Batches : batchStatus[b] = "analyzing"}

\* The goroutine of b returns after its batch failed or completed; its
\* deferred finish releases the lease.
Leave(b) ==
  /\ batchStatus' = [batchStatus EXCEPT ![b] = "over"]
  /\ analyst' = [analyst EXCEPT ![b] = "none"]
  /\ lease' = lease \ {b} /\ outdated' = outdated \ {b}
  /\ Forget({b})

FailRuntimeBatch(b, code) ==
  /\ FailRows({b} \cap Open, code)
  /\ Leave(b)
  /\ UNCHANGED <<messageVars, analysed, serviceVars>>

Cancelled(b) == b \in overdue \/ service = "draining"

\* The model answered (or, for a group, the mention was routed locally).
Decide(b) ==
  /\ analyst[b] = "working" /\ ~Cancelled(b)
  /\ analyst' = [analyst EXCEPT ![b] = "decided"]
  /\ UNCHANGED <<messageVars, rowVars, batchStatus, content, attempt, lease, overdue, outdated,
                 analysed, serviceVars>>

\* The analysis itself failed; this write has a context of its own.
FailAnalysis(b, code) ==
  /\ analyst[b] = "working"
  /\ \/ code = "unavailable" /\ Mode = "proactive" /\ ~Cancelled(b)
     \/ code = "invalid_input" /\ Mode = "proactive" /\ ~Cancelled(b)
     \/ code = "analysis_timeout" /\ b \in overdue
     \/ code = "conflict" /\ service = "draining"
  /\ FailRuntimeBatch(b, code)

\* CheckWorkLease, and the batch and its messages are what they were.
Accepted(b) ==
  /\ b \in lease \ outdated
  /\ batchStatus[b] = "analyzing" /\ Unchanged(b)

CompleteRuntimeBatch(b) ==
  /\ analyst[b] = "decided" /\ ~Cancelled(b)
  /\ Accepted(b)
  /\ state' = [m \in Messages |-> IF inBatch[m] = b THEN "processed" ELSE state[m]]
  /\ inBatch' = [m \in Messages |-> IF inBatch[m] = b THEN NoBatch ELSE inBatch[m]]
  /\ retryCount' = [m \in Messages |-> IF inBatch[m] = b THEN 0 ELSE retryCount[m]]
  /\ analysed' = [m \in Messages |->
       IF m \in BatchMessages(b) THEN analysed[m] \cup {content[b][m]} ELSE analysed[m]]
  /\ Leave(b)
  /\ UNCHANGED <<messageVars, seenRevision, deferred, ahead, serviceVars>>

\* CompleteRuntimeBatch refuses the decisions, and the batch fails instead:
\* as a conflict, or because the decisions are malformed.
RefuseBatch(b, code) ==
  /\ analyst[b] = "decided" /\ ~Cancelled(b)
  /\ \/ code = "conflict" /\ ~Accepted(b)
     \/ code = "invalid_input" /\ Accepted(b) /\ Mode = "proactive"
  /\ FailRuntimeBatch(b, code)

\* The context ended after the answer: both the completion and the failure
\* are written under it, so neither is, and only the lease is given back.
LoseBatch(b) ==
  /\ analyst[b] = "decided" /\ Cancelled(b)
  /\ analyst' = [analyst EXCEPT ![b] = "none"]
  /\ lease' = lease \ {b} /\ outdated' = outdated \ {b}
  /\ UNCHANGED <<messageVars, rowVars, batchStatus, content, attempt, overdue, analysed,
                 serviceVars>>

\* "late": also between the answer and the transaction that stores it.
PassDeadline(b) ==
  /\ b \in lease \ overdue
  /\ \/ "deadline" \in Environment /\ analyst[b] = "working"
     \/ "late" \in Environment /\ analyst[b] = "decided"
  /\ overdue' = overdue \cup {b}
  /\ UNCHANGED <<messageVars, rowVars, batchStatus, content, attempt, lease, outdated, analyst,
                 analysed, serviceVars>>

----------------------------------------------------------------------------
(* Declarations, crash, orderly stop and start. *)

\* A declaration with other permissions; the batches are not touched, but a
\* later completion is refused.
CommitAppliedConfig ==
  /\ "declare" \in Environment /\ CountEvent
  /\ outdated' = outdated \cup lease
  /\ UNCHANGED <<messageVars, rowVars, batchStatus, content, attempt, lease, overdue, analyst,
                 analysed, service>>

\* A declaration that changes the runtime itself fails its batches, too.
InvalidateRuntimeConfigWork ==
  /\ "declare" \in Environment /\ CountEvent
  /\ FailRows(Open, "configuration_changed")
  /\ batchStatus' = [b \in Batches |->
       IF b \in Open THEN IF analyst[b] = "none" THEN "over" ELSE "failed" ELSE batchStatus[b]]
  /\ outdated' = outdated \cup lease
  /\ Forget({b \in Batches : analyst[b] = "none"})
  /\ UNCHANGED <<messageVars, lease, analyst, analysed, service>>

\* The process dies with its goroutines; its leases stay.
Crash ==
  /\ "crash" \in Environment /\ CountEvent
  /\ service \in {"up", "draining"}
  /\ service' = IF service = "up" THEN "down" ELSE "stopped"
  /\ analyst' = [b \in Batches |-> "none"]
  /\ UNCHANGED <<messageVars, rowVars, batchStatus, content, attempt, lease, overdue, outdated,
                 analysed>>

Stop ==
  /\ "stop" \in Environment /\ CountEvent
  /\ service = "up" /\ service' = "draining"
  /\ UNCHANGED <<messageVars, rowVars, batchVars>>

Drained ==
  /\ service = "draining" /\ \A b \in Batches : analyst[b] = "none"
  /\ service' = "stopped"
  /\ UNCHANGED <<messageVars, rowVars, batchVars, events>>

\* recoverWork and RecoverRuntime.
RecoverRuntime ==
  /\ service \in {"down", "stopped"}
  /\ service' = "up"
  /\ lease' = {} /\ outdated' = {}
  /\ FailRows(Open, "runtime_restarted")
  /\ batchStatus' = [b \in Batches |-> "over"]
  /\ Forget(Batches)
  /\ UNCHANGED <<messageVars, analyst, analysed, events>>

----------------------------------------------------------------------------
Codes == Transient \cup {"conflict", "invalid_input"}

analyze(b) ==
  \/ Decide(b) \/ CompleteRuntimeBatch(b) \/ LoseBatch(b)
  \/ \E code \in Codes : FailAnalysis(b, code) \/ RefuseBatch(b, code)

ClaimOf(r) == \E b \in Batches : ClaimRuntimeBatch(b, r)

Next ==
  \/ \E m \in Messages : Intake(m) \/ applyMessage(m) \/ markRecalled(m) \/ BackoffPasses(m)
  \/ SyncRuntimeMessages
  \/ \E r \in Routes : ClaimOf(r)
  \/ \E b \in Batches : analyze(b) \/ PassDeadline(b)
  \/ CommitAppliedConfig \/ InvalidateRuntimeConfigWork \/ Crash \/ Stop \/ Drained \/ RecoverRuntime

Spec == Init /\ [][Next]_vars

\* The tick syncs and claims, goroutines run, back-offs pass, and launchd
\* restarts a crashed process.  A route is not passed over for ever: the claim
\* takes the eligible route that waits longest (its virtual ready time).
Fairness ==
  /\ WF_vars(SyncRuntimeMessages)
  /\ \A r \in Routes : SF_vars(ClaimOf(r))
  /\ \A b \in Batches : WF_vars(analyze(b))
  /\ \A m \in Messages : WF_vars(BackoffPasses(m))
  /\ WF_vars(service = "down" /\ RecoverRuntime)

LiveSpec == Spec /\ Fairness

----------------------------------------------------------------------------
(* Properties. *)

\* A message under analysis belongs to a batch that is open and holds the very
\* revision the row was synchronised to: no failure, edit, recall, declaration
\* or recovery leaves a row behind in a batch that is over.  And a message is
\* "processed" only at a revision that an analysis completed with: an edit
\* between reading and claiming a row, or during the analysis, never makes the
\* runtime skip the new text.  At most one analysis of a conversation runs in a
\* process, also while the batch of an earlier one was failed under it.
MessagesAreAnalysed ==
  /\ \A m \in Messages :
       /\ state[m] = "batched" =>
            /\ inBatch[m] # NoBatch
            /\ batchStatus[inBatch[m]] = "analyzing"
            /\ content[inBatch[m]][m] = seenRevision[m]
       /\ state[m] = "processed" => seenRevision[m] \in analysed[m]
  /\ \A r \in Routes : Cardinality({b \in BatchesOf(r) : analyst[b] # "none"}) <= 1

\* Messages of one conversation are analysed in the order they were received
\* ("Order inside each conversation remains local receive order"): whatever
\* fails, backs off, is recovered or is returned by a stop, no message is still
\* waiting when a later one was analysed.  Edits start a message anew.
ReceiveOrder ==
  \A m, n \in Messages :
    /\ m < n /\ RouteOf[m] = RouteOf[n]
    /\ 1 \in analysed[n] /\ revision[m] = 1 /\ m \notin gone
    => state[m] \notin {"none", "pending", "batched"}

\* Every received message is settled at its newest revision: analysed, context,
\* withdrawn or given up; retries, crashes, timeouts and other conversations do
\* not keep it waiting for ever, unless the runtime is stopped.
Settled(m) ==
  /\ state[m] \in {"context", "processed", "recalled", "analysis_failed"}
  /\ seenRevision[m] = revision[m]
EveryMessageSettles ==
  \A m \in Messages : m \in Received ~> Settled(m) \/ service \in {"draining", "stopped"}

\* Claims about the code that it does not keep (see the README).

\* A batch that ran past its deadline is tried again or given up: its messages
\* do not stay under analysis ("analysis that is unavailable or times out is
\* retried at most twice ... and does not block later messages").
OverdueBatchEnds ==
  \A b \in Batches :
    b \in overdue /\ batchStatus[b] = "analyzing"
      ~> batchStatus[b] # "analyzing" \/ service # "up"

\* A message is given up after its own three transient failures ("retried at
\* most twice").
GivenUpAfterRetries ==
  [][\A b \in Batches, code \in Transient : FailAnalysis(b, code) =>
       \A m \in Messages : state[m] = "batched" /\ state'[m] = "analysis_failed" =>
         retryCount[m] = MaxAttempts - 1]_vars
=============================================================================
