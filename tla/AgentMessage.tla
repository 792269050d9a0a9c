---------------------------- MODULE AgentMessage ----------------------------
(***************************************************************************)
(* Messages that a proactive Agent sends in its owner's name               *)
(* (internal/core/runtime_message_action.go, internal/cli/                 *)
(* runtime_message.go, internal/runtime/owner_message.go).                 *)
(*                                                                         *)
(* The Agent runs a command that records its intent under an idempotency   *)
(* key, calls the platform and records the answer, in three steps.  The    *)
(* platform shows the message in the conversation the service observes, so *)
(* it comes back as a message of the owner; until the platform has named   *)
(* the id of what it sent, messages of the owner in that conversation wait *)
(* ("waiting_receipt") and are not analysed.                               *)
(*                                                                         *)
(* One task and one observed conversation, whose identity is known.  Local *)
(* and platform clocks agree.                                              *)
(***************************************************************************)
EXTENDS Integers, FiniteSets

CONSTANTS
  Keys,         \* idempotency keys
  Contents,     \* what the digest covers besides the task: content, target, reason
  Commands,     \* processes of the command
  Humans,       \* messages the owner writes
  Environment,  \* which events can happen
  MaxVersion,   \* bound on the versions of the task
  MaxEvents     \* bound on events

ASSUME AgentMessageAssumption ==
  /\ MaxVersion \in Nat \ {0}
  /\ MaxEvents \in Nat

Observed == Keys \cup Humans

VARIABLES
  status, version,  \* the runtime_task
  retried,      \* the current version was made by a retry or a continuation
  current,      \* the task's source messages and evidence are current
  action,       \* runtime_message_actions by idempotency key
  command,      \* the processes of the command
  platform,     \* what became of the message of a key at the platform
  sends,        \* how often the platform took a message under a key
  seen,         \* runtime_message_states: the observed messages
  before,       \* the actions that existed when an observed message was sent
  query,        \* a status query of the service's tick
  events        \* number of events so far

taskVars == <<status, version, retried, current>>
sendVars == <<action, command, platform, sends>>
seenVars == <<seen, before>>
vars == <<status, version, retried, current, action, command, platform, sends, seen, before,
          query, events>>

NoAction == [state |-> "absent"]
Idle == [step |-> "idle"]
NoQuery == [answer |-> "none"]

TypeOK ==
  /\ status \in {"pending", "running", "completed", "failed", "stale"}
  /\ version \in 1..MaxVersion
  /\ retried \in BOOLEAN /\ current \in BOOLEAN
  /\ action \in [Keys -> {NoAction}
       \cup [content : Contents, version : 1..MaxVersion, task : BOOLEAN, ids : BOOLEAN,
             state : {"sending", "accepted", "failed", "unknown"}]]
  /\ command \in [Commands -> {Idle}
       \cup [step : {"asked", "authorized"}, key : Keys, content : Contents, version : 1..MaxVersion]
       \cup [step : {"answered"}, key : Keys, content : Contents, version : 1..MaxVersion,
             state : {"accepted", "failed", "unknown"}, task : BOOLEAN, ids : BOOLEAN]]
  /\ platform \in [Keys -> {"none", "taken", "shown", "dropped"}]
  /\ sends \in [Keys -> Nat]
  /\ seen \in [Observed -> {"unseen", "sent", "waiting_receipt", "pending", "context", "analysed"}]
  /\ before \in [Observed -> SUBSET Keys]
  /\ query \in {NoQuery} \cup [answer : {"accepted", "failed", "unknown"}, key : Keys]
  /\ events \in 0..MaxEvents

Init ==
  /\ status = "running" /\ version = 1 /\ retried = FALSE /\ current = TRUE
  /\ action = [k \in Keys |-> NoAction]
  /\ command = [p \in Commands |-> Idle]
  /\ platform = [k \in Keys |-> "none"]
  /\ sends = [k \in Keys |-> 0]
  /\ seen = [m \in Observed |-> "unseen"]
  /\ before = [m \in Observed |-> {}]
  /\ query = NoQuery
  /\ events = 0

Event(e) == e \in Environment /\ events < MaxEvents /\ events' = events + 1

Exists(k) == action[k] # NoAction

----------------------------------------------------------------------------
(* The command.                                                            *)

Ends(p) == command' = [command EXCEPT ![p] = Idle]

\* A known key is answered from its row and starts nothing.
ExistingRuntimeMessageAction(p, k, c) ==
  /\ status = "running" /\ command[p] = Idle /\ ~Exists(k)
  /\ command' = [command EXCEPT ![p] = [step |-> "asked", key |-> k, content |-> c, version |-> version]]
  /\ UNCHANGED <<taskVars, action, platform, sends, seenVars, query, events>>

Permitted(v) == status = "running" /\ version = v /\ current

\* Mutant: the key is looked up before the transaction only.
AuthorizeAsAsked(p) ==
  /\ command[p].step = "asked"
  /\ LET k == command[p].key
     IN IF ~Permitted(command[p].version)
        THEN Ends(p) /\ UNCHANGED action
        ELSE /\ action' = [action EXCEPT ![k] =
                  [content |-> command[p].content, version |-> version, task |-> FALSE, ids |-> FALSE,
                   state |-> "sending"]]
             /\ command' = [command EXCEPT ![p].step = "authorized"]
  /\ UNCHANGED <<taskVars, platform, sends, seenVars, query, events>>

\* The intent is recorded before the call; a second command with the key gets
\* the row of the first, whatever its state, and does not send.
AuthorizeRuntimeMessageAction(p) ==
  /\ command[p].step = "asked"
  /\ LET k == command[p].key
     IN IF Exists(k) \/ ~Permitted(command[p].version)
        THEN Ends(p) /\ UNCHANGED action
        ELSE /\ action' = [action EXCEPT ![k] =
                  [content |-> command[p].content, version |-> version, task |-> FALSE, ids |-> FALSE,
                   state |-> "sending"]]
             /\ command' = [command EXCEPT ![p].step = "authorized"]
  /\ UNCHANGED <<taskVars, platform, sends, seenVars, query, events>>

Status(now) ==
  CASE now = "shown" -> "accepted" [] now = "dropped" -> "failed" [] OTHER -> "unknown"

\* The platform takes the message or not, and says so or not.  A message it
\* acknowledged has a send task, whose status the adapter reads once.
sendOwnerMessage(p) ==
  /\ command[p].step = "authorized"
  /\ LET k == command[p].key
         Answer(state, task, ids) ==
           command' = [command EXCEPT ![p] =
             [step |-> "answered", key |-> k, content |-> @.content, version |-> @.version,
              state |-> state, task |-> task, ids |-> ids]]
         Taken(now) == platform' = [platform EXCEPT ![k] = now] /\ sends' = [sends EXCEPT ![k] = @ + 1]
     IN \/ \E now \in {"taken", "shown", "dropped"} :
             Taken(now) /\ Answer(Status(now), TRUE, now = "shown") /\ UNCHANGED events
        \/ /\ Event("fault")
           /\ \/ UNCHANGED <<platform, sends>> /\ Answer("failed", FALSE, FALSE)
              \/ UNCHANGED <<platform, sends>> /\ Answer("unknown", FALSE, FALSE)
              \/ Taken("taken") /\ Answer("unknown", FALSE, FALSE)
              \/ Taken("taken") /\ Answer("accepted", TRUE, FALSE)
  /\ UNCHANGED <<taskVars, action, seenVars, query>>

\* The answer of a call whose outcome was meanwhile called unknown still counts.
RecordRuntimeMessageResult(p) ==
  /\ command[p].step = "answered"
  /\ LET k == command[p].key
     IN action' = [action EXCEPT ![k] =
          IF @.state = "sending" \/ (@.state = "unknown" /\ ~@.task /\ ~@.ids)
          THEN [@ EXCEPT !.state = command[p].state, !.task = command[p].task, !.ids = command[p].ids]
          ELSE @]
  /\ Ends(p)
  /\ UNCHANGED <<taskVars, platform, sends, seenVars, query, events>>

\* The process is killed with its Agent or by itself.
CommandDies(p) ==
  /\ command[p] # Idle /\ Event("kill")
  /\ Ends(p)
  /\ UNCHANGED <<taskVars, action, platform, sends, seenVars, query>>

\* The platform delivers what it took, or drops it.
Deliver(k) ==
  /\ platform[k] = "taken"
  /\ \E now \in {"shown", "dropped"} : platform' = [platform EXCEPT ![k] = now]
  /\ UNCHANGED <<taskVars, action, command, sends, seenVars, query, events>>

----------------------------------------------------------------------------
(* The conversation and the service's tick.                                *)

\* A message appears in the conversation and is collected.
Appear(m) ==
  /\ seen[m] = "unseen"
  /\ m \in Keys => platform[m] = "shown"
  /\ seen' = [seen EXCEPT ![m] = "sent"]
  /\ before' = [before EXCEPT ![m] = {k \in Keys : Exists(k)}]
  /\ UNCHANGED <<taskVars, sendVars, query, events>>

RuntimeAgentMessageEcho(m) ==
  m \in Keys /\ Exists(m) /\ action[m].ids /\ action[m].state # "sending"

\* Mutant: only an action whose outcome is open makes messages wait.
AwaitingUncertain(m) ==
  \E k \in before[m] : action[k].state \in {"sending", "unknown"} /\ ~action[k].ids

RuntimeAgentMessageAwaitingReceipt(m) ==
  \E k \in before[m] : action[k].state \in {"sending", "unknown", "accepted"} /\ ~action[k].ids

\* Only new rows and rows that wait are looked at.
SyncRuntimeMessages ==
  /\ query = NoQuery
  /\ \E m \in Observed : seen[m] \in {"sent", "waiting_receipt"}
  /\ seen' = [m \in Observed |->
       IF seen[m] \notin {"sent", "waiting_receipt"} THEN seen[m]
       ELSE IF RuntimeAgentMessageEcho(m) THEN "context"
       ELSE IF RuntimeAgentMessageAwaitingReceipt(m) THEN "waiting_receipt"
       ELSE "pending"]
  /\ seen' # seen
  /\ UNCHANGED <<taskVars, sendVars, before, query, events>>

ClaimRuntimeBatch(m) ==
  /\ seen[m] = "pending"
  /\ seen' = [seen EXCEPT ![m] = "analysed"]
  /\ UNCHANGED <<taskVars, sendVars, before, query, events>>

\* Mutant: an accepted message needs no further question.
UnresolvedUnknown(k) ==
  Exists(k) /\ action[k].state \in {"unknown"} /\ action[k].task /\ ~action[k].ids

Unresolved(k) ==
  Exists(k) /\ action[k].state \in {"accepted", "unknown"} /\ action[k].task /\ ~action[k].ids

\* The query reads the platform; its answer is stored in a later transaction.
\* An error of the query changes nothing.
ReadOwnerMessageStatus(k) ==
  /\ query = NoQuery /\ Unresolved(k)
  /\ query' = [answer |-> Status(platform[k]), key |-> k]
  /\ UNCHANGED <<taskVars, sendVars, seenVars, events>>

ReconcileRuntimeMessageResult ==
  /\ query # NoQuery
  /\ LET k == query.key
     IN action' = [action EXCEPT ![k] =
          IF @.state \in {"accepted", "unknown"} /\ ~@.ids
          THEN [@ EXCEPT !.state = query.answer, !.ids = (query.answer = "accepted")]
          ELSE @]
  /\ query' = NoQuery
  /\ UNCHANGED <<taskVars, command, platform, sends, seenVars, events>>

----------------------------------------------------------------------------
(* The task.                                                               *)

\* Mutant: a message whose outcome is unknown does not stand in the way of a retry.
UncertainSending == \E k \in Keys : action[k].state = "sending"

Uncertain == \E k \in Keys : action[k].state \in {"sending", "unknown"}

\* Actions being sent become unknown.
GiveUp(keys) ==
  action' = [k \in Keys |-> IF k \in keys /\ action[k].state = "sending"
                            THEN [action[k] EXCEPT !.state = "unknown"] ELSE action[k]]

ClaimRuntimeTask ==
  /\ status = "pending" /\ current
  /\ status' = "running"
  /\ UNCHANGED <<version, retried, current, sendVars, seenVars, query, events>>

CompleteRuntimeTask ==
  /\ status = "running" /\ current
  /\ status' = "completed"
  /\ UNCHANGED <<version, retried, current, sendVars, seenVars, query, events>>

FailRuntimeTask ==
  /\ status = "running"
  /\ status' = "failed"
  /\ GiveUp({k \in Keys : Exists(k) /\ action[k].version = version})
  /\ UNCHANGED <<version, retried, current, command, platform, sends, seenVars, query, events>>

\* A restart of the service or a change of its configuration; the commands
\* are processes of their own and go on.
RecoverRuntime ==
  /\ Event("restart")
  /\ GiveUp(Keys)
  /\ status' = IF status = "running" THEN "failed" ELSE status
  /\ query' = NoQuery
  /\ UNCHANGED <<version, retried, current, command, platform, sends, seenVars>>

NewVersion(s, again) ==
  /\ version < MaxVersion
  /\ version' = version + 1 /\ status' = s /\ retried' = again

\* SetRuntimeTaskStatus and ResumeRuntimeTask ask for certainty.
RetryRuntimeTask ==
  /\ Event("retry")
  /\ status \in {"failed", "stale"}
  /\ ~Uncertain
  /\ NewVersion("pending", TRUE)
  /\ UNCHANGED <<current, sendVars, seenVars, query>>

\* An analysis changes the task, an edit or a recall withdraws its sources.
UpdateTask ==
  /\ Event("update")
  /\ NewVersion("pending", FALSE) /\ current' = TRUE
  /\ UNCHANGED <<sendVars, seenVars, query>>

EditSource ==
  /\ Event("edit") /\ current
  /\ current' = FALSE
  /\ UNCHANGED <<status, version, retried, sendVars, seenVars, query>>

Synchronise ==
  /\ ~current /\ status # "stale"
  /\ NewVersion("stale", FALSE)
  /\ UNCHANGED <<current, sendVars, seenVars, query, events>>

Next ==
  \/ \E p \in Commands :
       \/ \E k \in Keys, c \in Contents : ExistingRuntimeMessageAction(p, k, c)
       \/ AuthorizeRuntimeMessageAction(p)
       \/ sendOwnerMessage(p)
       \/ RecordRuntimeMessageResult(p)
       \/ CommandDies(p)
  \/ \E k \in Keys : Deliver(k) \/ ReadOwnerMessageStatus(k)
  \/ \E m \in Observed : Appear(m) \/ ClaimRuntimeBatch(m)
  \/ SyncRuntimeMessages \/ ReconcileRuntimeMessageResult
  \/ ClaimRuntimeTask \/ CompleteRuntimeTask \/ FailRuntimeTask \/ RecoverRuntime
  \/ RetryRuntimeTask \/ UpdateTask \/ EditSource \/ Synchronise

Spec == Init /\ [][Next]_vars

\* A started command goes on, the platform settles what it took, and the tick
\* queries every unresolved action and then synchronises, again and again.
Fairness ==
  /\ \A p \in Commands :
       WF_vars(AuthorizeRuntimeMessageAction(p) \/ sendOwnerMessage(p) \/ RecordRuntimeMessageResult(p))
  /\ \A k \in Keys : WF_vars(Deliver(k)) /\ SF_vars(ReadOwnerMessageStatus(k))
  /\ WF_vars(ReconcileRuntimeMessageResult) /\ SF_vars(SyncRuntimeMessages)

LiveSpec == Spec /\ Fairness

----------------------------------------------------------------------------
(* Properties.                                                             *)

\* Whatever commands, retries, restarts and lost answers do, the platform is
\* given one message per idempotency key, and a stored outcome is what happened
\* there (runtime_message_action.go:211).
OneSendPerKey == \A k \in Keys :
  /\ sends[k] <= 1
  /\ sends[k] = 1 => Exists(k)
  /\ action[k].state = "accepted" => platform[k] # "none"
  /\ action[k].state = "failed" => platform[k] \in {"none", "dropped"}
  /\ Exists(k) /\ action[k].ids => platform[k] = "shown"

\* What the Agent wrote never comes back as a wish of its owner.
EchoIsBackground == \A k \in Keys : seen[k] \notin {"pending", "analysed"}

\* When a task was retried, no command of an earlier version can still reach
\* the platform: the retry did not repeat what may yet be sent.
NothingSentBehindARetry ==
  retried => \A p \in Commands : command[p].step = "authorized" => command[p].version = version

\* A message of the owner waits no longer than the outcome of an action that
\* the platform can be asked about.
Askable == \A k \in Keys : Exists(k) /\ ~action[k].ids /\ action[k].state # "failed" => action[k].task
WaitingEnds == \A m \in Observed :
  (seen[m] = "waiting_receipt") ~> (seen[m] # "waiting_receipt" \/ ~Askable)
=============================================================================
