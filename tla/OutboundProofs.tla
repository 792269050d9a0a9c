---------------------------- MODULE OutboundProofs ----------------------------
(***************************************************************************)
(* Messages an Agent sends in its owner's name, and drafts a person        *)
(* dispatches, for any number of keys, commands, drafts and callers.       *)
(*                                                                         *)
(* Both arguments are about who may still call the platform.  The row that *)
(* is written before the call makes its writer the only one who may; a row *)
(* is settled only by that writer or by what the platform says, so a       *)
(* settled row has nobody left who could call.                             *)
(***************************************************************************)
EXTENDS MCOutbound, TLAPS

\* Command p may still call the platform for key k, or has its answer.
Calls(p, k) == command[p].step = "authorized" /\ command[p].key = k
Holds(p, k) == command[p].step \in {"authorized", "answered"} /\ command[p].key = k

\* The command that wrote the row of a key is the only one that acts on it.
Exclusive ==
  /\ \A p \in Commands, k \in Keys : Holds(p, k) => Exists(k)
  /\ \A p, q \in Commands, k \in Keys : Holds(p, k) /\ Holds(q, k) => p = q

\* Nothing was sent for a key without a row or before its call.
Counted == \A k \in Keys :
  /\ sends[k] \in {0, 1} /\ (sends[k] = 0 <=> platform[k] = "none")
  /\ ~Exists(k) => sends[k] = 0
  /\ \A p \in Commands : Calls(p, k) => sends[k] = 0

\* What an outcome and a send id say of the platform.
Says(state, ids, k) ==
  /\ state = "accepted" => platform[k] # "none"
  /\ state = "failed" => platform[k] \in {"none", "dropped"}
  /\ ids => platform[k] = "shown" /\ state # "sending"

\* Rows, answers and queries say what is so, and who failed will not call.
Truthful ==
  /\ \A k \in Keys : Exists(k) => Says(action[k].state, action[k].ids, k)
  /\ \A k \in Keys : action[k].state = "failed" => \A p \in Commands : ~Calls(p, k)
  /\ \A p \in Commands : command[p].step = "answered" =>
       Says(command[p].state, command[p].ids, command[p].key)
  /\ query # NoQuery =>
       /\ query.answer = "accepted" => platform[query.key] = "shown"
       /\ query.answer = "failed" => platform[query.key] = "dropped"

\* An echo has been shown, and was waited for from its appearance.
Echoes == \A k \in Keys :
  /\ seen[k] # "unseen" => platform[k] = "shown" /\ k \in before[k] /\ Exists(k)
  /\ seen[k] \notin {"pending", "analysed"}

SendInv == TypeOK /\ Exclusive /\ Counted /\ Truthful /\ Echoes /\ NothingSentBehindARetry

LEMMA InitSendInv == Init => SendInv
<1> SUFFICES ASSUME Init PROVE SendInv
  OBVIOUS
<1>1. TypeOK
  <2>1. MaxVersion \in Nat \ {0} /\ MaxEvents \in Nat
    BY AgentMessageAssumption DEF AgentMessageAssumption
  <2>2. action \in [Keys -> {NoAction}] /\ command \in [Commands -> {Idle}]
    BY DEF Init
  <2>3. /\ platform \in [Keys -> {"none", "taken", "shown", "dropped"}] /\ sends \in [Keys -> Nat]
        /\ seen \in [Observed -> {"unseen", "sent", "waiting_receipt", "pending", "context", "analysed"}]
        /\ before \in [Observed -> SUBSET Keys]
    BY DEF Init
  <2>4. status = "running" /\ version \in 1..MaxVersion /\ events \in 0..MaxEvents
    BY <2>1 DEF Init
  <2> QED
    BY <2>2, <2>3, <2>4 DEF Init, TypeOK
<1>2. Exclusive /\ Counted /\ Truthful /\ Echoes /\ NothingSentBehindARetry
  BY DEF Init, Exclusive, Counted, Truthful, Echoes, NothingSentBehindARetry, Calls, Holds,
         Exists, NoAction, Idle, Observed
<1> QED
  BY <1>1, <1>2 DEF SendInv

----------------------------------------------------------------------------
(* Types, one action at a time.                                            *)

ActionRow == {NoAction}
  \cup [content : Contents, version : 1..MaxVersion, task : BOOLEAN, ids : BOOLEAN,
        state : {"sending", "accepted", "failed", "unknown"}]
Asked == [step : {"asked", "authorized"}, key : Keys, content : Contents, version : 1..MaxVersion]
Answered == [step : {"answered"}, key : Keys, content : Contents, version : 1..MaxVersion,
             state : {"accepted", "failed", "unknown"}, task : BOOLEAN, ids : BOOLEAN]

LEMMA RowTypes ==
  ASSUME TypeOK
  PROVE  /\ action \in [Keys -> ActionRow]
         /\ command \in [Commands -> {Idle} \cup Asked \cup Answered]
BY DEF TypeOK, ActionRow, Asked, Answered

\* Which record a command is, by its step.
LEMMA CommandKinds ==
  ASSUME TypeOK, NEW p \in Commands
  PROVE  /\ command[p].step \in {"idle", "asked", "authorized", "answered"}
         /\ command[p].step \in {"asked", "authorized"} => command[p] \in Asked
         /\ command[p].step = "answered" => command[p] \in Answered
         /\ command[p].step = "idle" <=> command[p] = Idle
BY RowTypes DEF Asked, Answered, Idle

LEMMA ActionKinds ==
  ASSUME TypeOK, NEW k \in Keys
  PROVE  /\ Exists(k) => action[k] \in ActionRow \ {NoAction}
         /\ ~Exists(k) <=> action[k].state = "absent"
BY RowTypes DEF ActionRow, NoAction, Exists

LEMMA StepTypes == TypeOK /\ [Next]_vars => TypeOK'
<1> SUFFICES ASSUME TypeOK, [Next]_vars PROVE TypeOK'
  OBVIOUS
<1> DEFINE Rows == action' \in [Keys -> ActionRow]
                   /\ command' \in [Commands -> {Idle} \cup Asked \cup Answered]
<1>0. ASSUME Rows,
             /\ status' \in {"pending", "running", "completed", "failed", "stale"}
             /\ version' \in 1..MaxVersion /\ retried' \in BOOLEAN /\ current' \in BOOLEAN
             /\ platform' \in [Keys -> {"none", "taken", "shown", "dropped"}]
             /\ sends' \in [Keys -> Nat] /\ events' \in 0..MaxEvents,
             /\ seen' \in [Observed -> {"unseen", "sent", "waiting_receipt", "pending", "context", "analysed"}]
             /\ before' \in [Observed -> SUBSET Keys]
             /\ query' \in {NoQuery} \cup [answer : {"accepted", "failed", "unknown"}, key : Keys]
      PROVE  TypeOK'
  BY <1>0 DEF TypeOK, ActionRow, Asked, Answered
<1> USE AgentMessageAssumption DEF AgentMessageAssumption, Event
<1>00. ASSUME \/ events' = events
              \/ events < MaxEvents /\ events' = events + 1
       PROVE  events' \in 0..MaxEvents
  BY <1>00 DEF TypeOK
<1>1. ASSUME NEW p \in Commands, NEW k \in Keys, NEW c \in Contents,
             ExistingRuntimeMessageAction(p, k, c)
      PROVE  TypeOK'
  <2>1. command' = [command EXCEPT ![p] = [step |-> "asked", key |-> k, content |-> c, version |-> version]]
    BY <1>1 DEF ExistingRuntimeMessageAction
  <2>2. [step |-> "asked", key |-> k, content |-> c, version |-> version] \in Asked
    BY DEF Asked, TypeOK
  <2>3. UNCHANGED <<taskVars, action, platform, sends, seenVars, query, events>>
    BY <1>1 DEF ExistingRuntimeMessageAction
  <2>4. Rows
    BY <2>1, <2>2, <2>3, RowTypes
  <2> QED
    BY <1>0, <2>3, <2>4 DEF TypeOK, taskVars, seenVars
<1>2. ASSUME NEW p \in Commands, AuthorizeRuntimeMessageAction(p) PROVE TypeOK'
  <2>1. command[p] \in Asked /\ UNCHANGED <<taskVars, platform, sends, seenVars, query, events>>
    BY <1>2, CommandKinds DEF AuthorizeRuntimeMessageAction
  <2> DEFINE row == [content |-> command[p].content, version |-> version, task |-> FALSE,
                     ids |-> FALSE, state |-> "sending"]
             after == [command[p] EXCEPT !.step = "authorized"]
  <2>2. row \in ActionRow /\ after \in Asked
    BY <2>1 DEF TypeOK, ActionRow, Asked
  <2>3. \/ command' = [command EXCEPT ![p] = Idle] /\ action' = action
        \/ command' = [command EXCEPT ![p] = after] /\ action' = [action EXCEPT ![command[p].key] = row]
    BY <1>2 DEF AuthorizeRuntimeMessageAction, Ends
  <2>4. Rows
    <3> HIDE DEF row, after
    <3> QED
      BY <2>2, <2>3, RowTypes
  <2> QED
    BY <1>0, <2>1, <2>4 DEF TypeOK, taskVars, seenVars
<1>3. ASSUME NEW p \in Commands, sendOwnerMessage(p) PROVE TypeOK'
  <2>1. command[p] \in Asked /\ UNCHANGED <<taskVars, action, seenVars, query>>
    BY <1>3, CommandKinds DEF sendOwnerMessage
  <2>2. PICK answer \in Answered : command' = [command EXCEPT ![p] = answer]
    BY <1>3, <2>1, RowTypes DEF sendOwnerMessage, Answered, Asked, Status
  <2>3. /\ platform' \in [Keys -> {"none", "taken", "shown", "dropped"}]
        /\ sends' \in [Keys -> Nat] /\ events' \in 0..MaxEvents
    BY <1>3, <2>1 DEF sendOwnerMessage, TypeOK, Asked
  <2>4. Rows
    BY <2>1, <2>2, RowTypes
  <2> QED
    BY <1>0, <2>1, <2>3, <2>4 DEF TypeOK, taskVars, seenVars
<1>4. ASSUME NEW p \in Commands, RecordRuntimeMessageResult(p) PROVE TypeOK'
  <2>1. command[p] \in Answered /\ UNCHANGED <<taskVars, platform, sends, seenVars, query, events>>
    BY <1>4, CommandKinds DEF RecordRuntimeMessageResult
  <2> DEFINE k == command[p].key
             row == [action[k] EXCEPT !.state = command[p].state, !.task = command[p].task,
                                      !.ids = command[p].ids]
  <2>2. k \in Keys /\ (action[k].state \in {"sending", "unknown"} => row \in ActionRow)
    <3>1. k \in Keys /\ command[p].state \in {"accepted", "failed", "unknown"}
      BY <2>1 DEF Answered
    <3>2. command[p].task \in BOOLEAN /\ command[p].ids \in BOOLEAN
      BY <2>1 DEF Answered
    <3>3. ASSUME NEW r \in ActionRow \ {NoAction}, NEW s \in {"accepted", "failed", "unknown"},
                 NEW t \in BOOLEAN, NEW i \in BOOLEAN
          PROVE  [r EXCEPT !.state = s, !.task = t, !.ids = i] \in ActionRow
      BY DEF ActionRow
    <3>4. action[k].state \in {"sending", "unknown"} => action[k] \in ActionRow \ {NoAction}
      BY <3>1, RowTypes DEF NoAction
    <3> HIDE DEF k
    <3> QED
      BY <3>1, <3>2, <3>3, <3>4
  <2>3. command' = [command EXCEPT ![p] = Idle]
    BY <1>4 DEF RecordRuntimeMessageResult, Ends
  <2>4. \/ action' = [action EXCEPT ![k] = row] /\ action[k].state \in {"sending", "unknown"}
        \/ action' = [action EXCEPT ![k] = action[k]]
    BY <1>4 DEF RecordRuntimeMessageResult
  <2>5. Rows
    <3> HIDE DEF row, k
    <3> QED
      BY <2>2, <2>3, <2>4, RowTypes
  <2> QED
    BY <1>0, <2>1, <2>5 DEF TypeOK, taskVars, seenVars
<1>5. ASSUME NEW p \in Commands, CommandDies(p) PROVE TypeOK'
  <2>1. Rows
    BY <1>5, RowTypes DEF CommandDies, Ends
  <2> QED
    BY <1>0, <1>5, <2>1 DEF CommandDies, TypeOK, taskVars, seenVars
<1>6. ASSUME NEW k \in Keys, Deliver(k) PROVE TypeOK'
  <2>1. Rows
    BY <1>6, RowTypes DEF Deliver
  <2> QED
    BY <1>0, <1>6, <2>1 DEF Deliver, TypeOK, taskVars, seenVars
<1>7. ASSUME NEW k \in Keys, ReadOwnerMessageStatus(k) PROVE TypeOK'
  <2>1. Rows
    BY <1>7, RowTypes DEF ReadOwnerMessageStatus, sendVars
  <2>2. [answer |-> Status(platform[k]), key |-> k]
          \in [answer : {"accepted", "failed", "unknown"}, key : Keys]
    BY DEF Status
  <2> QED
    BY <1>0, <1>7, <2>1, <2>2 DEF ReadOwnerMessageStatus, TypeOK, taskVars, sendVars, seenVars
<1>8. ASSUME NEW m \in Observed, Appear(m) \/ ClaimRuntimeBatch(m) PROVE TypeOK'
  <2>1. Rows
    BY <1>8, RowTypes DEF Appear, ClaimRuntimeBatch, sendVars
  <2> QED
    BY <1>0, <1>8, <2>1 DEF Appear, ClaimRuntimeBatch, TypeOK, taskVars, sendVars
<1>9. CASE SyncRuntimeMessages
  <2>1. Rows
    BY <1>9, RowTypes DEF SyncRuntimeMessages, sendVars
  <2> QED
    BY <1>0, <1>9, <2>1 DEF SyncRuntimeMessages, TypeOK, taskVars, sendVars
<1>10. CASE ReconcileRuntimeMessageResult
  <2>1. query \in [answer : {"accepted", "failed", "unknown"}, key : Keys]
    BY <1>10 DEF ReconcileRuntimeMessageResult, TypeOK
  <2> DEFINE k == query.key
             row == [action[k] EXCEPT !.state = query.answer, !.ids = (query.answer = "accepted")]
  <2>2. k \in Keys /\ (action[k].state \in {"accepted", "unknown"} => row \in ActionRow)
    BY <2>1, RowTypes, ActionKinds DEF ActionRow, NoAction
  <2>3. \/ action' = [action EXCEPT ![k] = row] /\ action[k].state \in {"accepted", "unknown"}
        \/ action' = [action EXCEPT ![k] = action[k]]
    BY <1>10 DEF ReconcileRuntimeMessageResult
  <2>4. UNCHANGED <<taskVars, command, platform, sends, seenVars, events>> /\ query' = NoQuery
    BY <1>10 DEF ReconcileRuntimeMessageResult
  <2>5. Rows
    <3> HIDE DEF row, k
    <3> QED
      BY <2>2, <2>3, <2>4, RowTypes
  <2> QED
    BY <1>0, <2>4, <2>5 DEF TypeOK, taskVars, seenVars
<1>11. CASE FailRuntimeTask \/ RecoverRuntime
  <2>1. PICK keys : GiveUp(keys)
    BY <1>11 DEF FailRuntimeTask, RecoverRuntime
  <2>2. \A k \in Keys : action[k].state = "sending" => [action[k] EXCEPT !.state = "unknown"] \in ActionRow
    BY RowTypes, ActionKinds DEF ActionRow, NoAction
  <2>3. action' \in [Keys -> ActionRow]
    BY <2>1, <2>2, RowTypes DEF GiveUp
  <2>4. Rows
    BY <1>11, <2>3, RowTypes DEF FailRuntimeTask, RecoverRuntime
  <2> QED
    BY <1>0, <1>11, <2>4 DEF FailRuntimeTask, RecoverRuntime, TypeOK, seenVars
<1>12. CASE ClaimRuntimeTask \/ CompleteRuntimeTask
  <2>1. Rows
    BY <1>12, RowTypes DEF ClaimRuntimeTask, CompleteRuntimeTask, sendVars
  <2> QED
    BY <1>0, <1>12, <2>1 DEF ClaimRuntimeTask, CompleteRuntimeTask, TypeOK, sendVars, seenVars
<1>15. CASE EditSource
  <2>1. Rows
    BY <1>15, RowTypes DEF EditSource, sendVars
  <2>2. events' \in 0..MaxEvents
    BY <1>00, <1>15 DEF EditSource
  <2> QED
    BY <1>0, <1>15, <2>1, <2>2 DEF EditSource, TypeOK, sendVars, seenVars
<1>13. CASE RetryRuntimeTask \/ UpdateTask \/ Synchronise
  <2>1. Rows
    BY <1>13, RowTypes DEF RetryRuntimeTask, UpdateTask, Synchronise, sendVars
  <2>2. /\ version' = version + 1 /\ version < MaxVersion /\ status' \in {"pending", "stale"}
        /\ retried' \in BOOLEAN /\ current' \in BOOLEAN
    BY <1>13 DEF RetryRuntimeTask, UpdateTask, Synchronise, NewVersion, TypeOK
  <2>3. events' \in 0..MaxEvents
    <3>1. CASE RetryRuntimeTask \/ UpdateTask
      BY <1>00, <3>1 DEF RetryRuntimeTask, UpdateTask
    <3>2. CASE Synchronise
      BY <1>00, <3>2 DEF Synchronise, TypeOK
    <3> QED
      BY <1>13, <3>1, <3>2
  <2>4. UNCHANGED <<platform, sends, seen, before, query>>
    BY <1>13 DEF RetryRuntimeTask, UpdateTask, Synchronise, sendVars, seenVars
  <2>5. version' \in 1..MaxVersion
    BY <2>2 DEF TypeOK
  <2> QED
    BY <1>0, <2>1, <2>2, <2>3, <2>4, <2>5 DEF TypeOK
<1>14. CASE UNCHANGED vars
  BY <1>14 DEF vars, TypeOK
<1> QED
  BY <1>1, <1>2, <1>3, <1>4, <1>5, <1>6, <1>7, <1>8, <1>9, <1>10, <1>11, <1>12, <1>13, <1>14, <1>15 DEF Next
----------------------------------------------------------------------------
(* Safety.                                                                 *)

Sent == Exclusive /\ Counted /\ Truthful

\* Steps that end or begin commands, and change no row and no message.
LEMMA SentKept ==
  ASSUME Sent, UNCHANGED <<action, platform, sends>>, query' \in {query, NoQuery},
         \A q \in Commands : command'[q] = command[q] \/ command'[q].step \in {"idle", "asked"}
  PROVE  Sent'
<1>1. /\ \A q \in Commands, j \in Keys : Holds(q, j)' => Holds(q, j)
      /\ \A q \in Commands, j \in Keys : Calls(q, j)' => Calls(q, j)
      /\ \A j \in Keys : Exists(j)' = Exists(j)
  BY DEF Holds, Calls, Exists
<1>2. Exclusive'
  BY <1>1 DEF Sent, Exclusive
<1>3. Counted'
  BY <1>1 DEF Sent, Counted
<1>4. \A q \in Commands : command'[q].step = "answered" => command'[q] = command[q]
  OBVIOUS
<1>5. Truthful'
  BY <1>1, <1>4 DEF Sent, Truthful, Says
<1> QED
  BY <1>2, <1>3, <1>5 DEF Sent

LEMMA EchoesKept ==
  ASSUME Echoes, UNCHANGED seenVars,
         \A k \in Keys : platform[k] = "shown" => platform'[k] = "shown",
         \A k \in Keys : Exists(k) => Exists(k)'
  PROVE  Echoes'
BY DEF Echoes, seenVars

\* Whoever may call has a row that is not settled yet.
LEMMA CallIsOpen ==
  ASSUME TypeOK, Sent, NEW p \in Commands, NEW k \in Keys, Calls(p, k)
  PROVE  /\ action[k].state \in {"sending", "unknown"} /\ ~action[k].ids
         /\ platform[k] = "none" /\ sends[k] = 0
         /\ \A q \in Commands : Holds(q, k) => q = p
<1>1. Holds(p, k) /\ Exists(k)
  BY DEF Calls, Holds, Sent, Exclusive
<1>2. sends[k] = 0 /\ platform[k] = "none"
  BY DEF Sent, Counted
<1>3. action[k].state \in {"sending", "accepted", "failed", "unknown"}
  BY <1>1, ActionKinds DEF ActionRow, NoAction
<1>4. action[k].state \notin {"accepted", "failed"} /\ ~action[k].ids
  BY <1>1, <1>2 DEF Sent, Truthful, Says
<1> QED
  BY <1>1, <1>2, <1>3, <1>4 DEF Sent, Exclusive

\* A row that changes says what is so and calls nobody back.
LEMMA RowSettled ==
  ASSUME TypeOK, TypeOK', Sent, NEW k \in Keys, Exists(k), Exists(k)',
         \A j \in Keys \ {k} : action'[j] = action[j],
         UNCHANGED <<platform, sends>>, query' \in {query, NoQuery},
         \A q \in Commands : command'[q] = command[q] \/ command'[q].step \in {"idle", "asked"},
         Says(action'[k].state, action'[k].ids, k),
         action'[k].state = "failed" => \A q \in Commands : ~Calls(q, k)
  PROVE  Sent'
<1>1. /\ \A q \in Commands, j \in Keys : Holds(q, j)' => Holds(q, j)
      /\ \A q \in Commands, j \in Keys : Calls(q, j)' => Calls(q, j)
      /\ \A j \in Keys : Exists(j)' = Exists(j)
  BY DEF Holds, Calls, Exists
<1>2. Exclusive'
  BY <1>1 DEF Sent, Exclusive
<1>3. Counted'
  BY <1>1 DEF Sent, Counted
<1>4. \A q \in Commands : command'[q].step = "answered" => command'[q] = command[q]
  OBVIOUS
<1>5. Truthful'
  BY <1>1, <1>4 DEF Sent, Truthful, Says
<1> QED
  BY <1>2, <1>3, <1>5 DEF Sent

LEMMA StepSent ==
  ASSUME SendInv, TypeOK', [Next]_vars
  PROVE  Sent' /\ Echoes'
<1>1. Sent /\ TypeOK /\ Echoes
  BY DEF SendInv, Sent
<1>2. \A k \in Keys : /\ Exists(k) <=> action[k].state # "absent"
                      /\ Exists(k)' <=> action'[k].state # "absent"
  BY <1>1 DEF TypeOK, Exists, NoAction
<1>3. ASSUME NEW p \in Commands, NEW k \in Keys, NEW c \in Contents,
             ExistingRuntimeMessageAction(p, k, c)
      PROVE  Sent' /\ Echoes'
  <2>1. \A q \in Commands : command'[q] = command[q] \/ command'[q].step \in {"idle", "asked"}
    BY <1>1, <1>3, RowTypes DEF ExistingRuntimeMessageAction
  <2> QED
    BY <1>1, <1>3, <2>1, SentKept, EchoesKept DEF ExistingRuntimeMessageAction, Exists
<1>4. ASSUME NEW p \in Commands, AuthorizeRuntimeMessageAction(p)
      PROVE  Sent' /\ Echoes'
  <2>1. PICK k \in Keys : k = command[p].key /\ command[p].step = "asked"
    BY <1>1, <1>4, CommandKinds DEF AuthorizeRuntimeMessageAction, Asked
  <2>2. UNCHANGED <<platform, sends, seenVars, query>>
    BY <1>4 DEF AuthorizeRuntimeMessageAction
  <2>3. CASE UNCHANGED action /\ Ends(p)
    <3>1. \A q \in Commands : command'[q] = command[q] \/ command'[q].step \in {"idle", "asked"}
      BY <1>1, <2>3, RowTypes DEF Ends, Idle
    <3> QED
      BY <1>1, <2>2, <2>3, <3>1, SentKept, EchoesKept DEF Exists
  <2>4. CASE /\ ~Exists(k) /\ command' = [command EXCEPT ![p].step = "authorized"]
             /\ action' = [action EXCEPT ![k] =
                  [content |-> command[p].content, version |-> version, task |-> FALSE, ids |-> FALSE,
                   state |-> "sending"]]
    <3>1. /\ \A q \in Commands \ {p} : command'[q] = command[q]
          /\ command'[p].step = "authorized" /\ command'[p].key = k
      BY <1>1, <2>1, <2>4, CommandKinds, RowTypes DEF Asked
    <3>2. /\ \A j \in Keys \ {k} : action'[j] = action[j]
          /\ action'[k].state = "sending" /\ ~action'[k].ids
      BY <1>1, <2>1, <2>4, RowTypes
    <3>a. ASSUME NEW q \in Commands, NEW j \in Keys
          PROVE  Holds(q, j)' <=> Holds(q, j) \/ (q = p /\ j = k)
      <4>1. CASE q = p
        BY <2>1, <3>1, <4>1 DEF Holds
      <4>2. CASE q # p
        <5>1. command'[q] = command[q] /\ (Holds(q, j)' <=> Holds(q, j))
          BY <3>1, <4>2 DEF Holds
        <5> QED
          BY <4>2, <5>1 DEF Holds
      <4> QED
        BY <4>1, <4>2
    <3>b. ASSUME NEW q \in Commands, NEW j \in Keys
          PROVE  Calls(q, j)' <=> Calls(q, j) \/ (q = p /\ j = k)
      <4>1. CASE q = p
        BY <2>1, <3>1, <4>1 DEF Calls
      <4>2. CASE q # p
        <5>1. command'[q] = command[q] /\ (Calls(q, j)' <=> Calls(q, j))
          BY <3>1, <4>2 DEF Calls
        <5> QED
          BY <4>2, <5>1 DEF Calls
      <4> QED
        BY <4>1, <4>2
    <3>c. ASSUME NEW j \in Keys PROVE Exists(j)' <=> Exists(j) \/ j = k
      <4>1. CASE j = k
        <5>1. action'[k].state # "absent"
          BY <3>2
        <5> QED
          BY <1>2, <4>1, <5>1
      <4>2. CASE j # k
        <5>1. action'[j] = action[j]
          BY <3>2, <4>2
        <5> QED
          BY <4>2, <5>1 DEF Exists
      <4> QED
        BY <4>1, <4>2
    <3>3. /\ \A q \in Commands, j \in Keys : Holds(q, j)' <=> Holds(q, j) \/ (q = p /\ j = k)
          /\ \A q \in Commands, j \in Keys : Calls(q, j)' <=> Calls(q, j) \/ (q = p /\ j = k)
          /\ \A j \in Keys : Exists(j)' <=> Exists(j) \/ j = k
      BY <3>a, <3>b, <3>c
    <3>4. Exclusive'
      BY <1>1, <2>1, <2>4, <3>3 DEF Sent, Exclusive
    <3>5. Counted'
      BY <1>1, <2>1, <2>2, <2>4, <3>3 DEF Sent, Counted
    <3>6. Truthful'
      BY <1>1, <1>2, <2>1, <2>2, <2>4, <3>1, <3>2, <3>3 DEF Sent, Truthful, Says
    <3>7. Echoes'
      BY <1>1, <2>2, <3>3, EchoesKept
    <3> QED
      BY <3>4, <3>5, <3>6, <3>7 DEF Sent
  <2> QED
    BY <1>4, <2>1, <2>3, <2>4 DEF AuthorizeRuntimeMessageAction
<1>5. ASSUME NEW p \in Commands, sendOwnerMessage(p)
      PROVE  Sent' /\ Echoes'
  <2>1. PICK k \in Keys : k = command[p].key /\ Calls(p, k)
    BY <1>1, <1>5, CommandKinds DEF sendOwnerMessage, Asked, Calls
  <2>2. UNCHANGED <<action, seenVars, query>>
    BY <1>5 DEF sendOwnerMessage
  <2>3. /\ \A q \in Commands \ {p} : command'[q] = command[q]
        /\ command'[p].step = "answered" /\ command'[p].key = k
        /\ \A j \in Keys \ {k} : platform'[j] = platform[j] /\ sends'[j] = sends[j]
    BY <1>1, <1>5, <2>1, RowTypes DEF sendOwnerMessage, TypeOK
  <2>4. /\ action[k].state \in {"sending", "unknown"} /\ ~action[k].ids
        /\ platform[k] = "none" /\ sends[k] = 0
        /\ \A q \in Commands : Holds(q, k) => q = p
    BY <1>1, <2>1, CallIsOpen
  <2>5. /\ sends'[k] \in {0, 1} /\ (sends'[k] = 0 <=> platform'[k] = "none")
        /\ Says(command[p].state, command[p].ids, k)'
    <3>1. command \in [Commands -> {Idle} \cup Asked \cup Answered] /\ sends \in [Keys -> Nat]
          /\ platform \in [Keys -> {"none", "taken", "shown", "dropped"}]
      BY <1>1, RowTypes DEF TypeOK
    <3> DEFINE Answer(state, task, ids) ==
                 command' = [command EXCEPT ![p] =
                   [step |-> "answered", key |-> k, content |-> @.content, version |-> @.version,
                    state |-> state, task |-> task, ids |-> ids]]
               Taken(now) == platform' = [platform EXCEPT ![k] = now] /\ sends' = [sends EXCEPT ![k] = @ + 1]
    <3>2. \/ \E now \in {"taken", "shown", "dropped"} :
               Taken(now) /\ Answer(Status(now), TRUE, now = "shown")
          \/ UNCHANGED <<platform, sends>> /\ Answer("failed", FALSE, FALSE)
          \/ UNCHANGED <<platform, sends>> /\ Answer("unknown", FALSE, FALSE)
          \/ Taken("taken") /\ Answer("unknown", FALSE, FALSE)
          \/ Taken("taken") /\ Answer("accepted", TRUE, FALSE)
      BY <1>5, <2>1 DEF sendOwnerMessage
    <3>3. ASSUME NEW now \in {"taken", "shown", "dropped"}, Taken(now)
          PROVE  platform'[k] = now /\ sends'[k] = 1
      BY <2>4, <3>1, <3>3
    <3>4. ASSUME NEW s, NEW t, NEW i, Answer(s, t, i)
          PROVE  command'[p].state = s /\ command'[p].ids = i
      BY <3>1, <3>4
    <3>5. CASE \E now \in {"taken", "shown", "dropped"} :
                 Taken(now) /\ Answer(Status(now), TRUE, now = "shown")
      <4>1. PICK now \in {"taken", "shown", "dropped"} :
              Taken(now) /\ Answer(Status(now), TRUE, now = "shown")
        BY <3>5
      <4>2. platform'[k] = now /\ sends'[k] = 1
        BY <3>3, <4>1
      <4>3. command'[p].state = Status(now) /\ command'[p].ids = (now = "shown")
        BY <3>4, <4>1, Zenon
      <4>4. /\ now = "taken" => command'[p].state = "unknown" /\ ~command'[p].ids
            /\ now = "shown" => command'[p].state = "accepted"
            /\ now = "dropped" => command'[p].state = "failed" /\ ~command'[p].ids
        BY <4>3 DEF Status
      <4> QED
        BY <4>2, <4>4 DEF Says
    <3>6. CASE UNCHANGED <<platform, sends>> /\ (Answer("failed", FALSE, FALSE) \/ Answer("unknown", FALSE, FALSE))
      <4>1. command'[p].state \in {"failed", "unknown"} /\ ~command'[p].ids
        BY <3>4, <3>6, Zenon
      <4> QED
        BY <2>4, <3>6, <4>1 DEF Says
    <3>7. CASE Taken("taken") /\ (Answer("unknown", FALSE, FALSE) \/ Answer("accepted", TRUE, FALSE))
      <4>1. command'[p].state \in {"accepted", "unknown"} /\ ~command'[p].ids
        BY <3>4, <3>7, Zenon
      <4>2. platform'[k] = "taken" /\ sends'[k] = 1
        BY <3>3, <3>7
      <4> QED
        BY <4>1, <4>2 DEF Says
    <3> QED
      BY <3>2, <3>5, <3>6, <3>7
  <2>6. /\ \A q \in Commands, j \in Keys : Holds(q, j)' <=> Holds(q, j)
        /\ \A q \in Commands, j \in Keys : Calls(q, j)' <=> Calls(q, j) /\ q # p
        /\ \A j \in Keys : Exists(j)' <=> Exists(j)
    BY <1>2, <2>1, <2>2, <2>3 DEF Holds, Calls
  <2>7. Exclusive'
    BY <1>1, <2>6 DEF Sent, Exclusive
  <2>8. Counted'
    BY <1>1, <2>1, <2>3, <2>4, <2>5, <2>6 DEF Sent, Counted, Exclusive, Calls, Holds
  <2>9. Truthful'
    <3>1. \A j \in Keys : \A s, i : Says(s, i, j) /\ j # k => Says(s, i, j)'
      BY <2>3 DEF Says
    <3>2. Says(action[k].state, action[k].ids, k)'
      BY <2>2, <2>4 DEF Says
    <3>3. \A j \in Keys : Exists(j)' => Says(action[j].state, action[j].ids, j)'
      BY <1>1, <2>2, <2>6, <3>1, <3>2 DEF Sent, Truthful
    <3>4. \A j \in Keys : action[j].state' = "failed" => \A q \in Commands : ~Calls(q, j)'
      BY <1>1, <2>2, <2>6 DEF Sent, Truthful
    <3>5. ASSUME NEW q \in Commands, command'[q].step = "answered"
          PROVE  Says(command[q].state, command[q].ids, command[q].key)'
      <4>1. CASE q = p
        BY <2>3, <2>5, <4>1
      <4>2. CASE q # p
        <5>1. command'[q] = command[q] /\ command[q].key \in Keys
          BY <1>1, <2>3, <3>5, <4>2, CommandKinds DEF Answered
        <5>2. command[q].key # k
          BY <2>4, <3>5, <4>2, <5>1 DEF Holds
        <5>3. Says(command[q].state, command[q].ids, command[q].key)
          BY <1>1, <3>5, <5>1 DEF Sent, Truthful
        <5> QED
          BY <3>1, <5>1, <5>2, <5>3 DEF Says
      <4> QED
        BY <4>1, <4>2
    <3>6. query' # NoQuery =>
            /\ query'.answer = "accepted" => platform'[query'.key] = "shown"
            /\ query'.answer = "failed" => platform'[query'.key] = "dropped"
      BY <1>1, <2>2, <2>3, <2>4 DEF Sent, Truthful, TypeOK
    <3> QED
      BY <3>3, <3>4, <3>5, <3>6 DEF Truthful, Says
  <2>10. Echoes'
    BY <1>1, <2>1, <2>2, <2>3, <2>4, <2>6, EchoesKept
  <2> QED
    BY <2>7, <2>8, <2>9, <2>10 DEF Sent
<1>6. ASSUME NEW p \in Commands, RecordRuntimeMessageResult(p)
      PROVE  Sent' /\ Echoes'
  <2>1. PICK k \in Keys : /\ k = command[p].key
                         /\ command[p] \in Answered /\ command[p].step = "answered"
    BY <1>1, <1>6, CommandKinds DEF RecordRuntimeMessageResult, Answered
  <2>2. UNCHANGED <<platform, sends, seenVars, query>>
    BY <1>6 DEF RecordRuntimeMessageResult
  <2>3. \A q \in Commands : command'[q] = command[q] \/ command'[q].step \in {"idle", "asked"}
    BY <1>1, <1>6, RowTypes DEF RecordRuntimeMessageResult, Ends, Idle
  <2>4. Holds(p, k) /\ Exists(k)
    BY <1>1, <2>1 DEF Holds, Sent, Exclusive
  <2>5. CASE UNCHANGED action
    BY <1>1, <2>2, <2>3, <2>5, SentKept, EchoesKept DEF Exists
  <2>6. CASE action' = [action EXCEPT ![k] =
               [@ EXCEPT !.state = command[p].state, !.task = command[p].task, !.ids = command[p].ids]]
    <3>1. action[k] \in ActionRow \ {NoAction}
      BY <1>1, <2>1, <2>4, ActionKinds
    <3>2. /\ action'[k].state = command[p].state /\ action'[k].ids = command[p].ids
          /\ \A j \in Keys \ {k} : action'[j] = action[j]
      BY <1>1, <2>1, <2>6, <3>1, RowTypes DEF ActionRow
    <3>3. Exists(k)'
      BY <1>2, <2>1, <3>2 DEF Answered
    <3>4. Says(action'[k].state, action'[k].ids, k)
      BY <1>1, <2>1, <3>2 DEF Sent, Truthful
    <3>5. \A q \in Commands : ~Calls(q, k)
      BY <1>1, <2>1, <2>4 DEF Sent, Exclusive, Calls, Holds
    <3>6. Sent'
      BY <1>1, <2>1, <2>2, <2>3, <2>4, <3>2, <3>3, <3>4, <3>5, RowSettled
    <3>7. Echoes'
      BY <1>1, <1>2, <2>2, <3>2, <3>3, EchoesKept
    <3> QED
      BY <3>6, <3>7
  <2>7. \/ action' = [action EXCEPT ![k] = action[k]]
        \/ action' = [action EXCEPT ![k] =
               [@ EXCEPT !.state = command[p].state, !.task = command[p].task, !.ids = command[p].ids]]
    BY <1>6, <2>1 DEF RecordRuntimeMessageResult
  <2> QED
    BY <1>1, <2>1, <2>5, <2>6, <2>7, RowTypes
<1>7. ASSUME NEW p \in Commands, CommandDies(p)
      PROVE  Sent' /\ Echoes'
  <2>1. \A q \in Commands : command'[q] = command[q] \/ command'[q].step \in {"idle", "asked"}
    BY <1>1, <1>7, RowTypes DEF CommandDies, Ends, Idle
  <2> QED
    BY <1>1, <1>7, <2>1, SentKept, EchoesKept DEF CommandDies, Exists
<1>8. ASSUME NEW k \in Keys, Deliver(k)
      PROVE  Sent' /\ Echoes'
  <2>1. /\ UNCHANGED <<action, command, sends, seenVars, query>>
        /\ platform[k] = "taken" /\ platform'[k] \in {"shown", "dropped"}
        /\ \A j \in Keys \ {k} : platform'[j] = platform[j]
    BY <1>1, <1>8 DEF Deliver, TypeOK
  <2>2. Exclusive' /\ Counted'
    BY <1>1, <2>1 DEF Sent, Exclusive, Counted, Holds, Calls, Exists
  <2>3. \A j \in Keys : \A s, i : Says(s, i, j) => Says(s, i, j)'
    BY <2>1 DEF Says
  <2>4. /\ \A q \in Commands : command[q].step = "answered" => command[q].key \in Keys
        /\ query # NoQuery => query.key \in Keys
    BY <1>1, CommandKinds DEF Answered, TypeOK
  <2>5. Truthful'
    BY <1>1, <2>1, <2>3, <2>4 DEF Sent, Truthful, Calls, Exists
  <2>6. Echoes'
    BY <1>1, <2>1, EchoesKept DEF Exists
  <2> QED
    BY <2>2, <2>5, <2>6 DEF Sent
<1>9. ASSUME NEW k \in Keys, ReadOwnerMessageStatus(k)
      PROVE  Sent' /\ Echoes'
  <2>1. /\ UNCHANGED <<action, command, platform, sends, seenVars>>
        /\ query' = [answer |-> Status(platform[k]), key |-> k]
    BY <1>9 DEF ReadOwnerMessageStatus, sendVars
  <2>2. /\ query'.answer = "accepted" => platform'[query'.key] = "shown"
        /\ query'.answer = "failed" => platform'[query'.key] = "dropped"
    BY <2>1 DEF Status
  <2>3. Exclusive' /\ Counted' /\ Truthful'
    BY <1>1, <2>1, <2>2 DEF Sent, Exclusive, Counted, Truthful, Holds, Calls, Exists, Says
  <2> QED
    BY <1>1, <2>1, <2>3, EchoesKept DEF Sent, Exists
<1>10. ASSUME NEW m \in Observed, Appear(m)
       PROVE  Sent' /\ Echoes'
  <2>1. UNCHANGED <<action, command, platform, sends, query>>
    BY <1>10 DEF Appear, sendVars
  <2>2. Sent'
    BY <1>1, <2>1, SentKept
  <2>3. /\ m \in Keys => platform[m] = "shown"
        /\ seen' = [seen EXCEPT ![m] = "sent"] /\ before' = [before EXCEPT ![m] = {j \in Keys : Exists(j)}]
    BY <1>10 DEF Appear
  <2>4. m \in Keys => Exists(m)
    BY <1>1, <2>3 DEF Sent, Counted
  <2>5. Echoes'
    BY <1>1, <2>1, <2>3, <2>4 DEF Echoes, Exists, TypeOK, Observed
  <2> QED
    BY <2>2, <2>5
<1>11. ASSUME NEW m \in Observed, ClaimRuntimeBatch(m)
       PROVE  Sent' /\ Echoes'
  <2>1. UNCHANGED <<action, command, platform, sends, query, before>>
    BY <1>11 DEF ClaimRuntimeBatch, sendVars
  <2>2. Sent'
    BY <1>1, <2>1, SentKept
  <2>3. Echoes'
    BY <1>1, <1>11, <2>1 DEF ClaimRuntimeBatch, Echoes, Exists, TypeOK, Observed
  <2> QED
    BY <2>2, <2>3
<1>12. CASE SyncRuntimeMessages
  <2>1. UNCHANGED <<action, command, platform, sends, query, before>>
    BY <1>12 DEF SyncRuntimeMessages, sendVars
  <2>2. Sent'
    BY <1>1, <2>1, SentKept
  <2>3. ASSUME NEW k \in Keys, seen[k] \in {"sent", "waiting_receipt"}
        PROVE  RuntimeAgentMessageEcho(k) \/ RuntimeAgentMessageAwaitingReceipt(k)
    <3>1. platform[k] = "shown" /\ k \in before[k] /\ Exists(k)
      BY <1>1, <2>3 DEF Echoes
    <3>2. action[k].state \in {"sending", "accepted", "failed", "unknown"}
      BY <1>1, <3>1, ActionKinds DEF ActionRow, NoAction
    <3>3. action[k].state # "failed" /\ (action[k].ids => action[k].state # "sending")
      BY <1>1, <3>1 DEF Sent, Truthful, Says
    <3> QED
      BY <3>1, <3>2, <3>3 DEF RuntimeAgentMessageEcho, RuntimeAgentMessageAwaitingReceipt
  <2>4. \A k \in Keys : /\ seen'[k] # "unseen" => seen[k] # "unseen"
                        /\ seen'[k] \notin {"pending", "analysed"}
    BY <1>1, <1>12, <2>3 DEF SyncRuntimeMessages, Echoes, Observed
  <2>5. Echoes'
    BY <1>1, <2>1, <2>4 DEF Echoes, Exists
  <2> QED
    BY <2>2, <2>5
<1>13. CASE ReconcileRuntimeMessageResult
  <2>1. /\ UNCHANGED <<command, platform, sends, seenVars>> /\ query' = NoQuery /\ query # NoQuery
    BY <1>13 DEF ReconcileRuntimeMessageResult
  <2>2. PICK k \in Keys : k = query.key /\ query.answer \in {"accepted", "failed", "unknown"}
    BY <1>1, <2>1 DEF TypeOK
  <2>3. CASE UNCHANGED action
    BY <1>1, <2>1, <2>3, SentKept, EchoesKept DEF Exists
  <2>4. CASE /\ action[k].state \in {"accepted", "unknown"}
             /\ action' = [action EXCEPT ![k] =
                  [@ EXCEPT !.state = query.answer, !.ids = (query.answer = "accepted")]]
    <3>1. action[k] \in ActionRow \ {NoAction} /\ Exists(k)
      BY <1>1, <1>2, <2>2, <2>4, ActionKinds
    <3>2. /\ action'[k].state = query.answer /\ action'[k].ids = (query.answer = "accepted")
          /\ \A j \in Keys \ {k} : action'[j] = action[j]
      BY <1>1, <2>2, <2>4, <3>1, RowTypes DEF ActionRow
    <3>3. Exists(k)'
      BY <1>2, <2>2, <3>2
    <3>4. /\ query.answer = "accepted" => platform[k] = "shown"
          /\ query.answer = "failed" => platform[k] = "dropped"
      BY <1>1, <2>1, <2>2 DEF Sent, Truthful
    <3>5. Says(action'[k].state, action'[k].ids, k)
      BY <3>2, <3>4 DEF Says
    <3>6. query.answer = "failed" => \A q \in Commands : ~Calls(q, k)
      BY <1>1, <2>2, <3>4 DEF Sent, Counted
    <3>7. Sent'
      BY <1>1, <2>1, <2>2, <3>1, <3>2, <3>3, <3>5, <3>6, RowSettled
    <3>8. Echoes'
      BY <1>1, <1>2, <2>1, <3>2, <3>3, EchoesKept
    <3> QED
      BY <3>7, <3>8
  <2>5. \/ action' = [action EXCEPT ![k] = action[k]]
        \/ /\ action[k].state \in {"accepted", "unknown"}
           /\ action' = [action EXCEPT ![k] =
                [@ EXCEPT !.state = query.answer, !.ids = (query.answer = "accepted")]]
    BY <1>13, <2>2 DEF ReconcileRuntimeMessageResult
  <2> QED
    BY <1>1, <2>2, <2>3, <2>4, <2>5, RowTypes
<1>14. CASE FailRuntimeTask \/ RecoverRuntime
  <2>1. UNCHANGED <<command, platform, sends, seenVars>> /\ query' \in {query, NoQuery}
    BY <1>14 DEF FailRuntimeTask, RecoverRuntime
  <2>2. PICK keys : GiveUp(keys)
    BY <1>14 DEF FailRuntimeTask, RecoverRuntime
  <2>3. \A j \in Keys : \/ action'[j] = action[j]
                        \/ /\ action[j].state = "sending" /\ action'[j].state = "unknown"
                           /\ action'[j].ids = action[j].ids
    <3>1. \A j \in Keys : action[j].state = "sending" =>
            /\ [action[j] EXCEPT !.state = "unknown"].state = "unknown"
            /\ [action[j] EXCEPT !.state = "unknown"].ids = action[j].ids
      BY <1>1, RowTypes DEF ActionRow, NoAction
    <3> QED
      BY <2>2, <3>1 DEF GiveUp
  <2>4. \A j \in Keys : Exists(j)' <=> Exists(j)
    BY <1>2, <2>3
  <2>5. Exclusive' /\ Counted'
    BY <1>1, <2>1, <2>4 DEF Sent, Exclusive, Counted, Holds, Calls
  <2>6. \A j \in Keys : Exists(j)' => Says(action'[j].state, action'[j].ids, j)
    BY <1>1, <2>3, <2>4 DEF Sent, Truthful, Says
  <2>7. Truthful'
    BY <1>1, <2>1, <2>3, <2>6 DEF Sent, Truthful, Calls, Says
  <2>8. Echoes'
    BY <1>1, <2>1, <2>4, EchoesKept
  <2> QED
    BY <2>5, <2>7, <2>8 DEF Sent
<1>15. CASE \/ ClaimRuntimeTask \/ CompleteRuntimeTask \/ RetryRuntimeTask \/ UpdateTask
            \/ EditSource \/ Synchronise \/ UNCHANGED vars
  <2>1. UNCHANGED <<action, command, platform, sends, seenVars, query>>
    BY <1>15 DEF ClaimRuntimeTask, CompleteRuntimeTask, RetryRuntimeTask, UpdateTask,
                 EditSource, Synchronise, vars, sendVars, seenVars
  <2> QED
    BY <1>1, <2>1, SentKept, EchoesKept DEF Exists
<1> QED
  BY <1>3, <1>4, <1>5, <1>6, <1>7, <1>8, <1>9, <1>10, <1>11, <1>12, <1>13, <1>14, <1>15 DEF Next

\* Steps that make no retried version leave nobody behind it.
LEMMA NobodyBehind ==
  ASSUME NothingSentBehindARetry, retried' => retried /\ version' = version,
         \A q \in Commands : command'[q].step = "authorized" =>
             \/ command[q].step = "authorized" /\ command'[q].version = command[q].version
             \/ command'[q].version = version'
  PROVE  NothingSentBehindARetry'
BY DEF NothingSentBehindARetry

LEMMA StepRetry ==
  ASSUME SendInv, [Next]_vars
  PROVE  NothingSentBehindARetry'
<1>1. NothingSentBehindARetry /\ TypeOK /\ Sent
  BY DEF SendInv, Sent
<1>2. CASE RetryRuntimeTask
  <2>1. UNCHANGED command /\ ~Uncertain
    BY <1>2 DEF RetryRuntimeTask, sendVars
  <2>2. ASSUME NEW p \in Commands PROVE command[p].step # "authorized"
    <3>1. SUFFICES ASSUME command[p].step = "authorized" PROVE FALSE
      OBVIOUS
    <3>2. PICK k \in Keys : Calls(p, k)
      BY <1>1, <3>1, CommandKinds DEF Calls, Asked
    <3>3. action[k].state \in {"sending", "unknown"}
      BY <1>1, <3>2, CallIsOpen
    <3> QED
      BY <2>1, <3>3 DEF Uncertain
  <2> QED
    BY <2>1, <2>2 DEF NothingSentBehindARetry
<1>3. ASSUME NEW p \in Commands, AuthorizeRuntimeMessageAction(p)
      PROVE  NothingSentBehindARetry'
  <2>1. /\ UNCHANGED taskVars /\ command[p].step = "asked"
        /\ \A q \in Commands \ {p} : command'[q] = command[q]
    BY <1>1, <1>3, RowTypes DEF AuthorizeRuntimeMessageAction, Ends
  <2>2. \/ command'[p].step = "idle"
        \/ command'[p].version = version
    <3>1. CASE Ends(p)
      BY <1>1, <3>1, RowTypes DEF Ends, Idle
    <3>2. CASE /\ Permitted(command[p].version)
               /\ command' = [command EXCEPT ![p].step = "authorized"]
      <4>1. command[p] \in Asked /\ command[p].version = version
        BY <1>1, <2>1, <3>2, CommandKinds DEF Permitted
      <4>2. [command[p] EXCEPT !.step = "authorized"].version = command[p].version
        BY <4>1 DEF Asked
      <4> QED
        BY <1>1, <3>2, <4>1, <4>2, RowTypes
    <3> QED
      BY <1>3, <3>1, <3>2 DEF AuthorizeRuntimeMessageAction
  <2>3. retried' = retried /\ version' = version
    BY <2>1 DEF taskVars
  <2> QED
    BY <1>1, <2>1, <2>2, <2>3, NobodyBehind
<1>4. ASSUME NEW p \in Commands, NEW k \in Keys, NEW c \in Contents,
             ExistingRuntimeMessageAction(p, k, c)
      PROVE  NothingSentBehindARetry'
  <2>1. /\ retried' = retried /\ version' = version
        /\ \A q \in Commands : command'[q] = command[q] \/ command'[q].step = "asked"
    BY <1>1, <1>4, RowTypes DEF ExistingRuntimeMessageAction, taskVars
  <2> QED
    BY <1>1, <2>1, NobodyBehind
<1>5. ASSUME NEW p \in Commands,
             RecordRuntimeMessageResult(p) \/ CommandDies(p)
      PROVE  NothingSentBehindARetry'
  <2>1. /\ retried' = retried /\ version' = version
        /\ \A q \in Commands : command'[q] = command[q] \/ command'[q].step = "idle"
    BY <1>1, <1>5, RowTypes DEF RecordRuntimeMessageResult, CommandDies, Ends, taskVars, Idle
  <2> QED
    BY <1>1, <2>1, NobodyBehind
<1>6. ASSUME NEW p \in Commands, sendOwnerMessage(p)
      PROVE  NothingSentBehindARetry'
  <2>2. \A q \in Commands : command'[q] = command[q] \/ command'[q].step = "answered"
    BY <1>1, <1>6, RowTypes DEF sendOwnerMessage
  <2>3. retried' = retried /\ version' = version
    BY <1>6 DEF sendOwnerMessage, taskVars
  <2> QED
    BY <1>1, <2>2, <2>3, NobodyBehind
<1>7. ASSUME UNCHANGED command, retried' => retried /\ version' = version
      PROVE  NothingSentBehindARetry'
  BY <1>1, <1>7 DEF NothingSentBehindARetry
<1>8. ASSUME NEW k \in Keys, Deliver(k) \/ ReadOwnerMessageStatus(k)
      PROVE  NothingSentBehindARetry'
  BY <1>7, <1>8 DEF Deliver, ReadOwnerMessageStatus, taskVars, sendVars
<1>9. ASSUME NEW m \in Observed, Appear(m) \/ ClaimRuntimeBatch(m)
      PROVE  NothingSentBehindARetry'
  BY <1>7, <1>9 DEF Appear, ClaimRuntimeBatch, taskVars, sendVars
<1>10. CASE SyncRuntimeMessages \/ ReconcileRuntimeMessageResult \/ UNCHANGED vars
  BY <1>7, <1>10 DEF SyncRuntimeMessages, ReconcileRuntimeMessageResult, taskVars, sendVars, vars
<1>11. CASE ClaimRuntimeTask \/ CompleteRuntimeTask \/ FailRuntimeTask \/ RecoverRuntime \/ EditSource
  BY <1>7, <1>11 DEF ClaimRuntimeTask, CompleteRuntimeTask, FailRuntimeTask, RecoverRuntime,
                     EditSource, sendVars
<1>12. CASE UpdateTask \/ Synchronise
  BY <1>7, <1>12 DEF UpdateTask, Synchronise, NewVersion, sendVars
<1> QED
  BY <1>2, <1>3, <1>4, <1>5, <1>6, <1>8, <1>9, <1>10, <1>11, <1>12 DEF Next

LEMMA NextSendInv == SendInv /\ [Next]_vars => SendInv'
<1> SUFFICES ASSUME SendInv, [Next]_vars PROVE SendInv'
  OBVIOUS
<1>1. TypeOK'
  BY StepTypes DEF SendInv
<1>2. Sent' /\ Echoes'
  BY <1>1, StepSent
<1>3. NothingSentBehindARetry'
  BY StepRetry
<1> QED
  BY <1>1, <1>2, <1>3 DEF SendInv, Sent

LEMMA SendInvariance == Spec => []SendInv
BY InitSendInv, NextSendInv, PTL DEF Spec

\* The service's and the command's state has its types
\* (runtime_message_action.go:24, :211, owner_message.go).
THEOREM MessageTypes == Spec => []TypeOK
<1>1. SendInv => TypeOK
  BY DEF SendInv
<1> QED
  BY SendInvariance, <1>1, PTL

\* Whatever commands, retries, restarts and lost answers do, the platform is
\* given at most one message per idempotency key, and a stored outcome is what
\* happened there (runtime_message_action.go:211).
THEOREM OneSend == Spec => []OneSendPerKey
<1>1. SendInv => OneSendPerKey
  <2> SUFFICES ASSUME SendInv, NEW k \in Keys
               PROVE  /\ sends[k] <= 1
                      /\ sends[k] = 1 => Exists(k)
                      /\ action[k].state = "accepted" => platform[k] # "none"
                      /\ action[k].state = "failed" => platform[k] \in {"none", "dropped"}
                      /\ Exists(k) /\ action[k].ids => platform[k] = "shown"
    BY DEF OneSendPerKey
  <2>1. sends[k] \in {0, 1} /\ (~Exists(k) => sends[k] = 0)
    BY DEF SendInv, Counted
  <2>2. Exists(k) => Says(action[k].state, action[k].ids, k)
    BY DEF SendInv, Truthful
  <2>3. ~Exists(k) => action[k].state = "absent"
    BY ActionKinds DEF SendInv
  <2> QED
    BY <2>1, <2>2, <2>3 DEF Says
<1> QED
  BY SendInvariance, <1>1, PTL

\* A message the Agent wrote in its owner's name never becomes input of an
\* analysis (runtime_message_action.go, runtime.go: SyncRuntimeMessages).
THEOREM EchoesStayBackground == Spec => []EchoIsBackground
<1>1. SendInv => EchoIsBackground
  BY DEF SendInv, Echoes, EchoIsBackground
<1> QED
  BY SendInvariance, <1>1, PTL

\* After a retry no command of an earlier version can still reach the platform
\* (runtime.go: SetRuntimeTaskStatus, ResumeRuntimeTask).
THEOREM NothingBehindARetry == Spec => []NothingSentBehindARetry
<1>1. SendInv => NothingSentBehindARetry
  BY DEF SendInv
<1> QED
  BY SendInvariance, <1>1, PTL

----------------------------------------------------------------------------
(* Drafts.  The state of a row is all that a dispatch checks, so the       *)
(* invariant says of each state who may still hand the text over.          *)

\* Draft d is in the hands of user u.
Carries(u, d) == caller[u].step = "authorized" /\ caller[u].draft = d

Closed == {"absent", "draft", "stale", "cancelled"}

HandInv ==
  /\ Reply!TypeOK
  /\ \A u, w \in Callers, d \in Reply!Drafts : Carries(u, d) /\ Carries(w, d) => u = w
  /\ \A d \in Reply!Drafts :
       /\ handed[d] \in {0, 1}
       /\ \A u \in Callers : Carries(u, d) => handed[d] = 0 /\ draft[d].state \notin Closed
       /\ draft[d].state \in Closed => handed[d] = 0

DraftRow ==
  [state : {"draft", "sending", "stale", "cancelled"} \cup Reply!Outcomes,
   version : 1..MaxRoute, attempts : Nat]
Reader == [step : {"read", "authorized"}, draft : Reply!Drafts]
Knower == [step : {"answered"}, draft : Reply!Drafts, outcome : Reply!Outcomes]

LEMMA ReplyKinds ==
  ASSUME Reply!TypeOK
  PROVE  /\ draft \in [Reply!Drafts -> {Reply!NoDraft} \cup DraftRow]
         /\ caller \in [Callers -> {Reply!Idle} \cup Reader \cup Knower]
         /\ \A d \in Reply!Drafts : draft[d] = Reply!NoDraft <=> draft[d].state = "absent"
         /\ \A d \in Reply!Drafts : draft[d].state \in {"absent", "draft", "sending", "stale", "cancelled"} \cup Reply!Outcomes
         /\ \A u \in Callers : /\ caller[u].step \in {"read", "authorized"} => caller[u] \in Reader
                               /\ caller[u].step = "answered" => caller[u] \in Knower
                               /\ caller[u].step = "idle" <=> caller[u] = Reply!Idle
                               /\ caller[u].step \in {"idle", "read", "authorized", "answered"}
<1>1. /\ draft \in [Reply!Drafts -> {Reply!NoDraft} \cup DraftRow]
      /\ caller \in [Callers -> {Reply!Idle} \cup Reader \cup Knower]
  BY DEF Reply!TypeOK, DraftRow, Reader, Knower
<1>2. \A d \in Reply!Drafts :
        /\ draft[d] = Reply!NoDraft <=> draft[d].state = "absent"
        /\ draft[d].state \in {"absent", "draft", "sending", "stale", "cancelled"} \cup Reply!Outcomes
  BY <1>1 DEF DraftRow, Reply!NoDraft, Reply!Outcomes
<1>3. \A u \in Callers : /\ caller[u].step \in {"read", "authorized"} => caller[u] \in Reader
                         /\ caller[u].step = "answered" => caller[u] \in Knower
                         /\ caller[u].step = "idle" <=> caller[u] = Reply!Idle
                         /\ caller[u].step \in {"idle", "read", "authorized", "answered"}
  BY <1>1 DEF Reader, Knower, Reply!Idle
<1> QED
  BY <1>1, <1>2, <1>3

LEMMA InitHandInv == Reply!Init => HandInv
<1> SUFFICES ASSUME Reply!Init PROVE HandInv
  OBVIOUS
<1>1. /\ draft \in [Reply!Drafts -> {Reply!NoDraft}] /\ caller \in [Callers -> {Reply!Idle}]
      /\ handed \in [Reply!Drafts -> {0}]
  BY DEF Reply!Init
<1>2. /\ routeVersion \in 1..MaxRoute /\ sendPolicy \in {"draft_only", "dispatch_only"}
      /\ verified \in BOOLEAN /\ opened \in [Contexts -> 0..MaxRoute]
  <2>1. MaxRoute \in Nat \ {0}
    BY ReplyAssumption DEF Reply!DraftOutboxAssumption
  <2>2. 1 \in 1..MaxRoute /\ 0 \in 0..MaxRoute
    BY <2>1
  <2> QED
    BY <2>2 DEF Reply!Init
<1>3. Reply!TypeOK
  <2>1. handed \in [Reply!Drafts -> Nat]
    BY <1>1
  <2> QED
    BY <1>1, <1>2, <2>1 DEF Reply!TypeOK
<1> QED
  BY <1>1, <1>3 DEF HandInv, Carries, Closed, Reply!NoDraft, Reply!Idle

LEMMA ReplyStepTypes == Reply!TypeOK /\ [Reply!Next]_replyVars => Reply!TypeOK'
<1> SUFFICES ASSUME Reply!TypeOK, [Reply!Next]_replyVars PROVE Reply!TypeOK'
  OBVIOUS
<1>a. MaxRoute \in Nat \ {0}
  BY ReplyAssumption DEF Reply!DraftOutboxAssumption
<1> DEFINE Route == /\ routeVersion \in 1..MaxRoute /\ sendPolicy \in {"draft_only", "dispatch_only"}
                    /\ verified \in BOOLEAN /\ opened \in [Contexts -> 0..MaxRoute]
           Drafted == draft \in [Reply!Drafts -> {Reply!NoDraft} \cup DraftRow]
           Called == caller \in [Callers -> {Reply!Idle} \cup Reader \cup Knower]
           Handed == handed \in [Reply!Drafts -> Nat]
<1>b. Route /\ Drafted /\ Called /\ Handed
  BY ReplyKinds DEF Reply!TypeOK
<1>g. ASSUME NEW u \in Callers
      PROVE  /\ caller[u].step \in {"read", "authorized"} => caller[u] \in Reader
             /\ caller[u].step = "answered" => caller[u] \in Knower
  BY ReplyKinds, Zenon
<1>c. Route' /\ Drafted' /\ Called' /\ Handed' => Reply!TypeOK'
  BY DEF Reply!TypeOK, DraftRow, Reader, Knower
<1>d. ASSUME NEW d \in Reply!Drafts, NEW s \in {"draft", "sending", "stale", "cancelled"} \cup Reply!Outcomes,
             draft[d] # Reply!NoDraft
      PROVE  [draft[d] EXCEPT !.state = s] \in DraftRow
  <2>1. draft[d] \in DraftRow
    BY <1>b, <1>d
  <2> QED
    BY <2>1 DEF DraftRow
<1>e. ASSUME NEW u \in Callers, Reply!Ends(u) PROVE Called'
  BY <1>b, <1>e DEF Reply!Ends
<1>1. ASSUME NEW x \in Contexts, Reply!OpenContext(x) \/ Reply!ContextExpires(x)
      PROVE  Reply!TypeOK'
  <2>1. UNCHANGED <<routeVersion, sendPolicy, verified, draft, caller, handed>>
    BY <1>1 DEF Reply!OpenContext, Reply!ContextExpires, Reply!routeVars
  <2>2. routeVersion \in 0..MaxRoute /\ 0 \in 0..MaxRoute
    BY <1>a, <1>b
  <2>3. opened' \in [Contexts -> 0..MaxRoute]
    BY <1>1, <1>b, <2>2 DEF Reply!OpenContext, Reply!ContextExpires
  <2> QED
    BY <1>b, <1>c, <2>1, <2>3
<1>2. ASSUME NEW d \in Reply!Drafts, Reply!Draft(d) PROVE Reply!TypeOK'
  <2>1. UNCHANGED <<routeVersion, sendPolicy, verified, opened, caller, handed>>
    BY <1>2 DEF Reply!Draft, Reply!routeVars
  <2>2. [state |-> "draft", version |-> routeVersion, attempts |-> 0] \in DraftRow
    BY <1>b DEF DraftRow
  <2>3. Drafted'
    BY <1>2, <1>b, <2>2 DEF Reply!Draft
  <2> QED
    BY <1>b, <1>c, <2>1, <2>3
<1>3. ASSUME NEW d \in Reply!Drafts, Reply!CancelDraft(d) \/ Reply!Reconcile(d)
      PROVE  Reply!TypeOK'
  <2>1. UNCHANGED <<routeVersion, sendPolicy, verified, opened, caller, handed>>
    BY <1>3 DEF Reply!CancelDraft, Reply!Reconcile, Reply!routeVars
  <2>2. PICK s \in {"cancelled", "accepted", "retryable_failed"} :
          draft' = [draft EXCEPT ![d].state = s]
    BY <1>3 DEF Reply!CancelDraft, Reply!Reconcile
  <2>3. draft[d] # Reply!NoDraft
    BY <1>3, ReplyKinds DEF Reply!CancelDraft, Reply!Reconcile
  <2>4. Drafted'
    BY <1>b, <1>d, <2>2, <2>3 DEF Reply!Outcomes
  <2> QED
    BY <1>b, <1>c, <2>1, <2>4
<1>4. ASSUME NEW u \in Callers, Reply!AuthorizeDispatch(u) PROVE Reply!TypeOK'
  <2>1. UNCHANGED <<routeVersion, sendPolicy, verified, opened, handed>>
    BY <1>4 DEF Reply!AuthorizeDispatch, Reply!routeVars
  <2>2. PICK d \in Reply!Drafts : d = caller[u].draft /\ caller[u] \in Reader
    <3>1. caller[u].step \in {"read", "authorized"}
      BY <1>4 DEF Reply!AuthorizeDispatch
    <3>2. caller[u] \in Reader
      BY <1>g, <3>1
    <3> QED
      BY <3>2 DEF Reader
  <2>3. CASE Reply!Ends(u) /\ UNCHANGED draft
    BY <1>b, <1>c, <1>e, <2>1, <2>3
  <2>4. CASE /\ Reply!Sendable(d)
             /\ draft' = [draft EXCEPT ![d].state = "sending", ![d].attempts = @ + 1]
             /\ caller' = [caller EXCEPT ![u].step = "authorized"]
    <3>1. draft[d] \in DraftRow
      BY <1>b, <2>4, ReplyKinds DEF Reply!Sendable
    <3>2. [draft[d] EXCEPT !.state = "sending", !.attempts = @ + 1] \in DraftRow
      <4>1. draft[d].attempts + 1 \in Nat
        BY <3>1 DEF DraftRow
      <4> DEFINE n == draft[d].attempts + 1
      <4>2. ASSUME NEW r \in DraftRow, NEW m \in Nat
            PROVE  [r EXCEPT !.state = "sending", !.attempts = m] \in DraftRow
        BY DEF DraftRow
      <4>3. [draft[d] EXCEPT !.state = "sending", !.attempts = n] \in DraftRow
        <5> HIDE DEF n
        <5> QED
          BY <3>1, <4>1, <4>2 DEF n
      <4> QED
        BY <4>3
    <3>3. [caller[u] EXCEPT !.step = "authorized"] \in Reader
      BY <2>2 DEF Reader
    <3>4. Drafted' /\ Called'
      BY <1>b, <2>4, <3>2, <3>3
    <3> QED
      BY <1>b, <1>c, <2>1, <3>4
  <2> QED
    BY <1>4, <2>2, <2>3, <2>4 DEF Reply!AuthorizeDispatch
<1>5. ASSUME NEW u \in Callers, Reply!CallPlatform(u) PROVE Reply!TypeOK'
  <2>1. UNCHANGED <<routeVersion, sendPolicy, verified, opened, draft>>
    BY <1>5 DEF Reply!CallPlatform, Reply!routeVars
  <2>2. PICK d \in Reply!Drafts : d = caller[u].draft
    <3>1. caller[u].step \in {"read", "authorized"}
      BY <1>5 DEF Reply!CallPlatform
    <3>2. caller[u] \in Reader
      BY <1>g, <3>1
    <3> QED
      BY <3>2 DEF Reader
  <2>3. PICK t \in {0, 1}, o \in Reply!Outcomes :
          /\ handed' = [handed EXCEPT ![d] = @ + t]
          /\ caller' = [caller EXCEPT ![u] = [step |-> "answered", draft |-> d, outcome |-> o]]
    BY <1>5, <2>2 DEF Reply!CallPlatform, Reply!Outcomes
  <2>4. [step |-> "answered", draft |-> d, outcome |-> o] \in Knower
    BY DEF Knower
  <2>5. Called' /\ Handed'
    BY <1>b, <2>3, <2>4
  <2> QED
    BY <1>b, <1>c, <2>1, <2>5
<1>6. ASSUME NEW u \in Callers, NEW d \in Reply!Drafts, Reply!PreviewDraft(u, d) PROVE Reply!TypeOK'
  <2>1. [step |-> "read", draft |-> d] \in Reader
    BY DEF Reader
  <2>2. Called' /\ UNCHANGED <<routeVersion, sendPolicy, verified, opened, draft, handed>>
    BY <1>6, <1>b, <2>1 DEF Reply!PreviewDraft, Reply!routeVars
  <2> QED
    BY <1>b, <1>c, <2>2
<1>7. ASSUME NEW u \in Callers, NEW d \in Reply!Drafts, Reply!RecordDelivery(u, d) PROVE Reply!TypeOK'
  <2>1. Reply!Ends(u) /\ UNCHANGED <<routeVersion, sendPolicy, verified, opened, handed>>
    BY <1>7 DEF Reply!RecordDelivery, Reply!routeVars
  <2>2. \/ UNCHANGED draft
        \/ /\ draft[d] # Reply!NoDraft
           /\ \E o \in Reply!Outcomes : draft' = [draft EXCEPT ![d].state = o]
    <3>1. caller[u] # Reply!Idle => caller[u] \in Knower
      <4>1. caller[u].step = "answered" \/ caller[u] = Reply!Idle
        BY <1>7 DEF Reply!RecordDelivery
      <4> QED
        BY <1>g, <4>1
    <3>2. CASE draft[d].state # "sending"
      <4>1. draft' = [draft EXCEPT ![d] = [draft[d] EXCEPT !.state = draft[d].state]]
        BY <1>7, <3>2 DEF Reply!RecordDelivery
      <4>2. [draft[d] EXCEPT !.state = draft[d].state] = draft[d]
        BY <1>b DEF DraftRow, Reply!NoDraft
      <4> QED
        BY <1>b, <4>1, <4>2
    <3>3. CASE draft[d].state = "sending"
      <4>1. draft[d] # Reply!NoDraft
        BY <3>3 DEF Reply!NoDraft
      <4>2. draft' = [draft EXCEPT ![d].state = IF caller[u] = Reply!Idle THEN "delivery_unknown" ELSE caller[u].outcome]
        BY <1>7, <3>3 DEF Reply!RecordDelivery
      <4>3. (IF caller[u] = Reply!Idle THEN "delivery_unknown" ELSE caller[u].outcome) \in Reply!Outcomes
        BY <3>1 DEF Knower, Reply!Outcomes
      <4> QED
        BY <4>1, <4>2, <4>3
    <3> QED
      BY <3>2, <3>3
  <2>3. Drafted'
    BY <1>b, <1>d, <2>2
  <2>4. Called'
    BY <1>e, <2>1
  <2> QED
    BY <1>b, <1>c, <2>1, <2>3, <2>4
<1>8. ASSUME NEW u \in Callers, Reply!CallerGivesUp(u) PROVE Reply!TypeOK'
  <2>1. UNCHANGED <<routeVersion, sendPolicy, verified, opened, draft, handed>> /\ Reply!Ends(u)
    BY <1>8 DEF Reply!CallerGivesUp, Reply!routeVars
  <2> QED
    BY <1>b, <1>c, <1>e, <2>1
<1>f. draft' = Reply!Stale => Drafted'
  <2>1. \A d \in Reply!Drafts : draft[d].state = "draft" => [draft[d] EXCEPT !.state = "stale"] \in DraftRow
    BY <1>d, ReplyKinds
  <2> QED
    BY <1>b, <2>1 DEF Reply!Stale
<1>9. CASE Reply!UpdateRoute
  <2>1. routeVersion' \in 1..MaxRoute
    BY <1>9, <1>a, <1>b DEF Reply!UpdateRoute
  <2> QED
    BY <1>9, <1>b, <1>c, <1>f, <2>1 DEF Reply!UpdateRoute
<1>10. CASE Reply!ApplyChannelConfig \/ Reply!SetChannelCapabilities
  BY <1>10, <1>b, <1>c, <1>f DEF Reply!ApplyChannelConfig, Reply!SetChannelCapabilities
<1>11. CASE UNCHANGED replyVars
  BY <1>11, <1>b, <1>c DEF replyVars
<1> QED
  BY <1>1, <1>2, <1>3, <1>4, <1>5, <1>6, <1>7, <1>8, <1>9, <1>10, <1>11 DEF Reply!Next

\* Steps that authorise nobody and call nobody, and leave a closed row closed
\* and an open one open.
LEMMA HandKept ==
  ASSUME HandInv, Reply!TypeOK', UNCHANGED handed,
         \A u \in Callers, d \in Reply!Drafts : Carries(u, d)' => Carries(u, d),
         \A d \in Reply!Drafts : draft'[d].state \in Closed <=> draft[d].state \in Closed
  PROVE  HandInv'
BY DEF HandInv

LEMMA StepHandInv == HandInv /\ [Reply!Next]_replyVars => HandInv'
<1> SUFFICES ASSUME HandInv, [Reply!Next]_replyVars PROVE HandInv'
  OBVIOUS
<1>a. Reply!TypeOK /\ Reply!TypeOK'
  BY ReplyStepTypes DEF HandInv
<1>b. /\ draft \in [Reply!Drafts -> {Reply!NoDraft} \cup DraftRow]
      /\ caller \in [Callers -> {Reply!Idle} \cup Reader \cup Knower]
      /\ handed \in [Reply!Drafts -> Nat]
  BY <1>a, ReplyKinds DEF Reply!TypeOK
<1>c. ASSUME UNCHANGED <<caller, handed>>,
             \A d \in Reply!Drafts : draft'[d].state \in Closed <=> draft[d].state \in Closed
      PROVE  HandInv'
  BY <1>a, <1>c, HandKept DEF Carries
<1>d. ASSUME NEW u \in Callers, UNCHANGED handed,
             \A w \in Callers : caller'[w] = caller[w] \/ caller'[w].step # "authorized",
             \A d \in Reply!Drafts : draft'[d].state \in Closed <=> draft[d].state \in Closed
      PROVE  HandInv'
  BY <1>a, <1>d, HandKept DEF Carries
<1>e. ASSUME NEW u \in Callers, Reply!Ends(u)
      PROVE  \A w \in Callers : caller'[w] = caller[w] \/ caller'[w].step # "authorized"
  BY <1>b, <1>e DEF Reply!Ends, Reply!Idle
<1>f. ASSUME NEW d \in Reply!Drafts, draft[d] \in DraftRow,
             NEW s \in {"draft", "sending", "stale", "cancelled"} \cup Reply!Outcomes,
             draft' = [draft EXCEPT ![d].state = s]
      PROVE  draft'[d].state = s /\ \A j \in Reply!Drafts \ {d} : draft'[j] = draft[j]
  BY <1>b, <1>f DEF DraftRow
<1>1. ASSUME NEW x \in Contexts, Reply!OpenContext(x) \/ Reply!ContextExpires(x)
      PROVE  HandInv'
  BY <1>1, <1>c DEF Reply!OpenContext, Reply!ContextExpires
<1>2. ASSUME NEW d \in Reply!Drafts, Reply!Draft(d) PROVE HandInv'
  <2>1. UNCHANGED <<caller, handed>> /\ draft[d].state = "absent"
    BY <1>2 DEF Reply!Draft, Reply!NoDraft
  <2>2. draft'[d].state = "draft" /\ \A j \in Reply!Drafts \ {d} : draft'[j] = draft[j]
    BY <1>2, <1>b DEF Reply!Draft
  <2> QED
    BY <1>c, <2>1, <2>2 DEF Closed
<1>3. ASSUME NEW d \in Reply!Drafts, Reply!CancelDraft(d) \/ Reply!Reconcile(d)
      PROVE  HandInv'
  <2>1. UNCHANGED <<caller, handed>>
    BY <1>3 DEF Reply!CancelDraft, Reply!Reconcile
  <2>2. draft[d] \in DraftRow
    BY <1>3, <1>b DEF Reply!CancelDraft, Reply!Reconcile, Reply!NoDraft
  <2>3. PICK s \in {"cancelled", "accepted", "retryable_failed"} :
          /\ draft' = [draft EXCEPT ![d].state = s]
          /\ s \in Closed <=> draft[d].state \in Closed
    BY <1>3 DEF Reply!CancelDraft, Reply!Reconcile, Closed
  <2>4. draft'[d].state = s /\ \A j \in Reply!Drafts \ {d} : draft'[j] = draft[j]
    BY <1>f, <2>2, <2>3 DEF Reply!Outcomes
  <2> QED
    BY <1>c, <2>1, <2>3, <2>4
<1>4. ASSUME NEW u \in Callers, Reply!AuthorizeDispatch(u) PROVE HandInv'
  <2>1. caller[u].step = "read" /\ UNCHANGED handed
    BY <1>4 DEF Reply!AuthorizeDispatch
  <2>2. caller[u] \in Reader
    BY <1>a, <2>1, ReplyKinds, Zenon
  <2>3. PICK d \in Reply!Drafts : d = caller[u].draft
    BY <2>2 DEF Reader
  <2>4. CASE Reply!Ends(u) /\ UNCHANGED draft
    BY <1>d, <1>e, <2>1, <2>4
  <2>5. CASE /\ Reply!Sendable(d)
             /\ draft' = [draft EXCEPT ![d].state = "sending", ![d].attempts = @ + 1]
             /\ caller' = [caller EXCEPT ![u].step = "authorized"]
    <3>1. draft[d].state = "draft" /\ draft[d] \in DraftRow
      BY <1>b, <2>5 DEF Reply!Sendable, Reply!NoDraft
    <3>2. draft'[d].state = "sending" /\ \A j \in Reply!Drafts \ {d} : draft'[j] = draft[j]
      BY <1>b, <2>5, <3>1 DEF DraftRow
    <3>3. /\ caller'[u].step = "authorized" /\ caller'[u].draft = d
          /\ \A w \in Callers \ {u} : caller'[w] = caller[w]
      BY <1>b, <2>2, <2>3, <2>5 DEF Reader
    <3>4. handed[d] = 0 /\ \A w \in Callers : ~Carries(w, d)
      BY <3>1 DEF HandInv, Closed
    <3>5. ASSUME NEW w \in Callers, NEW j \in Reply!Drafts
          PROVE  Carries(w, j)' <=> Carries(w, j) \/ (w = u /\ j = d)
      <4>1. CASE w = u
        BY <2>1, <3>3, <4>1 DEF Carries
      <4>2. CASE w # u
        <5>1. caller'[w] = caller[w]
          BY <3>3, <4>2
        <5> QED
          BY <4>2, <5>1 DEF Carries
      <4> QED
        BY <4>1, <4>2
    <3>6. \A w, v \in Callers, j \in Reply!Drafts : Carries(w, j)' /\ Carries(v, j)' => w = v
      BY <3>4, <3>5 DEF HandInv
    <3>7. ASSUME NEW j \in Reply!Drafts
          PROVE  /\ handed'[j] \in {0, 1}
                 /\ \A w \in Callers : Carries(w, j)' => handed'[j] = 0 /\ draft'[j].state \notin Closed
                 /\ draft'[j].state \in Closed => handed'[j] = 0
      <4>1. CASE j = d
        BY <2>1, <3>2, <3>4, <4>1 DEF Closed
      <4>2. CASE j # d
        BY <2>1, <3>2, <3>5, <4>2 DEF HandInv
      <4> QED
        BY <4>1, <4>2
    <3> QED
      BY <1>a, <3>6, <3>7 DEF HandInv
  <2> QED
    BY <1>4, <2>3, <2>4, <2>5 DEF Reply!AuthorizeDispatch
<1>5. ASSUME NEW u \in Callers, Reply!CallPlatform(u) PROVE HandInv'
  <2>1. caller[u].step = "authorized" /\ UNCHANGED draft
    BY <1>5 DEF Reply!CallPlatform
  <2>2. caller[u] \in Reader
    BY <1>a, <2>1, ReplyKinds, Zenon
  <2>3. PICK d \in Reply!Drafts : d = caller[u].draft
    BY <2>2 DEF Reader
  <2>4. PICK t \in {0, 1}, o \in Reply!Outcomes :
          /\ handed' = [handed EXCEPT ![d] = @ + t]
          /\ caller' = [caller EXCEPT ![u] = [step |-> "answered", draft |-> d, outcome |-> o]]
    BY <1>5, <2>3 DEF Reply!CallPlatform, Reply!Outcomes
  <2>5. /\ caller'[u].step = "answered" /\ \A w \in Callers \ {u} : caller'[w] = caller[w]
        /\ handed'[d] = handed[d] + t /\ \A j \in Reply!Drafts \ {d} : handed'[j] = handed[j]
    BY <1>b, <2>4
  <2>6. Carries(u, d)
    BY <2>1, <2>3 DEF Carries
  <2>7. handed[d] = 0 /\ draft[d].state \notin Closed
    BY <2>6 DEF HandInv
  <2>8. ASSUME NEW w \in Callers, NEW j \in Reply!Drafts, Carries(w, j)'
        PROVE  Carries(w, j) /\ w # u
    <3>1. w # u
      BY <2>5, <2>8 DEF Carries
    <3>2. caller'[w] = caller[w]
      BY <2>5, <3>1
    <3> QED
      BY <2>8, <3>1, <3>2 DEF Carries
  <2>9. \A w \in Callers : ~Carries(w, d)'
    BY <2>6, <2>8 DEF HandInv
  <2>10. ASSUME NEW j \in Reply!Drafts
         PROVE  /\ handed'[j] \in {0, 1}
                /\ \A w \in Callers : Carries(w, j)' => handed'[j] = 0 /\ draft'[j].state \notin Closed
                /\ draft'[j].state \in Closed => handed'[j] = 0
    <3>1. CASE j = d
      BY <2>1, <2>5, <2>7, <2>9, <3>1
    <3>2. CASE j # d
      BY <2>1, <2>5, <2>8, <3>2 DEF HandInv
    <3> QED
      BY <3>1, <3>2
  <2>11. \A w, v \in Callers, j \in Reply!Drafts : Carries(w, j)' /\ Carries(v, j)' => w = v
    BY <2>8 DEF HandInv
  <2> QED
    BY <1>a, <2>10, <2>11 DEF HandInv
<1>6. ASSUME NEW u \in Callers, NEW d \in Reply!Drafts, Reply!PreviewDraft(u, d) PROVE HandInv'
  <2>1. UNCHANGED <<draft, handed>>
    BY <1>6 DEF Reply!PreviewDraft
  <2>2. \A w \in Callers : caller'[w] = caller[w] \/ caller'[w].step # "authorized"
    BY <1>b, <1>6 DEF Reply!PreviewDraft
  <2> QED
    BY <1>d, <2>1, <2>2
<1>7. ASSUME NEW u \in Callers, NEW d \in Reply!Drafts, Reply!RecordDelivery(u, d) PROVE HandInv'
  <2>1. Reply!Ends(u) /\ UNCHANGED handed
    BY <1>7 DEF Reply!RecordDelivery
  <2>2. \A j \in Reply!Drafts \ {d} : draft'[j] = draft[j]
    BY <1>7, <1>b DEF Reply!RecordDelivery
  <2>3. draft'[d].state \in Closed <=> draft[d].state \in Closed
    <3>1. CASE draft[d].state # "sending"
      <4>1. draft' = [draft EXCEPT ![d] = [draft[d] EXCEPT !.state = draft[d].state]]
        BY <1>7, <3>1 DEF Reply!RecordDelivery
      <4>2. [draft[d] EXCEPT !.state = draft[d].state] = draft[d]
        BY <1>b DEF DraftRow, Reply!NoDraft
      <4> QED
        BY <1>b, <4>1, <4>2
    <3>2. CASE draft[d].state = "sending"
      <4>1. draft[d] \in DraftRow
        BY <1>b, <3>2 DEF Reply!NoDraft
      <4>2. caller[u] # Reply!Idle => caller[u].outcome \in Reply!Outcomes
        <5>1. caller[u].step = "answered" \/ caller[u] = Reply!Idle
          BY <1>7 DEF Reply!RecordDelivery
        <5>2. caller[u].step = "answered" => caller[u] \in Knower
          BY <1>a, ReplyKinds, Zenon
        <5> QED
          BY <5>1, <5>2 DEF Knower
      <4>3. PICK o \in Reply!Outcomes : draft' = [draft EXCEPT ![d].state = o]
        BY <1>7, <3>2, <4>2 DEF Reply!RecordDelivery, Reply!Outcomes
      <4>4. draft'[d].state = o
        BY <1>f, <4>1, <4>3
      <4> QED
        BY <3>2, <4>4 DEF Closed, Reply!Outcomes
    <3> QED
      BY <3>1, <3>2
  <2> QED
    BY <1>d, <1>e, <2>1, <2>2, <2>3
<1>8. ASSUME NEW u \in Callers, Reply!CallerGivesUp(u) PROVE HandInv'
  <2>1. UNCHANGED <<draft, handed>> /\ Reply!Ends(u)
    BY <1>8 DEF Reply!CallerGivesUp
  <2> QED
    BY <1>d, <1>e, <2>1
<1>9. CASE Reply!UpdateRoute \/ Reply!ApplyChannelConfig
  <2>1. draft' = Reply!Stale /\ UNCHANGED <<caller, handed>>
    BY <1>9 DEF Reply!UpdateRoute, Reply!ApplyChannelConfig
  <2>2. ASSUME NEW d \in Reply!Drafts
        PROVE  draft'[d].state \in Closed <=> draft[d].state \in Closed
    <3>1. CASE draft[d].state = "draft"
      <4>1. draft[d] \in DraftRow
        BY <1>b, <3>1 DEF Reply!NoDraft
      <4>2. draft'[d].state = "stale"
        BY <2>1, <3>1, <4>1 DEF Reply!Stale, DraftRow
      <4> QED
        BY <3>1, <4>2 DEF Closed
    <3>2. CASE draft[d].state # "draft"
      BY <2>1, <3>2 DEF Reply!Stale
    <3> QED
      BY <3>1, <3>2
  <2> QED
    BY <1>c, <2>1, <2>2
<1>10. CASE Reply!SetChannelCapabilities \/ UNCHANGED replyVars
  BY <1>10, <1>c DEF Reply!SetChannelCapabilities, replyVars
<1> QED
  BY <1>1, <1>2, <1>3, <1>4, <1>5, <1>6, <1>7, <1>8, <1>9, <1>10 DEF Reply!Next

LEMMA HandInvariance == Reply!Spec => []HandInv
<1>1. HandInv /\ [Reply!Next]_(Reply!vars) => HandInv'
  BY StepHandInv DEF replyVars, Reply!vars
<1> QED
  BY InitHandInv, <1>1, PTL DEF Reply!Spec

\* The rows of drafts and what the users of the commands know have their types
\* (outbox.go, dispatch.go).
THEOREM DraftTypes == Reply!Spec => []Reply!TypeOK
<1>1. HandInv => Reply!TypeOK
  BY DEF HandInv
<1> QED
  BY HandInvariance, <1>1, PTL

\* However many people dispatch, cancel and record at the same time, the
\* platform is given a draft at most once, and never one that was withdrawn
\* (dispatch.go:196, 285).
THEOREM HandedOnce == Reply!Spec => []HandedOverOnce
<1>1. HandInv => HandedOverOnce
  BY DEF HandInv, Carries, Closed, HandedOverOnce, Reply!HandedOverOnce
<1> QED
  BY HandInvariance, <1>1, PTL

\* A behaviour of the two kinds of outbound messages together keeps the
\* invariants of both: a step of one kind leaves the rows of the other alone.
LEMMA OutboundInvariance == MCSpec => [](SendInv /\ HandInv)
<1>1. MCInit => SendInv /\ HandInv
  BY InitSendInv, InitHandInv DEF MCInit
<1>2. [MCNext]_<<kind, vars, replyVars>> => [Next]_vars /\ [Reply!Next]_replyVars
  BY DEF MCNext
<1>3. SendInv /\ HandInv /\ [MCNext]_<<kind, vars, replyVars>> => SendInv' /\ HandInv'
  BY <1>2, NextSendInv, StepHandInv
<1> QED
  BY <1>1, <1>3, PTL DEF MCSpec

\* The rows of Agent messages and of reply drafts have their types, in whatever
\* order the two kinds are sent (actor_message.go, outbox.go).
THEOREM TypesCorrect == MCSpec => []TypesOK
<1>1. SendInv /\ HandInv => TypesOK
  BY DEF SendInv, HandInv, TypesOK
<1> QED
  BY OutboundInvariance, <1>1, PTL
=============================================================================
