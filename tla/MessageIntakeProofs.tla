-------------------------- MODULE MessageIntakeProofs --------------------------
(***************************************************************************)
(* From received messages to analysed ones, for any number of messages,    *)
(* conversations and batches, any batch size and any pool.                 *)
(*                                                                         *)
(* The argument for MessagesAreAnalysed follows the row of a message: it   *)
(* names a batch exactly while it is under analysis, that batch is open,   *)
(* and it holds the revision of the row.  Every way to end a batch returns *)
(* all rows that name it.                                                  *)
(***************************************************************************)
EXTENDS MessageIntake, FiniteSetTheorems, TLAPS

Revisions == 0..MaxRevision

MessageTypes ==
  /\ revision \in [Messages -> Revisions] /\ gone \subseteq Messages

RowTypes ==
  /\ state \in [Messages -> States]
  /\ seenRevision \in [Messages -> Revisions]
  /\ retryCount \in [Messages -> 0..MaxAttempts]
  /\ inBatch \in [Messages -> Batches \cup {NoBatch}]
  /\ deferred \subseteq Messages
  /\ ahead \subseteq Messages \X Messages

BatchTypes ==
  /\ batchStatus \in [Batches -> {"over", "analyzing", "failed"}]
  /\ content \in [Batches -> [Messages -> Revisions]]
  /\ attempt \in [Batches -> 0..(MaxAttempts + 1)]
  /\ lease \subseteq Batches
  /\ overdue \subseteq Batches /\ outdated \subseteq Batches
  /\ analyst \in [Batches -> {"none", "working", "decided"}]
  /\ analysed \in [Messages -> SUBSET (1..MaxRevision)]

ServiceTypes ==
  /\ service \in {"up", "draining", "down", "stopped"}
  /\ events \in 0..MaxEvents

LEMMA Parts == TypeOK <=> MessageTypes /\ RowTypes /\ BatchTypes /\ ServiceTypes
BY DEF TypeOK, MessageTypes, RowTypes, BatchTypes, ServiceTypes, Revisions

LEMMA NextParts == MessageTypes' /\ RowTypes' /\ BatchTypes' /\ ServiceTypes' => TypeOK'
BY DEF TypeOK, MessageTypes, RowTypes, BatchTypes, ServiceTypes, Revisions

LEMMA Constants ==
  /\ MaxRevision \in Nat \ {0} /\ MaxEvents \in Nat /\ NumMessages \in Nat /\ NoBatch \notin Batches
  /\ Messages \subseteq Nat /\ 0 \in Revisions /\ 1 \in Revisions /\ Revisions \subseteq Nat /\ 0 \in 0..MaxAttempts
BY MessageIntakeAssumption DEF MessageIntakeAssumption, Messages, Revisions, MaxAttempts

LEMMA InitTypes == Init => TypeOK
<1> SUFFICES ASSUME Init PROVE TypeOK
  OBVIOUS
<1>1. MessageTypes /\ ServiceTypes
  BY Constants DEF Init, MessageTypes, ServiceTypes
<1>2. RowTypes
  BY Constants DEF Init, RowTypes, States
<1>3. BatchTypes
  BY Constants DEF Init, BatchTypes, NoContent, MaxAttempts
<1> QED
  BY <1>1, <1>2, <1>3, Parts

LEMMA EventTypes ==
  ASSUME ServiceTypes, service' \in {"up", "draining", "down", "stopped"},
         events' = events \/ CountEvent
  PROVE  ServiceTypes'
BY Constants DEF ServiceTypes, CountEvent

\* Whatever batches fail, their rows keep their types.
LEMMA FailRowsTypes ==
  ASSUME RowTypes, NEW B, NEW code, FailRows(B, code)
  PROVE  RowTypes'
<1> DEFINE hit == {m \in Messages : state[m] = "batched" /\ inBatch[m] \in B}
<1>1. \A b : Outcome(b, code) \in States
  BY DEF Outcome, States
<1>2. state' \in [Messages -> States]
  BY <1>1 DEF FailRows, RowTypes
<1>3. \A n \in 0..MaxAttempts : AtMost(n + 1) \in 0..MaxAttempts
  BY DEF AtMost, MaxAttempts
<1>4. retryCount' \in [Messages -> 0..MaxAttempts]
  BY <1>3, Constants DEF FailRows, RowTypes
<1>5. inBatch' \in [Messages -> Batches \cup {NoBatch}] /\ deferred' \subseteq Messages
  BY DEF FailRows, RowTypes
<1>6. UNCHANGED <<seenRevision, ahead>>
  BY DEF FailRows
<1> QED
  BY <1>2, <1>4, <1>5, <1>6 DEF RowTypes

LEMMA ForgetTypes ==
  ASSUME BatchTypes, NEW B, Forget(B)
  PROVE  /\ content' \in [Batches -> [Messages -> Revisions]]
         /\ attempt' \in [Batches -> 0..(MaxAttempts + 1)] /\ overdue' \subseteq Batches
<1>1. NoContent \in [Messages -> Revisions] /\ 0 \in 0..(MaxAttempts + 1)
  BY Constants DEF NoContent, MaxAttempts
<1> QED
  BY <1>1 DEF Forget, BatchTypes

LEMMA LeaveTypes ==
  ASSUME BatchTypes, NEW b \in Batches, Leave(b), analysed' \in [Messages -> SUBSET (1..MaxRevision)]
  PROVE  BatchTypes'
<1>1. Forget({b})
  BY DEF Leave
<1> QED
  BY <1>1, ForgetTypes DEF Leave, BatchTypes

LEMMA FailBatchTypes ==
  ASSUME TypeOK, NEW b \in Batches, NEW code, FailRuntimeBatch(b, code)
  PROVE  TypeOK'
<1>1. RowTypes'
  BY FailRowsTypes, Parts DEF FailRuntimeBatch
<1>2. BatchTypes'
  BY LeaveTypes, Parts DEF FailRuntimeBatch, BatchTypes
<1> QED
  BY <1>1, <1>2, Parts, NextParts DEF FailRuntimeBatch, MessageTypes, ServiceTypes, messageVars, serviceVars

LEMMA HighestType ==
  ASSUME TypeOK, NEW r, Eligible(r)
  PROVE  Highest(r) \in 0..MaxAttempts
<1> DEFINE S == {retryCount[m] : m \in PendingOf(r)}
           top(n) == n \in S /\ \A i \in S : i <= n
<1>1. PICK x \in S : TRUE
  BY DEF Eligible
<1>2. S \subseteq 0..3
  BY DEF TypeOK, PendingOf, MaxAttempts
<1>3. \E n \in S : \A i \in S : i <= n
  <2> HIDE DEF S
  <2>1. CASE 3 \in S
    BY <1>2, <2>1
  <2>2. CASE 3 \notin S /\ 2 \in S
    BY <1>2, <2>2
  <2>3. CASE 3 \notin S /\ 2 \notin S /\ 1 \in S
    BY <1>2, <2>3
  <2>4. CASE 3 \notin S /\ 2 \notin S /\ 1 \notin S
    BY <1>1, <1>2, <2>4
  <2> QED
    BY <2>1, <2>2, <2>3, <2>4
<1>4. \E n \in S : \A m \in PendingOf(r) : retryCount[m] <= n
  BY <1>3
<1>5. Highest(r) \in S
  BY <1>4 DEF Highest
<1> QED
  BY <1>2, <1>5 DEF MaxAttempts

LEMMA ClaimTypes ==
  ASSUME TypeOK, NEW b \in Batches, NEW r, ClaimRuntimeBatch(b, r)
  PROVE  TypeOK'
<1>1. MessageTypes /\ RowTypes /\ BatchTypes /\ ServiceTypes
  BY Parts
<1>2. MessageTypes' /\ ServiceTypes'
  BY <1>1 DEF ClaimRuntimeBatch, MessageTypes, ServiceTypes, messageVars, serviceVars
<1>3. state' \in [Messages -> States] /\ inBatch' \in [Messages -> Batches \cup {NoBatch}]
  BY <1>1 DEF ClaimRuntimeBatch, RowTypes, States
<1>4. RowTypes'
  BY <1>1, <1>3 DEF ClaimRuntimeBatch, RowTypes
<1>5. [m \in Messages |-> IF m \in Selected(r) THEN revision[m] ELSE 0] \in [Messages -> Revisions]
  BY <1>1, Constants DEF MessageTypes
<1>6. content' \in [Batches -> [Messages -> Revisions]]
  BY <1>1, <1>5 DEF ClaimRuntimeBatch, BatchTypes
<1>7. attempt' \in [Batches -> 0..(MaxAttempts + 1)]
  <2>1. Highest(r) \in 0..MaxAttempts
    BY HighestType DEF ClaimRuntimeBatch
  <2>2. 1 + Highest(r) \in 0..(MaxAttempts + 1)
    BY <2>1 DEF MaxAttempts
  <2> QED
    BY <1>1, <2>2 DEF ClaimRuntimeBatch, BatchTypes
<1>8. BatchTypes'
  BY <1>1, <1>6, <1>7 DEF ClaimRuntimeBatch, BatchTypes
<1> QED
  BY <1>2, <1>4, <1>8, NextParts

LEMMA SyncTypes ==
  ASSUME TypeOK, SyncRuntimeMessages
  PROVE  TypeOK'
<1>1. MessageTypes /\ RowTypes /\ BatchTypes /\ ServiceTypes
  BY Parts
<1>2. MessageTypes' /\ BatchTypes' /\ ServiceTypes'
  BY <1>1 DEF SyncRuntimeMessages, MessageTypes, BatchTypes, ServiceTypes, messageVars, batchVars, serviceVars
<1>3. PICK changed \in SUBSET Unsynced, background \in SUBSET Unsynced :
        /\ state' = [m \in Messages |->
             IF m \notin changed THEN state[m]
             ELSE IF m \in gone THEN "recalled"
             ELSE IF m \in background THEN "context" ELSE "pending"]
        /\ seenRevision' = [m \in Messages |-> IF m \in changed THEN revision[m] ELSE seenRevision[m]]
        /\ retryCount' = [m \in Messages |-> IF m \in changed THEN 0 ELSE retryCount[m]]
        /\ inBatch' = [m \in Messages |-> IF m \in changed THEN NoBatch ELSE inBatch[m]]
        /\ deferred' = deferred \ changed
        /\ ahead' = {p \in ahead : p[1] \notin {m \in changed : state[m] # "none"}
                                   /\ p[2] \notin {m \in changed : state[m] # "none"}}
                      \cup ((Received \ {m \in changed : state[m] # "none"})
                              \X {m \in changed : state[m] # "none"})
                      \cup {p \in {m \in changed : state[m] # "none"} \X {m \in changed : state[m] # "none"} :
                              p[1] < p[2]}
  BY DEF SyncRuntimeMessages
<1>4. state' \in [Messages -> States]
  BY <1>1, <1>3 DEF RowTypes, States
<1>5. /\ seenRevision' \in [Messages -> Revisions] /\ retryCount' \in [Messages -> 0..MaxAttempts]
      /\ inBatch' \in [Messages -> Batches \cup {NoBatch}] /\ deferred' \subseteq Messages
  BY <1>1, <1>3, Constants DEF RowTypes, MessageTypes
<1>6. changed \subseteq Messages /\ Received \subseteq Messages
  BY DEF Unsynced, Received
<1>7. ahead' \subseteq Messages \X Messages
  BY <1>1, <1>3, <1>6 DEF RowTypes
<1> QED
  BY <1>2, <1>4, <1>5, <1>7, NextParts DEF RowTypes

\* The rows of all open batches fail at once, and these are over.
LEMMA GiveUpTypes ==
  ASSUME TypeOK, NEW code, FailRows(Open, code),
         UNCHANGED messageVars, ServiceTypes', NEW B, Forget(B),
         batchStatus' \in [Batches -> {"over", "analyzing", "failed"}],
         lease' \subseteq lease, outdated' \subseteq outdated \cup lease, UNCHANGED <<analyst, analysed>>
  PROVE  TypeOK'
<1>1. RowTypes'
  BY FailRowsTypes, Parts
<1>2. BatchTypes'
  BY ForgetTypes, Parts DEF BatchTypes
<1>3. MessageTypes'
  BY Parts DEF MessageTypes, messageVars
<1> QED
  BY <1>1, <1>2, <1>3, NextParts

LEMMA StepTypes == TypeOK /\ [Next]_vars => TypeOK'
<1> SUFFICES ASSUME TypeOK, [Next]_vars PROVE TypeOK'
  OBVIOUS
<1>0. MessageTypes /\ RowTypes /\ BatchTypes /\ ServiceTypes
  BY Parts
<1>1. ASSUME NEW m \in Messages, Intake(m) PROVE TypeOK'
  <2>1. 1 \in Revisions
    BY Constants
  <2>2. MessageTypes'
    BY <1>0, <1>1, <2>1 DEF Intake, MessageTypes
  <2>3. RowTypes'
    <3>1. Received \X {m} \subseteq Messages \X Messages
      BY DEF Received
    <3> QED
      BY <1>0, <1>1, <3>1 DEF Intake, RowTypes
  <2>4. BatchTypes' /\ ServiceTypes'
    BY <1>0, <1>1 DEF Intake, BatchTypes, ServiceTypes, batchVars, serviceVars
  <2> QED
    BY <2>2, <2>3, <2>4, NextParts
<1>2. ASSUME NEW m \in Messages, applyMessage(m) \/ markRecalled(m) \/ BackoffPasses(m) PROVE TypeOK'
  <2>1. UNCHANGED batchVars /\ service' = service /\ (events' = events \/ CountEvent)
    BY <1>2 DEF applyMessage, markRecalled, BackoffPasses, serviceVars
  <2>2. MessageTypes'
    <3>1. revision[m] \in 1..(MaxRevision - 1) => revision[m] + 1 \in Revisions
      BY Constants DEF Revisions
    <3> QED
      BY <1>0, <1>2, <3>1 DEF applyMessage, markRecalled, BackoffPasses, MessageTypes, messageVars, Received
  <2>3. RowTypes'
    BY <1>0, <1>2 DEF applyMessage, markRecalled, BackoffPasses, RowTypes, rowVars
  <2>4. BatchTypes'
    BY <1>0, <2>1 DEF BatchTypes, batchVars
  <2>5. ServiceTypes'
    BY <1>0, <2>1, EventTypes DEF ServiceTypes
  <2> QED
    BY <2>2, <2>3, <2>4, <2>5, NextParts
<1>3. CASE SyncRuntimeMessages
  BY <1>3, SyncTypes
<1>4. ASSUME NEW b \in Batches, NEW r \in Routes, ClaimRuntimeBatch(b, r) PROVE TypeOK'
  BY <1>4, ClaimTypes
<1>5. ASSUME NEW b \in Batches, Decide(b) \/ LoseBatch(b) \/ PassDeadline(b) PROVE TypeOK'
  <2>1. MessageTypes' /\ RowTypes' /\ ServiceTypes'
    BY <1>0, <1>5 DEF Decide, LoseBatch, PassDeadline, MessageTypes, RowTypes, ServiceTypes,
                      messageVars, rowVars, serviceVars
  <2>2. BatchTypes'
    BY <1>0, <1>5 DEF Decide, LoseBatch, PassDeadline, BatchTypes
  <2> QED
    BY <2>1, <2>2, NextParts
<1>6. ASSUME NEW b \in Batches, CompleteRuntimeBatch(b) PROVE TypeOK'
  <2>1. MessageTypes' /\ ServiceTypes'
    BY <1>0, <1>6 DEF CompleteRuntimeBatch, MessageTypes, ServiceTypes, messageVars, serviceVars
  <2>2. RowTypes'
    BY <1>0, <1>6, Constants DEF CompleteRuntimeBatch, RowTypes, States
  <2>3. ASSUME NEW m \in Messages
        PROVE  (IF m \in BatchMessages(b) THEN analysed[m] \cup {content[b][m]} ELSE analysed[m])
                 \in SUBSET (1..MaxRevision)
    <3>1. content[b][m] \in 0..MaxRevision /\ analysed[m] \subseteq 1..MaxRevision
      BY <1>0 DEF BatchTypes, Revisions
    <3>2. content[b][m] > 0 => content[b][m] \in 1..MaxRevision
      BY <3>1, Constants
    <3> QED
      BY <3>1, <3>2 DEF BatchMessages
  <2>4. analysed' \in [Messages -> SUBSET (1..MaxRevision)]
    BY <1>6, <2>3 DEF CompleteRuntimeBatch
  <2>5. BatchTypes'
    BY <1>0, <1>6, <2>4, LeaveTypes DEF CompleteRuntimeBatch
  <2> QED
    BY <2>1, <2>2, <2>5, NextParts
<1>7. ASSUME NEW b \in Batches, NEW code \in Codes, FailAnalysis(b, code) \/ RefuseBatch(b, code)
      PROVE  TypeOK'
  BY <1>7, FailBatchTypes DEF FailAnalysis, RefuseBatch
<1>8. CASE CommitAppliedConfig \/ Crash \/ Stop \/ Drained
  <2>1. MessageTypes' /\ RowTypes'
    BY <1>0, <1>8 DEF CommitAppliedConfig, Crash, Stop, Drained, MessageTypes, RowTypes, messageVars, rowVars
  <2>2. BatchTypes'
    BY <1>0, <1>8 DEF CommitAppliedConfig, Crash, Stop, Drained, BatchTypes, batchVars
  <2>3. ServiceTypes'
    BY <1>0, <1>8, EventTypes DEF CommitAppliedConfig, Crash, Stop, Drained, ServiceTypes
  <2> QED
    BY <2>1, <2>2, <2>3, NextParts
<1>9. CASE InvalidateRuntimeConfigWork
  <2>1. ServiceTypes'
    BY <1>0, <1>9, EventTypes DEF InvalidateRuntimeConfigWork, ServiceTypes
  <2>2. batchStatus' \in [Batches -> {"over", "analyzing", "failed"}]
    BY <1>0, <1>9 DEF InvalidateRuntimeConfigWork, BatchTypes
  <2> QED
    BY <1>9, <2>1, <2>2, GiveUpTypes DEF InvalidateRuntimeConfigWork
<1>10. CASE RecoverRuntime
  <2>1. ServiceTypes'
    BY <1>0, <1>10 DEF RecoverRuntime, ServiceTypes
  <2> QED
    BY <1>10, <2>1, GiveUpTypes DEF RecoverRuntime
<1>11. CASE UNCHANGED vars
  BY <1>11 DEF TypeOK, vars, messageVars, rowVars, batchVars, serviceVars
<1> QED
  BY <1>1, <1>2, <1>3, <1>4, <1>5, <1>6, <1>7, <1>8, <1>9, <1>10, <1>11 DEF Next, ClaimOf, analyze
----------------------------------------------------------------------------
(* Every message is analysed, and one analysis of a conversation at a time. *)

\* A goroutine works for a running service and holds the lease of its batch.
Leased == \A b \in Batches :
  analyst[b] # "none" => b \in lease /\ service \in {"up", "draining"}

\* What the row of a message says of its batch and of its revision.
RowOf(m) ==
  /\ inBatch[m] # NoBatch => state[m] = "batched"
  /\ state[m] = "batched" =>
       /\ inBatch[m] # NoBatch /\ batchStatus[inBatch[m]] = "analyzing"
       /\ content[inBatch[m]][m] = seenRevision[m]
  /\ state[m] # "none" => seenRevision[m] > 0
  /\ seenRevision[m] <= revision[m]
  /\ state[m] = "processed" => seenRevision[m] \in analysed[m]
RowsFollow == \A m \in Messages : RowOf(m)

OneAnalysis == \A b, c \in Batches, r \in Routes :
  /\ b \in BatchesOf(r) /\ analyst[b] # "none"
  /\ c \in BatchesOf(r) /\ analyst[c] # "none"
  => b = c

IntakeInv == TypeOK /\ Leased /\ RowsFollow /\ OneAnalysis

LEMMA InitIntakeInv == Init => IntakeInv
<1> SUFFICES ASSUME Init PROVE IntakeInv
  OBVIOUS
<1>1. TypeOK
  BY InitTypes
<1>2. Leased /\ OneAnalysis
  BY DEF Init, Leased, OneAnalysis
<1>3. RowsFollow
  BY DEF Init, RowsFollow, RowOf
<1> QED
  BY <1>1, <1>2, <1>3 DEF IntakeInv

\* Goroutines that end, and batches that are forgotten, disturb nobody.
LEMMA AnalysisKept ==
  ASSUME Leased, OneAnalysis,
         \A b \in Batches : analyst'[b] # "none" =>
            /\ analyst[b] # "none" /\ b \in lease' /\ content'[b] = content[b]
            /\ service' \in {"up", "draining"}
  PROVE  Leased' /\ OneAnalysis'
<1>1. Leased'
  BY DEF Leased
<1>2. ASSUME NEW b \in Batches, NEW r \in Routes, b \in BatchesOf(r)', analyst'[b] # "none"
      PROVE  b \in BatchesOf(r) /\ analyst[b] # "none"
  <2>1. content'[b] = content[b] /\ analyst[b] # "none"
    BY <1>2
  <2> QED
    BY <1>2, <2>1 DEF BatchesOf
<1>3. OneAnalysis'
  BY <1>2 DEF OneAnalysis
<1> QED
  BY <1>1, <1>3

\* Failing batches returns every row that names one of them.
LEMMA FailedRows ==
  ASSUME TypeOK, RowsFollow, NEW B, NEW code, FailRows(B, code)
  PROVE  \A m \in Messages :
           /\ seenRevision'[m] = seenRevision[m]
           /\ \/ /\ state[m] = "batched" /\ inBatch[m] \in B
                 /\ inBatch'[m] = NoBatch /\ state'[m] \in {"pending", "analysis_failed"}
              \/ /\ ~(state[m] = "batched" /\ inBatch[m] \in B)
                 /\ inBatch'[m] = inBatch[m] /\ state'[m] = state[m]
BY DEF FailRows, Outcome

\* ... so batches that were open and fail may be over and forgotten.
LEMMA RowsReturned ==
  ASSUME TypeOK, RowsFollow, NEW B, NEW code, FailRows(B, code), UNCHANGED <<revision, analysed>>,
         \A b \in Open \ B : batchStatus'[b] = "analyzing" /\ content'[b] = content[b]
  PROVE  RowsFollow'
<1> SUFFICES ASSUME NEW m \in Messages PROVE RowOf(m)'
  BY DEF RowsFollow
<1>1. RowOf(m) /\ inBatch[m] \in Batches \cup {NoBatch}
  BY DEF RowsFollow, TypeOK
<1>2. seenRevision'[m] = seenRevision[m]
  BY FailedRows
<1>3. CASE /\ state[m] = "batched" /\ inBatch[m] \in B
           /\ inBatch'[m] = NoBatch /\ state'[m] \in {"pending", "analysis_failed"}
  BY <1>1, <1>2, <1>3 DEF RowOf
<1>4. CASE /\ ~(state[m] = "batched" /\ inBatch[m] \in B)
           /\ inBatch'[m] = inBatch[m] /\ state'[m] = state[m]
  <2>1. state[m] = "batched" => inBatch[m] \in Open \ B
    BY <1>1, <1>4 DEF RowOf, Open
  <2>2. state[m] = "batched" => batchStatus'[inBatch[m]] = "analyzing"
                                /\ content'[inBatch[m]] = content[inBatch[m]]
    BY <2>1
  <2> QED
    BY <1>1, <1>2, <1>4, <2>2 DEF RowOf
<1> QED
  BY <1>3, <1>4, FailedRows

\* A goroutine that returns leaves the others alone.
LEMMA Left ==
  ASSUME TypeOK, Leased, OneAnalysis, NEW b \in Batches, Leave(b), service' = service
  PROVE  /\ Leased' /\ OneAnalysis'
         /\ \A c \in Batches \ {b} : batchStatus'[c] = batchStatus[c] /\ content'[c] = content[c]
<1>1. \A c \in Batches \ {b} : /\ batchStatus'[c] = batchStatus[c] /\ content'[c] = content[c]
                              /\ analyst'[c] = analyst[c] /\ (c \in lease' <=> c \in lease)
  BY DEF Leave, Forget, TypeOK
<1>2. analyst'[b] = "none"
  BY DEF Leave, TypeOK
<1>3. Leased' /\ OneAnalysis'
  <2>1. \A c \in Batches : analyst'[c] # "none" =>
          /\ analyst[c] # "none" /\ c \in lease' /\ content'[c] = content[c]
          /\ service' \in {"up", "draining"}
    BY <1>1, <1>2 DEF Leased
  <2> QED
    BY <2>1, AnalysisKept
<1> QED
  BY <1>1, <1>3

LEMMA FailBatch ==
  ASSUME IntakeInv, NEW b \in Batches, NEW code, FailRuntimeBatch(b, code)
  PROVE  Leased' /\ RowsFollow' /\ OneAnalysis'
<1>1. TypeOK /\ Leased /\ RowsFollow /\ OneAnalysis
  BY DEF IntakeInv
<1>2. FailRows({b} \cap Open, code) /\ Leave(b) /\ UNCHANGED <<revision, analysed, service>>
  BY DEF FailRuntimeBatch, messageVars, serviceVars
<1>3. \A c \in Open \ ({b} \cap Open) : batchStatus'[c] = "analyzing" /\ content'[c] = content[c]
  BY <1>1, <1>2, Left DEF Open
<1>4. RowsFollow'
  BY <1>1, <1>2, <1>3, RowsReturned
<1> QED
  BY <1>1, <1>2, <1>4, Left

\* A claim takes a conversation that no goroutine works on.
LEMMA ClaimAnalysis ==
  ASSUME IntakeInv, NEW b \in Batches, NEW r \in Routes, ClaimRuntimeBatch(b, r)
  PROVE  Leased' /\ RowsFollow' /\ OneAnalysis'
<1>1. TypeOK /\ Leased /\ RowsFollow /\ OneAnalysis
  BY DEF IntakeInv
<1>2. /\ service = "up" /\ Eligible(r) /\ batchStatus[b] # "analyzing"
      /\ UNCHANGED <<revision, seenRevision, service, analysed>>
  BY DEF ClaimRuntimeBatch, messageVars, serviceVars
<1>3. \A c \in Batches \ {b} : /\ content'[c] = content[c] /\ batchStatus'[c] = batchStatus[c]
                              /\ analyst'[c] = analyst[c]
  BY <1>1 DEF ClaimRuntimeBatch, TypeOK
<1>4. /\ batchStatus'[b] = "analyzing" /\ lease' = lease \cup {b}
      /\ \A m \in Messages : content'[b][m] = IF m \in Selected(r) THEN revision[m] ELSE 0
  BY <1>1 DEF ClaimRuntimeBatch, TypeOK
<1>5. Leased'
  BY <1>1, <1>2, <1>3, <1>4 DEF Leased
<1>6. RowsFollow'
  <2> SUFFICES ASSUME NEW m \in Messages PROVE RowOf(m)'
    BY DEF RowsFollow
  <2>1. RowOf(m) /\ inBatch[m] \in Batches \cup {NoBatch} /\ NoBatch \notin Batches
    BY <1>1, Constants DEF RowsFollow, TypeOK
  <2>2. CASE m \in Marked(r)
    <3>1. state'[m] = "batched" /\ inBatch'[m] = b
      BY <1>1, <2>2 DEF ClaimRuntimeBatch, TypeOK
    <3>2. m \in Selected(r) /\ state[m] = "pending" /\ seenRevision[m] = revision[m]
      BY <2>2 DEF Marked, Selected, PendingOf
    <3>3. content'[b][m] = seenRevision[m]
      BY <1>4, <3>2
    <3> QED
      BY <1>2, <1>4, <2>1, <3>1, <3>2, <3>3 DEF RowOf
  <2>3. CASE m \notin Marked(r)
    <3>1. state'[m] = state[m] /\ inBatch'[m] = inBatch[m]
      BY <1>1, <2>3 DEF ClaimRuntimeBatch, TypeOK
    <3>2. state[m] = "batched" => inBatch[m] \in Batches \ {b}
      BY <1>2, <2>1 DEF RowOf
    <3>3. state[m] = "batched" => /\ batchStatus'[inBatch[m]] = batchStatus[inBatch[m]]
                                  /\ content'[inBatch[m]] = content[inBatch[m]]
      BY <1>3, <3>2
    <3> QED
      BY <1>2, <2>1, <3>1, <3>3 DEF RowOf
  <2> QED
    BY <2>2, <2>3
<1>7. OneAnalysis'
  <2>1. ASSUME NEW q \in Routes, NEW c \in Batches \ {b}, c \in BatchesOf(q)'
        PROVE  c \in BatchesOf(q)
    BY <1>3, <2>1 DEF BatchesOf
  <2>2. ASSUME b \in BatchesOf(r)' PROVE \A c \in BatchesOf(r) : analyst[c] = "none"
    BY <1>1, <1>2 DEF Leased, Eligible, BatchesOf
  <2>3. ASSUME NEW q \in Routes, b \in BatchesOf(q)' PROVE q = r
    <3>1. PICK m \in Messages : content'[b][m] > 0 /\ RouteOf[m] = q
      BY <2>3 DEF BatchesOf
    <3>2. m \in Selected(r)
      BY <1>4, <3>1
    <3> QED
      BY <3>1, <3>2 DEF Selected, PendingOf
  <2> SUFFICES ASSUME NEW c \in Batches, NEW d \in Batches, NEW q \in Routes,
                      c \in BatchesOf(q)', analyst'[c] # "none",
                      d \in BatchesOf(q)', analyst'[d] # "none"
               PROVE  c = d
    BY DEF OneAnalysis
  <2>4. CASE c # b /\ d # b
    BY <1>1, <1>3, <2>1, <2>4 DEF OneAnalysis
  <2>5. CASE c = b /\ d # b
    BY <1>3, <2>1, <2>2, <2>3, <2>5
  <2>6. CASE c # b /\ d = b
    BY <1>3, <2>1, <2>2, <2>3, <2>6
  <2> QED
    BY <2>4, <2>5, <2>6
<1> QED
  BY <1>5, <1>6, <1>7

LEMMA CompleteAnalysis ==
  ASSUME IntakeInv, NEW b \in Batches, CompleteRuntimeBatch(b)
  PROVE  Leased' /\ RowsFollow' /\ OneAnalysis'
<1>1. TypeOK /\ Leased /\ RowsFollow /\ OneAnalysis
  BY DEF IntakeInv
<1>2. Leave(b) /\ UNCHANGED <<revision, seenRevision, service>>
  BY DEF CompleteRuntimeBatch, messageVars, serviceVars
<1>3. ASSUME NEW m \in Messages PROVE RowOf(m)'
  <2>1. RowOf(m) /\ inBatch[m] \in Batches \cup {NoBatch} /\ NoBatch \notin Batches
    BY <1>1, Constants DEF RowsFollow, TypeOK
  <2>2. analysed'[m] = IF m \in BatchMessages(b) THEN analysed[m] \cup {content[b][m]} ELSE analysed[m]
    BY DEF CompleteRuntimeBatch
  <2>3. CASE inBatch[m] = b
    <3>1. state'[m] = "processed" /\ inBatch'[m] = NoBatch
      BY <2>3 DEF CompleteRuntimeBatch
    <3>2. state[m] = "batched" /\ content[b][m] = seenRevision[m] /\ seenRevision[m] > 0
      BY <2>1, <2>3 DEF RowOf
    <3>3. seenRevision[m] \in analysed'[m]
      BY <2>2, <3>2 DEF BatchMessages
    <3> QED
      BY <1>2, <2>1, <3>1, <3>2, <3>3 DEF RowOf
  <2>4. CASE inBatch[m] # b
    <3>1. state'[m] = state[m] /\ inBatch'[m] = inBatch[m] /\ analysed[m] \subseteq analysed'[m]
      BY <2>2, <2>4 DEF CompleteRuntimeBatch
    <3>2. state[m] = "batched" => inBatch[m] \in Batches \ {b}
      BY <2>1, <2>4 DEF RowOf
    <3>3. state[m] = "batched" => /\ batchStatus'[inBatch[m]] = batchStatus[inBatch[m]]
                                  /\ content'[inBatch[m]] = content[inBatch[m]]
      BY <1>1, <1>2, <3>2, Left
    <3> QED
      BY <1>2, <2>1, <3>1, <3>3 DEF RowOf
  <2> QED
    BY <2>3, <2>4
<1> QED
  BY <1>1, <1>2, <1>3, Left DEF RowsFollow

\* A synchronised row starts again and names no batch.
LEMMA SyncRows ==
  ASSUME TypeOK, RowsFollow, SyncRuntimeMessages
  PROVE  RowsFollow'
<1>1. PICK changed \in SUBSET Unsynced, background \in SUBSET Unsynced :
        /\ state' = [m \in Messages |->
             IF m \notin changed THEN state[m]
             ELSE IF m \in gone THEN "recalled"
             ELSE IF m \in background THEN "context" ELSE "pending"]
        /\ seenRevision' = [m \in Messages |-> IF m \in changed THEN revision[m] ELSE seenRevision[m]]
        /\ inBatch' = [m \in Messages |-> IF m \in changed THEN NoBatch ELSE inBatch[m]]
  BY DEF SyncRuntimeMessages
<1>2. UNCHANGED <<revision, batchStatus, content, analysed>>
  BY DEF SyncRuntimeMessages, messageVars, batchVars
<1> SUFFICES ASSUME NEW m \in Messages PROVE RowOf(m)'
  BY DEF RowsFollow
<1>3. RowOf(m) /\ revision[m] \in Nat /\ seenRevision[m] \in Nat
  BY Constants DEF RowsFollow, TypeOK
<1>4. CASE m \in changed
  <2>1. state'[m] \in {"recalled", "context", "pending"} /\ seenRevision'[m] = revision[m] /\ inBatch'[m] = NoBatch
    BY <1>1, <1>4
  <2>2. revision[m] > 0
    BY <1>4 DEF Unsynced, Received
  <2> QED
    BY <1>2, <1>3, <2>1, <2>2 DEF RowOf
<1>5. CASE m \notin changed
  <2>1. state'[m] = state[m] /\ seenRevision'[m] = seenRevision[m] /\ inBatch'[m] = inBatch[m]
    BY <1>1, <1>5
  <2> QED
    BY <1>2, <1>3, <2>1 DEF RowOf
<1> QED
  BY <1>4, <1>5

LEMMA NextIntakeInv == IntakeInv /\ [Next]_vars => IntakeInv'
<1> SUFFICES ASSUME IntakeInv, [Next]_vars PROVE IntakeInv'
  OBVIOUS
<1>0. TypeOK /\ TypeOK' /\ Leased /\ RowsFollow /\ OneAnalysis
  BY StepTypes DEF IntakeInv
<1> SUFFICES RowsFollow' /\ Leased' /\ OneAnalysis'
  BY <1>0 DEF IntakeInv
<1>a. ASSUME UNCHANGED <<seenRevision, state, inBatch, batchStatus, content, analysed>>,
             \A m \in Messages : revision'[m] >= revision[m]
      PROVE  RowsFollow'
  <2>1. \A m \in Messages : revision[m] \in Nat /\ revision'[m] \in Nat /\ seenRevision[m] \in Nat
    BY <1>0, Constants DEF TypeOK
  <2> QED
    BY <1>0, <1>a, <2>1 DEF RowsFollow, RowOf
<1>b. ASSUME UNCHANGED <<analyst, lease, content, service>> PROVE Leased' /\ OneAnalysis'
  BY <1>0, <1>b, AnalysisKept DEF Leased
<1>1. ASSUME NEW m \in Messages, Intake(m) \/ applyMessage(m) \/ markRecalled(m) \/ BackoffPasses(m)
      PROVE  RowsFollow' /\ Leased' /\ OneAnalysis'
  <2>1. UNCHANGED <<seenRevision, state, inBatch, batchStatus, content, analysed, analyst, lease, service>>
    BY <1>1 DEF Intake, applyMessage, markRecalled, BackoffPasses, rowVars, batchVars, serviceVars
  <2>2. \A n \in Messages : revision[n] \in Nat /\ revision'[n] >= revision[n]
    <3>1. \A n \in Messages : revision[n] \in Nat
      BY <1>0, Constants DEF TypeOK
    <3>2. CASE Intake(m)
      <4>1. revision[m] = 0 /\ revision' = [revision EXCEPT ![m] = 1]
        BY <3>1, <3>2 DEF Intake, Received
      <4> QED
        BY <1>0, <3>1, <4>1 DEF TypeOK
    <3>3. CASE applyMessage(m)
      <4>1. revision' = [revision EXCEPT ![m] = @ + 1]
        BY <3>3 DEF applyMessage
      <4> QED
        BY <1>0, <3>1, <4>1 DEF TypeOK
    <3>4. CASE markRecalled(m) \/ BackoffPasses(m)
      BY <3>1, <3>4 DEF markRecalled, BackoffPasses, messageVars
    <3> QED
      BY <1>1, <3>2, <3>3, <3>4
  <2> QED
    BY <1>a, <1>b, <2>1, <2>2
<1>2. CASE SyncRuntimeMessages
  <2>1. UNCHANGED <<analyst, lease, content, service>>
    BY <1>2 DEF SyncRuntimeMessages, batchVars, serviceVars
  <2> QED
    BY <1>0, <1>2, <1>b, <2>1, SyncRows DEF IntakeInv
<1>3. ASSUME NEW b \in Batches, NEW r \in Routes, ClaimRuntimeBatch(b, r)
      PROVE  RowsFollow' /\ Leased' /\ OneAnalysis'
  BY <1>3, ClaimAnalysis
<1>4. ASSUME NEW b \in Batches, Decide(b) \/ LoseBatch(b) \/ PassDeadline(b)
      PROVE  RowsFollow' /\ Leased' /\ OneAnalysis'
  <2>1. RowsFollow'
    <3>1. UNCHANGED <<revision, seenRevision, state, inBatch, batchStatus, content, analysed>>
      BY <1>4 DEF Decide, LoseBatch, PassDeadline, rowVars, messageVars
    <3>2. \A m \in Messages : revision'[m] >= revision[m]
      BY <1>0, <3>1, Constants DEF TypeOK
    <3> QED
      BY <1>a, <3>1, <3>2
  <2>2. \A c \in Batches : analyst'[c] # "none" =>
          /\ analyst[c] # "none" /\ c \in lease' /\ content'[c] = content[c]
          /\ service' \in {"up", "draining"}
    BY <1>0, <1>4 DEF Decide, LoseBatch, PassDeadline, Leased, TypeOK, serviceVars
  <2> QED
    BY <1>0, <2>1, <2>2, AnalysisKept
<1>5. ASSUME NEW b \in Batches, CompleteRuntimeBatch(b)
      PROVE  RowsFollow' /\ Leased' /\ OneAnalysis'
  BY <1>5, CompleteAnalysis
<1>6. ASSUME NEW b \in Batches, NEW code \in Codes, FailAnalysis(b, code) \/ RefuseBatch(b, code)
      PROVE  RowsFollow' /\ Leased' /\ OneAnalysis'
  BY <1>6, FailBatch DEF FailAnalysis, RefuseBatch
<1>7. CASE CommitAppliedConfig \/ Crash \/ Stop \/ Drained
  <2>1. RowsFollow'
    <3>1. UNCHANGED <<revision, seenRevision, state, inBatch, batchStatus, content, analysed>>
      BY <1>7 DEF CommitAppliedConfig, Crash, Stop, Drained, rowVars, messageVars, batchVars
    <3>2. \A m \in Messages : revision'[m] >= revision[m]
      BY <1>0, <3>1, Constants DEF TypeOK
    <3> QED
      BY <1>a, <3>1, <3>2
  <2>2. \A c \in Batches : analyst'[c] # "none" =>
          /\ analyst[c] # "none" /\ c \in lease' /\ content'[c] = content[c]
          /\ service' \in {"up", "draining"}
    BY <1>0, <1>7 DEF CommitAppliedConfig, Crash, Stop, Drained, Leased, TypeOK, batchVars
  <2> QED
    BY <1>0, <2>1, <2>2, AnalysisKept
<1>8. CASE InvalidateRuntimeConfigWork
  <2>1. RowsFollow'
    <3>1. FailRows(Open, "configuration_changed") /\ UNCHANGED <<revision, analysed>>
      BY <1>8 DEF InvalidateRuntimeConfigWork, messageVars
    <3>2. Open \ Open = {}
      OBVIOUS
    <3> QED
      BY <1>0, <3>1, <3>2, RowsReturned
  <2>2. \A c \in Batches : analyst'[c] # "none" =>
          /\ analyst[c] # "none" /\ c \in lease' /\ content'[c] = content[c]
          /\ service' \in {"up", "draining"}
    BY <1>0, <1>8 DEF InvalidateRuntimeConfigWork, Forget, Leased
  <2> QED
    BY <1>0, <2>1, <2>2, AnalysisKept
<1>9. CASE RecoverRuntime
  <2>1. RowsFollow'
    <3>1. FailRows(Open, "runtime_restarted") /\ UNCHANGED <<revision, analysed>>
      BY <1>9 DEF RecoverRuntime, messageVars
    <3>2. Open \ Open = {}
      OBVIOUS
    <3> QED
      BY <1>0, <3>1, <3>2, RowsReturned
  <2>2. \A c \in Batches : analyst'[c] = "none"
    BY <1>0, <1>9 DEF RecoverRuntime, Leased
  <2> QED
    BY <1>0, <2>1, <2>2, AnalysisKept
<1>10. CASE UNCHANGED vars
  <2>1. UNCHANGED <<revision, seenRevision, state, inBatch, batchStatus, content, analysed,
                    analyst, lease, service>>
    BY <1>10 DEF vars, messageVars, rowVars, batchVars, serviceVars
  <2>2. \A m \in Messages : revision'[m] >= revision[m]
    BY <1>0, <2>1, Constants DEF TypeOK
  <2> QED
    BY <1>a, <1>b, <2>1, <2>2
<1> QED
  BY <1>1, <1>2, <1>3, <1>4, <1>5, <1>6, <1>7, <1>8, <1>9, <1>10 DEF Next, ClaimOf, analyze

\* Types, rows that follow their batches and one analysis per conversation.
THEOREM IntakeInvariant == Spec => []IntakeInv
BY InitIntakeInv, NextIntakeInv, PTL DEF Spec

\* Messages, rows, batches and goroutines keep their types
\* (runtime.go: runtime_message_states, runtime_batches).
THEOREM IntakeTypes == Spec => []TypeOK
<1>1. IntakeInv => TypeOK
  BY DEF IntakeInv
<1> QED
  BY IntakeInvariant, <1>1, PTL

\* No failure, edit, recall, declaration or recovery leaves a row behind in a
\* batch that is over, no revision is skipped, and at most one analysis of a
\* conversation runs in a process (runtime.go:897, 1105, 1275, 2271).
THEOREM EveryMessageIsAnalysed == Spec => []MessagesAreAnalysed
<1>1. IntakeInv => MessagesAreAnalysed
  <2> SUFFICES ASSUME IntakeInv PROVE MessagesAreAnalysed
    OBVIOUS
  <2>1. \A m \in Messages :
          /\ state[m] = "batched" =>
               /\ inBatch[m] # NoBatch
               /\ batchStatus[inBatch[m]] = "analyzing"
               /\ content[inBatch[m]][m] = seenRevision[m]
          /\ state[m] = "processed" => seenRevision[m] \in analysed[m]
    BY DEF IntakeInv, RowsFollow, RowOf
  <2>2. ASSUME NEW r \in Routes
        PROVE  Cardinality({b \in BatchesOf(r) : analyst[b] # "none"}) <= 1
    <3> DEFINE S == {b \in BatchesOf(r) : analyst[b] # "none"}
    <3>1. \A b, c \in S : b = c
      BY DEF IntakeInv, OneAnalysis, BatchesOf
    <3> HIDE DEF S
    <3>2. ASSUME S = {} PROVE Cardinality(S) = 0
      <4>1. Cardinality({}) = 0
        BY FS_EmptySet
      <4> QED
        BY <3>2, <4>1
    <3>3. ASSUME S # {} PROVE Cardinality(S) = 1
      <4>1. PICK b \in S : S = {b}
        BY <3>1, <3>3
      <4> QED
        <5>1. Cardinality({b}) = 1
          BY FS_Singleton, Zenon
        <5> QED
          BY <4>1, <5>1
    <3>4. Cardinality(S) <= 1
      BY <3>2, <3>3
    <3> QED
      BY <3>4 DEF S
  <2> QED
    BY <2>1, <2>2 DEF MessagesAreAnalysed
<1> QED
  BY IntakeInvariant, <1>1, PTL
----------------------------------------------------------------------------
(* Receive order.  A deadline between an answer and the transaction that   *)
(* stores it ("late") leaves an open batch without a lease, and messages   *)
(* pass the ones it holds (OverdueBatchEnds); without it they never do.    *)

Earlier(m, n) == m < n /\ RouteOf[m] = RouteOf[n]
Original(m) == revision[m] = 1 /\ m \notin gone
Done(m) == state[m] \notin {"none", "pending", "batched"}

\* Messages are received, get their rows and stand in line one after another.
Line ==
  /\ \A m, n \in Messages : m < n /\ n \in Received => m \in Received
  /\ \A m, n \in Messages : Earlier(m, n) /\ state[n] # "none" => state[m] # "none"
  /\ \A m, n \in Messages : Earlier(m, n) /\ Original(m) /\ n \in Received => <<m, n>> \in ahead
  /\ ahead \subseteq Received \X Received
  /\ \A x, y, z \in Messages : <<x, y>> \in ahead /\ <<y, z>> \in ahead => <<x, z>> \in ahead

\* What batches and analyses hold was received.
Known == \A m \in Messages :
  /\ \A b \in Batches : content[b][m] <= revision[m]
  /\ analysed[m] \subseteq 1..revision[m]

\* An open batch of a service that is up has its lease.
OpenLeased == \A b \in Batches :
  /\ batchStatus[b] = "analyzing" /\ service = "up" => b \in lease
  /\ analyst[b] = "decided" => b \notin overdue

\* The messages before one that is under analysis, or was, are not behind it.
InTurn == \A m, n \in Messages : Earlier(m, n) /\ Original(m) =>
  /\ \A b \in Batches : batchStatus[b] = "analyzing" /\ content[b][n] = 1 =>
        Done(m) \/ (state[m] = "batched" /\ inBatch[m] = b)
  /\ 1 \in analysed[n] => Done(m)

OrderInv == IntakeInv /\ Line /\ Known /\ OpenLeased /\ InTurn

LEMMA InitOrderInv == Init => OrderInv
<1> SUFFICES ASSUME Init PROVE OrderInv
  OBVIOUS
<1>1. IntakeInv
  BY InitIntakeInv
<1>2. Line /\ OpenLeased
  BY DEF Init, Line, OpenLeased, Received
<1>3. Known /\ InTurn
  BY DEF Init, Known, InTurn, NoContent, Original
<1> QED
  BY <1>1, <1>2, <1>3 DEF OrderInv

\* A message that was never edited or recalled is not looked at again.
LEMMA OriginalSynced ==
  ASSUME IntakeInv, NEW m \in Messages, Original(m), state[m] # "none"
  PROVE  seenRevision[m] = 1 /\ m \notin Unsynced
<1>1. seenRevision[m] > 0 /\ seenRevision[m] <= revision[m] /\ seenRevision[m] \in Nat
  BY Constants DEF IntakeInv, RowsFollow, RowOf, TypeOK
<1>2. seenRevision[m] = 1
  BY <1>1 DEF Original
<1> QED
  BY <1>2 DEF Original, Unsynced

\* The line when only rows and batches change.
LEMMA LineKept ==
  ASSUME Line, UNCHANGED <<revision, gone, ahead>>,
         \A m \in Messages : state'[m] = "none" <=> state[m] = "none"
  PROVE  Line'
BY DEF Line, Received, Original, Earlier

LEMMA IntakeLine ==
  ASSUME OrderInv, NEW m \in Messages, Intake(m)
  PROVE  Line' /\ Known' /\ OpenLeased' /\ InTurn'
<1>0. TypeOK /\ RowsFollow /\ Line /\ Known /\ OpenLeased /\ InTurn
  BY DEF OrderInv, IntakeInv
<1>1. /\ m \notin Received /\ 1..(m - 1) \subseteq Received /\ ahead' = ahead \cup (Received \X {m})
      /\ revision' = [revision EXCEPT ![m] = 1] /\ UNCHANGED <<gone, state, batchVars, service, inBatch>>
  BY DEF Intake, serviceVars
<1>2. /\ revision[m] = 0 /\ revision'[m] = 1 /\ \A n \in Messages \ {m} : revision'[n] = revision[n]
      /\ Received' = Received \cup {m}
  <2>1. revision \in [Messages -> Nat]
    BY <1>0, Constants DEF TypeOK, Revisions
  <2>2. revision[m] = 0
    BY <1>1, <2>1 DEF Received
  <2>3. revision'[m] = 1 /\ \A n \in Messages \ {m} : revision'[n] = revision[n]
    BY <1>1, <2>1
  <2> QED
    BY <2>2, <2>3 DEF Received
<1>3. \A n \in Messages : m < n => n \notin Received
  BY <1>0, <1>1 DEF Line
<1>4. \A n \in Messages : n < m => n \in Received
  <2>1. \A n \in Messages : n < m => n \in 1..(m - 1)
    BY Constants DEF Messages
  <2> QED
    BY <1>1, <2>1
<1>5. Line'
  <2>1. \A x, n \in Messages : x < n /\ n \in Received' => x \in Received'
    BY <1>0, <1>2, <1>4 DEF Line
  <2>2. \A x, n \in Messages : Earlier(x, n) /\ state'[n] # "none" => state'[x] # "none"
    BY <1>0, <1>1 DEF Line
  <2>3. ASSUME NEW x \in Messages, NEW n \in Messages, Earlier(x, n), Original(x)', n \in Received'
        PROVE  <<x, n>> \in ahead'
    <3>1. CASE x = m
      BY <1>2, <1>3, <2>3, <3>1, Constants DEF Earlier
    <3>2. CASE x # m /\ n = m
      BY <1>1, <1>4, <2>3, <3>2 DEF Earlier
    <3>3. CASE x # m /\ n # m
      BY <1>0, <1>1, <1>2, <2>3, <3>3 DEF Line, Original
    <3> QED
      BY <3>1, <3>2, <3>3
  <2>4. ahead' \subseteq Received' \X Received'
    BY <1>0, <1>1, <1>2 DEF Line
  <2>5. ASSUME NEW x \in Messages, NEW y \in Messages, NEW z \in Messages,
               <<x, y>> \in ahead', <<y, z>> \in ahead'
        PROVE  <<x, z>> \in ahead'
    BY <1>0, <1>1, <2>5 DEF Line
  <2> QED
    BY <2>1, <2>2, <2>3, <2>4, <2>5 DEF Line, Earlier
<1>6. Known'
  <2>1. \A n \in Messages : revision[n] \in Nat /\ revision[n] <= revision'[n] /\ revision'[n] \in Nat
    BY <1>0, <1>2, Constants DEF TypeOK, Revisions
  <2>2. \A n \in Messages : 1..revision[n] \subseteq 1..revision'[n]
    BY <2>1
  <2>3. \A b \in Batches, n \in Messages : content[b][n] \in Nat
    BY <1>0, Constants DEF TypeOK, Revisions
  <2> QED
    BY <1>0, <1>1, <2>1, <2>2, <2>3 DEF Known, batchVars
<1>7. OpenLeased'
  BY <1>0, <1>1 DEF OpenLeased, batchVars
<1>8. InTurn'
  <2> SUFFICES ASSUME NEW x \in Messages, NEW n \in Messages, Earlier(x, n), Original(x)'
               PROVE  /\ \A b \in Batches : batchStatus'[b] = "analyzing" /\ content'[b][n] = 1 =>
                           Done(x)' \/ (state'[x] = "batched" /\ inBatch'[x] = b)
                      /\ 1 \in analysed'[n] => Done(x)'
    BY DEF InTurn, Earlier
  <2>1. CASE x = m
    <3>1. revision[n] = 0
      <4>1. n \notin Received /\ revision[n] \in Nat
        BY <1>0, <1>3, <2>1, Constants DEF Earlier, TypeOK, Revisions
      <4> QED
        BY <4>1 DEF Received
    <3>2. 1 \notin analysed[n] /\ \A b \in Batches : content[b][n] # 1
      BY <1>0, <3>1 DEF Known
    <3> QED
      BY <1>1, <3>2 DEF batchVars
  <2>2. CASE x # m
    <3>1. Original(x)
      BY <1>1, <1>2, <2>2 DEF Original
    <3> QED
      BY <1>0, <1>1, <3>1 DEF InTurn, batchVars, Done
  <2> QED
    BY <2>1, <2>2
<1> QED
  BY <1>5, <1>6, <1>7, <1>8

LEMMA SyncLine ==
  ASSUME OrderInv, SyncRuntimeMessages
  PROVE  Line' /\ Known' /\ OpenLeased' /\ InTurn'
<1>0. TypeOK /\ IntakeInv /\ RowsFollow /\ Line /\ Known /\ OpenLeased /\ InTurn
  BY DEF OrderInv, IntakeInv
<1>1. PICK changed \in SUBSET Unsynced, background \in SUBSET Unsynced :
        /\ \A m \in changed, n \in Unsynced : n < m /\ RouteOf[n] = RouteOf[m] => n \in changed
        /\ state' = [m \in Messages |->
             IF m \notin changed THEN state[m]
             ELSE IF m \in gone THEN "recalled"
             ELSE IF m \in background THEN "context" ELSE "pending"]
        /\ inBatch' = [m \in Messages |-> IF m \in changed THEN NoBatch ELSE inBatch[m]]
        /\ ahead' = {p \in ahead : p[1] \notin {m \in changed : state[m] # "none"}
                                   /\ p[2] \notin {m \in changed : state[m] # "none"}}
                      \cup ((Received \ {m \in changed : state[m] # "none"})
                              \X {m \in changed : state[m] # "none"})
                      \cup {p \in {m \in changed : state[m] # "none"} \X {m \in changed : state[m] # "none"} :
                              p[1] < p[2]}
  BY DEF SyncRuntimeMessages
<1>2. UNCHANGED <<revision, gone, batchVars, service>>
  BY DEF SyncRuntimeMessages, messageVars, serviceVars
<1> DEFINE again == {m \in changed : state[m] # "none"}
<1>3. again \subseteq Received /\ changed \subseteq Received /\ Received \subseteq Messages
  BY DEF Unsynced, Received
<1>4. \A x, y \in Messages : <<x, y>> \in ahead' <=>
        \/ <<x, y>> \in ahead /\ x \notin again /\ y \notin again
        \/ x \in Received \ again /\ y \in again
        \/ x \in again /\ y \in again /\ x < y
  <2> HIDE DEF again
  <2> QED
    BY <1>1 DEF again
<1>5. \A m \in Messages : Original(m) /\ state[m] # "none" => m \notin changed
  BY <1>0, OriginalSynced
<1>6. Line'
  <2>1. \A m, n \in Messages : m < n /\ n \in Received' => m \in Received'
    BY <1>0, <1>2 DEF Line, Received
  <2>2. ASSUME NEW m \in Messages, NEW n \in Messages, Earlier(m, n), state'[n] # "none"
        PROVE  state'[m] # "none"
    <3>1. CASE state[m] # "none" \/ m \in changed
      BY <1>1, <3>1
    <3>2. CASE state[m] = "none" /\ m \notin changed
      <4>1. state[n] = "none"
        BY <1>0, <2>2, <3>2 DEF Line
      <4>2. n \in changed
        BY <1>1, <2>2, <4>1
      <4>3. m \in Received
        BY <1>0, <1>3, <2>2, <4>2 DEF Line, Earlier
      <4>4. m \in Unsynced
        BY <3>2, <4>3 DEF Unsynced
      <4> QED
        BY <1>1, <2>2, <3>2, <4>2, <4>4 DEF Earlier
    <3> QED
      BY <3>1, <3>2
  <2>3. ASSUME NEW m \in Messages, NEW n \in Messages, Earlier(m, n), Original(m)', n \in Received'
        PROVE  <<m, n>> \in ahead'
    <3>1. Original(m) /\ n \in Received /\ m \in Received
      BY <1>0, <1>2, <2>3 DEF Original, Received, Line, Earlier
    <3>2. m \notin again
      BY <1>5, <3>1
    <3>3. <<m, n>> \in ahead
      BY <1>0, <2>3, <3>1 DEF Line
    <3> HIDE DEF again
    <3> QED
      BY <1>4, <3>1, <3>2, <3>3
  <2>4. ahead' \subseteq Received' \X Received'
    <3>1. Received' = Received
      BY <1>2 DEF Received
    <3> QED
      BY <1>0, <1>1, <1>3, <3>1 DEF Line
  <2>5. ASSUME NEW x \in Messages, NEW y \in Messages, NEW z \in Messages,
               <<x, y>> \in ahead', <<y, z>> \in ahead'
        PROVE  <<x, z>> \in ahead'
    <3>1. x \in Nat /\ y \in Nat /\ z \in Nat
      BY Constants
    <3>2. \A v, w \in Messages : <<v, w>> \in ahead => v \in Received /\ w \in Received
      BY <1>0 DEF Line
    <3>3. <<x, y>> \in ahead /\ <<y, z>> \in ahead => <<x, z>> \in ahead
      BY <1>0 DEF Line
    <3> HIDE DEF again
    <3> QED
      BY <1>3, <1>4, <2>5, <3>1, <3>2, <3>3
  <2> QED
    BY <2>1, <2>2, <2>3, <2>4, <2>5 DEF Line, Earlier
<1>7. Known' /\ OpenLeased'
  BY <1>0, <1>2 DEF Known, OpenLeased, batchVars
<1>8. InTurn'
  <2> SUFFICES ASSUME NEW m \in Messages, NEW n \in Messages, Earlier(m, n), Original(m)'
               PROVE  /\ \A b \in Batches : batchStatus'[b] = "analyzing" /\ content'[b][n] = 1 =>
                           Done(m)' \/ (state'[m] = "batched" /\ inBatch'[m] = b)
                      /\ 1 \in analysed'[n] => Done(m)'
    BY DEF InTurn, Earlier
  <2>1. Original(m)
    BY <1>2 DEF Original
  <2>2. state[m] # "none" => state'[m] = state[m] /\ inBatch'[m] = inBatch[m]
    BY <1>1, <1>5, <2>1
  <2> QED
    BY <1>0, <1>2, <2>1, <2>2 DEF InTurn, batchVars, Done
<1> QED
  BY <1>6, <1>7, <1>8

\* The oldest rows are taken first, those at their revision are marked, and
\* no open batch of the conversation is left without a goroutine.
LEMMA ClaimInTurn ==
  ASSUME OrderInv, NEW b \in Batches, NEW r \in Routes, ClaimRuntimeBatch(b, r)
  PROVE  Line' /\ Known' /\ OpenLeased' /\ InTurn'
<1>0. TypeOK /\ IntakeInv /\ RowsFollow /\ Line /\ Known /\ OpenLeased /\ InTurn
  BY DEF OrderInv, IntakeInv
<1>1. /\ service = "up" /\ Eligible(r) /\ analyst[b] = "none"
      /\ UNCHANGED <<revision, gone, seenRevision, ahead, service, analysed, overdue>>
  BY DEF ClaimRuntimeBatch, messageVars, serviceVars
<1>2. \A c \in Batches \ {b} : /\ content'[c] = content[c] /\ batchStatus'[c] = batchStatus[c]
                              /\ analyst'[c] = analyst[c]
  BY <1>0 DEF ClaimRuntimeBatch, TypeOK
<1>3. /\ batchStatus'[b] = "analyzing" /\ lease' = lease \cup {b} /\ analyst'[b] = "working"
      /\ \A m \in Messages : content'[b][m] = IF m \in Selected(r) THEN revision[m] ELSE 0
  BY <1>0 DEF ClaimRuntimeBatch, TypeOK
<1>4. \A m \in Messages :
        /\ m \in Marked(r) => state[m] = "pending" /\ state'[m] = "batched" /\ inBatch'[m] = b
        /\ m \notin Marked(r) => state'[m] = state[m] /\ inBatch'[m] = inBatch[m]
  BY <1>0 DEF ClaimRuntimeBatch, TypeOK, Marked, Selected, PendingOf
<1>5. Line'
  BY <1>0, <1>1, <1>4, LineKept
<1>6. Known'
  <2>1. \A m \in Messages : revision[m] \in Nat
    BY <1>0, Constants DEF TypeOK, Revisions
  <2>2. \A m \in Messages : content'[b][m] <= revision[m]
    BY <1>3, <2>1
  <2> QED
    BY <1>0, <1>1, <1>2, <2>2 DEF Known
<1>7. OpenLeased'
  BY <1>0, <1>1, <1>2, <1>3 DEF OpenLeased
<1>8. ASSUME NEW m \in Messages, NEW n \in Messages, Earlier(m, n), Original(m), content'[b][n] = 1
      PROVE  Done(m) \/ m \in Marked(r)
  <2>1. n \in Selected(r) /\ revision[n] = 1
    BY <1>3, <1>8
  <2>2. n \in PendingOf(r) /\ Cardinality(Older(n, r)) < Limit /\ state[n] = "pending" /\ RouteOf[m] = r
    BY <1>8, <2>1 DEF Selected, PendingOf, Earlier
  <2>3. state[m] # "none" /\ n \in Received
    <3>1. state[m] # "none"
      BY <1>0, <1>8, <2>2 DEF Line
    <3> QED
      BY <2>1, <3>1 DEF Received
  <2>4. CASE state[m] = "pending"
    <3>1. <<m, n>> \in ahead /\ m \in PendingOf(r)
      BY <1>0, <1>8, <2>2, <2>3, <2>4 DEF Line, PendingOf
    <3>2. Older(m, r) \subseteq Older(n, r)
      BY <1>0, <3>1 DEF Older, Line, PendingOf
    <3>3. IsFiniteSet(Older(n, r))
      <4>1. IsFiniteSet(Messages)
        BY FS_Interval, Constants DEF Messages
      <4>2. Older(n, r) \subseteq Messages
        BY DEF Older, PendingOf
      <4> QED
        BY <4>1, <4>2, FS_Subset
    <3>4. Cardinality(Older(m, r)) <= Cardinality(Older(n, r)) /\ IsFiniteSet(Older(m, r))
      BY <3>2, <3>3, FS_Subset
    <3>5. Cardinality(Older(m, r)) < Limit
      <4>1. Cardinality(Older(m, r)) \in Nat /\ Cardinality(Older(n, r)) \in Nat /\ Limit \in Nat
        BY <3>3, <3>4, FS_CardinalityType, MessageIntakeAssumption DEF MessageIntakeAssumption
      <4> QED
        BY <2>2, <3>4, <4>1
    <3>6. seenRevision[m] = revision[m]
      BY <1>0, <1>8, <2>3, OriginalSynced DEF Original
    <3> QED
      BY <3>1, <3>5, <3>6 DEF Marked, Selected
  <2>5. CASE state[m] = "batched"
    <3>1. /\ inBatch[m] \in Batches /\ batchStatus[inBatch[m]] = "analyzing"
          /\ content[inBatch[m]][m] = seenRevision[m] /\ seenRevision[m] > 0
      BY <1>0, <2>5 DEF RowsFollow, RowOf, TypeOK
    <3>2. inBatch[m] \in BatchesOf(r) /\ inBatch[m] \in lease
      BY <1>0, <1>1, <2>2, <3>1 DEF BatchesOf, OpenLeased
    <3> QED
      BY <1>1, <3>2 DEF Eligible
  <2> QED
    BY <2>3, <2>4, <2>5 DEF Done
<1>9. InTurn'
  <2> SUFFICES ASSUME NEW m \in Messages, NEW n \in Messages, Earlier(m, n), Original(m)'
               PROVE  /\ \A c \in Batches : batchStatus'[c] = "analyzing" /\ content'[c][n] = 1 =>
                           Done(m)' \/ (state'[m] = "batched" /\ inBatch'[m] = c)
                      /\ 1 \in analysed'[n] => Done(m)'
    BY DEF InTurn, Earlier
  <2>1. Original(m) /\ (Done(m) => Done(m)')
    BY <1>1, <1>4 DEF Original, Done
  <2>2. 1 \in analysed'[n] => Done(m)'
    BY <1>0, <1>1, <2>1 DEF InTurn
  <2>3. ASSUME content'[b][n] = 1 PROVE Done(m)' \/ (state'[m] = "batched" /\ inBatch'[m] = b)
    BY <1>4, <1>8, <2>1, <2>3
  <2>4. ASSUME NEW c \in Batches \ {b}, batchStatus'[c] = "analyzing", content'[c][n] = 1
        PROVE  Done(m)' \/ (state'[m] = "batched" /\ inBatch'[m] = c)
    <3>1. Done(m) \/ (state[m] = "batched" /\ inBatch[m] = c)
      BY <1>0, <1>2, <2>1, <2>4 DEF InTurn
    <3> QED
      BY <1>4, <2>1, <3>1
  <2> QED
    BY <2>2, <2>3, <2>4
<1> QED
  BY <1>5, <1>6, <1>7, <1>9

\* Batches that fail return their rows to the line; the others stay open.
LEMMA FailedInTurn ==
  ASSUME TypeOK, RowsFollow, Line, Known, InTurn, NEW B, NEW code, FailRows(B, code),
         UNCHANGED <<revision, gone, analysed>>,
         \A b \in Batches : /\ batchStatus'[b] = "analyzing" => b \notin B /\ batchStatus[b] = "analyzing"
                            /\ (content'[b] = content[b] \/ content'[b] = NoContent)
  PROVE  Line' /\ Known' /\ InTurn'
<1>1. \A m \in Messages :
        \/ /\ state[m] = "batched" /\ inBatch[m] \in B
           /\ inBatch'[m] = NoBatch /\ state'[m] \in {"pending", "analysis_failed"}
        \/ inBatch'[m] = inBatch[m] /\ state'[m] = state[m]
  BY FailedRows
<1>2. Line'
  <2>1. UNCHANGED ahead
    BY DEF FailRows
  <2> QED
    BY <1>1, <2>1, LineKept
<1>3. \A m \in Messages : revision[m] \in Nat /\ NoContent[m] = 0
  BY Constants DEF TypeOK, Revisions, NoContent
<1>4. Known'
  <2>1. ASSUME NEW m \in Messages, NEW b \in Batches PROVE content'[b][m] <= revision[m]
    <3>1. CASE content'[b] = content[b]
      BY <3>1 DEF Known
    <3>2. CASE content'[b] = NoContent
      BY <1>3, <3>2
    <3> QED
      BY <3>1, <3>2
  <2> QED
    BY <2>1 DEF Known
<1>5. InTurn'
  <2> SUFFICES ASSUME NEW m \in Messages, NEW n \in Messages, Earlier(m, n), Original(m)'
               PROVE  /\ \A b \in Batches : batchStatus'[b] = "analyzing" /\ content'[b][n] = 1 =>
                           Done(m)' \/ (state'[m] = "batched" /\ inBatch'[m] = b)
                      /\ 1 \in analysed'[n] => Done(m)'
    BY DEF InTurn, Earlier
  <2>1. Original(m) /\ (Done(m) => Done(m)')
    BY <1>1 DEF Original, Done
  <2>2. ASSUME NEW b \in Batches, batchStatus'[b] = "analyzing", content'[b][n] = 1
        PROVE  Done(m)' \/ (state'[m] = "batched" /\ inBatch'[m] = b)
    <3>1. batchStatus[b] = "analyzing" /\ b \notin B /\ content[b][n] = 1
      BY <1>3, <2>2
    <3>2. Done(m) \/ (state[m] = "batched" /\ inBatch[m] = b)
      BY <2>1, <3>1 DEF InTurn
    <3> QED
      BY <1>1, <2>1, <3>1, <3>2
  <2> QED
    BY <2>1, <2>2 DEF InTurn
<1> QED
  BY <1>2, <1>4, <1>5

LEMMA LeaveOpen ==
  ASSUME TypeOK, OpenLeased, NEW b \in Batches, Leave(b), service' = service
  PROVE  /\ OpenLeased'
         /\ \A c \in Batches \ {b} : batchStatus'[c] = batchStatus[c] /\ content'[c] = content[c]
         /\ batchStatus'[b] = "over" /\ content'[b] = NoContent
BY DEF Leave, Forget, TypeOK, OpenLeased

LEMMA FailBatchInTurn ==
  ASSUME OrderInv, NEW b \in Batches, NEW code, FailRuntimeBatch(b, code)
  PROVE  Line' /\ Known' /\ OpenLeased' /\ InTurn'
<1>0. TypeOK /\ RowsFollow /\ Line /\ Known /\ OpenLeased /\ InTurn
  BY DEF OrderInv, IntakeInv
<1>1. /\ FailRows({b} \cap Open, code) /\ Leave(b)
      /\ UNCHANGED <<revision, gone, analysed, service>>
  BY DEF FailRuntimeBatch, messageVars, serviceVars
<1>2. /\ OpenLeased'
      /\ \A c \in Batches \ {b} : batchStatus'[c] = batchStatus[c] /\ content'[c] = content[c]
      /\ batchStatus'[b] = "over" /\ content'[b] = NoContent
  BY <1>0, <1>1, LeaveOpen
<1> QED
  BY <1>0, <1>1, <1>2, FailedInTurn

LEMMA CompleteInTurn ==
  ASSUME OrderInv, NEW b \in Batches, CompleteRuntimeBatch(b)
  PROVE  Line' /\ Known' /\ OpenLeased' /\ InTurn'
<1>0. TypeOK /\ RowsFollow /\ Line /\ Known /\ OpenLeased /\ InTurn
  BY DEF OrderInv, IntakeInv
<1>1. /\ batchStatus[b] = "analyzing" /\ Leave(b)
      /\ UNCHANGED <<revision, gone, ahead, service>>
  BY DEF CompleteRuntimeBatch, Accepted, messageVars, serviceVars
<1>2. /\ OpenLeased'
      /\ \A c \in Batches \ {b} : batchStatus'[c] = batchStatus[c] /\ content'[c] = content[c]
      /\ batchStatus'[b] = "over" /\ content'[b] = NoContent
  BY <1>0, <1>1, LeaveOpen
<1>3. \A m \in Messages :
        /\ inBatch[m] = b => state'[m] = "processed" /\ inBatch'[m] = NoBatch /\ state[m] = "batched"
        /\ inBatch[m] # b => state'[m] = state[m] /\ inBatch'[m] = inBatch[m]
  BY <1>0, Constants DEF CompleteRuntimeBatch, RowsFollow, RowOf
<1>4. \A m \in Messages : analysed'[m] =
        IF m \in BatchMessages(b) THEN analysed[m] \cup {content[b][m]} ELSE analysed[m]
  BY DEF CompleteRuntimeBatch
<1>5. Line'
  <2>1. \A m \in Messages : state'[m] = "none" <=> state[m] = "none"
    BY <1>3
  <2> QED
    BY <1>0, <1>1, <2>1, LineKept
<1>6. Known'
  <2>1. ASSUME NEW m \in Messages
        PROVE  /\ \A c \in Batches : content'[c][m] <= revision[m]
               /\ analysed'[m] \subseteq 1..revision[m]
    <3>1. revision[m] \in Nat /\ content[b][m] \in Nat /\ NoContent[m] = 0
      BY <1>0, Constants DEF TypeOK, Revisions, NoContent
    <3>2. content[b][m] <= revision[m] /\ analysed[m] \subseteq 1..revision[m]
      BY <1>0 DEF Known
    <3>3. content[b][m] > 0 => content[b][m] \in 1..revision[m]
      BY <3>1, <3>2
    <3>4. analysed'[m] \subseteq 1..revision[m]
      BY <1>4, <3>2, <3>3 DEF BatchMessages
    <3>5. \A c \in Batches : content'[c][m] <= revision[m]
      BY <1>0, <1>2, <3>1 DEF Known
    <3> QED
      BY <3>4, <3>5
  <2> QED
    BY <1>1, <2>1 DEF Known
<1>7. InTurn'
  <2> SUFFICES ASSUME NEW m \in Messages, NEW n \in Messages, Earlier(m, n), Original(m)'
               PROVE  /\ \A c \in Batches : batchStatus'[c] = "analyzing" /\ content'[c][n] = 1 =>
                           Done(m)' \/ (state'[m] = "batched" /\ inBatch'[m] = c)
                      /\ 1 \in analysed'[n] => Done(m)'
    BY DEF InTurn, Earlier
  <2>1. Original(m) /\ (Done(m) => Done(m)')
    BY <1>1, <1>3 DEF Original, Done
  <2>2. ASSUME NEW c \in Batches, batchStatus'[c] = "analyzing", content'[c][n] = 1
        PROVE  Done(m)' \/ (state'[m] = "batched" /\ inBatch'[m] = c)
    <3>1. c # b
      BY <1>2, <2>2
    <3>2. Done(m) \/ (state[m] = "batched" /\ inBatch[m] = c)
      BY <1>0, <1>2, <2>1, <2>2, <3>1 DEF InTurn
    <3> QED
      BY <1>3, <2>1, <3>1, <3>2
  <2>3. ASSUME 1 \in analysed'[n] PROVE Done(m)'
    <3>1. 1 \in analysed[n] \/ content[b][n] = 1
      BY <1>4, <2>3
    <3>2. Done(m) \/ (state[m] = "batched" /\ inBatch[m] = b)
      BY <1>0, <1>1, <2>1, <3>1 DEF InTurn
    <3> QED
      BY <1>3, <2>1, <3>2 DEF Done
  <2> QED
    BY <2>2, <2>3
<1> QED
  BY <1>2, <1>5, <1>6, <1>7

\* Steps that change neither rows nor contents.
LEMMA InTurnKept ==
  ASSUME OrderInv, UNCHANGED <<state, inBatch, ahead, batchStatus, content, analysed>>,
         gone \subseteq gone',
         \A m \in Messages : revision'[m] = revision[m] \/ (revision[m] > 0 /\ revision'[m] = revision[m] + 1)
  PROVE  Line' /\ Known' /\ InTurn'
<1>0. TypeOK /\ RowsFollow /\ Line /\ Known /\ InTurn
  BY DEF OrderInv, IntakeInv
<1>1. \A m \in Messages : revision[m] \in Nat
  BY <1>0, Constants DEF TypeOK, Revisions
<1>2. Received' = Received /\ \A m \in Messages : Original(m)' => Original(m)
  BY <1>1 DEF Received, Original
<1>3. Line'
  BY <1>0, <1>2 DEF Line, Earlier
<1>4. Known'
  <2>1. \A m \in Messages, b \in Batches : content[b][m] \in Nat
    BY <1>0, Constants DEF TypeOK, Revisions
  <2>2. \A m \in Messages : revision[m] <= revision'[m] /\ revision'[m] \in Nat
    BY <1>1
  <2>3. \A m \in Messages : 1..revision[m] \subseteq 1..revision'[m]
    BY <1>1, <2>2
  <2> QED
    BY <1>0, <1>1, <2>1, <2>2, <2>3 DEF Known
<1>5. InTurn'
  BY <1>0, <1>2 DEF InTurn, Earlier, Done
<1> QED
  BY <1>3, <1>4, <1>5

LEMMA NextOrderInv ==
  ASSUME "late" \notin Environment
  PROVE  OrderInv /\ [Next]_vars => OrderInv'
<1> SUFFICES ASSUME OrderInv, [Next]_vars PROVE OrderInv'
  OBVIOUS
<1>0. TypeOK /\ TypeOK' /\ IntakeInv /\ IntakeInv' /\ RowsFollow /\ Line /\ Known /\ OpenLeased /\ InTurn
  BY NextIntakeInv DEF OrderInv, IntakeInv
<1> SUFFICES Line' /\ Known' /\ OpenLeased' /\ InTurn'
  BY <1>0 DEF OrderInv
<1>1. ASSUME NEW m \in Messages, Intake(m)
      PROVE  Line' /\ Known' /\ OpenLeased' /\ InTurn'
  BY <1>1, IntakeLine
<1>2. ASSUME NEW m \in Messages, applyMessage(m) \/ markRecalled(m) \/ BackoffPasses(m)
      PROVE  Line' /\ Known' /\ OpenLeased' /\ InTurn'
  <2>1. UNCHANGED <<state, inBatch, ahead, batchVars, service>> /\ gone \subseteq gone'
    BY <1>2 DEF applyMessage, markRecalled, BackoffPasses, rowVars, messageVars, serviceVars
  <2>2. \A n \in Messages : revision'[n] = revision[n] \/ (revision[n] > 0 /\ revision'[n] = revision[n] + 1)
    <3>1. \A n \in Messages : revision[n] \in Nat
      BY <1>0, Constants DEF TypeOK, Revisions
    <3>2. CASE applyMessage(m)
      <4>1. revision' = [revision EXCEPT ![m] = @ + 1] /\ revision[m] > 0
        BY <3>1, <3>2, Constants DEF applyMessage
      <4> QED
        BY <1>0, <3>1, <4>1 DEF TypeOK
    <3>3. CASE markRecalled(m) \/ BackoffPasses(m)
      BY <3>3 DEF markRecalled, BackoffPasses, messageVars
    <3> QED
      BY <1>2, <3>2, <3>3
  <2>3. Line' /\ Known' /\ InTurn'
    BY <2>1, <2>2, InTurnKept DEF batchVars
  <2>4. OpenLeased'
    BY <1>0, <2>1 DEF OpenLeased, batchVars
  <2> QED
    BY <2>3, <2>4
<1>3. CASE SyncRuntimeMessages
  BY <1>3, SyncLine
<1>4. ASSUME NEW b \in Batches, NEW r \in Routes, ClaimRuntimeBatch(b, r)
      PROVE  Line' /\ Known' /\ OpenLeased' /\ InTurn'
  BY <1>4, ClaimInTurn
<1>5. ASSUME NEW b \in Batches, CompleteRuntimeBatch(b)
      PROVE  Line' /\ Known' /\ OpenLeased' /\ InTurn'
  BY <1>5, CompleteInTurn
<1>6. ASSUME NEW b \in Batches, NEW code \in Codes, FailAnalysis(b, code) \/ RefuseBatch(b, code)
      PROVE  Line' /\ Known' /\ OpenLeased' /\ InTurn'
  BY <1>6, FailBatchInTurn DEF FailAnalysis, RefuseBatch
<1>7. ASSUME UNCHANGED <<messageVars, rowVars, batchStatus, content, analysed>>
      PROVE  Line' /\ Known' /\ InTurn'
  BY <1>7, InTurnKept DEF messageVars, rowVars
<1>8. ASSUME NEW b \in Batches, Decide(b) \/ PassDeadline(b)
      PROVE  Line' /\ Known' /\ OpenLeased' /\ InTurn'
  <2>1. Line' /\ Known' /\ InTurn'
    BY <1>7, <1>8 DEF Decide, PassDeadline
  <2>2. OpenLeased'
    BY <1>0, <1>8 DEF Decide, PassDeadline, OpenLeased, Cancelled, TypeOK, serviceVars
  <2> QED
    BY <2>1, <2>2
<1>9. ASSUME NEW b \in Batches, LoseBatch(b)
      PROVE  Line' /\ Known' /\ OpenLeased' /\ InTurn'
  <2>1. Line' /\ Known' /\ InTurn'
    BY <1>7, <1>9 DEF LoseBatch
  <2>2. service # "up"
    BY <1>0, <1>9 DEF LoseBatch, Cancelled, OpenLeased
  <2>3. OpenLeased'
    BY <1>0, <1>9, <2>2 DEF LoseBatch, OpenLeased, TypeOK, serviceVars
  <2> QED
    BY <2>1, <2>3
<1>10. CASE CommitAppliedConfig \/ Crash \/ Stop \/ Drained
  <2>1. Line' /\ Known' /\ InTurn'
    BY <1>7, <1>10 DEF CommitAppliedConfig, Crash, Stop, Drained, batchVars
  <2>2. OpenLeased'
    BY <1>0, <1>10 DEF CommitAppliedConfig, Crash, Stop, Drained, OpenLeased, batchVars
  <2> QED
    BY <2>1, <2>2
<1>11. CASE InvalidateRuntimeConfigWork
  <2>1. /\ FailRows(Open, "configuration_changed") /\ UNCHANGED <<revision, gone, analysed, lease, analyst, service>>
        /\ Forget({b \in Batches : analyst[b] = "none"})
    BY <1>11 DEF InvalidateRuntimeConfigWork, messageVars
  <2>2. \A b \in Batches : /\ batchStatus'[b] # "analyzing"
                           /\ (content'[b] = content[b] \/ content'[b] = NoContent)
    BY <1>0, <1>11, <2>1 DEF InvalidateRuntimeConfigWork, Open, Forget, TypeOK
  <2>3. overdue' \subseteq overdue
    BY <2>1 DEF Forget
  <2>4. Line' /\ Known' /\ InTurn'
    BY <1>0, <2>1, <2>2, FailedInTurn
  <2> QED
    BY <1>0, <2>1, <2>2, <2>3, <2>4 DEF OpenLeased
<1>12. CASE RecoverRuntime
  <2>1. /\ FailRows(Open, "runtime_restarted") /\ UNCHANGED <<revision, gone, analysed, analyst>>
        /\ Forget(Batches)
    BY <1>12 DEF RecoverRuntime, messageVars
  <2>2. \A b \in Batches : /\ batchStatus'[b] = "over"
                           /\ (content'[b] = content[b] \/ content'[b] = NoContent)
    BY <1>12, <2>1 DEF RecoverRuntime, Forget
  <2>3. Line' /\ Known' /\ InTurn'
    BY <1>0, <2>1, <2>2, FailedInTurn
  <2>4. overdue' = overdue \ Batches
    BY <2>1 DEF Forget
  <2>5. OpenLeased'
    BY <2>2, <2>4 DEF OpenLeased
  <2> QED
    BY <2>3, <2>5
<1>13. CASE UNCHANGED vars
  <2>1. Line' /\ Known' /\ InTurn'
    BY <1>7, <1>13 DEF vars, batchVars
  <2> QED
    BY <1>0, <1>13, <2>1 DEF vars, batchVars, serviceVars, OpenLeased
<1> QED
  BY <1>1, <1>2, <1>3, <1>4, <1>5, <1>6, <1>8, <1>9, <1>10, <1>11, <1>12, <1>13 DEF Next, ClaimOf, analyze

\* As long as no deadline passes between an answer and the transaction that
\* stores it, messages of one conversation are analysed in the order they were
\* received, whatever fails, backs off, is recovered or is returned by a stop
\* (runtime_scheduling.go:36, runtime.go:956).
THEOREM OrderOfReception ==
  ASSUME "late" \notin Environment
  PROVE  Spec => []ReceiveOrder
<1>1. Init => OrderInv
  BY InitOrderInv
<1>2. OrderInv /\ [Next]_vars => OrderInv'
  BY NextOrderInv
<1>3. OrderInv => ReceiveOrder
  BY DEF OrderInv, InTurn, ReceiveOrder, Earlier, Original, Done
<1> QED
  BY <1>1, <1>2, <1>3, PTL DEF Spec
=============================================================================
