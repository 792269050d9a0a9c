--------------------------- MODULE AgentResultProofs ---------------------------
(***************************************************************************)
(* What Agents leave behind: the files of their workspaces and the         *)
(* deliveries of their results, for any number of writers, contents,       *)
(* tasks, workers, calls and failures.                                     *)
(*                                                                         *)
(* A knowledge file is a compare-and-swap register.  Its write takes       *)
(* effect in Publish, far from the comparison in WriteChecked.  The        *)
(* argument is that nothing can come between: a writer holds the store's   *)
(* transaction and the lock of the workspace all the way, so the content   *)
(* it compared is the content it replaces and the authority it checked     *)
(* cannot be withdrawn.  A change is archived before it is published and   *)
(* its record written before both, and the next writer confirms what it    *)
(* finds before it writes over it: so no published change is ever missing  *)
(* from the history (WorkspaceInv).                                        *)
(*                                                                         *)
(* Of the deliveries DeliveryInv says that a row, what the platform took   *)
(* of its content and the call in flight agree.  OrderInv adds that an     *)
(* answer that waits is the only one of its task, stands before the mark   *)
(* of completion in the same script, and that no call for that mark is     *)
(* under way; ComponentProofs draws the conclusions.                       *)
(***************************************************************************)
EXTENDS MCAgentResults, Sequences, FiniteSetTheorems, TLAPS

----------------------------------------------------------------------------
(* Agent workspaces. *)
InTransaction == {"locking", "commit"} \cup Writing
BeforePublish == {"saveOld", "saveNew", "pending", "publish"}

\* The types of the variables; there are finitely many revisions.
WorkspaceTypes ==
  /\ file \in Contents \cup {Absent} /\ IsFiniteSet(revisions)
  /\ lock \in Writers \cup {None} /\ tx \in Writers \cup {None}
  /\ authorized \subseteq Writers
  /\ request \in [Writers -> [expected : Contents \cup {Absent}, content : Contents, revision : Nat]]
  /\ step \in [Writers -> Steps]
  /\ effect \in [Writers -> BOOLEAN] /\ cached \in [Writers -> BOOLEAN]

RecordTypes ==
  /\ archive \subseteq Contents /\ revisions \subseteq Revision /\ operations \subseteq Nat
  /\ calls \in 0..MaxCalls /\ failures \in 0..MaxFailures

OneTransaction == \A w \in Writers : step[w] \in InTransaction => tx = w

LockHeld == \A w \in Writers : step[w] \in Writing => lock = w

\* What WriteChecked found still holds when the write is published.
StillChecked == \A w \in Writers : step[w] \in BeforePublish =>
  file = request[w].expected /\ w \in authorized

\* What is answered "ok" took effect, and so did what the store remembers.
TookEffect == \A w \in Writers : step[w] \in {"record", "commit", "ok"} \/ cached[w] => effect[w]

WriteInv == OneTransaction /\ LockHeld /\ StillChecked /\ TookEffect

\* The revisions are numbered from one, without a number used twice.
Numbered ==
  /\ \A r \in revisions : r.id <= Cardinality(revisions)
  /\ \A r, s \in revisions : r.id = s.id => r = s

\* A writer that is about to publish has settled what was published before it,
\* has archived what it replaces and what it writes, and has left a record.
Deposited == \A w \in Writers : step[w] \in BeforePublish =>
  \A r \in revisions : r.id \in published => r.confirmed
InArchive == \A w \in Writers :
  /\ step[w] \in {"saveNew", "pending", "publish"} => {file} \ {Absent} \subseteq archive
  /\ step[w] \in {"pending", "publish"} => request[w].content \in archive
Noted == \A w \in Writers : step[w] = "publish" =>
  \E r \in revisions : /\ r.id = request[w].revision /\ r.id \notin published
                       /\ r.previous = file /\ r.digest = request[w].content

HistoryInv ==
  /\ Numbered /\ published \subseteq {r.id : r \in revisions}
  /\ Deposited /\ InArchive /\ Noted /\ HistoryIsComplete

WorkspaceInv == WorkspaceTypes /\ RecordTypes /\ WriteInv /\ HistoryInv

LEMMA WorkspaceStart == Init => WorkspaceInv
<1> SUFFICES ASSUME Init PROVE WorkspaceInv
  OBVIOUS
<1>1. WorkspaceTypes
  BY AgentWorkspaceAssumption, FS_EmptySet DEF Init, WorkspaceTypes, Steps
<1>4. RecordTypes
  BY AgentWorkspaceAssumption DEF Init, RecordTypes
<1>2. WriteInv
  BY DEF Init, WriteInv, OneTransaction, LockHeld, StillChecked, TookEffect, InTransaction,
         BeforePublish, Writing
<1>3. HistoryInv
  BY DEF Init, HistoryInv, Numbered, Deposited, InArchive, Noted, HistoryIsComplete, BeforePublish
<1> QED
  BY <1>1, <1>2, <1>3, <1>4 DEF WorkspaceInv

LEMMA NoneIsNoWriter == \A w \in Writers : w # None
  BY AgentWorkspaceAssumption DEF None

\* Without a transaction, or in the transaction of another, nobody is writing.
LEMMA NobodyElseWrites ==
  ASSUME WorkspaceInv, NEW v \in Writers, tx # v
  PROVE  step[v] \notin InTransaction
BY DEF WorkspaceInv, WriteInv, OneTransaction

LEMMA ImageFinite ==
  ASSUME NEW S, NEW T, IsFiniteSet(S), NEW f \in [S -> T], \A t \in T : \E s \in S : f[s] = t
  PROVE  /\ IsFiniteSet(T)
         /\ (\A r, s \in S : f[r] = f[s] => r = s) => Cardinality(T) = Cardinality(S)
<1>1. f \in Surjection(S, T)
  BY DEF Surjection
<1>2. (\A r, s \in S : f[r] = f[s] => r = s) => f \in Injection(S, T)
  BY DEF Injection, IsInjective
<1> QED
  BY <1>1, <1>2, FS_Surjection

\* What recoverPending and Record do to each revision: some become confirmed.
Confirming == [r \in revisions |-> [r EXCEPT !.confirmed = @ \/ r.digest = file]]
Recording(id) == [r \in revisions |-> [r EXCEPT !.confirmed = @ \/ r.id = id]]
Recorded(id) == {[r EXCEPT !.confirmed = @ \/ r.id = id] : r \in revisions}

LEMMA RecoverImage ==
  /\ \A r \in revisions : Confirming[r] = [r EXCEPT !.confirmed = @ \/ r.digest = file]
  /\ Confirming \in [revisions -> recoverPending]
  /\ \A t \in recoverPending : \E r \in revisions : Confirming[r] = t
<1>1. \A r \in revisions : Confirming[r] = [r EXCEPT !.confirmed = @ \/ r.digest = file]
  BY DEF Confirming
<1>2. /\ \A r \in revisions : [r EXCEPT !.confirmed = @ \/ r.digest = file] \in recoverPending
      /\ \A t \in recoverPending :
           \E r \in revisions : t = [r EXCEPT !.confirmed = @ \/ r.digest = file]
  BY Zenon DEF recoverPending
<1>3. Confirming = [r \in revisions |-> Confirming[r]]
  BY DEF Confirming
<1> QED
  BY <1>1, <1>2, <1>3

LEMMA RecordImage ==
  ASSUME NEW id
  PROVE  /\ \A r \in revisions : Recording(id)[r] = [r EXCEPT !.confirmed = @ \/ r.id = id]
         /\ Recording(id) \in [revisions -> Recorded(id)]
         /\ \A t \in Recorded(id) : \E r \in revisions : Recording(id)[r] = t
<1>1. \A r \in revisions : Recording(id)[r] = [r EXCEPT !.confirmed = @ \/ r.id = id]
  BY DEF Recording
<1>2. /\ \A r \in revisions : [r EXCEPT !.confirmed = @ \/ r.id = id] \in Recorded(id)
      /\ \A t \in Recorded(id) : \E r \in revisions : t = [r EXCEPT !.confirmed = @ \/ r.id = id]
  BY Zenon DEF Recorded
<1>3. Recording(id) = [r \in revisions |-> Recording(id)[r]]
  BY DEF Recording
<1> QED
  BY <1>1, <1>2, <1>3

LEMMA RecordRecords ==
  ASSUME NEW w \in Writers, Record(w)
  PROVE  revisions' = Recorded(request[w].revision)
BY DEF Record, Recorded

LEMMA RecoverFinite == IsFiniteSet(revisions) => IsFiniteSet(recoverPending)
  BY RecoverImage, ImageFinite

\* Confirming a revision changes nothing else of it.
LEMMA ConfirmedOnce ==
  ASSUME NEW r \in Revision, NEW c \in BOOLEAN, NEW t, t = [r EXCEPT !.confirmed = c]
  PROVE  /\ t \in Revision /\ t.confirmed = c
         /\ t.id = r.id /\ t.previous = r.previous /\ t.digest = r.digest
BY DEF Revision

LEMMA RecoverConfirms ==
  ASSUME revisions \subseteq Revision, NEW t \in recoverPending
  PROVE  /\ t \in Revision
         /\ \E r \in revisions : /\ t.id = r.id /\ t.previous = r.previous /\ t.digest = r.digest
                                 /\ t.confirmed = (r.confirmed \/ r.digest = file)
<1>1. PICK r \in revisions : t = [r EXCEPT !.confirmed = @ \/ r.digest = file]
  BY RecoverImage
<1> DEFINE c == r.confirmed \/ r.digest = file
<1>2. t = [r EXCEPT !.confirmed = c]
  BY <1>1
<1>3. r \in Revision /\ c \in BOOLEAN
  OBVIOUS
<1> HIDE DEF c
<1>4. /\ t \in Revision /\ t.confirmed = c
      /\ t.id = r.id /\ t.previous = r.previous /\ t.digest = r.digest
  BY <1>2, <1>3, ConfirmedOnce
<1> QED
  BY <1>4 DEF c

LEMMA RecordConfirms ==
  ASSUME revisions \subseteq Revision, NEW id, NEW t \in Recorded(id)
  PROVE  /\ t \in Revision
         /\ \E r \in revisions : /\ t.id = r.id /\ t.previous = r.previous /\ t.digest = r.digest
                                 /\ r.confirmed => t.confirmed
<1>1. PICK r \in revisions : t = [r EXCEPT !.confirmed = @ \/ r.id = id]
  BY Zenon DEF Recorded
<1> DEFINE c == r.confirmed \/ r.id = id
<1>2. t = [r EXCEPT !.confirmed = c]
  BY <1>1
<1>3. r \in Revision /\ c \in BOOLEAN
  OBVIOUS
<1> HIDE DEF c
<1>4. /\ t \in Revision /\ t.confirmed = c
      /\ t.id = r.id /\ t.previous = r.previous /\ t.digest = r.digest
  BY <1>2, <1>3, ConfirmedOnce
<1> QED
  BY <1>4 DEF c

LEMMA StepTypes ==
  ASSUME WorkspaceInv, [Next]_vars
  PROVE  WorkspaceTypes'
<1> USE AgentWorkspaceAssumption DEF WorkspaceInv, WorkspaceTypes, Steps, Writing, Answers, Goes
<1>1. CASE Ensure
  BY <1>1 DEF Ensure, storeVars
<1>2. CASE History
  BY <1>2, RecoverFinite DEF History, storeVars
<1>3. ASSUME NEW w \in Writers, Call(w) PROVE WorkspaceTypes'
  BY <1>3 DEF Call, fileVars
<1>4. ASSUME NEW w \in Writers, Retry(w) PROVE WorkspaceTypes'
  BY <1>4 DEF Retry, fileVars, storeVars
<1>5. ASSUME NEW w \in Writers, Mutate(w) PROVE WorkspaceTypes'
  BY <1>5 DEF Mutate, fileVars
<1>6. ASSUME NEW w \in Writers, WriteChecked(w) PROVE WorkspaceTypes'
  BY <1>6, RecoverFinite DEF WriteChecked
<1>7. ASSUME NEW w \in Writers, SaveOld(w) \/ SaveNew(w) PROVE WorkspaceTypes'
  BY <1>7 DEF SaveOld, SaveNew, saveBlob, storeVars
<1>8. ASSUME NEW w \in Writers, WritePending(w) PROVE WorkspaceTypes'
  <2>1. Cardinality(revisions) + 1 \in Nat
    BY FS_CardinalityType
  <2>2. IsFiniteSet(revisions')
    BY <1>8, FS_AddElement DEF WritePending
  <2>3. request' = [request EXCEPT ![w].revision = Cardinality(revisions) + 1]
    BY <1>8 DEF WritePending
  <2>4. request' \in [Writers -> [expected : Contents \cup {Absent}, content : Contents, revision : Nat]]
    BY <2>1, <2>3
  <2> QED
    BY <1>8, <2>2, <2>4 DEF WritePending, storeVars
<1>9. ASSUME NEW w \in Writers, Publish(w) PROVE WorkspaceTypes'
  BY <1>9 DEF Publish, storeVars
<1>10. ASSUME NEW w \in Writers, Record(w) PROVE WorkspaceTypes'
  <2>1. IsFiniteSet(revisions')
    BY <1>10, RecordRecords, RecordImage, ImageFinite
  <2> QED
    BY <1>10, <2>1 DEF Record, storeVars
<1>11. ASSUME NEW w \in Writers, Commit(w) \/ Revoke(w) PROVE WorkspaceTypes'
  BY <1>11 DEF Commit, Revoke, fileVars
<1>12. ASSUME NEW w \in Writers, Fails(w) PROVE WorkspaceTypes'
  BY <1>12 DEF Fails, fileVars
<1>13. CASE UNCHANGED vars
  BY <1>13 DEF vars, fileVars, storeVars
<1> QED
  BY <1>1, <1>2, <1>3, <1>4, <1>5, <1>6, <1>7, <1>8, <1>9, <1>10, <1>11, <1>12, <1>13 DEF Next

LEMMA StepRecords ==
  ASSUME WorkspaceInv, [Next]_vars
  PROVE  RecordTypes'
<1> USE AgentWorkspaceAssumption DEF WorkspaceInv, RecordTypes
<1>1. CASE Ensure
  BY <1>1 DEF Ensure, storeVars
<1>2. CASE History
  BY <1>2, RecoverConfirms DEF History, storeVars
<1>3. ASSUME NEW w \in Writers, Call(w) \/ Retry(w) PROVE RecordTypes'
  <2>1. UNCHANGED <<fileVars, operations, failures>> /\ calls' = calls + 1 /\ calls < MaxCalls
    BY <1>3 DEF Call, Retry, storeVars
  <2> QED
    BY <2>1 DEF fileVars
<1>4. ASSUME NEW w \in Writers, Mutate(w) \/ Revoke(w) PROVE RecordTypes'
  BY <1>4 DEF Mutate, Revoke, fileVars
<1>5. ASSUME NEW w \in Writers, WriteChecked(w) PROVE RecordTypes'
  BY <1>5, RecoverConfirms DEF WriteChecked
<1>6. ASSUME NEW w \in Writers, SaveOld(w) \/ SaveNew(w) PROVE RecordTypes'
  <2>1. archive' \subseteq Contents
    BY <1>6 DEF SaveOld, SaveNew, saveBlob, WorkspaceTypes
  <2> QED
    BY <1>6, <2>1 DEF SaveOld, SaveNew, saveBlob, storeVars
<1>7. ASSUME NEW w \in Writers, WritePending(w) PROVE RecordTypes'
  <2>1. Cardinality(revisions) + 1 \in Nat \ {0}
    BY FS_CardinalityType DEF WorkspaceTypes
  <2> DEFINE new == [id |-> Cardinality(revisions) + 1, previous |-> file,
                     digest |-> request[w].content, confirmed |-> FALSE]
  <2>3. new \in Revision
    BY <2>1 DEF WorkspaceTypes, Revision
  <2>2. revisions' \subseteq Revision
    BY <1>7, <2>3 DEF WritePending
  <2> QED
    BY <1>7, <2>2 DEF WritePending, storeVars
<1>8. ASSUME NEW w \in Writers, Publish(w) PROVE RecordTypes'
  BY <1>8 DEF Publish, storeVars
<1>9. ASSUME NEW w \in Writers, Record(w) PROVE RecordTypes'
  <2>1. revisions' \subseteq Revision
    BY <1>9, RecordRecords, RecordConfirms
  <2> QED
    BY <1>9, <2>1 DEF Record, storeVars
<1>10. ASSUME NEW w \in Writers, Commit(w) PROVE RecordTypes'
  <2>1. request[w].revision \in Nat
    BY DEF WorkspaceTypes
  <2> QED
    BY <1>10, <2>1 DEF Commit, fileVars
<1>11. ASSUME NEW w \in Writers, Fails(w) PROVE RecordTypes'
  BY <1>11 DEF Fails, fileVars
<1>12. CASE UNCHANGED vars
  BY <1>12 DEF vars, fileVars, storeVars
<1> QED
  BY <1>1, <1>2, <1>3, <1>4, <1>5, <1>6, <1>7, <1>8, <1>9, <1>10, <1>11, <1>12 DEF Next

\* A step of one writer, by what it does to the file, the lock and its own state.
LEMMA StepWrites == WorkspaceInv /\ [Next]_vars => WriteInv'
<1> SUFFICES ASSUME WorkspaceInv, [Next]_vars PROVE WriteInv'
  OBVIOUS
<1> USE AgentWorkspaceAssumption DEF WorkspaceInv, WorkspaceTypes, WriteInv, OneTransaction, LockHeld,
        StillChecked, TookEffect, InTransaction, BeforePublish, Writing, Answers, Goes, Free
<1>1. CASE Ensure
  <2>1. \A v \in Writers : step[v] \notin Writing
    BY <1>1, NoneIsNoWriter DEF Ensure
  <2> QED
    BY <1>1, <2>1 DEF Ensure, storeVars
<1>2. CASE History
  BY <1>2 DEF History, storeVars
<1>3. ASSUME NEW w \in Writers, Call(w) PROVE WriteInv'
  BY <1>3 DEF Call, fileVars
<1>4. ASSUME NEW w \in Writers, Retry(w) PROVE WriteInv'
  BY <1>4 DEF Retry, fileVars, storeVars
<1>5. ASSUME NEW w \in Writers, Mutate(w) PROVE WriteInv'
  <2>1. \A v \in Writers : step[v] \notin InTransaction
    BY <1>5, NoneIsNoWriter DEF Mutate
  <2>2. \A v \in Writers \ {w} : step'[v] = step[v]
    BY <1>5 DEF Mutate
  <2>3. CASE cached[w]
    BY <1>5, <2>1, <2>2, <2>3 DEF Mutate, fileVars
  <2>4. CASE ~cached[w]
    BY <1>5, <2>1, <2>2, <2>4 DEF Mutate, fileVars
  <2> QED
    BY <2>3, <2>4
<1>6. ASSUME NEW w \in Writers, WriteChecked(w) PROVE WriteInv'
  BY <1>6 DEF WriteChecked
<1>7. ASSUME NEW w \in Writers, SaveOld(w) \/ SaveNew(w) PROVE WriteInv'
  BY <1>7 DEF SaveOld, SaveNew, saveBlob, storeVars
<1>8. ASSUME NEW w \in Writers, WritePending(w) PROVE WriteInv'
  <2>1. \A v \in Writers : request'[v].expected = request[v].expected
    BY <1>8 DEF WritePending
  <2> QED
    BY <1>8, <2>1 DEF WritePending, storeVars
<1>9. ASSUME NEW w \in Writers, Publish(w) PROVE WriteInv'
  BY <1>9 DEF Publish, storeVars
<1>10. ASSUME NEW w \in Writers, Record(w) PROVE WriteInv'
  BY <1>10 DEF Record, storeVars
<1>11. ASSUME NEW w \in Writers, Commit(w) PROVE WriteInv'
  BY <1>11 DEF Commit, fileVars
<1>14. ASSUME NEW w \in Writers, Revoke(w) PROVE WriteInv'
  <2>1. \A v \in Writers : step[v] \notin InTransaction
    BY <1>14, NoneIsNoWriter DEF Revoke
  <2> QED
    BY <1>14, <2>1 DEF Revoke, fileVars
<1>12. ASSUME NEW w \in Writers, Fails(w) PROVE WriteInv'
  BY <1>12 DEF Fails, fileVars
<1>13. CASE UNCHANGED vars
  BY <1>13 DEF vars, fileVars, storeVars
<1> QED
  BY <1>1, <1>2, <1>3, <1>4, <1>5, <1>6, <1>7, <1>8, <1>9, <1>10, <1>11, <1>12, <1>13, <1>14 DEF Next

\* Confirming revisions keeps their number, their ids and their contents.
LEMMA RecoverNumbered ==
  ASSUME WorkspaceTypes, RecordTypes, Numbered
  PROVE  /\ Cardinality(recoverPending) = Cardinality(revisions)
         /\ \A t \in recoverPending : t.id <= Cardinality(recoverPending)
         /\ \A s, t \in recoverPending : s.id = t.id => s = t
         /\ {t.id : t \in recoverPending} = {r.id : r \in revisions}
<1> USE DEF WorkspaceTypes, RecordTypes, Numbered
<1>1. \A r \in revisions : Confirming[r].id = r.id
  BY RecoverImage DEF Revision
<1>2. \A r, s \in revisions : Confirming[r] = Confirming[s] => r = s
  BY <1>1
<1>3. Cardinality(recoverPending) = Cardinality(revisions)
  BY <1>2, RecoverImage, ImageFinite
<1> QED
  BY <1>1, <1>3, RecoverImage

LEMMA RecordNumbered ==
  ASSUME WorkspaceTypes, RecordTypes, Numbered, NEW id
  PROVE  /\ Cardinality(Recorded(id)) = Cardinality(revisions)
         /\ \A t \in Recorded(id) : t.id <= Cardinality(Recorded(id))
         /\ \A s, t \in Recorded(id) : s.id = t.id => s = t
         /\ {t.id : t \in Recorded(id)} = {r.id : r \in revisions}
<1> USE DEF WorkspaceTypes, RecordTypes, Numbered
<1>4. /\ \A r \in revisions : Recording(id)[r] = [r EXCEPT !.confirmed = @ \/ r.id = id]
      /\ Recording(id) \in [revisions -> Recorded(id)]
      /\ \A t \in Recorded(id) : \E r \in revisions : Recording(id)[r] = t
  BY RecordImage, Zenon
<1>1. \A r \in revisions : Recording(id)[r].id = r.id
  BY <1>4 DEF Revision
<1>2. \A r, s \in revisions : Recording(id)[r] = Recording(id)[s] => r = s
  BY <1>1
<1>3. Cardinality(Recorded(id)) = Cardinality(revisions)
  BY <1>2, <1>4, ImageFinite
<1> QED
  BY <1>1, <1>3, <1>4

\* What recoverPending leaves of a revision, and that it settles what was
\* published.
LEMMA RecoverSettles ==
  ASSUME RecordTypes, HistoryInv, NEW t \in recoverPending
  PROVE  /\ t.id \in published => t.confirmed
         /\ \E r \in revisions : /\ t.id = r.id /\ t.previous = r.previous /\ t.digest = r.digest
                                 /\ r.confirmed => t.confirmed
  BY RecoverConfirms DEF RecordTypes, HistoryInv, HistoryIsComplete

LEMMA StepHistory == WorkspaceInv /\ [Next]_vars => HistoryInv'
<1> SUFFICES ASSUME WorkspaceInv, [Next]_vars PROVE HistoryInv'
  OBVIOUS
<1> USE AgentWorkspaceAssumption DEF WorkspaceInv, WorkspaceTypes, RecordTypes, WriteInv, OneTransaction, LockHeld,
        HistoryInv, Deposited, InArchive, Noted, InTransaction, BeforePublish, Writing,
        Answers, Goes, Free
<1>1. CASE Ensure
  <2>1. \A v \in Writers : step[v] \notin Writing
    BY <1>1, NoneIsNoWriter DEF Ensure
  <2>2. HistoryIsComplete'
    BY <1>1 DEF Ensure, HistoryIsComplete, Revision
  <2> QED
    BY <1>1, <2>1, <2>2 DEF Ensure, Numbered
<1>2. CASE History
  <2>1. \A v \in Writers : step[v] \notin Writing
    BY <1>2, NoneIsNoWriter DEF History
  <2>2. HistoryIsComplete'
    BY <1>2, RecoverSettles DEF History, HistoryIsComplete
  <2>3. Numbered' /\ published' \subseteq {r.id : r \in revisions'}
    BY <1>2, RecoverNumbered DEF History, Numbered
  <2> QED
    BY <1>2, <2>1, <2>2, <2>3 DEF History
<1>3. ASSUME NEW w \in Writers, Call(w) PROVE HistoryInv'
  BY <1>3 DEF Call, fileVars, Numbered, HistoryIsComplete
<1>4. ASSUME NEW w \in Writers, Retry(w) PROVE HistoryInv'
  BY <1>4 DEF Retry, fileVars, Numbered, HistoryIsComplete
<1>5. ASSUME NEW w \in Writers, Mutate(w) PROVE HistoryInv'
  BY <1>5 DEF Mutate, fileVars, Numbered, HistoryIsComplete
<1>6. ASSUME NEW w \in Writers, WriteChecked(w) PROVE HistoryInv'
  <2>1. CASE w \notin authorized
    BY <1>6, <2>1 DEF WriteChecked, Numbered, HistoryIsComplete
  <2>2. CASE w \in authorized
    <3>1. /\ revisions' = recoverPending /\ UNCHANGED <<file, archive, published, request>>
          /\ step' \in {[step EXCEPT ![w] = s] : s \in {"conflict", "commit", "saveOld"}}
      BY <1>6, <2>2 DEF WriteChecked
    <3>2. \A v \in Writers : v # w => step[v] \notin InTransaction
      BY <1>6 DEF WriteChecked
    <3>3. HistoryIsComplete' /\ Deposited'
      BY <3>1, RecoverSettles DEF HistoryIsComplete
    <3>4. Numbered' /\ published' \subseteq {r.id : r \in revisions'}
      BY <3>1, RecoverNumbered DEF Numbered
    <3>5. \A v \in Writers : step'[v] \notin {"saveNew", "pending", "publish"}
      BY <3>1, <3>2
    <3> QED
      BY <3>3, <3>4, <3>5
  <2> QED
    BY <2>1, <2>2
<1>7. ASSUME NEW w \in Writers, SaveOld(w) \/ SaveNew(w) PROVE HistoryInv'
  <2>1. \A v \in Writers : v # w => step[v] \notin InTransaction
    BY <1>7 DEF SaveOld, SaveNew
  <2>2. /\ UNCHANGED <<file, revisions, published, request>> /\ archive \subseteq archive'
        /\ step[w] \in BeforePublish
    BY <1>7 DEF SaveOld, SaveNew, saveBlob
  <2>3. CASE SaveOld(w)
    BY <2>1, <2>2, <2>3 DEF SaveOld, saveBlob, Numbered, HistoryIsComplete
  <2>4. CASE SaveNew(w)
    BY <2>1, <2>2, <2>4 DEF SaveNew, saveBlob, Numbered, HistoryIsComplete
  <2> QED
    BY <1>7, <2>3, <2>4
<1>8. ASSUME NEW w \in Writers, WritePending(w) PROVE HistoryInv'
  <2> DEFINE id == Cardinality(revisions) + 1
             new == [id |-> id, previous |-> file, digest |-> request[w].content, confirmed |-> FALSE]
  <2>1. \A v \in Writers : v # w => step[v] \notin InTransaction
    BY <1>8 DEF WritePending
  <2>2. /\ revisions' = revisions \cup {new} /\ request' = [request EXCEPT ![w].revision = id]
        /\ UNCHANGED <<file, archive, published>> /\ step' = [step EXCEPT ![w] = "publish"]
        /\ step[w] = "pending"
    BY <1>8 DEF WritePending
  <2>3. /\ Cardinality(revisions) \in Nat
        /\ \A r \in revisions : r.id \in Nat /\ r.id < id
    BY FS_CardinalityType DEF Numbered, Revision
  <2>4. new \notin revisions /\ id \notin published
    BY <2>3
  <2>5. Cardinality(revisions') = id
    <3>1. new \notin revisions => Cardinality(revisions \cup {new}) = Cardinality(revisions) + 1
      <4> HIDE DEF new
      <4> QED
        BY FS_AddElement
    <3> QED
      BY <2>2, <2>4, <3>1
  <2>6. Numbered' /\ published' \subseteq {r.id : r \in revisions'}
    <3>1. new.id = id
      OBVIOUS
    <3>2. revisions' = revisions \cup {new} /\ published' = published
      BY <2>2
    <3>3. published \subseteq {r.id : r \in revisions} /\ \A r, s \in revisions : r.id = s.id => r = s
      BY DEF Numbered
    <3> HIDE DEF new, id
    <3>4. \A r \in revisions' : r.id <= Cardinality(revisions')
      BY <2>3, <2>5, <3>1, <3>2, id \in Nat DEF id
    <3>5. \A r, s \in revisions' : r.id = s.id => r = s
      BY <2>3, <3>1, <3>2, <3>3
    <3>6. published' \subseteq {r.id : r \in revisions'}
      BY <3>2, <3>3
    <3> QED
      BY <3>4, <3>5, <3>6 DEF Numbered
  <2>7. HistoryIsComplete' /\ Deposited'
    BY <2>1, <2>2, <2>4 DEF HistoryIsComplete
  <2>8. InArchive'
    BY <2>1, <2>2
  <2>9. Noted'
    BY <2>1, <2>2, <2>4
  <2> HIDE DEF id, new
  <2> QED
    BY <2>6, <2>7, <2>8, <2>9
<1>9. ASSUME NEW w \in Writers, Publish(w) PROVE HistoryInv'
  <2>1. \A v \in Writers : v # w => step[v] \notin InTransaction
    BY <1>9 DEF Publish
  <2>2. PICK p \in revisions : /\ p.id = request[w].revision /\ p.id \notin published
                               /\ p.previous = file /\ p.digest = request[w].content
    BY <1>9 DEF Publish
  <2>3. /\ UNCHANGED <<archive, revisions, request>> /\ published' = published \cup {p.id}
        /\ file' = p.digest /\ step' = [step EXCEPT ![w] = "record"] /\ step[w] = "publish"
    BY <1>9, <2>2 DEF Publish
  <2>4. {p.digest, p.previous} \ {Absent} \subseteq archive
    BY <2>2, <2>3
  <2>5. HistoryIsComplete'
    BY <2>2, <2>3, <2>4 DEF HistoryIsComplete, Numbered
  <2>6. Numbered' /\ published' \subseteq {r.id : r \in revisions'}
    BY <2>3 DEF Numbered
  <2>7. Deposited' /\ InArchive' /\ Noted'
    BY <2>1, <2>3
  <2> QED
    BY <2>5, <2>6, <2>7
<1>10. ASSUME NEW w \in Writers, Record(w) PROVE HistoryInv'
  <2>1. \A v \in Writers : v # w => step[v] \notin InTransaction
    BY <1>10 DEF Record
  <2>2. UNCHANGED <<file, archive, published, request>> /\ step' = [step EXCEPT ![w] = "commit"]
    BY <1>10 DEF Record
  <2>3. \A t \in revisions' : \E r \in revisions :
          /\ t.id = r.id /\ t.previous = r.previous /\ t.digest = r.digest
          /\ r.confirmed => t.confirmed
    BY <1>10, RecordRecords, RecordConfirms
  <2>4. HistoryIsComplete'
    BY <2>2, <2>3 DEF HistoryIsComplete
  <2>7. revisions' = Recorded(request[w].revision)
    BY <1>10, RecordRecords
  <2>5. Numbered' /\ published' \subseteq {r.id : r \in revisions'}
    BY <2>2, <2>7, RecordNumbered DEF Numbered
  <2>6. Deposited' /\ InArchive' /\ Noted'
    BY <2>1, <2>2
  <2> QED
    BY <2>4, <2>5, <2>6
<1>11. ASSUME NEW w \in Writers, Commit(w) \/ Revoke(w) PROVE HistoryInv'
  BY <1>11 DEF Commit, Revoke, fileVars, Numbered, HistoryIsComplete
<1>12. ASSUME NEW w \in Writers, Fails(w) PROVE HistoryInv'
  BY <1>12 DEF Fails, fileVars, Numbered, HistoryIsComplete
<1>13. CASE UNCHANGED vars
  BY <1>13 DEF vars, fileVars, storeVars, Numbered, HistoryIsComplete
<1> QED
  BY <1>1, <1>2, <1>3, <1>4, <1>5, <1>6, <1>7, <1>8, <1>9, <1>10, <1>11, <1>12, <1>13 DEF Next

LEMMA WorkspaceStep == WorkspaceInv /\ [Next]_vars => WorkspaceInv'
  BY StepTypes, StepRecords, StepWrites, StepHistory DEF WorkspaceInv

LEMMA WorkspaceAlways == Spec => []WorkspaceInv
  BY WorkspaceStart, WorkspaceStep, PTL DEF Spec

\* TypeCorrect: every variable keeps its type, and every published change has
\* a revision (workspace.go:578).
THEOREM TypeCorrect == Spec => []TypeOK
<1>1. WorkspaceInv => TypeOK
  BY DEF WorkspaceInv, WorkspaceTypes, RecordTypes, HistoryInv, TypeOK
<1> QED
  BY <1>1, WorkspaceAlways, PTL

\* CompleteHistory: no published change is missing from the history or from
\* the archive, whichever steps failed (workspace.go:578, recoverPending).
THEOREM CompleteHistory == Spec => []HistoryIsComplete
<1>1. WorkspaceInv => HistoryIsComplete
  BY DEF WorkspaceInv, HistoryInv
<1> QED
  BY <1>1, WorkspaceAlways, PTL

----------------------------------------------------------------------------
(* The register: what each step is to it.                                  *)

LEMMA StateMoves ==
  ASSUME WorkspaceInv, NEW w \in Writers, NEW s, Goes(w, s)
  PROVE  State' = [State EXCEPT ![w] = StateOf(s)]
BY DEF WorkspaceInv, WorkspaceTypes, Goes, State

LEMMA InitRefines == Init => Register!Init
  BY DEF Init, Register!Init, Asked, State, StateOf, Answers

LEMMA StepRefines ==
  ASSUME WorkspaceInv, [Next]_vars
  PROVE  [Register!Next]_(Register!vars)
<1> USE DEF Register!Next, Register!vars
<1>1. CASE Ensure
  <2>1. Register!Create
    BY <1>1 DEF Ensure, Register!Create, Asked, State, storeVars
  <2> QED
    BY <2>1
<1>2. CASE History
  BY <1>2 DEF History, Asked, State, storeVars
<1>3. ASSUME NEW w \in Writers, Call(w) PROVE Register!Call(w)
  <2>1. State' = [State EXCEPT ![w] = "called"]
    BY <1>3, StateMoves DEF Call, StateOf, Answers
  <2>2. State[w] \notin {"called", "applied"}
    BY <1>3 DEF Call, State, StateOf, Answers
  <2>3. PICK expected \in Contents \cup {Absent}, content \in Contents :
          request' = [request EXCEPT ![w] = [expected |-> expected, content |-> content, revision |-> 0]]
    BY <1>3 DEF Call
  <2>4. Asked' = [Asked EXCEPT ![w] = [expected |-> expected, content |-> content]]
    BY <2>3 DEF Asked, WorkspaceInv, WorkspaceTypes
  <2> QED
    BY <1>3, <2>1, <2>2, <2>4 DEF Call, Register!Call, Register!Goes, fileVars
<1>4. ASSUME NEW w \in Writers, Retry(w) PROVE Register!Retry(w)
  <2>1. State' = [State EXCEPT ![w] = "called"]
    BY <1>4, StateMoves DEF Retry, StateOf, Answers
  <2> QED
    BY <1>4, <2>1 DEF Retry, Register!Retry, Register!Goes, State, StateOf, Answers, Asked,
                      fileVars, storeVars
<1>5. ASSUME NEW w \in Writers, Mutate(w)
      PROVE  Register!Succeed(w) \/ Register!Fail(w) \/ UNCHANGED Register!vars
  <2>1. State[w] = "called" /\ UNCHANGED <<file, Asked, effect, authorized>>
    BY <1>5 DEF Mutate, State, StateOf, Answers, Asked, fileVars
  <2>2. CASE cached[w] /\ w \in authorized
    <3>1. State' = [State EXCEPT ![w] = "ok"]
      BY <1>5, <2>2, StateMoves DEF Mutate, StateOf, Answers
    <3>2. effect[w]
      BY <2>2 DEF WorkspaceInv, WriteInv, TookEffect
    <3> QED
      BY <2>1, <3>1, <3>2 DEF Register!Succeed, Register!Goes
  <2>3. CASE cached[w] /\ w \notin authorized
    <3>1. State' = [State EXCEPT ![w] = "failed"]
      BY <1>5, <2>3, StateMoves DEF Mutate, StateOf, Answers
    <3> QED
      BY <2>1, <3>1 DEF Register!Fail, Register!Goes
  <2>4. CASE ~cached[w]
    <3>1. State' = [State EXCEPT ![w] = "called"]
      BY <1>5, <2>4, StateMoves DEF Mutate, StateOf, Answers
    <3> QED
      BY <2>1, <3>1 DEF State
  <2> QED
    BY <2>2, <2>3, <2>4
<1>6. ASSUME NEW w \in Writers, WriteChecked(w)
      PROVE  \/ Register!Fail(w) \/ Register!Refuse(w) \/ Register!Apply(w)
             \/ UNCHANGED Register!vars
  <2>1. State[w] = "called" /\ UNCHANGED <<file, Asked, authorized>>
    BY <1>6 DEF WriteChecked, State, StateOf, Answers, Asked
  <2>2. CASE w \notin authorized
    <3>1. State' = [State EXCEPT ![w] = "failed"]
      BY <1>6, <2>2, StateMoves DEF WriteChecked, StateOf, Answers
    <3> QED
      BY <1>6, <2>1, <2>2, <3>1 DEF WriteChecked, Register!Fail, Register!Goes
  <2>3. CASE w \in authorized /\ file # request[w].expected
    <3>1. State' = [State EXCEPT ![w] = "conflict"]
      BY <1>6, <2>3, StateMoves DEF WriteChecked, StateOf, Answers
    <3> QED
      BY <1>6, <2>1, <2>3, <3>1 DEF WriteChecked, Register!Refuse, Register!Goes, Asked
  <2>4. CASE w \in authorized /\ file = request[w].expected /\ file = request[w].content
    <3>1. State' = [State EXCEPT ![w] = "applied"]
      BY <1>6, <2>4, StateMoves DEF WriteChecked, StateOf, Answers
    <3> QED
      BY <1>6, <2>1, <2>4, <3>1 DEF WriteChecked, Register!Apply, Register!Goes, Asked
  <2>5. CASE w \in authorized /\ file = request[w].expected /\ file # request[w].content
    <3>1. State' = [State EXCEPT ![w] = "called"]
      BY <1>6, <2>5, StateMoves DEF WriteChecked, StateOf, Answers
    <3> QED
      BY <1>6, <2>1, <2>5, <3>1 DEF WriteChecked, State
  <2> QED
    BY <2>2, <2>3, <2>4, <2>5
<1>7. ASSUME NEW w \in Writers, SaveOld(w) \/ SaveNew(w) PROVE UNCHANGED Register!vars
  <2>1. State' = [State EXCEPT ![w] = "called"]
    BY <1>7, StateMoves DEF SaveOld, SaveNew, saveBlob, StateOf, Answers
  <2>2. State[w] = "called"
    BY <1>7 DEF SaveOld, SaveNew, State, StateOf, Answers
  <2> QED
    BY <1>7, <2>1, <2>2 DEF SaveOld, SaveNew, saveBlob, storeVars, Asked, State
<1>8. ASSUME NEW w \in Writers, WritePending(w) PROVE UNCHANGED Register!vars
  <2>1. State' = [State EXCEPT ![w] = "called"]
    BY <1>8, StateMoves DEF WritePending, StateOf, Answers
  <2>2. State[w] = "called"
    BY <1>8 DEF WritePending, State, StateOf, Answers
  <2>3. \A v \in Writers : /\ request'[v].expected = request[v].expected
                           /\ request'[v].content = request[v].content
    BY <1>8 DEF WritePending, WorkspaceInv, WorkspaceTypes
  <2>4. Asked' = Asked
    BY <2>3 DEF Asked
  <2> QED
    BY <1>8, <2>1, <2>2, <2>4 DEF WritePending, storeVars, State
<1>9. ASSUME NEW w \in Writers, Publish(w) PROVE Register!Apply(w)
  <2>1. State' = [State EXCEPT ![w] = "applied"]
    BY <1>9, StateMoves DEF Publish, StateOf, Answers
  <2>2. State[w] = "called" /\ file = Asked[w].expected /\ file' = Asked[w].content
    BY <1>9 DEF Publish, State, StateOf, Answers, Asked, WorkspaceInv, WriteInv, StillChecked, BeforePublish
  <2>3. w \in authorized
    BY <1>9 DEF Publish, WorkspaceInv, WriteInv, StillChecked, BeforePublish
  <2> QED
    BY <1>9, <2>1, <2>2, <2>3 DEF Publish, storeVars, Register!Apply, Register!Goes, Asked
<1>10. ASSUME NEW w \in Writers, Record(w) PROVE UNCHANGED Register!vars
  <2>1. State' = [State EXCEPT ![w] = "applied"]
    BY <1>10, StateMoves DEF Record, StateOf, Answers
  <2>2. State[w] = "applied"
    BY <1>10 DEF Record, State, StateOf, Answers
  <2> QED
    BY <1>10, <2>1, <2>2 DEF Record, storeVars, Asked, State
<1>11. ASSUME NEW w \in Writers, Commit(w) PROVE Register!Succeed(w)
  <2>1. State' = [State EXCEPT ![w] = "ok"]
    BY <1>11, StateMoves DEF Commit, StateOf, Answers
  <2>2. State[w] = "applied" /\ effect[w]
    BY <1>11 DEF Commit, State, StateOf, Answers, WorkspaceInv, WriteInv, TookEffect
  <2> QED
    BY <1>11, <2>1, <2>2 DEF Commit, fileVars, Register!Succeed, Register!Goes, Asked
<1>12. ASSUME NEW w \in Writers, Fails(w) PROVE Register!Fail(w)
  <2>1. State' = [State EXCEPT ![w] = "failed"]
    BY <1>12, StateMoves DEF Fails, StateOf, Answers
  <2>2. State[w] \in {"called", "applied"}
    BY <1>12 DEF Fails, State, StateOf, Answers, Writing
  <2> QED
    BY <1>12, <2>1, <2>2 DEF Fails, fileVars, Register!Fail, Register!Goes, Asked
<1>14. ASSUME NEW w \in Writers, Revoke(w) PROVE Register!Revoke(w)
  BY <1>14 DEF Revoke, fileVars, Register!Revoke, Asked, State
<1>13. CASE UNCHANGED vars
  BY <1>13 DEF vars, fileVars, storeVars, Asked, State
<1> QED
  BY <1>1, <1>2, <1>3, <1>4, <1>5, <1>6, <1>7, <1>8, <1>9, <1>10, <1>11, <1>12, <1>13, <1>14
  DEF Next

\* KnowledgeIsARegister: whatever the writers, failures and revocations do,
\* a knowledge file behaves as a compare-and-swap register
\* (agent-workspace-design-detail.md:21).
THEOREM KnowledgeIsARegister == Spec => ImplementsRegister
  BY InitRefines, StepRefines, WorkspaceAlways, PTL DEF Spec, ImplementsRegister, Register!Spec

----------------------------------------------------------------------------
(* Result delivery.                                                        *)
Items == Delivery!Marks \cup {"answer", "notice"}
Scripts == Seq(Tasks \X Items)
Begun == {"begun", "removed", "answered"}
InFlight(a, k) == call[a].step \in Begun /\ call[a].key = k

ScriptTypes ==
  /\ script \in [Delivery!Actors -> Scripts] /\ Len(script["stages"]) <= QueueLimit
  /\ call \in [Delivery!Actors -> Delivery!Calls]
  /\ \A a \in Delivery!Actors : call[a] # Delivery!NoCall => script[a] # << >>

TaskTypes ==
  /\ status \in [Tasks -> Delivery!TaskStatus] /\ version \in [Tasks -> 1..MaxVersion]
  /\ current \in [Tasks -> BOOLEAN] /\ acting \in [Tasks -> BOOLEAN]
  /\ job \in [Deliverers -> Delivery!Jobs] /\ service \in Delivery!Down..Delivery!Live
     /\ deliveryEvents \in 0..MaxDeliveryEvents

RowTypes ==
  /\ row \in [Delivery!Keys -> Delivery!RowStates] /\ relabelled \subseteq Delivery!Keys
  /\ sent \in [Delivery!Keys -> Nat] /\ marks \in [Tasks -> SUBSET Delivery!Marks]

\* What a row says of its content, and what the call in flight knows of it.
Truth ==
  /\ \A k \in Delivery!Keys : sent[k] <= 1 /\ (row[k] = "accepted" => sent[k] = 1)
  /\ \A k \in Delivery!Keys : row[k] \in {"absent", "ready", "stale"} =>
       sent[k] = 0 /\ \A a \in Delivery!Actors : ~InFlight(a, k)
  /\ \A a \in Delivery!Actors : call[a].step \in {"begun", "removed"} => sent[call[a].key] = 0
  /\ \A a \in Delivery!Actors : call[a].step = "answered" /\ call[a].outcome = "accepted"
     => sent[call[a].key] = 1
  /\ \A a, b \in Delivery!Actors : \A k \in Delivery!Keys : InFlight(a, k) /\ InFlight(b, k)
     => a = b

DeliveryInv == ScriptTypes /\ TaskTypes /\ RowTypes /\ Truth

----------------------------------------------------------------------------
LEMMA DeliveryNumbers ==
  /\ MaxVersion \in Nat \ {0} /\ MaxDeliveryEvents \in Nat /\ QueueLimit \in Nat \ {0}
  /\ Len(Delivery!Passes) = 4 /\ Delivery!Down = 0 /\ Delivery!Live = 6
  /\ "stages" \in Delivery!Actors /\ "startup" \in Delivery!Actors /\ "stages" \notin Deliverers
     /\ "startup" \notin Deliverers
  /\ Delivery!Intake \in Delivery!Actors /\ Delivery!Intake # "stages"
     /\ Delivery!Intake # "startup" /\ Deliverers \subseteq Delivery!Actors
<1>1. DeliveryMode = "direct" => Delivery!Intake \in Deliverers
  <2> SUFFICES ASSUME DeliveryMode = "direct" PROVE (CHOOSE w \in Deliverers : TRUE) \in Deliverers
    BY DEF Delivery!Intake
  <2>1. Cardinality(Deliverers) = 1
    BY AgentResultsAssumption DEF Delivery!ResultDeliveryAssumption, Cardinality, Delivery!Cardinality
  <2>2. Cardinality({}) = 0
    BY FS_EmptySet
  <2>3. Deliverers # {}
    BY <2>1, <2>2
  <2> QED
    BY <2>3
<1>2. /\ MaxVersion \in Nat \ {0} /\ MaxDeliveryEvents \in Nat /\ QueueLimit \in Nat \ {0}
      /\ \A w \in Deliverers : w # "intake" /\ w # "stages" /\ w # "startup"
  BY AgentResultsAssumption DEF Delivery!ResultDeliveryAssumption
<1>3. Len(Delivery!Passes) = 4
  BY DEF Delivery!Passes
<1>4. Delivery!Down = 0 /\ Delivery!Live = 6
  BY <1>3 DEF Delivery!Down, Delivery!Live
<1>5. "stages" \in Delivery!Actors /\ "startup" \in Delivery!Actors
        /\ "intake" \in Delivery!Actors /\ Deliverers \subseteq Delivery!Actors
  BY DEF Delivery!Actors
<1>6. Delivery!Intake \in Delivery!Actors /\ Delivery!Intake # "stages"
        /\ Delivery!Intake # "startup"
  <2>1. CASE DeliveryMode = "direct"
    BY <1>1, <1>2, <1>5, <2>1
  <2>2. CASE DeliveryMode # "direct"
    BY <1>5, <2>2 DEF Delivery!Intake
  <2> QED
    BY <2>1, <2>2
<1> QED
  BY <1>2, <1>3, <1>4, <1>5, <1>6

LEMMA DeliveryStart == Delivery!Init => DeliveryInv
<1> SUFFICES ASSUME Delivery!Init PROVE DeliveryInv
  OBVIOUS
<1>1. 1 \in 1..MaxVersion /\ 0 \in 0..MaxDeliveryEvents
        /\ Delivery!Live \in Delivery!Down..Delivery!Live
  BY DeliveryNumbers
<1>2. script = [a \in Delivery!Actors |-> << >>] /\ << >> \in Scripts /\ Len(<< >>) = 0
        /\ 0 <= QueueLimit
  BY DeliveryNumbers DEF Delivery!Init, Scripts
<1>3. call = [a \in Delivery!Actors |-> Delivery!NoCall] /\ Delivery!NoCall \in Delivery!Calls
        /\ Delivery!NoCall.step = "none"
  BY DEF Delivery!Init, Delivery!NoCall, Delivery!Calls
<1>4. ScriptTypes
  BY <1>2, <1>3, DeliveryNumbers DEF ScriptTypes
<1>5. TaskTypes
  BY <1>1 DEF Delivery!Init, TaskTypes, Delivery!TaskStatus, Delivery!Jobs
<1>6. RowTypes
  BY DEF Delivery!Init, RowTypes, Delivery!RowStates
<1>7. Truth
  BY <1>3 DEF Delivery!Init, Truth, InFlight, Begun
<1> QED
  BY <1>4, <1>5, <1>6, <1>7 DEF DeliveryInv

----------------------------------------------------------------------------
(* Scripts and calls.                                                      *)

LEMMA ScriptSteps ==
  ASSUME NEW s \in Scripts, s # << >>, NEW x \in Tasks \X Items
  PROVE  /\ Tail(s) \in Scripts /\ Len(Tail(s)) = Len(s) - 1 /\ Head(s) \in Tasks \X Items
         /\ Append(s, x) \in Scripts /\ Len(Append(s, x)) = Len(s) + 1 /\ Len(s) \in Nat
BY DEF Scripts

LEMMA ScriptAppend ==
  ASSUME NEW s \in Scripts, NEW x \in Tasks \X Items
  PROVE  Append(s, x) \in Scripts /\ Len(Append(s, x)) = Len(s) + 1 /\ Len(s) \in Nat
BY DEF Scripts

\* Further deliveries for an actor other than the queue.
LEMMA ThenKeeps ==
  ASSUME ScriptTypes, NEW a \in Delivery!Actors, a # "stages", NEW t \in Tasks,
         NEW items \in Seq(Items),
         Delivery!Then(a, t, items), UNCHANGED call
  PROVE  ScriptTypes'
<1>1. PICK more : more = [i \in 1..Len(items) |-> <<t, items[i]>>]
  OBVIOUS
<1>2. more \in Scripts
  BY <1>1 DEF Scripts
<1>3. script[a] \in Scripts /\ script[a] \o more \in Scripts
      /\ (script[a] # << >> => script[a] \o more # << >>)
  BY <1>2 DEF ScriptTypes, Scripts
<1>4. script' = [script EXCEPT ![a] = script[a] \o more]
  BY <1>1 DEF Delivery!Then
<1> QED
  BY <1>3, <1>4 DEF ScriptTypes

LEMMA DropKeeps ==
  ASSUME ScriptTypes, NEW a \in Delivery!Actors, script[a] # << >>, Delivery!Drop(a)
  PROVE  ScriptTypes' /\ call'[a] = Delivery!NoCall /\ Delivery!NoCall.step = "none"
         /\ \A b \in Delivery!Actors : b # a => call'[b] = call[b]
<1>1. script' = [script EXCEPT ![a] = Tail(script[a])]
        /\ call' = [call EXCEPT ![a] = Delivery!NoCall]
  BY DEF Delivery!Drop
<1>2. script[a] \in Scripts /\ Tail(script[a]) \in Scripts
      /\ Len(Tail(script[a])) = Len(script[a]) - 1
      /\ Len(script[a]) \in Nat
  BY DEF ScriptTypes, Scripts
<1>3. Delivery!NoCall \in Delivery!Calls /\ Delivery!NoCall.step = "none"
  BY DEF Delivery!Calls, Delivery!NoCall
<1> QED
  BY <1>1, <1>2, <1>3, DeliveryNumbers DEF ScriptTypes

LEMMA EnqueueKeeps ==
  ASSUME ScriptTypes, NEW a \in Delivery!Actors, a # "stages", script[a] # << >>,
         Delivery!Enqueue(a)
  PROVE  ScriptTypes' /\ call'[a] = Delivery!NoCall /\ Delivery!NoCall.step = "none"
         /\ \A b \in Delivery!Actors : b # a => call'[b] = call[b]
<1>1. PICK x, s, q : x = Head(script[a]) /\ s = Tail(script[a]) /\ q = Append(script["stages"], x)
  OBVIOUS
<1>2. script' = [script EXCEPT ![a] = s, !["stages"] = q]
      /\ call' = [call EXCEPT ![a] = Delivery!NoCall]
      /\ Len(script["stages"]) < QueueLimit
  BY <1>1 DEF Delivery!Enqueue
<1>3. script[a] \in Scripts /\ script["stages"] \in Scripts
  BY DeliveryNumbers DEF ScriptTypes
<1>4. x \in Tasks \X Items /\ s \in Scripts
  BY <1>1, <1>3 DEF Scripts
<1>5. q \in Scripts /\ Len(q) = Len(script["stages"]) + 1 /\ Len(script["stages"]) \in Nat
  BY <1>1, <1>3, <1>4, ScriptAppend
<1>6. q # << >>
  BY <1>5
<1>7. Delivery!NoCall \in Delivery!Calls /\ Delivery!NoCall.step = "none"
  BY DEF Delivery!Calls, Delivery!NoCall
<1>8. script'["stages"] = q /\ \A b \in Delivery!Actors : b # a /\ b # "stages"
        => script'[b] = script[b]
  BY <1>2, DeliveryNumbers DEF ScriptTypes
<1>9. script' \in [Delivery!Actors -> Scripts] /\ Len(script'["stages"]) <= QueueLimit
  BY <1>2, <1>4, <1>5, <1>8, DeliveryNumbers DEF ScriptTypes
<1> QED
  BY <1>2, <1>6, <1>7, <1>8, <1>9 DEF ScriptTypes

LEMMA KeysOf ==
  ASSUME TaskTypes, NEW t \in Tasks, NEW item \in Items
  PROVE  Delivery!Key(t, item) \in Delivery!Keys /\ Delivery!Key(t, item)[1] = t
         /\ Delivery!Key(t, item)[2] = version[t]
<1>1. Delivery!KindOf(t, item) \in Delivery!Kinds
  BY DEF Delivery!KindOf, Items, Delivery!Kinds
<1> QED
  BY <1>1 DEF Delivery!Key, Delivery!Keys, TaskTypes

\* An actor that turns to a new state of its call or ends it.
LEMMA CallKeeps ==
  ASSUME ScriptTypes, NEW a \in Delivery!Actors, script[a] # << >>, NEW c \in Delivery!Calls,
         call' = [call EXCEPT ![a] = c], UNCHANGED script
  PROVE  ScriptTypes'
BY DEF ScriptTypes

LEMMA Claimed ==
  ASSUME ScriptTypes, NEW a \in Delivery!Actors, call[a].step # "none"
  PROVE  script[a] # << >> /\ call[a] # Delivery!NoCall /\ call[a] \in Delivery!Calls
         /\ call[a].key \in Delivery!Keys
BY DEF ScriptTypes, Delivery!NoCall, Delivery!Calls

\* FreshRows and calls nobody touches.
LEMMA SameTruth ==
  ASSUME Truth, UNCHANGED <<row, sent>>,
         \A a \in Delivery!Actors : call'[a] = call[a] \/ call'[a].step \notin Begun
  PROVE  Truth'
BY DEF Truth, InFlight, Begun

----------------------------------------------------------------------------
(* One delivery.                                                           *)

LEMMA PrepareKeeps ==
  ASSUME DeliveryInv, NEW a \in Delivery!Actors, Delivery!prepareTaskDelivery(a)
  PROVE  DeliveryInv' /\ \A k \in Delivery!Keys : row[k] \in Delivery!Final => row'[k] = row[k]
<1>0. ScriptTypes /\ TaskTypes /\ RowTypes /\ Truth
  BY DEF DeliveryInv
<1>1. PICK t, item, k : t = Head(script[a])[1] /\ item = Head(script[a])[2]
        /\ k = Delivery!Key(t, item)
  OBVIOUS
<1>2. script[a] # << >> /\ script[a] \in Scripts /\ call[a] = Delivery!NoCall
      /\ UNCHANGED <<Delivery!taskVars, relabelled, Delivery!world, job, service, deliveryEvents>>
  BY <1>0 DEF Delivery!prepareTaskDelivery, Delivery!Pending, ScriptTypes
<1>3. t \in Tasks /\ item \in Items
  BY <1>1, <1>2 DEF Scripts
<1>4. k \in Delivery!Keys
  BY <1>0, <1>1, <1>3, KeysOf
<1>5. TaskTypes'
  BY <1>0, <1>2 DEF TaskTypes, Delivery!taskVars
<1>6. row' = row \/ (row[k] \in {"absent", "ready"} /\ row' = [row EXCEPT ![k] = "ready"])
  BY <1>1 DEF Delivery!prepareTaskDelivery
<1>7. RowTypes'
  BY <1>0, <1>2, <1>4, <1>6 DEF RowTypes, Delivery!RowStates, Delivery!world
<1>8. ScriptTypes' /\ (\A b \in Delivery!Actors : call'[b] = call[b] \/ call'[b].step \notin Begun)
  <2>1. CASE Delivery!Drop(a)
    BY <1>0, <1>2, <2>1, DropKeeps DEF Begun
  <2>2. CASE Delivery!Enqueue(a) /\ a # "stages"
    BY <1>0, <1>2, <2>2, EnqueueKeeps DEF Begun
  <2>3. CASE Delivery!Prepared(a, k)
    <3>1. [step |-> "prepared", key |-> k, cleanup |-> "ok"] \in Delivery!Calls
      BY <1>4 DEF Delivery!Calls
    <3>2. call' = [call EXCEPT ![a] = [step |-> "prepared", key |-> k, cleanup |-> "ok"]]
            /\ UNCHANGED script
      BY <2>3 DEF Delivery!Prepared
    <3> QED
      BY <1>0, <1>2, <3>1, <3>2, CallKeeps DEF Begun, ScriptTypes
  <2>4. Delivery!Queued(a, item) => a # "stages"
    BY DeliveryNumbers DEF Delivery!Queued
  <2> QED
    BY <1>1, <2>1, <2>2, <2>3, <2>4 DEF Delivery!prepareTaskDelivery
<1>9. Truth'
  BY <1>0, <1>2, <1>4, <1>6, <1>8 DEF Truth, RowTypes, InFlight, Begun, Delivery!world
<1> QED
  BY <1>0, <1>4, <1>5, <1>6, <1>7, <1>8, <1>9 DEF DeliveryInv, Delivery!Final, RowTypes

LEMMA BeginKeeps ==
  ASSUME DeliveryInv, NEW a \in Delivery!Actors, Delivery!BeginDelivery(a)
  PROVE  DeliveryInv' /\ \A k \in Delivery!Keys : row[k] \in Delivery!Final => row'[k] = row[k]
<1>0. ScriptTypes /\ TaskTypes /\ RowTypes /\ Truth
  BY DEF DeliveryInv
<1>1. PICK c : c = call[a]
  OBVIOUS
<1>2. c.step = "prepared" /\ c \in Delivery!Calls /\ script[a] # << >> /\ c.key \in Delivery!Keys
      /\ UNCHANGED <<Delivery!taskVars, relabelled, Delivery!world, job, service, deliveryEvents>>
  BY <1>0, <1>1, Claimed DEF Delivery!BeginDelivery
<1>5. TaskTypes'
  BY <1>0, <1>2 DEF TaskTypes, Delivery!taskVars
<1>6. CASE row' = row /\ Delivery!Drop(a)
  <2>1. ScriptTypes' /\ Truth'
    BY <1>0, <1>2, <1>6, DropKeeps, SameTruth DEF Begun, Delivery!world
  <2> QED
    BY <1>0, <1>2, <1>5, <1>6, <2>1 DEF DeliveryInv, RowTypes, Delivery!world
<1>7. CASE row[c.key] = "ready" /\ row' = [row EXCEPT ![c.key] = "sending"]
           /\ call' = [call EXCEPT ![a] = [c EXCEPT !.step = "begun"]] /\ UNCHANGED script
  <2>1. PICK d : d = [c EXCEPT !.step = "begun"]
    OBVIOUS
  <2>2. d \in Delivery!Calls /\ d.step = "begun" /\ d.key = c.key
    BY <1>2, <2>1 DEF Delivery!Calls, Delivery!NoCall
  <2>3. ScriptTypes' /\ call' = [call EXCEPT ![a] = d]
    BY <1>0, <1>2, <1>7, <2>1, <2>2, CallKeeps
  <2>4. RowTypes'
    BY <1>0, <1>2, <1>7 DEF RowTypes, Delivery!RowStates, Delivery!world
  <2>5. Truth'
    BY <1>0, <1>1, <1>2, <1>7, <2>2, <2>3
       DEF Truth, RowTypes, ScriptTypes, InFlight, Begun, Delivery!world
  <2> QED
    BY <1>0, <1>2, <1>5, <1>7, <2>3, <2>4, <2>5 DEF DeliveryInv, RowTypes, Delivery!Final
<1> QED
  BY <1>1, <1>6, <1>7 DEF Delivery!BeginDelivery

LEMMA RemoveKeeps ==
  ASSUME DeliveryInv, NEW a \in Delivery!Actors, Delivery!RemoveReaction(a)
  PROVE  DeliveryInv' /\ row' = row
<1>0. ScriptTypes /\ TaskTypes /\ RowTypes /\ Truth
  BY DEF DeliveryInv
<1>1. PICK c : c = call[a]
  OBVIOUS
<1>2. c.step = "begun" /\ c \in Delivery!Calls /\ script[a] # << >> /\ c.key \in Delivery!Keys
      /\ UNCHANGED <<Delivery!taskVars, Delivery!rowVars, sent, job, script, service>>
  BY <1>0, <1>1, Claimed DEF Delivery!RemoveReaction
<1>3. deliveryEvents' \in 0..MaxDeliveryEvents
  BY <1>0, DeliveryNumbers DEF Delivery!RemoveReaction, Delivery!Event, TaskTypes
<1>4. PICK o \in {"ok", "denied", "unclear"} :
        call' = [call EXCEPT ![a] = [c EXCEPT !.step = "removed", !.cleanup = o]]
  BY <1>1 DEF Delivery!RemoveReaction
<1>5. PICK d : d = [c EXCEPT !.step = "removed", !.cleanup = o]
  OBVIOUS
<1>6. d \in Delivery!Calls /\ d.step = "removed" /\ d.key = c.key
  <2>1. c \in [step : {"prepared", "begun", "removed"}, key : Delivery!Keys,
          cleanup : {"ok", "denied", "unclear"}]
    BY <1>2 DEF Delivery!Calls, Delivery!NoCall
  <2>2. d \in [step : {"prepared", "begun", "removed"}, key : Delivery!Keys,
          cleanup : {"ok", "denied", "unclear"}]
        /\ d.step = "removed" /\ d.key = c.key
    BY <1>4, <1>5, <2>1
  <2> QED
    BY <2>2 DEF Delivery!Calls
<1>7. ScriptTypes' /\ call' = [call EXCEPT ![a] = d]
  BY <1>0, <1>2, <1>4, <1>5, <1>6, CallKeeps
<1>8. marks' \in [Tasks -> SUBSET Delivery!Marks]
  BY <1>0 DEF Delivery!RemoveReaction, RowTypes
<1>9. Truth'
  BY <1>0, <1>1, <1>2, <1>6, <1>7 DEF Truth, ScriptTypes, InFlight, Begun, Delivery!rowVars
<1> QED
  BY <1>0, <1>2, <1>3, <1>7, <1>8, <1>9
     DEF DeliveryInv, TaskTypes, RowTypes, Delivery!taskVars, Delivery!rowVars

LEMMA SendKeeps ==
  ASSUME DeliveryInv, NEW a \in Delivery!Actors, Delivery!Send(a)
  PROVE  DeliveryInv' /\ row' = row
<1>0. ScriptTypes /\ TaskTypes /\ RowTypes /\ Truth
  BY DEF DeliveryInv
<1>1. PICK c : c = call[a]
  OBVIOUS
<1>2. c.step \in {"begun", "removed"} /\ c \in Delivery!Calls /\ script[a] # << >>
      /\ c.key \in Delivery!Keys
      /\ UNCHANGED <<Delivery!taskVars, Delivery!rowVars, job, script, service>>
  BY <1>0, <1>1, Claimed DEF Delivery!Send
<1>3. deliveryEvents' \in 0..MaxDeliveryEvents
  BY <1>0, DeliveryNumbers DEF Delivery!Send, Delivery!Event, TaskTypes
<1>4. PICK done \in BOOLEAN, o \in {"accepted", "failed", "unknown"} :
        /\ sent' = [sent EXCEPT ![c.key] = IF done THEN sent[c.key] + 1 ELSE sent[c.key]]
        /\ marks' = [marks EXCEPT ![c.key[1]] =
             IF done /\ c.key[3] \in Delivery!Marks THEN marks[c.key[1]] \cup {c.key[3]}
             ELSE marks[c.key[1]]]
        /\ call' = [call EXCEPT ![a] = [step |-> "answered", key |-> c.key, outcome |-> o]]
        /\ (o = "accepted" => done)
  BY <1>1 DEF Delivery!Send
<1>5. PICK d : d = [step |-> "answered", key |-> c.key, outcome |-> o]
  OBVIOUS
<1>6. d \in Delivery!Calls /\ d.step = "answered" /\ d.key = c.key /\ d.outcome = o
  BY <1>2, <1>5 DEF Delivery!Calls
<1>7. ScriptTypes' /\ call' = [call EXCEPT ![a] = d]
  BY <1>0, <1>2, <1>4, <1>5, <1>6, CallKeeps
<1>8. marks' \in [Tasks -> SUBSET Delivery!Marks]
  BY <1>0, <1>4 DEF RowTypes
<1>9. sent[c.key] = 0 /\ sent' \in [Delivery!Keys -> Nat] /\ sent'[c.key] \in {0, 1}
      /\ (o = "accepted" => sent'[c.key] = 1)
      /\ \A k \in Delivery!Keys : k # c.key => sent'[k] = sent[k]
  <2>1. sent[c.key] = 0
    BY <1>0, <1>1, <1>2 DEF Truth
  <2> QED
    BY <1>0, <1>2, <1>4, <2>1 DEF RowTypes
<1>10. InFlight(a, c.key) /\ \A b \in Delivery!Actors : InFlight(b, c.key) => b = a
  BY <1>0, <1>1, <1>2 DEF Truth, InFlight, Begun
<1>11. row' = row /\ row[c.key] \notin {"absent", "ready", "stale", "accepted"}
  BY <1>0, <1>2, <1>9, <1>10 DEF Truth, Delivery!rowVars
<1>12. \A b \in Delivery!Actors : b # a => call'[b] = call[b] /\ call'[a] = d
  BY <1>0, <1>7 DEF ScriptTypes
<1>13. call'[a] = d
  BY <1>0, <1>7 DEF ScriptTypes
<1>14. Truth'
  <2>1. \A k \in Delivery!Keys : sent'[k] <= 1 /\ (row[k] = "accepted" => sent'[k] = 1)
    BY <1>0, <1>9, <1>11 DEF Truth
  <2>2. \A k \in Delivery!Keys, b \in Delivery!Actors : InFlight(b, k)' => InFlight(b, k)
    BY <1>6, <1>10, <1>12, <1>13 DEF InFlight
  <2>3. \A k \in Delivery!Keys : row[k] \in {"absent", "ready", "stale"}
          => sent'[k] = 0 /\ \A b \in Delivery!Actors : ~InFlight(b, k)'
    BY <1>0, <1>9, <1>11, <2>2 DEF Truth
  <2>4. \A b \in Delivery!Actors : b # a /\ call[b].step \in Begun
          => call[b].key # c.key /\ call[b].key \in Delivery!Keys
    BY <1>0, <1>10, Claimed DEF InFlight, Begun
  <2>5. \A b \in Delivery!Actors : call'[b].step \in {"begun", "removed"} => sent'[call'[b].key] = 0
    BY <1>0, <1>6, <1>9, <1>12, <1>13, <2>4 DEF Truth, Begun
  <2>6. \A b \in Delivery!Actors : call'[b].step = "answered" /\ call'[b].outcome = "accepted"
          => sent'[call'[b].key] = 1
    BY <1>0, <1>6, <1>9, <1>12, <1>13, <2>4 DEF Truth, Begun
  <2>7. \A x, y \in Delivery!Actors : \A k \in Delivery!Keys : InFlight(x, k)'
          /\ InFlight(y, k)' => x = y
    BY <1>0, <2>2 DEF Truth
  <2> QED
    BY <1>11, <2>1, <2>3, <2>5, <2>6, <2>7 DEF Truth
<1> QED
  BY <1>0, <1>2, <1>3, <1>7, <1>8, <1>9, <1>11, <1>14
     DEF DeliveryInv, TaskTypes, RowTypes, Delivery!taskVars, Delivery!rowVars

LEMMA FinishKeeps ==
  ASSUME DeliveryInv, NEW a \in Delivery!Actors, Delivery!FinishDelivery(a)
  PROVE  DeliveryInv' /\ \A k \in Delivery!Keys : row[k] \in Delivery!Final => row'[k] = row[k]
<1>0. ScriptTypes /\ TaskTypes /\ RowTypes /\ Truth
  BY DEF DeliveryInv
<1>1. PICK c : c = call[a]
  OBVIOUS
<1>2. c.step = "answered" /\ c \in Delivery!Calls /\ script[a] # << >>
      /\ c.key \in Delivery!Keys /\ Delivery!Drop(a)
      /\ UNCHANGED <<Delivery!taskVars, relabelled, Delivery!world, job, service>>
  BY <1>0, <1>1, Claimed DEF Delivery!FinishDelivery
<1>3. deliveryEvents' \in 0..MaxDeliveryEvents
  BY <1>0, DeliveryNumbers DEF Delivery!FinishDelivery, Delivery!Event, TaskTypes
<1>4. c.outcome \in {"accepted", "failed", "unknown"}
  BY <1>2 DEF Delivery!Calls, Delivery!NoCall
<1>5. row' = row \/ (row[c.key] = "sending" /\ row' = [row EXCEPT ![c.key] = c.outcome])
  <2>1. row' = row
          \/ row' = [row EXCEPT ![c.key] = IF row[c.key] = "sending" THEN c.outcome ELSE row[c.key]]
    BY <1>1 DEF Delivery!FinishDelivery
  <2> QED
    BY <1>0, <1>2, <2>1 DEF RowTypes
<1>6. ScriptTypes' /\ call'[a] = Delivery!NoCall /\ Delivery!NoCall.step = "none"
        /\ \A b \in Delivery!Actors : b # a => call'[b] = call[b]
  BY <1>0, <1>2, DropKeeps
<1>7. RowTypes'
  BY <1>0, <1>2, <1>4, <1>5 DEF RowTypes, Delivery!RowStates, Delivery!world
<1>8. c.outcome = "accepted" => sent[c.key] = 1
  BY <1>0, <1>1, <1>2 DEF Truth
<1>9. Truth'
  BY <1>0, <1>2, <1>4, <1>5, <1>6, <1>8 DEF Truth, RowTypes, InFlight, Begun, Delivery!world
<1> QED
  BY <1>0, <1>2, <1>3, <1>5, <1>6, <1>7, <1>9
     DEF DeliveryInv, TaskTypes, Delivery!taskVars, Delivery!Final, RowTypes

LEMMA DeliverStageKeeps ==
  ASSUME DeliveryInv, NEW a \in Delivery!Actors, Delivery!deliverStage(a)
  PROVE  DeliveryInv' /\ row' = row
<1>0. ScriptTypes /\ TaskTypes /\ RowTypes /\ Truth
  BY DEF DeliveryInv
<1>1. call[a].step = "prepared" /\ Delivery!Enqueue(a) /\ a # "stages" /\ script[a] # << >>
      /\ UNCHANGED <<Delivery!taskVars, Delivery!rowVars, Delivery!world, job, service,
         deliveryEvents>>
  BY <1>0, Claimed, DeliveryNumbers DEF Delivery!deliverStage, Delivery!Queued
<1>2. ScriptTypes' /\ Truth'
  BY <1>0, <1>1, EnqueueKeeps, SameTruth DEF Begun, Delivery!rowVars, Delivery!world
<1> QED
  BY <1>0, <1>1, <1>2
     DEF DeliveryInv, TaskTypes, RowTypes, Delivery!taskVars, Delivery!rowVars, Delivery!world

LEMMA RefusedKeeps ==
  ASSUME DeliveryInv, NEW a \in Delivery!Actors, Delivery!Refused(a)
  PROVE  DeliveryInv' /\ row' = row
<1>0. ScriptTypes /\ TaskTypes /\ RowTypes /\ Truth
  BY DEF DeliveryInv
<1>1. Delivery!Drop(a) /\ script[a] # << >>
        /\ UNCHANGED <<Delivery!taskVars, Delivery!rowVars, Delivery!world, job, service>>
  BY <1>0, Claimed DEF Delivery!Refused, Delivery!Pending
<1>2. deliveryEvents' \in 0..MaxDeliveryEvents
  BY <1>0, DeliveryNumbers DEF Delivery!Refused, Delivery!Event, TaskTypes
<1>3. ScriptTypes' /\ Truth'
  BY <1>0, <1>1, DropKeeps, SameTruth DEF Begun, Delivery!rowVars, Delivery!world
<1> QED
  BY <1>0, <1>1, <1>2, <1>3
     DEF DeliveryInv, TaskTypes, RowTypes, Delivery!taskVars, Delivery!rowVars, Delivery!world

LEMMA DeliverKeeps ==
  ASSUME DeliveryInv, NEW a \in Delivery!Actors, Delivery!Deliver(a)
  PROVE  DeliveryInv' /\ \A k \in Delivery!Keys : row[k] \in Delivery!Final => row'[k] = row[k]
BY PrepareKeeps, DeliverStageKeeps, BeginKeeps, RemoveKeeps, SendKeeps, FinishKeeps
   DEF Delivery!Deliver

----------------------------------------------------------------------------
(* Tasks.                                                                  *)

\* A step of a task leaves rows and calls alone.
LEMMA TaskStep ==
  ASSUME DeliveryInv, UNCHANGED <<Delivery!rowVars, Delivery!world, call>>, ScriptTypes', TaskTypes'
  PROVE  DeliveryInv' /\ row' = row
<1>1. Truth'
  BY SameTruth DEF DeliveryInv, Delivery!rowVars, Delivery!world
<1> QED
  BY <1>1 DEF DeliveryInv, RowTypes, Delivery!rowVars, Delivery!world

LEMMA ClosingTyped == \A s : Delivery!Closing(s) \in Seq(Items)
<1> SUFFICES ASSUME NEW s PROVE Delivery!Closing(s) \in Seq(Items)
  OBVIOUS
<1>1. <<"failure", "notice">> \in Seq(Items) /\ <<"answer", "completion">> \in Seq(Items)
      /\ <<"answer">> \in Seq(Items)
  BY DEF Items, Delivery!Marks
<1>2. s = "completed" => s \notin Delivery!Failed
  BY DEF Delivery!Failed
<1>3. CASE s \in Delivery!Failed
  BY <1>1, <1>2, <1>3 DEF Delivery!Closing
<1>4. CASE s = "completed"
  BY <1>1, <1>2, <1>4 DEF Delivery!Closing
<1>5. CASE s \notin Delivery!Failed /\ s # "completed"
  BY <1>1, <1>5 DEF Delivery!Closing
<1> QED
  BY <1>3, <1>4, <1>5

LEMMA EventTyped ==
  ASSUME TaskTypes, NEW e, Delivery!Event(e)
  PROVE  deliveryEvents' \in 0..MaxDeliveryEvents
BY DeliveryNumbers DEF TaskTypes, Delivery!Event

LEMMA CompleteBatchKeeps ==
  ASSUME DeliveryInv, NEW t \in Tasks, NEW s \in Delivery!TaskStatus,
         Delivery!CompleteRuntimeBatch(t, s)
  PROVE  DeliveryInv' /\ row' = row
<1>0. ScriptTypes /\ TaskTypes
  BY DEF DeliveryInv
<1>1. PICK items : items = <<"receipt">> \o (IF s = "pending" THEN << >> ELSE Delivery!Closing(s))
  OBVIOUS
<1>2. items \in Seq(Items)
  <2>1. <<"receipt">> \in Seq(Items) /\ << >> \in Seq(Items) /\ Delivery!Closing(s) \in Seq(Items)
    BY ClosingTyped DEF Items, Delivery!Marks
  <2> QED
    BY <1>1, <2>1
<1>3. Delivery!Then(Delivery!Intake, t, items) /\ status' = [status EXCEPT ![t] = s]
      /\ UNCHANGED <<version, current, acting, Delivery!rowVars, Delivery!world, job, call,
         service, deliveryEvents>>
  BY <1>1 DEF Delivery!CompleteRuntimeBatch
<1>4. ScriptTypes'
  BY <1>0, <1>2, <1>3, ThenKeeps, DeliveryNumbers
<1>5. TaskTypes'
  BY <1>0, <1>3 DEF TaskTypes
<1> QED
  BY <1>3, <1>4, <1>5, TaskStep

LEMMA EditSourceKeeps ==
  ASSUME DeliveryInv, NEW t \in Tasks, Delivery!EditSource(t)
  PROVE  DeliveryInv' /\ row' = row
<1>0. ScriptTypes /\ TaskTypes
  BY DEF DeliveryInv
<1>1. UNCHANGED <<status, version, acting, Delivery!rowVars, Delivery!world, job, script, call,
        service>>
      /\ current' = [current EXCEPT ![t] = FALSE] /\ deliveryEvents' \in 0..MaxDeliveryEvents
  BY <1>0, EventTyped DEF Delivery!EditSource
<1>2. ScriptTypes' /\ TaskTypes'
  BY <1>0, <1>1 DEF ScriptTypes, TaskTypes
<1> QED
  BY <1>1, <1>2, TaskStep

LEMMA NewVersionTyped ==
  ASSUME TaskTypes, NEW t \in Tasks, NEW s \in Delivery!TaskStatus, Delivery!NewVersion(t, s)
  PROVE  /\ status' \in [Tasks -> Delivery!TaskStatus] /\ version' \in [Tasks -> 1..MaxVersion]
         /\ acting' \in [Tasks -> BOOLEAN]
            /\ UNCHANGED <<Delivery!rowVars, Delivery!world, job, call>>
<1>1. version[t] \in 1..MaxVersion /\ version[t] < MaxVersion /\ MaxVersion \in Nat
  BY DeliveryNumbers DEF TaskTypes, Delivery!NewVersion
<1>2. version[t] + 1 \in 1..MaxVersion
  BY <1>1
<1> QED
  BY <1>2 DEF TaskTypes, Delivery!NewVersion

LEMMA OperatorKeeps ==
  ASSUME DeliveryInv, NEW t \in Tasks, Delivery!Operator(t) \/ Delivery!SyncRuntimeMessages(t)
  PROVE  DeliveryInv' /\ row' = row
<1>0. ScriptTypes /\ TaskTypes
  BY DEF DeliveryInv
<1>1. CASE Delivery!EditSource(t)
  BY <1>1, EditSourceKeeps
<1>2. CASE Delivery!CancelTask(t) \/ Delivery!RetryTask(t) \/ Delivery!ResumeRuntimeTask(t)
  <2>1. PICK s \in {"cancelled", "pending"} : Delivery!NewVersion(t, s)
    BY <1>2 DEF Delivery!CancelTask, Delivery!RetryTask, Delivery!ResumeRuntimeTask
  <2>2. UNCHANGED <<current, script, service>> /\ deliveryEvents' \in 0..MaxDeliveryEvents
    BY <1>0, <1>2, EventTyped
       DEF Delivery!CancelTask, Delivery!RetryTask, Delivery!ResumeRuntimeTask
  <2>3. s \in Delivery!TaskStatus
    BY DEF Delivery!TaskStatus, Delivery!Failed
  <2>4. ScriptTypes' /\ TaskTypes'
    BY <1>0, <2>1, <2>2, <2>3, NewVersionTyped DEF ScriptTypes, TaskTypes
  <2> QED
    BY <1>0, <2>1, <2>3, <2>4, NewVersionTyped, TaskStep
<1>3. CASE Delivery!SyncRuntimeMessages(t)
  <2>1. PICK s \in {"cancelled", "stale"} : Delivery!NewVersion(t, s)
    BY <1>3 DEF Delivery!SyncRuntimeMessages
  <2>2. UNCHANGED <<current, script, service, deliveryEvents>>
    BY <1>3 DEF Delivery!SyncRuntimeMessages
  <2>3. s \in Delivery!TaskStatus
    BY DEF Delivery!TaskStatus, Delivery!Failed
  <2>4. ScriptTypes' /\ TaskTypes'
    BY <1>0, <2>1, <2>2, <2>3, NewVersionTyped DEF ScriptTypes, TaskTypes
  <2> QED
    BY <1>0, <2>1, <2>3, <2>4, NewVersionTyped, TaskStep
<1> QED
  BY <1>1, <1>2, <1>3 DEF Delivery!Operator

LEMMA UpdateTaskKeeps ==
  ASSUME DeliveryInv, NEW t \in Tasks, Delivery!UpdateTask(t)
  PROVE  DeliveryInv' /\ row' = row
<1>0. ScriptTypes /\ TaskTypes
  BY DEF DeliveryInv
<1>1. Delivery!NewVersion(t, "pending") /\ Delivery!Then(Delivery!Intake, t, <<"receipt">>)
      /\ UNCHANGED service
      /\ current' = [current EXCEPT ![t] = TRUE] /\ deliveryEvents' \in 0..MaxDeliveryEvents
  BY <1>0, EventTyped DEF Delivery!UpdateTask
<1>2. <<"receipt">> \in Seq(Items) /\ "pending" \in Delivery!TaskStatus
  BY DEF Items, Delivery!Marks, Delivery!TaskStatus
<1>3. status' \in [Tasks -> Delivery!TaskStatus] /\ version' \in [Tasks -> 1..MaxVersion]
      /\ acting' \in [Tasks -> BOOLEAN] /\ UNCHANGED <<Delivery!rowVars, Delivery!world, job, call>>
  BY <1>0, <1>1, <1>2, NewVersionTyped
<1>4. ScriptTypes'
  BY <1>0, <1>1, <1>2, <1>3, ThenKeeps, DeliveryNumbers
<1>5. TaskTypes'
  BY <1>0, <1>1, <1>3 DEF TaskTypes
<1> QED
  BY <1>3, <1>4, <1>5, TaskStep

LEMMA WorkerActs ==
  ASSUME NEW w \in Deliverers
  PROVE  w \in Delivery!Actors /\ w # "stages"
BY DeliveryNumbers

LEMMA ClaimTaskKeeps ==
  ASSUME DeliveryInv, NEW w \in Deliverers, NEW t \in Tasks, Delivery!ClaimRuntimeTask(w, t)
  PROVE  DeliveryInv' /\ row' = row
<1>0. ScriptTypes /\ TaskTypes
  BY DEF DeliveryInv
<1>1. status' = [status EXCEPT ![t] = "running"] /\ Delivery!Then(w, t, <<"receipt", "processing">>)
      /\ job' = [job EXCEPT ![w] = [doing |-> "task", task |-> t, version |-> version[t]]]
      /\ UNCHANGED <<version, current, acting, Delivery!rowVars, Delivery!world, call, service,
         deliveryEvents>>
  BY DEF Delivery!ClaimRuntimeTask
<1>2. <<"receipt", "processing">> \in Seq(Items)
  BY DEF Items, Delivery!Marks
<1>3. [doing |-> "task", task |-> t, version |-> version[t]] \in Delivery!Jobs
        /\ "running" \in Delivery!TaskStatus
  BY <1>0 DEF TaskTypes, Delivery!Jobs, Delivery!TaskStatus
<1>4. ScriptTypes'
  BY <1>0, <1>1, <1>2, ThenKeeps, WorkerActs
<1>5. TaskTypes'
  BY <1>0, <1>1, <1>3 DEF TaskTypes
<1> QED
  BY <1>1, <1>4, <1>5, TaskStep

LEMMA ClaimActionKeeps ==
  ASSUME DeliveryInv, NEW w \in Deliverers, NEW t \in Tasks, Delivery!ClaimRuntimeAction(w, t)
  PROVE  DeliveryInv' /\ row' = row
<1>0. ScriptTypes /\ TaskTypes
  BY DEF DeliveryInv
<1>1. acting' = [acting EXCEPT ![t] = TRUE] /\ Delivery!Then(w, t, <<"processing">>)
      /\ job' = [job EXCEPT ![w] = [doing |-> "action", task |-> t, version |-> version[t]]]
      /\ UNCHANGED <<status, version, current, Delivery!rowVars, Delivery!world, call, service,
         deliveryEvents>>
  BY DEF Delivery!ClaimRuntimeAction
<1>2. <<"processing">> \in Seq(Items)
  BY DEF Items, Delivery!Marks
<1>3. [doing |-> "action", task |-> t, version |-> version[t]] \in Delivery!Jobs
  BY <1>0 DEF TaskTypes, Delivery!Jobs
<1>4. ScriptTypes'
  BY <1>0, <1>1, <1>2, ThenKeeps, WorkerActs
<1>5. TaskTypes'
  BY <1>0, <1>1, <1>3 DEF TaskTypes
<1> QED
  BY <1>1, <1>4, <1>5, TaskStep

LEMMA EndsKeeps ==
  ASSUME DeliveryInv, NEW w \in Deliverers, NEW s \in Delivery!TaskStatus, Delivery!Ends(w, s)
  PROVE  DeliveryInv' /\ row' = row
<1>0. ScriptTypes /\ TaskTypes
  BY DEF DeliveryInv
<1>1. PICK t : t = job[w].task
  OBVIOUS
<1>2. t \in Tasks /\ job' = [job EXCEPT ![w] = Delivery!NoJob]
      /\ UNCHANGED <<version, current, Delivery!rowVars, Delivery!world, call, service,
         deliveryEvents>>
  BY <1>0, <1>1 DEF Delivery!Ends, TaskTypes, Delivery!Jobs, Delivery!NoJob
<1>3. PICK items \in Seq(Items) :
        /\ Delivery!Then(w, t, items)
        /\ \/ status' = [status EXCEPT ![t] = s] /\ acting' = [acting EXCEPT ![t] = FALSE]
           \/ UNCHANGED <<status, acting>>
  <2>1. << >> \in Seq(Items)
    OBVIOUS
  <2> QED
    BY <1>1, <2>1, ClosingTyped DEF Delivery!Ends
<1>4. ScriptTypes'
  BY <1>0, <1>2, <1>3, ThenKeeps, WorkerActs
<1>5. Delivery!NoJob \in Delivery!Jobs
  BY DEF Delivery!Jobs
<1>6. TaskTypes'
  BY <1>0, <1>2, <1>3, <1>5 DEF TaskTypes
<1> QED
  BY <1>2, <1>4, <1>6, TaskStep

LEMMA WorkKeeps ==
  ASSUME DeliveryInv, NEW w \in Deliverers,
         Delivery!executeClaimed(w) \/ Delivery!executeClaimedAction(w)
  PROVE  DeliveryInv' /\ row' = row
<1>1. PICK s \in Delivery!TaskStatus : Delivery!Ends(w, s)
  BY DEF Delivery!executeClaimed, Delivery!executeClaimedAction, Delivery!TaskStatus,
         Delivery!Failed
<1> QED
  BY <1>1, EndsKeeps

----------------------------------------------------------------------------
(* Policy changes, crashes and recovery.                                   *)

LEMMA RouteKeeps ==
  ASSUME DeliveryInv, Delivery!UpdateRoute
  PROVE  DeliveryInv' /\ \A k \in Delivery!Keys : row[k] \in Delivery!Final => row'[k] = row[k]
<1>0. ScriptTypes /\ TaskTypes /\ RowTypes /\ Truth
  BY DEF DeliveryInv
<1>1. PICK hit : hit = {k \in Delivery!Keys : row[k] = "ready"}
  OBVIOUS
<1>2. /\ row' = [k \in Delivery!Keys |-> IF k \in hit THEN "stale" ELSE row[k]]
      /\ relabelled' = relabelled \cup hit /\ deliveryEvents' \in 0..MaxDeliveryEvents
      /\ UNCHANGED <<Delivery!taskVars, Delivery!world, job, script, call, service>>
  BY <1>0, <1>1, EventTyped DEF Delivery!UpdateRoute
<1>3. ScriptTypes' /\ TaskTypes'
  BY <1>0, <1>2 DEF ScriptTypes, TaskTypes, Delivery!taskVars
<1>4. RowTypes'
  BY <1>0, <1>1, <1>2 DEF RowTypes, Delivery!RowStates, Delivery!world
<1>5. \A k \in Delivery!Keys : row'[k] = row[k] \/ (row[k] = "ready" /\ row'[k] = "stale")
  BY <1>1, <1>2
<1>6. Truth'
  BY <1>0, <1>2, <1>5 DEF Truth, InFlight, Begun, Delivery!world
<1> QED
  BY <1>3, <1>4, <1>5, <1>6 DEF DeliveryInv, Delivery!Final

LEMMA ConfigKeeps ==
  ASSUME DeliveryInv, Delivery!InvalidateRuntimeConfigWork
  PROVE  DeliveryInv' /\ \A k \in Delivery!Keys : row[k] \in Delivery!Final => row'[k] = row[k]
<1>0. ScriptTypes /\ TaskTypes /\ RowTypes /\ Truth
  BY DEF DeliveryInv
<1>1. PICK hit, open : hit = {k \in Delivery!Keys : row[k] \in {"ready", "sending"}}
        /\ open = {t \in Tasks : status[t] \in {"pending", "running", "clarification",
                                                "awaiting_confirmation", "failed"}}
  OBVIOUS
<1>2. /\ row' = [k \in Delivery!Keys |-> IF k \notin hit THEN row[k]
                                         ELSE IF row[k] = "ready" THEN "stale" ELSE "unknown"]
      /\ relabelled' = relabelled \cup {k \in hit : k[3] = "notice"}
         /\ deliveryEvents' \in 0..MaxDeliveryEvents
      /\ status' = [t \in Tasks |-> IF t \in open THEN "stale" ELSE status[t]]
      /\ version' = [t \in Tasks |-> IF t \in open THEN version[t] + 1 ELSE version[t]]
      /\ acting' = [t \in Tasks |-> FALSE] /\ \A t \in open : version[t] < MaxVersion
      /\ UNCHANGED <<current, Delivery!world, job, script, call, service>>
  BY <1>0, <1>1, EventTyped DEF Delivery!InvalidateRuntimeConfigWork
<1>3. ScriptTypes'
  BY <1>0, <1>2 DEF ScriptTypes
<1>4. \A t \in Tasks : version'[t] \in 1..MaxVersion
  BY <1>0, <1>2, DeliveryNumbers DEF TaskTypes
<1>5. TaskTypes'
  BY <1>0, <1>2, <1>4 DEF TaskTypes, Delivery!TaskStatus
<1>6. RowTypes'
  BY <1>0, <1>1, <1>2 DEF RowTypes, Delivery!RowStates, Delivery!world
<1>7. \A k \in Delivery!Keys : \/ row'[k] = row[k]
                               \/ row[k] = "ready" /\ row'[k] = "stale"
                               \/ row[k] = "sending" /\ row'[k] = "unknown"
  BY <1>1, <1>2
<1>8. Truth'
  BY <1>0, <1>2, <1>7 DEF Truth, InFlight, Begun, Delivery!world
<1> QED
  BY <1>3, <1>5, <1>6, <1>7, <1>8 DEF DeliveryInv, Delivery!Final

LEMMA CrashKeeps ==
  ASSUME DeliveryInv, Delivery!Crash
  PROVE  DeliveryInv' /\ row' = row
<1>0. ScriptTypes /\ TaskTypes /\ RowTypes /\ Truth
  BY DEF DeliveryInv
<1>1. /\ service' = Delivery!Down /\ job' = [w \in Deliverers |-> Delivery!NoJob]
         /\ script' = [a \in Delivery!Actors |-> << >>]
      /\ call' = [a \in Delivery!Actors |-> Delivery!NoCall]
         /\ deliveryEvents' \in 0..MaxDeliveryEvents
      /\ UNCHANGED <<Delivery!taskVars, Delivery!rowVars, Delivery!world>>
  BY <1>0, EventTyped DEF Delivery!Crash
<1>2. << >> \in Scripts /\ Len(<< >>) = 0 /\ 0 <= QueueLimit
        /\ Delivery!NoCall \in Delivery!Calls /\ Delivery!NoJob \in Delivery!Jobs
  BY DeliveryNumbers DEF Scripts, Delivery!Calls, Delivery!Jobs
<1>3. ScriptTypes'
  BY <1>1, <1>2, DeliveryNumbers DEF ScriptTypes
<1>4. TaskTypes'
  BY <1>0, <1>1, <1>2, DeliveryNumbers DEF TaskTypes, Delivery!taskVars
<1>5. Truth'
  BY <1>0, <1>1, SameTruth DEF Delivery!rowVars, Delivery!world, Delivery!NoCall, Begun
<1> QED
  BY <1>0, <1>1, <1>3, <1>4, <1>5 DEF DeliveryInv, RowTypes, Delivery!rowVars, Delivery!world

LEMMA RecoverKeeps ==
  ASSUME DeliveryInv, Delivery!RecoverRuntime
  PROVE  DeliveryInv' /\ \A k \in Delivery!Keys : row[k] \in Delivery!Final => row'[k] = row[k]
<1>0. ScriptTypes /\ TaskTypes /\ RowTypes /\ Truth
  BY DEF DeliveryInv
<1>1. /\ service' = 1 /\ acting' = [t \in Tasks |-> FALSE]
      /\ row' = [k \in Delivery!Keys |-> IF row[k] = "sending" THEN "unknown" ELSE row[k]]
      /\ UNCHANGED <<version, current, relabelled, Delivery!world, job, script, call,
         deliveryEvents>>
  BY DEF Delivery!RecoverRuntime
<1>2. status' \in [Tasks -> Delivery!TaskStatus]
  BY <1>0 DEF Delivery!RecoverRuntime, TaskTypes, Delivery!TaskStatus, Delivery!Failed
<1>3. ScriptTypes'
  BY <1>0, <1>1 DEF ScriptTypes
<1>4. TaskTypes'
  BY <1>0, <1>1, <1>2, DeliveryNumbers DEF TaskTypes
<1>5. RowTypes'
  BY <1>0, <1>1 DEF RowTypes, Delivery!RowStates, Delivery!world
<1>6. \A k \in Delivery!Keys : row'[k] = row[k] \/ (row[k] = "sending" /\ row'[k] = "unknown")
  BY <1>1
<1>7. Truth'
  BY <1>0, <1>1, <1>6 DEF Truth, InFlight, Begun, Delivery!world
<1> QED
  BY <1>3, <1>4, <1>5, <1>6, <1>7 DEF DeliveryInv, Delivery!Final

\* The list of a finite set is as long as the set is large.
LEMMA Lists ==
  ASSUME NEW T, IsFiniteSet(T), NEW order \in Delivery!SetToSeqs(T)
  PROVE  order \in Seq(T)
<1>1. Cardinality(T) \in Nat
  BY FS_CardinalityType
<1>2. order \in [1..Cardinality(T) -> T]
  BY DEF Delivery!SetToSeqs, Cardinality, Delivery!Cardinality
<1> QED
  BY <1>1, <1>2

LEMMA ReconcileKeeps ==
  ASSUME DeliveryInv, Delivery!reconcileStageAcknowledgements
  PROVE  DeliveryInv' /\ row' = row
<1>0. ScriptTypes /\ TaskTypes
  BY DEF DeliveryInv
<1>1. PICK pass, owed : pass = Delivery!Passes[service] /\ owed = Delivery!Owed(pass)
  OBVIOUS
<1>2. service \in 1..4 /\ service' = service + 1 /\ script["startup"] = << >>
      /\ UNCHANGED <<Delivery!taskVars, Delivery!rowVars, Delivery!world, job, call,
         deliveryEvents>>
  BY DeliveryNumbers DEF Delivery!reconcileStageAcknowledgements, Delivery!Pending
<1>3. pass \in Items
  BY <1>1, <1>2 DEF Delivery!Passes, Items, Delivery!Marks
<1>4. owed \subseteq Tasks
  BY <1>1 DEF Delivery!Owed
<1>5. IsFiniteSet(owed)
  <2>1. IsFiniteSet(Tasks)
    BY AgentResultsAssumption DEF Delivery!ResultDeliveryAssumption, IsFiniteSet, Delivery!IsFiniteSet
  <2> QED
    BY <1>4, <2>1, FS_Subset
<1>6. PICK order \in Delivery!SetToSeqs(owed) :
        script' = [script EXCEPT !["startup"] = [i \in 1..Len(order) |-> <<order[i], pass>>]]
  BY <1>1 DEF Delivery!reconcileStageAcknowledgements
<1>7. order \in Seq(Tasks)
  BY <1>4, <1>5, Lists
<1>8. PICK items : items = [i \in 1..Len(order) |-> <<order[i], pass>>]
  OBVIOUS
<1>9. items \in Scripts
  BY <1>3, <1>7, <1>8 DEF Scripts
<1>10. call["startup"] = Delivery!NoCall
  BY <1>0, <1>2, DeliveryNumbers DEF ScriptTypes
<1>11. ScriptTypes'
  BY <1>0, <1>2, <1>6, <1>8, <1>9, <1>10, DeliveryNumbers DEF ScriptTypes
<1>12. service' \in Delivery!Down..Delivery!Live
  BY <1>2, DeliveryNumbers
<1>13. TaskTypes'
  BY <1>0, <1>2, <1>12 DEF TaskTypes, Delivery!taskVars
<1> QED
  BY <1>2, <1>11, <1>13, TaskStep

LEMMA ServeKeeps ==
  ASSUME DeliveryInv, Delivery!Serve
  PROVE  DeliveryInv' /\ row' = row
<1>0. ScriptTypes /\ TaskTypes
  BY DEF DeliveryInv
<1>1. service' = Delivery!Live
        /\ UNCHANGED <<Delivery!taskVars, Delivery!rowVars, Delivery!world, job, script, call,
           deliveryEvents>>
  BY DEF Delivery!Serve
<1>2. ScriptTypes' /\ TaskTypes'
  BY <1>0, <1>1, DeliveryNumbers DEF ScriptTypes, TaskTypes, Delivery!taskVars
<1> QED
  BY <1>1, <1>2, TaskStep

----------------------------------------------------------------------------
LEMMA DeliveryStep ==
  ASSUME DeliveryInv, [Delivery!Next]_(Delivery!vars)
  PROVE  DeliveryInv' /\ \A k \in Delivery!Keys : row[k] \in Delivery!Final => row'[k] = row[k]
<1>1. CASE Delivery!Undisturbed
  <2>1. CASE \E t \in Tasks : Delivery!Operator(t) \/ Delivery!UpdateTask(t)
               \/ Delivery!SyncRuntimeMessages(t)
                              \/ \E s \in Delivery!TaskStatus : Delivery!CompleteRuntimeBatch(t, s)
    BY <2>1, OperatorKeeps, UpdateTaskKeeps, CompleteBatchKeeps
  <2>2. CASE \E w \in Deliverers :
               \/ \E t \in Tasks : Delivery!ClaimRuntimeTask(w, t)
                  \/ Delivery!ClaimRuntimeAction(w, t)
               \/ Delivery!executeClaimed(w) \/ Delivery!executeClaimedAction(w)
    BY <2>2, ClaimTaskKeeps, ClaimActionKeeps, WorkKeeps
  <2>3. CASE \E a \in Delivery!Actors : Delivery!Deliver(a)
    BY <2>3, DeliverKeeps
  <2> QED
    BY <1>1, <2>1, <2>2, <2>3, CrashKeeps, RecoverKeeps, ReconcileKeeps, ServeKeeps
       DEF Delivery!Undisturbed
<1>2. CASE UNCHANGED Delivery!vars
  <2>1. ScriptTypes' /\ TaskTypes' /\ RowTypes'
    BY <1>2 DEF Delivery!vars, DeliveryInv, ScriptTypes, TaskTypes, RowTypes
  <2> QED
    BY <1>2, <2>1, TaskStep DEF Delivery!vars, Delivery!rowVars, Delivery!world
<1> QED
  BY <1>1, <1>2, RefusedKeeps, RouteKeeps, ConfigKeeps DEF Delivery!Next

----------------------------------------------------------------------------
(* The completion mark does not overtake the answer.                       *)

At(a, i, x) == 1 <= i /\ i <= Len(script[a]) /\ script[a][i] = x
Calling(a, k) == call[a].step # "none" /\ call[a].key = k
First(t, what) == <<t, 1, what>>

\* An answer still to be given, the one being given included.  The call for a
\* confirmation is not: that answer cannot become a result any more.
Waiting(a, i, t) ==
  At(a, i, <<t, "answer">>) /\ ~(i = 1 /\ Calling(a, First(t, "confirmation")))
Marking(a, i, t) == At(a, i, <<t, "completion">>)

\* An actor is in the middle of the first delivery of its script; marks do not
\* answer, and a service that is not up has nothing else to deliver.
Heads ==
  /\ \A a \in Delivery!Actors : call[a].step # "none" =>
       LET k == call[a].key
           x == Head(script[a])
       IN /\ k[1] = x[1] /\ k[2] <= version[x[1]]
          /\ x[2] = "answer" => k[3] \in {"result", "confirmation"}
          /\ x[2] # "answer" => k[3] = x[2]
  /\ \A a \in {"stages", "startup"}, i \in Nat, t \in Tasks : ~At(a, i, <<t, "answer">>)
  /\ service # Delivery!Live =>
       /\ \A a \in Delivery!Actors : a # "startup" => script[a] = << >>
       /\ \A w \in Deliverers : job[w] = Delivery!NoJob

\* What a task of the first version has still to be told, by its status.
Ordered(t) ==
  /\ status[t] \in {"absent", "pending", "running"} =>
       /\ sent[First(t, "confirmation")] = 0
       /\ \A a \in Delivery!Actors : ~Calling(a, First(t, "confirmation"))
  /\ acting[t] => status[t] = "awaiting_confirmation"
  /\ \A w \in Deliverers : job[w].doing = "task" /\ job[w].task = t /\ job[w].version = 1 =>
       /\ status[t] = "running"
       /\ \A v \in Deliverers : job[v].doing = "task" /\ job[v].task = t /\ job[v].version = 1
            => v = w
  /\ \A a \in Delivery!Actors, i \in Nat : Marking(a, i, t) => status[t] = "completed"
  /\ \A a \in Delivery!Actors, i \in Nat : Waiting(a, i, t) =>
       /\ status[t] \in {"completed", "clarification", "awaiting_confirmation"} /\ ~acting[t]
       /\ sent[First(t, "completion")] = 0
       /\ status[t] = "awaiting_confirmation" => sent[First(t, "confirmation")] = 0
       /\ \A b \in Delivery!Actors :
            /\ ~Calling(b, First(t, "completion"))
            /\ status[t] = "awaiting_confirmation" => ~Calling(b, First(t, "confirmation"))
            /\ \A j \in Nat : /\ Waiting(b, j, t) => b = a /\ j = i
                              /\ Marking(b, j, t) => b = a /\ i < j

\* ... and of any version.
Announced(t) ==
  /\ \A a, b \in Delivery!Actors : Calling(a, First(t, "result")) =>
       sent[First(t, "completion")] = 0 /\ ~Calling(b, First(t, "completion"))
  /\ version[t] = 1 /\ status[t] # "completed" =>
       /\ sent[First(t, "completion")] = 0
       /\ \A a \in Delivery!Actors : ~Calling(a, First(t, "completion"))

OrderInv == Heads /\ \A t \in Tasks : Announced(t) /\ (version[t] = 1 => Ordered(t))

LEMMA Firsts ==
  ASSUME NEW t \in Tasks, NEW what \in Delivery!Kinds
  PROVE  First(t, what) \in Delivery!Keys /\ First(t, what)[1] = t
         /\ First(t, what)[2] = 1 /\ First(t, what)[3] = what
BY DeliveryNumbers DEF First, Delivery!Keys

LEMMA ThreeKinds == {"result", "confirmation", "completion"} \subseteq Delivery!Kinds
BY DEF Delivery!Kinds, Delivery!Marks

\* Scripts that lose deliveries, or pass a mark on, and calls that end or go on.
LEMMA ShrinksOrdered ==
  ASSUME \A t \in Tasks : Announced(t) /\ (version[t] = 1 => Ordered(t)),
         UNCHANGED <<status, version, acting, job>>,
         NEW s \in [Delivery!Actors -> {0, 1}],
         \A b \in Delivery!Actors, i \in Nat, t \in Tasks :
           /\ Waiting(b, i, t)' => Waiting(b, i + s[b], t)
           /\ Marking(b, i, t)' => \/ Marking(b, i + s[b], t)
                                   \/ \E c \in Delivery!Actors : Marking(c, 1, t),
         \A b \in Delivery!Actors, k \in Delivery!Keys : Calling(b, k)' => Calling(b, k),
         \A k \in Delivery!Keys : sent'[k] = sent[k] \/ \E b \in Delivery!Actors : Calling(b, k)
  PROVE  \A t \in Tasks : Announced(t)' /\ (version'[t] = 1 => Ordered(t)')
<1> TAKE t \in Tasks
<1>1. /\ First(t, "result") \in Delivery!Keys /\ First(t, "confirmation") \in Delivery!Keys
      /\ First(t, "completion") \in Delivery!Keys
  BY Firsts, ThreeKinds
<1>2. Announced(t)'
  BY <1>1 DEF Announced, First
<1>3. ASSUME version[t] = 1 PROVE Ordered(t)'
  <2>1. Ordered(t)
    BY <1>3
  <2>2. \A b \in Delivery!Actors, i \in Nat : i + s[b] \in Nat
    OBVIOUS
  <2>3. (\E c \in Delivery!Actors : Marking(c, 1, t)) =>
          status[t] = "completed" /\ \A b \in Delivery!Actors, i \in Nat : ~Waiting(b, i, t)'
    <3> SUFFICES ASSUME NEW c \in Delivery!Actors, Marking(c, 1, t)
                 PROVE  status[t] = "completed"
                        /\ \A b \in Delivery!Actors, i \in Nat : ~Waiting(b, i, t)'
      OBVIOUS
    <3>1. status[t] = "completed"
      BY <2>1 DEF Ordered
    <3>2. ASSUME NEW b \in Delivery!Actors, NEW i \in Nat, Waiting(b, i, t)' PROVE FALSE
      <4>1. Waiting(b, i + s[b], t) /\ i + s[b] \in Nat /\ i + s[b] >= 1
        BY <2>2, <3>2 DEF Waiting, At
      <4>2. i + s[b] < 1
        BY <2>1, <4>1 DEF Ordered
      <4> QED
        BY <4>1, <4>2
    <3> QED
      BY <3>1, <3>2
  <2>4. \A b \in Delivery!Actors, i \in Nat : Marking(b, i, t)' => status[t] = "completed"
    BY <2>1, <2>2, <2>3 DEF Ordered
  <2>5. ASSUME NEW a \in Delivery!Actors, NEW i \in Nat, Waiting(a, i, t)'
        PROVE  /\ status[t] \in {"completed", "clarification", "awaiting_confirmation"}
                  /\ ~acting[t]
               /\ sent'[First(t, "completion")] = 0
               /\ status[t] = "awaiting_confirmation" => sent'[First(t, "confirmation")] = 0
               /\ \A b \in Delivery!Actors :
                    /\ ~Calling(b, First(t, "completion"))'
                    /\ status[t] = "awaiting_confirmation" =>
                         ~Calling(b, First(t, "confirmation"))'
                    /\ \A j \in Nat : /\ Waiting(b, j, t)' => b = a /\ j = i
                                      /\ Marking(b, j, t)' => b = a /\ i < j
    <3>1. Waiting(a, i + s[a], t) /\ i + s[a] \in Nat
      BY <2>2, <2>5
    <3>2. /\ status[t] \in {"completed", "clarification", "awaiting_confirmation"} /\ ~acting[t]
          /\ sent[First(t, "completion")] = 0
          /\ status[t] = "awaiting_confirmation" => sent[First(t, "confirmation")] = 0
          /\ \A b \in Delivery!Actors :
               /\ ~Calling(b, First(t, "completion"))
               /\ status[t] = "awaiting_confirmation" => ~Calling(b, First(t, "confirmation"))
               /\ \A j \in Nat : /\ Waiting(b, j, t) => b = a /\ j = i + s[a]
                                 /\ Marking(b, j, t) => b = a /\ i + s[a] < j
      BY <2>1, <3>1 DEF Ordered
    <3>3. ASSUME NEW b \in Delivery!Actors, NEW j \in Nat, Waiting(b, j, t)'
          PROVE  b = a /\ j = i
      <4>1. Waiting(b, j + s[b], t) /\ j + s[b] \in Nat
        BY <2>2, <3>3
      <4>2. b = a /\ j + s[b] = i + s[a]
        BY <3>2, <4>1
      <4> QED
        BY <4>2
    <3>4. ASSUME NEW b \in Delivery!Actors, NEW j \in Nat, Marking(b, j, t)'
          PROVE  b = a /\ i < j
      <4>1. Marking(b, j + s[b], t) /\ j + s[b] \in Nat
        BY <2>2, <2>3, <2>5, <3>4
      <4>2. b = a /\ i + s[a] < j + s[b]
        BY <3>2, <4>1
      <4> QED
        BY <4>2
    <3> QED
      BY <1>1, <3>2, <3>3, <3>4 DEF First
  <2>6. /\ status[t] \in {"absent", "pending", "running"} =>
             /\ sent'[First(t, "confirmation")] = 0
             /\ \A a \in Delivery!Actors : ~Calling(a, First(t, "confirmation"))'
        /\ acting[t] => status[t] = "awaiting_confirmation"
        /\ \A w \in Deliverers : job[w].doing = "task" /\ job[w].task = t /\ job[w].version = 1 =>
             /\ status[t] = "running"
             /\ \A v \in Deliverers : job[v].doing = "task" /\ job[v].task = t
                                      /\ job[v].version = 1 => v = w
    BY <1>1, <2>1 DEF Ordered
  <2> QED
    BY <2>4, <2>5, <2>6 DEF Ordered, First
<1> QED
  BY <1>2, <1>3

\* A script that loses its head.
LEMMA TailShifts ==
  ASSUME NEW q \in Scripts, q # << >>, NEW i \in Nat, i \in 1..Len(Tail(q))
  PROVE  i + 1 \in 1..Len(q) /\ Tail(q)[i] = q[i + 1]
BY DEF Scripts

LEMMA DropOrdered ==
  ASSUME ScriptTypes, OrderInv, NEW a \in Delivery!Actors, script[a] # << >>, Delivery!Drop(a),
         UNCHANGED <<status, version, acting, job, service, sent>>
  PROVE  OrderInv'
<1>0. script \in [Delivery!Actors -> Scripts] /\ call \in [Delivery!Actors -> Delivery!Calls]
  BY DEF ScriptTypes
<1>1. /\ script' = [script EXCEPT ![a] = Tail(script[a])]
      /\ call' = [call EXCEPT ![a] = Delivery!NoCall] /\ Delivery!NoCall.step = "none"
  BY DEF Delivery!Drop, Delivery!NoCall
<1>2. \A x : \A b \in Delivery!Actors, i \in Nat :
        /\ At(b, i, x)' => At(b, i + (IF b = a THEN 1 ELSE 0), x)
        /\ b # a => (At(b, i, x)' <=> At(b, i, x))
  BY <1>0, <1>1, TailShifts DEF At
<1>3. \A k : \A b \in Delivery!Actors : /\ Calling(b, k)' => Calling(b, k)
                                    /\ b # a => (Calling(b, k)' <=> Calling(b, k))
  BY <1>0, <1>1 DEF Calling
<1>4. \A t \in Tasks : Announced(t)' /\ (version'[t] = 1 => Ordered(t)')
  <2>1. PICK s \in [Delivery!Actors -> {0, 1}] :
          \A b \in Delivery!Actors : s[b] = IF b = a THEN 1 ELSE 0
    <3> WITNESS [b \in Delivery!Actors |-> IF b = a THEN 1 ELSE 0]
                  \in [Delivery!Actors -> {0, 1}]
    <3> QED
      OBVIOUS
  <2>2. ASSUME NEW b \in Delivery!Actors, NEW i \in Nat, NEW t \in Tasks
        PROVE  /\ Waiting(b, i, t)' => Waiting(b, i + s[b], t)
               /\ Marking(b, i, t)' => Marking(b, i + s[b], t)
    <3>1. Marking(b, i, t)' => Marking(b, i + s[b], t)
      BY <1>2, <2>1 DEF Marking
    <3>2. CASE b = a
      <4>1. s[b] = 1
        BY <2>1, <3>2
      <4>2. At(b, i, <<t, "answer">>)' => At(b, i + 1, <<t, "answer">>)
        BY <1>2, <3>2
      <4>3. At(b, i, <<t, "answer">>)' => 1 <= i
        BY DEF At
      <4>4. i + 1 # 1 \/ ~(1 <= i)
        OBVIOUS
      <4> QED
        BY <3>1, <4>1, <4>2, <4>3, <4>4 DEF Waiting
    <3>3. CASE b # a
      BY <1>2, <1>3, <2>1, <3>1, <3>3 DEF Waiting, First
    <3> QED
      BY <3>2, <3>3
  <2>3. /\ \A b \in Delivery!Actors, k \in Delivery!Keys : Calling(b, k)' => Calling(b, k)
        /\ \A k \in Delivery!Keys : sent'[k] = sent[k]
    BY <1>0, <1>1 DEF Calling
  <2> QED
    BY <2>2, <2>3, ShrinksOrdered DEF OrderInv
<1>5. Heads'
  <2>1. /\ \A b \in Delivery!Actors : call'[b].step # "none" =>
             b # a /\ call'[b] = call[b] /\ script'[b] = script[b]
        /\ service # Delivery!Live => a = "startup"
    BY <1>0, <1>1 DEF OrderInv, Heads
  <2>2. \A b \in {"stages", "startup"}, i \in Nat, t \in Tasks : ~At(b, i, <<t, "answer">>)'
    <3> SUFFICES ASSUME NEW b \in {"stages", "startup"}, NEW i \in Nat, NEW t \in Tasks,
                        At(b, i, <<t, "answer">>)'
                 PROVE  FALSE
      OBVIOUS
    <3>1. b \in Delivery!Actors
      BY DeliveryNumbers
    <3>2. PICK j \in Nat : At(b, j, <<t, "answer">>)
      BY <1>2, <3>1
    <3> QED
      BY <3>2 DEF OrderInv, Heads
  <2> QED
    BY <1>0, <1>1, <2>1, <2>2 DEF OrderInv, Heads
<1> QED
  BY <1>4, <1>5 DEF OrderInv

LEMMA EnqueueOrdered ==
  ASSUME ScriptTypes, OrderInv, NEW a \in Delivery!Actors, script[a] # << >>,
         Delivery!Queued(a, Head(script[a])[2]), Delivery!Enqueue(a),
         UNCHANGED <<status, version, acting, job, service, sent>>
  PROVE  OrderInv'
<1>0. /\ script \in [Delivery!Actors -> Scripts] /\ call \in [Delivery!Actors -> Delivery!Calls]
      /\ a # "stages" /\ "stages" \in Delivery!Actors /\ a # "startup"
      /\ "startup" \in Delivery!Actors
  BY DeliveryNumbers DEF ScriptTypes, Delivery!Queued
<1>1. PICK x, q : x = Head(script[a]) /\ q = Append(script["stages"], x)
  OBVIOUS
<1>2. x \in Tasks \X Items /\ x[2] \in Delivery!Marks /\ x[2] # "answer" /\ x = script[a][1]
      /\ 1 <= Len(script[a])
  BY <1>0, <1>1 DEF Scripts, Delivery!Queued, Delivery!Marks
<1>3. /\ script' = [script EXCEPT ![a] = Tail(script[a]), !["stages"] = q]
      /\ call' = [call EXCEPT ![a] = Delivery!NoCall] /\ Delivery!NoCall.step = "none"
  BY <1>1 DEF Delivery!Enqueue, Delivery!NoCall
<1>4. script'[a] = Tail(script[a]) /\ script'["stages"] = q
      /\ \A b \in Delivery!Actors : b # a /\ b # "stages" => script'[b] = script[b]
  BY <1>0, <1>3
<1>5. ASSUME NEW i \in Nat, NEW y, At("stages", i, y)' PROVE At("stages", i, y) \/ y = x
  <2>1. script["stages"] \in Seq(Tasks \X Items)
    BY <1>0 DEF Scripts
  <2>2. i \in 1..Len(q) /\ q[i] = y
    BY <1>4, <1>5 DEF At
  <2>3. Len(q) = Len(script["stages"]) + 1 /\ Len(script["stages"]) \in Nat
        /\ q[Len(script["stages"]) + 1] = x
        /\ \A j \in 1..Len(script["stages"]) : q[j] = script["stages"][j]
    BY <1>1, <1>2, <2>1
  <2> QED
    BY <2>2, <2>3 DEF At
<1>6. \A y : \A b \in Delivery!Actors, i \in Nat :
        /\ At(b, i, y)' => At(b, i + (IF b = a THEN 1 ELSE 0), y) \/ (y = x /\ b = "stages")
        /\ b # a /\ b # "stages" => (At(b, i, y)' <=> At(b, i, y))
  BY <1>0, <1>4, <1>5, TailShifts DEF At
<1>7. \A k : \A b \in Delivery!Actors : /\ Calling(b, k)' => Calling(b, k)
                                    /\ b # a => (Calling(b, k)' <=> Calling(b, k))
  BY <1>0, <1>3 DEF Calling
<1>8. \A i \in Nat, t \in Tasks : ~At("stages", i, <<t, "answer">>)'
  <2> SUFFICES ASSUME NEW i \in Nat, NEW t \in Tasks, At("stages", i, <<t, "answer">>)'
               PROVE  FALSE
    OBVIOUS
  <2>1. x # <<t, "answer">>
    BY <1>2
  <2>2. At("stages", i, <<t, "answer">>)
    BY <1>5, <2>1
  <2> QED
    BY <2>2 DEF OrderInv, Heads
<1>9. \A t \in Tasks : Announced(t)' /\ (version'[t] = 1 => Ordered(t)')
  <2>1. PICK s \in [Delivery!Actors -> {0, 1}] :
          \A b \in Delivery!Actors : s[b] = IF b = a THEN 1 ELSE 0
    <3> WITNESS [b \in Delivery!Actors |-> IF b = a THEN 1 ELSE 0]
                  \in [Delivery!Actors -> {0, 1}]
    <3> QED
      OBVIOUS
  <2>2. ASSUME NEW b \in Delivery!Actors, NEW i \in Nat, NEW t \in Tasks, Marking(b, i, t)'
        PROVE  Marking(b, i + s[b], t) \/ \E c \in Delivery!Actors : Marking(c, 1, t)
    <3>1. CASE At(b, i + s[b], <<t, "completion">>)
      BY <3>1 DEF Marking
    <3>2. CASE x = <<t, "completion">>
      <4>1. Marking(a, 1, t)
        BY <1>2, <3>2 DEF Marking, At
      <4> QED
        BY <4>1
    <3> QED
      BY <1>6, <2>1, <2>2, <3>1, <3>2 DEF Marking
  <2>3. ASSUME NEW b \in Delivery!Actors, NEW i \in Nat, NEW t \in Tasks, Waiting(b, i, t)'
        PROVE  Waiting(b, i + s[b], t)
    <3>1. b # "stages" /\ x # <<t, "answer">>
      BY <1>2, <1>8, <2>3 DEF Waiting
    <3>2. CASE b = a
      <4>1. At(a, i, <<t, "answer">>)' /\ s[a] = 1 /\ 1 <= i
        BY <2>1, <2>3, <3>2 DEF Waiting, At
      <4>2. At(a, i + 1, <<t, "answer">>)
        BY <1>0, <1>6, <3>1, <4>1
      <4> QED
        BY <3>2, <4>1, <4>2 DEF Waiting
    <3>3. CASE b # a
      BY <1>6, <1>7, <2>1, <2>3, <3>1, <3>3 DEF Waiting, First
    <3> QED
      BY <3>2, <3>3
  <2>4. /\ \A b \in Delivery!Actors, k \in Delivery!Keys : Calling(b, k)' => Calling(b, k)
        /\ \A k \in Delivery!Keys : sent'[k] = sent[k]
    BY <1>0, <1>3 DEF Calling
  <2> QED
    BY <2>2, <2>3, <2>4, ShrinksOrdered DEF OrderInv
<1>10. Heads'
  <2>1. ASSUME NEW b \in Delivery!Actors, call'[b].step # "none"
        PROVE  /\ call'[b].key[1] = Head(script'[b])[1]
               /\ call'[b].key[2] <= version[Head(script'[b])[1]]
               /\ Head(script'[b])[2] = "answer" => call'[b].key[3] \in {"result", "confirmation"}
               /\ Head(script'[b])[2] # "answer" => call'[b].key[3] = Head(script'[b])[2]
    <3>1. b # a /\ call'[b] = call[b]
      BY <1>0, <1>3, <2>1
    <3>2. script[b] # << >> /\ script[b] \in Scripts
      BY <1>0, <2>1, <3>1, Claimed
    <3>3. Head(script'[b]) = Head(script[b])
      <4>1. CASE b = "stages"
        <5>1. script[b] \in Seq(Tasks \X Items) /\ script'[b] = Append(script[b], x)
          BY <1>1, <1>4, <3>2, <4>1 DEF Scripts
        <5> QED
          BY <1>2, <3>2, <5>1
      <4>2. CASE b # "stages"
        BY <1>4, <3>1, <4>2
      <4> QED
        BY <4>1, <4>2
    <3> QED
      BY <2>1, <3>1, <3>3 DEF OrderInv, Heads
  <2>2. service = Delivery!Live
    BY <1>0 DEF OrderInv, Heads
  <2>3. \A i \in Nat, t \in Tasks : ~At("startup", i, <<t, "answer">>)'
    BY <1>0, <1>6 DEF OrderInv, Heads
  <2> QED
    BY <1>8, <2>1, <2>2, <2>3 DEF Heads
<1> QED
  BY <1>9, <1>10 DEF OrderInv

\* A call that goes on with its delivery, and perhaps sends it.
LEMMA CallOrdered ==
  ASSUME ScriptTypes, RowTypes, OrderInv, NEW a \in Delivery!Actors, NEW d,
         call[a].step # "none", d.step # "none", d.key = call[a].key,
         call' = [call EXCEPT ![a] = d],
         sent' = sent \/ \E n : sent' = [sent EXCEPT ![d.key] = n],
         UNCHANGED <<status, version, acting, job, service, script>>
  PROVE  OrderInv'
<1>0. script \in [Delivery!Actors -> Scripts] /\ call \in [Delivery!Actors -> Delivery!Calls]
      /\ sent \in [Delivery!Keys -> Nat]
  BY DEF ScriptTypes, RowTypes
<1>1. \A b \in Delivery!Actors :
        /\ call'[b].step # "none" <=> call[b].step # "none"
        /\ call[b].step # "none" => call'[b].key = call[b].key
  BY <1>0
<1>2. \A b \in Delivery!Actors, k \in Delivery!Keys : Calling(b, k)' <=> Calling(b, k)
  BY <1>1 DEF Calling
<1>3. \A b \in Delivery!Actors, i \in Nat, t \in Tasks :
        /\ Waiting(b, i, t)' => Waiting(b, i, t)
        /\ Marking(b, i, t)' => Marking(b, i, t)
        /\ At(b, i, <<t, "answer">>)' => At(b, i, <<t, "answer">>)
  BY <1>1 DEF Waiting, Marking, At, Calling, First
<1>4. \A k \in Delivery!Keys :
        sent'[k] = sent[k] \/ \E b \in Delivery!Actors : Calling(b, k)
  <2> SUFFICES ASSUME NEW k \in Delivery!Keys, sent'[k] # sent[k] PROVE Calling(a, k)
    OBVIOUS
  <2>1. k = d.key
    BY <1>0
  <2> QED
    BY <2>1 DEF Calling
<1>5. \A t \in Tasks : Announced(t)' /\ (version'[t] = 1 => Ordered(t)')
  <2>1. PICK s \in [Delivery!Actors -> {0, 1}] : \A b \in Delivery!Actors : s[b] = 0
    <3> WITNESS [b \in Delivery!Actors |-> 0] \in [Delivery!Actors -> {0, 1}]
    <3> QED
      OBVIOUS
  <2>2. \A b \in Delivery!Actors, i \in Nat : i + s[b] = i
    BY <2>1
  <2>3. \A b \in Delivery!Actors, i \in Nat, t \in Tasks :
          /\ Waiting(b, i, t)' => Waiting(b, i + s[b], t)
          /\ Marking(b, i, t)' => Marking(b, i + s[b], t)
    BY <1>3, <2>2
  <2>4. \A b \in Delivery!Actors, k \in Delivery!Keys : Calling(b, k)' => Calling(b, k)
    BY <1>1 DEF Calling
  <2> QED
    BY <1>4, <2>3, <2>4, ShrinksOrdered DEF OrderInv
<1>6. Heads'
  BY <1>0, <1>1, <1>3, DeliveryNumbers DEF OrderInv, Heads
<1> QED
  BY <1>5, <1>6 DEF OrderInv

\* What keeps the order of a task whose row nobody touches.
LEMMA KeptOrdered ==
  ASSUME NEW t \in Tasks, Ordered(t), UNCHANGED <<status, acting, job, sent>>,
         status[t] \in {"absent", "pending", "running"} =>
           \A b \in Delivery!Actors : ~Calling(b, First(t, "confirmation"))',
         \A b \in Delivery!Actors, i \in Nat :
           /\ Marking(b, i, t)' => Marking(b, i, t)
           /\ Waiting(b, i, t)' =>
                /\ Waiting(b, i, t)
                /\ \A c \in Delivery!Actors :
                     /\ ~Calling(c, First(t, "completion"))'
                     /\ status[t] = "awaiting_confirmation" =>
                          ~Calling(c, First(t, "confirmation"))'
  PROVE  Ordered(t)'
<1>1. \A b \in Delivery!Actors, i \in Nat : Marking(b, i, t)' => status[t] = "completed"
  BY DEF Ordered
<1>2. ASSUME NEW a \in Delivery!Actors, NEW i \in Nat, Waiting(a, i, t)'
      PROVE  /\ status[t] \in {"completed", "clarification", "awaiting_confirmation"} /\ ~acting[t]
             /\ sent[First(t, "completion")] = 0
             /\ status[t] = "awaiting_confirmation" => sent[First(t, "confirmation")] = 0
             /\ \A b \in Delivery!Actors :
                  /\ ~Calling(b, First(t, "completion"))'
                  /\ status[t] = "awaiting_confirmation" =>
                       ~Calling(b, First(t, "confirmation"))'
                  /\ \A j \in Nat : /\ Waiting(b, j, t)' => b = a /\ j = i
                                    /\ Marking(b, j, t)' => b = a /\ i < j
  BY <1>2 DEF Ordered
<1> QED
  BY <1>1, <1>2 DEF Ordered, First

\* The key an actor prepares is that of its head, in the status of the moment.
LEMMA PreparedOrdered ==
  ASSUME ScriptTypes, TaskTypes, RowTypes, OrderInv,
         NEW a \in Delivery!Actors, NEW t \in Tasks, NEW item \in Items,
         script[a] # << >>, call[a].step = "none", Head(script[a]) = <<t, item>>,
         Delivery!Deliverable(Delivery!Key(t, item)),
         Delivery!Prepared(a, Delivery!Key(t, item)),
         UNCHANGED <<status, version, acting, job, service, sent>>
  PROVE  OrderInv'
<1>0. script \in [Delivery!Actors -> Scripts] /\ call \in [Delivery!Actors -> Delivery!Calls]
      /\ sent \in [Delivery!Keys -> Nat] /\ version \in [Tasks -> 1..MaxVersion]
      /\ status \in [Tasks -> Delivery!TaskStatus] /\ version[t] \in Nat
  BY DeliveryNumbers DEF ScriptTypes, RowTypes, TaskTypes
<1>1. PICK k : k = Delivery!Key(t, item)
  OBVIOUS
<1>2. /\ k = <<t, version[t], IF item # "answer" THEN item
                              ELSE IF status[t] = "awaiting_confirmation" THEN "confirmation"
                              ELSE "result">>
      /\ status[t] \in Delivery!StatusFor(k[3])
  BY <1>1, KeysOf DEF Delivery!Key, Delivery!KindOf, Delivery!Deliverable
<1>3. /\ script' = script /\ \A b \in Delivery!Actors : b # a => call'[b] = call[b]
      /\ call'[a].step # "none" /\ call'[a].key = k
  BY <1>0, <1>1 DEF Delivery!Prepared
<1>4. /\ \A b \in Delivery!Actors, l \in Delivery!Keys : Calling(b, l)' =>
           Calling(b, l) \/ (b = a /\ l = k)
      /\ \A b \in Delivery!Actors : b # a => \A l : Calling(b, l)' <=> Calling(b, l)
      /\ \A l : ~Calling(a, l) /\ (Calling(a, l)' => l = k)
  BY <1>0, <1>3 DEF Calling
<1>5. ASSUME NEW b \in Delivery!Actors, NEW i \in Nat, NEW u \in Tasks
      PROVE  /\ Waiting(b, i, u)' => Waiting(b, i, u)
             /\ Marking(b, i, u)' <=> Marking(b, i, u)
             /\ At(b, i, <<u, "answer">>)' <=> At(b, i, <<u, "answer">>)
  BY <1>3, <1>4 DEF Waiting, Marking, At, First
<1>6. /\ item = "completion" => Marking(a, 1, t)
      /\ item = "answer" => Waiting(a, 1, t)
      /\ ~Waiting(a, 1, t)' \/ k # First(t, "confirmation")
  <2>1. 1 <= Len(script[a]) /\ script[a][1] = <<t, item>>
    BY <1>0 DEF Scripts
  <2> QED
    BY <1>3, <1>4, <2>1 DEF Marking, Waiting, At, Calling
<1>7. /\ k = First(t, "completion") => item = "completion" /\ version[t] = 1
      /\ k = First(t, "result") => item = "answer" /\ version[t] = 1
      /\ k = First(t, "confirmation") => item = "answer" /\ version[t] = 1
                                         /\ status[t] = "awaiting_confirmation"
      /\ \A u \in Tasks, what \in Delivery!Kinds : k = First(u, what) => u = t
  BY <1>2 DEF First, Items, Delivery!Marks
<1>8. /\ First(t, "result") # First(t, "completion")
         /\ First(t, "result") # First(t, "confirmation")
      /\ First(t, "completion") # First(t, "confirmation")
  BY DEF First
<1>9. \A u \in Tasks : /\ First(u, "result") \in Delivery!Keys
                       /\ First(u, "confirmation") \in Delivery!Keys
                       /\ First(u, "completion") \in Delivery!Keys
  BY Firsts, ThreeKinds
<1>10. \A u \in Tasks : u # t => Announced(u)' /\ (version'[u] = 1 => Ordered(u)')
  <2> SUFFICES ASSUME NEW u \in Tasks, u # t PROVE Announced(u)' /\ (version'[u] = 1 => Ordered(u)')
    OBVIOUS
  <2>1. \A b \in Delivery!Actors : /\ Calling(b, First(u, "result"))' <=> Calling(b, First(u, "result"))
                                   /\ Calling(b, First(u, "completion"))' <=> Calling(b,
                                      First(u, "completion"))
                                   /\ Calling(b, First(u, "confirmation"))' <=> Calling(b,
                                      First(u, "confirmation"))
    BY <1>4, <1>7, ThreeKinds
  <2>2. Announced(u)'
    BY <2>1 DEF OrderInv, Announced, First
  <2>3. ASSUME version[u] = 1 PROVE Ordered(u)'
    <3>1. Ordered(u)
      BY <2>3 DEF OrderInv
    <3>2. ASSUME NEW b \in Delivery!Actors, NEW i \in Nat, Waiting(b, i, u)'
          PROVE  /\ Waiting(b, i, u)
                 /\ \A c \in Delivery!Actors :
                      /\ ~Calling(c, First(u, "completion"))'
                      /\ status[u] = "awaiting_confirmation" =>
                           ~Calling(c, First(u, "confirmation"))'
      BY <1>5, <2>1, <3>1, <3>2 DEF Ordered
    <3>3. status[u] \in {"absent", "pending", "running"} =>
            \A b \in Delivery!Actors : ~Calling(b, First(u, "confirmation"))'
      BY <2>1, <3>1 DEF Ordered
    <3> QED
      BY <1>5, <3>1, <3>2, <3>3, KeptOrdered
  <2> QED
    BY <2>2, <2>3
<1>11. Announced(t)' /\ (version'[t] = 1 => Ordered(t)')
  <2>1. CASE version[t] # 1
    <3>1. \A b \in Delivery!Actors :
            /\ Calling(b, First(t, "result"))' => Calling(b, First(t, "result"))
            /\ Calling(b, First(t, "completion"))' => Calling(b, First(t, "completion"))
      BY <1>4, <1>7, <1>9, <2>1
    <3> QED
      BY <2>1, <3>1 DEF OrderInv, Announced, First
  <2>2. CASE version[t] = 1
    <3>1. Ordered(t) /\ Announced(t)
      BY <2>2 DEF OrderInv
    <3>2. item = "completion" =>
            /\ status[t] = "completed"
            /\ \A b \in Delivery!Actors, i \in Nat : ~Waiting(b, i, t)
      <4> SUFFICES ASSUME item = "completion"
                   PROVE  /\ status[t] = "completed"
                          /\ \A b \in Delivery!Actors, i \in Nat : ~Waiting(b, i, t)
        OBVIOUS
      <4>1. Marking(a, 1, t)
        BY <1>6
      <4>2. ASSUME NEW b \in Delivery!Actors, NEW i \in Nat, Waiting(b, i, t) PROVE FALSE
        <5>1. 1 <= i
          BY <4>2 DEF Waiting, At
        <5>2. i < 1
          BY <3>1, <4>1, <4>2 DEF Ordered
        <5> QED
          BY <5>1, <5>2
      <4> QED
        BY <3>1, <4>1, <4>2 DEF Ordered
    <3>3. \A b \in Delivery!Actors : Calling(b, First(t, "result")) => Waiting(b, 1, t)
      <4> SUFFICES ASSUME NEW b \in Delivery!Actors, Calling(b, First(t, "result"))
                   PROVE  Waiting(b, 1, t)
        OBVIOUS
      <4>1. call[b].step # "none" /\ call[b].key = First(t, "result")
        BY DEF Calling
      <4>2. script[b] # << >> /\ script[b] \in Scripts
        BY <1>0, <4>1, Claimed
      <4>3. Head(script[b]) = <<t, "answer">>
        <5>1. Head(script[b]) \in Tasks \X Items
          BY <4>2 DEF Scripts
        <5>2. Head(script[b])[1] = t /\ Head(script[b])[2] = "answer"
          BY <4>1, <5>1 DEF OrderInv, Heads, First, Items, Delivery!Marks
        <5> QED
          BY <5>1, <5>2
      <4>4. 1 <= Len(script[b]) /\ script[b][1] = <<t, "answer">>
        BY <4>2, <4>3 DEF Scripts
      <4> QED
        BY <1>8, <4>1, <4>4 DEF Waiting, At, Calling
    <3>4. Announced(t)'
      <4>1. ASSUME NEW b \in Delivery!Actors, NEW c \in Delivery!Actors,
                   Calling(b, First(t, "result"))'
            PROVE  sent[First(t, "completion")] = 0 /\ ~Calling(c, First(t, "completion"))'
        <5>1. Waiting(b, 1, t)
          BY <1>4, <1>6, <1>7, <1>9, <3>3, <4>1
        <5>2. sent[First(t, "completion")] = 0 /\ ~Calling(c, First(t, "completion"))
          BY <3>1, <5>1 DEF Ordered
        <5> QED
          BY <1>4, <1>7, <1>9, <3>2, <5>1, <5>2
      <4>2. ASSUME status[t] # "completed"
            PROVE  sent[First(t, "completion")] = 0
                   /\ \A b \in Delivery!Actors : ~Calling(b, First(t, "completion"))'
        BY <1>4, <1>7, <1>9, <2>2, <3>1, <3>2, <4>2 DEF Announced
      <4> QED
        BY <4>1, <4>2 DEF Announced, First
    <3>5. ASSUME NEW b \in Delivery!Actors, NEW i \in Nat, Waiting(b, i, t)'
          PROVE  /\ Waiting(b, i, t)
                 /\ \A c \in Delivery!Actors :
                      /\ ~Calling(c, First(t, "completion"))'
                      /\ status[t] = "awaiting_confirmation"
                         => ~Calling(c, First(t, "confirmation"))'
      <4>1. Waiting(b, i, t)
        BY <1>5, <3>5
      <4>2. item # "completion"
        BY <3>2, <4>1
      <4>3. k # First(t, "confirmation")
        <5> SUFFICES ASSUME k = First(t, "confirmation") PROVE FALSE
          OBVIOUS
        <5>1. Waiting(a, 1, t)
          BY <1>6, <1>7
        <5>2. b = a /\ i = 1
          BY <3>1, <4>1, <5>1 DEF Ordered
        <5> QED
          BY <1>6, <3>5, <5>2
      <4> QED
        BY <1>4, <1>7, <1>9, <3>1, <4>1, <4>2, <4>3 DEF Ordered
    <3>6. Ordered(t)'
      <4>1. status[t] \in {"absent", "pending", "running"} =>
              \A b \in Delivery!Actors : ~Calling(b, First(t, "confirmation"))'
        BY <1>4, <1>7, <1>9, <3>1 DEF Ordered
      <4> QED
        BY <1>5, <3>1, <3>5, <4>1, KeptOrdered
    <3> QED
      BY <3>4, <3>6
  <2> QED
    BY <2>1, <2>2
<1>12. Heads'
  <2>1. Head(script[a])[1] = t /\ Head(script[a])[2] = item /\ k[1] = t /\ k[2] = version[t]
        /\ (item = "answer" => k[3] \in {"result", "confirmation"})
        /\ (item # "answer" => k[3] = item)
    BY <1>2
  <2>2. \A b \in {"stages", "startup"}, i \in Nat, u \in Tasks : ~At(b, i, <<u, "answer">>)'
    BY <1>5, DeliveryNumbers DEF OrderInv, Heads
  <2>3. ASSUME NEW b \in Delivery!Actors, call'[b].step # "none"
        PROVE  /\ call'[b].key[1] = Head(script'[b])[1]
               /\ call'[b].key[2] <= version[Head(script'[b])[1]]
               /\ Head(script'[b])[2] = "answer" => call'[b].key[3] \in {"result", "confirmation"}
               /\ Head(script'[b])[2] # "answer" => call'[b].key[3] = Head(script'[b])[2]
    <3>1. CASE b = a
      BY <1>0, <1>3, <2>1, <3>1
    <3>2. CASE b # a
      BY <1>3, <2>3, <3>2 DEF OrderInv, Heads
    <3> QED
      BY <3>1, <3>2
  <2> QED
    BY <1>3, <2>2, <2>3 DEF OrderInv, Heads
<1> QED
  BY <1>10, <1>11, <1>12 DEF OrderInv

LEMMA DeliverOrdered ==
  ASSUME DeliveryInv, OrderInv, NEW a \in Delivery!Actors,
         Delivery!Deliver(a) \/ Delivery!Refused(a)
  PROVE  OrderInv'
<1>0. ScriptTypes /\ TaskTypes /\ RowTypes
  BY DEF DeliveryInv
<1> USE DEF Delivery!taskVars, Delivery!world
<1>1. PICK c : c = call[a]
  OBVIOUS
<1>2. call \in [Delivery!Actors -> Delivery!Calls] /\ c \in Delivery!Calls
      /\ (c.step # "none" => script[a] # << >> /\ c.key \in Delivery!Keys)
  BY <1>0, <1>1, Claimed DEF ScriptTypes
<1>3. CASE Delivery!Drop(a) /\ script[a] # << >>
           /\ UNCHANGED <<status, version, acting, job, service, sent>>
  BY <1>0, <1>3, DropOrdered
<1>4. CASE Delivery!prepareTaskDelivery(a)
  <2>1. PICK t, item, k : t = Head(script[a])[1] /\ item = Head(script[a])[2]
          /\ k = Delivery!Key(t, item)
    OBVIOUS
  <2>2. script[a] # << >> /\ script[a] \in Scripts /\ call[a] = Delivery!NoCall
        /\ call[a].step = "none" /\ UNCHANGED <<status, version, acting, job, service, sent>>
    BY <1>0, <1>4 DEF Delivery!prepareTaskDelivery, Delivery!Pending, Delivery!NoCall, ScriptTypes
  <2>3. Head(script[a]) \in Tasks \X Items
    BY <2>2 DEF Scripts
  <2>4. t \in Tasks /\ item \in Items /\ Head(script[a]) = <<t, item>>
    BY <2>1, <2>3
  <2>5. \/ Delivery!Drop(a)
        \/ Delivery!Queued(a, Head(script[a])[2]) /\ Delivery!Enqueue(a)
        \/ Delivery!Deliverable(k) /\ Delivery!Prepared(a, k)
    BY <1>4, <2>1 DEF Delivery!prepareTaskDelivery
  <2>6. CASE Delivery!Queued(a, Head(script[a])[2]) /\ Delivery!Enqueue(a)
    BY <1>0, <2>2, <2>6, EnqueueOrdered
  <2>7. CASE Delivery!Deliverable(k) /\ Delivery!Prepared(a, k)
    BY <1>0, <2>1, <2>2, <2>4, <2>7, PreparedOrdered
  <2> QED
    BY <1>3, <2>2, <2>5, <2>6, <2>7
<1>5. CASE Delivery!deliverStage(a)
  <2>1. c.step = "prepared" /\ Delivery!Queued(a, Head(script[a])[2]) /\ Delivery!Enqueue(a)
        /\ UNCHANGED <<status, version, acting, job, service, sent>>
    BY <1>1, <1>5 DEF Delivery!deliverStage
  <2> QED
    BY <1>0, <1>2, <2>1, EnqueueOrdered
<1>6. CASE Delivery!BeginDelivery(a)
  <2>1. c.step = "prepared" /\ UNCHANGED <<status, version, acting, job, service, sent>>
    BY <1>1, <1>6 DEF Delivery!BeginDelivery
  <2>2. \/ Delivery!Drop(a)
        \/ call' = [call EXCEPT ![a] = [c EXCEPT !.step = "begun"]] /\ UNCHANGED script
    BY <1>1, <1>6 DEF Delivery!BeginDelivery
  <2>3. CASE call' = [call EXCEPT ![a] = [c EXCEPT !.step = "begun"]] /\ UNCHANGED script
    <3>1. PICK d : d = [c EXCEPT !.step = "begun"]
      OBVIOUS
    <3>2. d.step = "begun" /\ d.key = c.key
      BY <1>2, <2>1, <3>1 DEF Delivery!Calls, Delivery!NoCall
    <3> QED
      BY <1>0, <1>1, <2>1, <2>3, <3>1, <3>2, CallOrdered
  <2> QED
    BY <1>2, <1>3, <2>1, <2>2, <2>3
<1>7. CASE Delivery!RemoveReaction(a)
  <2>1. c.step = "begun" /\ UNCHANGED <<status, version, acting, job, service, sent, script>>
    BY <1>1, <1>7 DEF Delivery!RemoveReaction
  <2>2. PICK o \in {"ok", "denied", "unclear"} :
          call' = [call EXCEPT ![a] = [c EXCEPT !.step = "removed", !.cleanup = o]]
    BY <1>1, <1>7 DEF Delivery!RemoveReaction
  <2>3. PICK d : d = [c EXCEPT !.step = "removed", !.cleanup = o]
    OBVIOUS
  <2>4. d.step = "removed" /\ d.key = c.key
    BY <1>2, <2>1, <2>3 DEF Delivery!Calls, Delivery!NoCall
  <2> QED
    BY <1>0, <1>1, <2>1, <2>2, <2>3, <2>4, CallOrdered
<1>8. CASE Delivery!Send(a)
  <2>1. c.step \in {"begun", "removed"}
          /\ UNCHANGED <<status, version, acting, job, service, script>>
    BY <1>1, <1>8 DEF Delivery!Send
  <2>2. PICK done \in BOOLEAN, o \in {"accepted", "failed", "unknown"} :
          /\ sent' = [sent EXCEPT ![c.key] = IF done THEN sent[c.key] + 1 ELSE sent[c.key]]
          /\ call' = [call EXCEPT ![a] = [step |-> "answered", key |-> c.key, outcome |-> o]]
    BY <1>1, <1>8 DEF Delivery!Send
  <2>3. PICK d, n : d = [step |-> "answered", key |-> c.key, outcome |-> o]
                    /\ n = IF done THEN sent[c.key] + 1 ELSE sent[c.key]
    OBVIOUS
  <2>4. d.step = "answered" /\ d.key = c.key
    BY <2>3
  <2>5. call' = [call EXCEPT ![a] = d] /\ sent' = [sent EXCEPT ![d.key] = n]
    BY <2>2, <2>3, <2>4
  <2> QED
    BY <1>0, <1>1, <2>1, <2>4, <2>5, CallOrdered
<1>9. CASE Delivery!FinishDelivery(a)
  <2>1. c.step = "answered" /\ Delivery!Drop(a)
        /\ UNCHANGED <<status, version, acting, job, service, sent>>
    BY <1>1, <1>9 DEF Delivery!FinishDelivery
  <2> QED
    BY <1>2, <1>3, <2>1
<1>10. CASE Delivery!Refused(a)
  <2>1. (c.step = "prepared" \/ script[a] # << >>) /\ Delivery!Drop(a)
        /\ UNCHANGED <<status, version, acting, job, service, sent>>
    BY <1>1, <1>10 DEF Delivery!Refused, Delivery!Pending
  <2> QED
    BY <1>2, <1>3, <2>1
<1> QED
  BY <1>4, <1>5, <1>6, <1>7, <1>8, <1>9, <1>10 DEF Delivery!Deliver

\* Tasks that a step leaves alone.
LEMMA ApartOrdered ==
  ASSUME NEW t \in Tasks, Ordered(t), UNCHANGED <<sent, call>>,
         status'[t] = status[t], (acting'[t] => acting[t]),
         \A w \in Deliverers : job'[w].doing = "task" /\ job'[w].task = t /\ job'[w].version = 1
           => job'[w] = job[w],
         \A b \in Delivery!Actors, i \in Nat :
           /\ At(b, i, <<t, "answer">>)' => At(b, i, <<t, "answer">>)
           /\ At(b, i, <<t, "completion">>)' => At(b, i, <<t, "completion">>)
  PROVE  Ordered(t)'
<1>1. \A b \in Delivery!Actors : \A k : Calling(b, k)' <=> Calling(b, k)
  BY DEF Calling
<1>2. \A b \in Delivery!Actors, i \in Nat :
        /\ Waiting(b, i, t)' => Waiting(b, i, t)
        /\ Marking(b, i, t)' => Marking(b, i, t)
  BY <1>1 DEF Waiting, Marking, First
<1>3. ASSUME NEW a \in Delivery!Actors, NEW i \in Nat, Waiting(a, i, t)'
      PROVE  /\ status[t] \in {"completed", "clarification", "awaiting_confirmation"}
             /\ ~acting'[t]
             /\ sent[First(t, "completion")] = 0
             /\ status[t] = "awaiting_confirmation" => sent[First(t, "confirmation")] = 0
             /\ \A b \in Delivery!Actors :
                  /\ ~Calling(b, First(t, "completion"))
                  /\ status[t] = "awaiting_confirmation" => ~Calling(b, First(t, "confirmation"))
                  /\ \A j \in Nat : /\ Waiting(b, j, t)' => b = a /\ j = i
                                    /\ Marking(b, j, t)' => b = a /\ i < j
  BY <1>2, <1>3 DEF Ordered
<1>4. \A b \in Delivery!Actors : /\ Calling(b, First(t, "completion"))' <=> Calling(b, First(t, "completion"))
                                 /\ Calling(b, First(t, "confirmation"))' <=> Calling(b,
                                    First(t, "confirmation"))
  BY DEF Calling, First
<1>5. \A w \in Deliverers : job'[w].doing = "task" /\ job'[w].task = t /\ job'[w].version = 1 =>
        /\ status[t] = "running"
        /\ \A v \in Deliverers : job'[v].doing = "task" /\ job'[v].task = t /\ job'[v].version = 1
             => v = w
  BY DEF Ordered
<1>6. /\ status[t] \in {"absent", "pending", "running"} =>
           /\ sent[First(t, "confirmation")] = 0
           /\ \A a \in Delivery!Actors : ~Calling(a, First(t, "confirmation"))
      /\ acting'[t] => status[t] = "awaiting_confirmation"
      /\ \A a \in Delivery!Actors, i \in Nat : Marking(a, i, t)' => status[t] = "completed"
  BY <1>2 DEF Ordered
<1> QED
  BY <1>3, <1>4, <1>5, <1>6 DEF Ordered, First

\* A task that has reached status s, with its one answer at place p.
LEMMA AnswerOrdered ==
  ASSUME NEW t \in Tasks, NEW a \in Delivery!Actors, NEW p \in Nat, NEW s,
         UNCHANGED <<sent, call>>, status'[t] = s, ~acting'[t],
         s \in {"absent", "pending", "running", "awaiting_confirmation"} =>
           /\ sent[First(t, "confirmation")] = 0
           /\ \A b \in Delivery!Actors : ~Calling(b, First(t, "confirmation")),
         /\ sent[First(t, "completion")] = 0
         /\ \A b \in Delivery!Actors : ~Calling(b, First(t, "completion")),
         \A w \in Deliverers :
           ~(job'[w].doing = "task" /\ job'[w].task = t /\ job'[w].version = 1),
         \A b \in Delivery!Actors, i \in Nat :
           /\ At(b, i, <<t, "answer">>)' =>
                b = a /\ i = p /\ s \in {"completed", "clarification", "awaiting_confirmation"}
           /\ At(b, i, <<t, "completion">>)' => b = a /\ i = p + 1 /\ s = "completed"
  PROVE  Ordered(t)'
<1>1. \A b \in Delivery!Actors : /\ Calling(b, First(t, "completion"))' <=> Calling(b, First(t, "completion"))
                                 /\ Calling(b, First(t, "confirmation"))' <=> Calling(b,
                                    First(t, "confirmation"))
  BY DEF Calling, First
<1>2. \A b \in Delivery!Actors, i \in Nat :
        /\ Waiting(b, i, t)' => b = a /\ i = p
             /\ s \in {"completed", "clarification", "awaiting_confirmation"}
        /\ Marking(b, i, t)' => b = a /\ i = p + 1 /\ s = "completed"
  BY DEF Waiting, Marking
<1>3. p < p + 1
  OBVIOUS
<1> QED
  BY <1>1, <1>2, <1>3 DEF Ordered, First

LEMMA ApartAnnounced ==
  ASSUME NEW t \in Tasks, Announced(t), UNCHANGED <<sent, call>>,
         version'[t] = 1 /\ status'[t] # "completed" => version[t] = 1 /\ status[t] # "completed"
  PROVE  Announced(t)'
<1>1. \A b \in Delivery!Actors : /\ Calling(b, First(t, "completion"))' <=> Calling(b, First(t, "completion"))
                                 /\ Calling(b, First(t, "result"))' <=> Calling(b,
                                    First(t, "result"))
  BY DEF Calling, First
<1> QED
  BY <1>1 DEF Announced, First

\* A step that starts a new version of some tasks.
LEMMA VersionsHeads ==
  ASSUME ScriptTypes, TaskTypes, Heads, UNCHANGED <<script, call, job, service>>,
         \A t \in Tasks : version[t] <= version'[t] /\ version'[t] \in Nat
  PROVE  Heads'
<1>1. ASSUME NEW a \in Delivery!Actors, call[a].step # "none"
      PROVE  call[a].key[2] <= version'[Head(script[a])[1]]
  <2>1. script[a] # << >> /\ script[a] \in Scripts /\ call[a].key \in Delivery!Keys
    BY <1>1, Claimed DEF ScriptTypes
  <2>2. Head(script[a])[1] \in Tasks
    BY <2>1 DEF Scripts
  <2>3. call[a].key[2] \in Nat /\ version[Head(script[a])[1]] \in Nat
    BY <2>1, <2>2, DeliveryNumbers DEF TaskTypes, Delivery!Keys
  <2> QED
    BY <1>1, <2>2, <2>3 DEF Heads
<1>2. \A a \in {"stages", "startup"}, i \in Nat, t \in Tasks : ~At(a, i, <<t, "answer">>)'
  BY DEF Heads, At
<1> QED
  BY <1>1, <1>2 DEF Heads

\* What is appended to a script.
LEMMA ThenAt ==
  ASSUME ScriptTypes, NEW a \in Delivery!Actors, NEW t \in Tasks, NEW items \in Seq(Items),
         Delivery!Then(a, t, items)
  PROVE  /\ \A b \in Delivery!Actors, i \in Nat : \A x : At(b, i, x)' =>
              \/ At(b, i, x)
              \/ b = a /\ \E j \in 1..Len(items) : i = Len(script[a]) + j /\ x = <<t, items[j]>>
         /\ Len(script[a]) \in Nat
         /\ \A b \in Delivery!Actors : script[b] # << >> => Head(script'[b]) = Head(script[b])
<1>1. PICK more : more = [i \in 1..Len(items) |-> <<t, items[i]>>]
  OBVIOUS
<1>2. more \in Seq(Tasks \X Items) /\ Len(more) = Len(items) /\ Len(items) \in Nat
  BY <1>1
<1>3. script \in [Delivery!Actors -> Scripts] /\ script[a] \in Seq(Tasks \X Items)
  BY DEF ScriptTypes, Scripts
<1>4. script' = [script EXCEPT ![a] = script[a] \o more]
  BY <1>1 DEF Delivery!Then
<1>5. script'[a] = script[a] \o more /\ \A b \in Delivery!Actors : b # a => script'[b] = script[b]
  BY <1>3, <1>4
<1>6. PICK q : q = script[a] \o more
  OBVIOUS
<1>7. /\ q \in Seq(Tasks \X Items) /\ Len(q) = Len(script[a]) + Len(more) /\ Len(script[a]) \in Nat
      /\ \A i \in 1..Len(q) : q[i] = IF i <= Len(script[a]) THEN script[a][i]
                                     ELSE more[i - Len(script[a])]
  BY <1>2, <1>3, <1>6
<1>8. ASSUME NEW i \in Nat, NEW x, At(a, i, x)', ~At(a, i, x)
      PROVE  \E j \in 1..Len(items) : i = Len(script[a]) + j /\ x = <<t, items[j]>>
  <2>1. i \in 1..Len(q) /\ q[i] = x /\ ~(i <= Len(script[a]))
    BY <1>5, <1>6, <1>7, <1>8 DEF At
  <2>2. i - Len(script[a]) \in 1..Len(items) /\ i = Len(script[a]) + (i - Len(script[a]))
    <3>1. PICK m \in Nat : m = Len(script[a])
      BY <1>7
    <3>2. PICK n \in Nat : n = Len(items)
      BY <1>2
    <3>3. Len(q) = m + n /\ i <= Len(q) /\ ~(i <= m)
      BY <1>2, <1>7, <2>1, <3>1, <3>2
    <3>4. i - m \in 1..n /\ i = m + (i - m)
      BY <3>3
    <3> QED
      BY <3>1, <3>2, <3>4
  <2>3. x = <<t, items[i - Len(script[a])]>>
    BY <1>1, <1>7, <2>1, <2>2
  <2> QED
    BY <2>2, <2>3
<1>9. script[a] # << >> => Head(script'[a]) = Head(script[a])
  BY <1>3, <1>5, <1>6, <1>7
<1>10. ASSUME NEW b \in Delivery!Actors, NEW i \in Nat, NEW x, At(b, i, x)'
       PROVE  \/ At(b, i, x)
              \/ b = a /\ \E j \in 1..Len(items) : i = Len(script[a]) + j /\ x = <<t, items[j]>>
  <2>1. CASE b = a
    BY <1>8, <1>10, <2>1
  <2>2. CASE b # a
    BY <1>5, <1>10, <2>2 DEF At
  <2> QED
    BY <2>1, <2>2
<1> QED
  BY <1>5, <1>7, <1>9, <1>10

\* A task that starts another version, and perhaps something to acknowledge it.
LEMMA NewVersionOrdered ==
  ASSUME DeliveryInv, OrderInv, NEW t \in Tasks, NEW s \in Delivery!TaskStatus,
         Delivery!NewVersion(t, s), UNCHANGED service,
         \/ UNCHANGED script
         \/ Delivery!Then(Delivery!Intake, t, <<"receipt">>) /\ service = Delivery!Live
  PROVE  OrderInv'
<1>0. ScriptTypes /\ TaskTypes /\ Heads
  BY DEF DeliveryInv, OrderInv
<1>1. /\ UNCHANGED <<call, sent, job>> /\ \A u \in Tasks : version[u] <= version'[u]
         /\ version'[u] \in Nat
      /\ version'[t] # 1
      /\ \A u \in Tasks : u # t => version'[u] = version[u] /\ status'[u] = status[u]
                                   /\ acting'[u] = acting[u]
  <2>1. \A u \in Tasks : version[u] \in Nat /\ 1 <= version[u]
    BY <1>0, DeliveryNumbers DEF TaskTypes
  <2> QED
    BY <1>0, <2>1 DEF Delivery!NewVersion, TaskTypes, Delivery!world
<1>2. \A b \in Delivery!Actors, i \in Nat, u \in Tasks :
        /\ At(b, i, <<u, "answer">>)' => At(b, i, <<u, "answer">>)
        /\ At(b, i, <<u, "completion">>)' => At(b, i, <<u, "completion">>)
  <2>1. CASE UNCHANGED script
    BY <2>1 DEF At
  <2>2. CASE Delivery!Then(Delivery!Intake, t, <<"receipt">>)
    <3>1. PICK items : items = <<"receipt">>
      OBVIOUS
    <3>2. items \in Seq(Items) /\ \A j \in 1..Len(items) : items[j] = "receipt"
      BY <3>1 DEF Items, Delivery!Marks
    <3> SUFFICES ASSUME NEW b \in Delivery!Actors, NEW i \in Nat, NEW u \in Tasks,
                        NEW item \in {"answer", "completion"}, At(b, i, <<u, item>>)'
                 PROVE  At(b, i, <<u, item>>)
      OBVIOUS
    <3>3. Delivery!Then(Delivery!Intake, t, items)
      BY <2>2, <3>1
    <3>4. \A x : At(b, i, x)' => \/ At(b, i, x)
                               \/ \E j \in 1..Len(items) : x = <<t, items[j]>>
      BY <1>0, <3>2, <3>3, ThenAt, DeliveryNumbers
    <3>5. At(b, i, <<u, item>>)' => \/ At(b, i, <<u, item>>)
                                   \/ \E j \in 1..Len(items) : <<u, item>> = <<t, items[j]>>
      BY <3>4
    <3> QED
      BY <3>2, <3>5
  <2> QED
    BY <2>1, <2>2
<1>3. ASSUME NEW u \in Tasks PROVE Announced(u)' /\ (version'[u] = 1 => Ordered(u)')
  <2>1. Announced(u)'
    BY <1>1, ApartAnnounced DEF OrderInv
  <2>2. ASSUME version'[u] = 1 PROVE Ordered(u)'
    <3>1. u # t /\ Ordered(u)
      BY <1>1, <2>2 DEF OrderInv
    <3> QED
      BY <1>1, <1>2, <3>1, ApartOrdered
  <2> QED
    BY <2>1, <2>2
<1>4. Heads'
  <2>1. CASE UNCHANGED script
    BY <1>0, <1>1, <2>1, VersionsHeads
  <2>2. CASE Delivery!Then(Delivery!Intake, t, <<"receipt">>) /\ service = Delivery!Live
    <3>1. <<"receipt">> \in Seq(Items)
      BY DEF Items, Delivery!Marks
    <3>2. \A b \in Delivery!Actors : script[b] # << >> => Head(script'[b]) = Head(script[b])
      BY <1>0, <2>2, <3>1, ThenAt, DeliveryNumbers
    <3>3. \A b \in {"stages", "startup"}, i \in Nat, u \in Tasks : ~At(b, i, <<u, "answer">>)'
      BY <1>0, <1>2, DeliveryNumbers DEF Heads
    <3>4. ASSUME NEW b \in Delivery!Actors, call[b].step # "none"
          PROVE  /\ Head(script'[b]) = Head(script[b])
                 /\ call[b].key[2] <= version'[Head(script[b])[1]]
      <4>1. script[b] # << >> /\ script[b] \in Scripts /\ call[b].key \in Delivery!Keys
        BY <1>0, <3>4, Claimed DEF ScriptTypes
      <4>2. Head(script[b])[1] \in Tasks
        BY <4>1 DEF Scripts
      <4>3. call[b].key[2] \in Nat /\ version[Head(script[b])[1]] \in Nat
        BY <1>0, <4>1, <4>2, DeliveryNumbers DEF TaskTypes, Delivery!Keys
      <4> QED
        BY <1>0, <1>1, <3>2, <3>4, <4>1, <4>2, <4>3 DEF Heads
    <3> QED
      BY <1>0, <1>1, <2>2, <3>3, <3>4 DEF Heads
  <2> QED
    BY <2>1, <2>2
<1> QED
  BY <1>3, <1>4 DEF OrderInv

\* Steps of a live service that append to the script of one goroutine.
LEMMA ThenHeads ==
  ASSUME ScriptTypes, Heads, NEW a \in Delivery!Actors, a \notin {"stages", "startup"},
         NEW t \in Tasks, NEW items \in Seq(Items), Delivery!Then(a, t, items),
         service = Delivery!Live, UNCHANGED <<version, call, service>>
  PROVE  Heads'
<1>1. \A b \in {"stages", "startup"}, i \in Nat, u \in Tasks : ~At(b, i, <<u, "answer">>)'
  <2> SUFFICES ASSUME NEW b \in {"stages", "startup"}, NEW i \in Nat, NEW u \in Tasks,
                      At(b, i, <<u, "answer">>)'
               PROVE  FALSE
    OBVIOUS
  <2>1. b \in Delivery!Actors /\ b # a
    BY DeliveryNumbers
  <2>2. At(b, i, <<u, "answer">>)
    BY <2>1, ThenAt
  <2> QED
    BY <2>2 DEF Heads
<1>2. ASSUME NEW b \in Delivery!Actors, call[b].step # "none"
      PROVE  Head(script'[b]) = Head(script[b])
  <2>1. script[b] # << >>
    BY <1>2, Claimed DEF ScriptTypes
  <2> QED
    BY <2>1, ThenAt
<1> QED
  BY <1>1, <1>2 DEF Heads

LEMMA ClosingItems ==
  ASSUME NEW s, NEW j \in 1..Len(Delivery!Closing(s))
  PROVE  /\ Delivery!Closing(s)[j] = "answer" => j = 1 /\ s \notin Delivery!Failed
         /\ Delivery!Closing(s)[j] = "completion" => j = 2 /\ s = "completed"
<1>1. s = "completed" => s \notin Delivery!Failed
  BY DEF Delivery!Failed
<1>2. CASE s \in Delivery!Failed
  <2>1. Delivery!Closing(s) = <<"failure", "notice">>
    BY <1>1, <1>2 DEF Delivery!Closing
  <2> QED
    BY <1>2, <2>1
<1>3. CASE s = "completed"
  <2>1. Delivery!Closing(s) = <<"answer", "completion">>
    BY <1>1, <1>3 DEF Delivery!Closing
  <2> QED
    BY <1>1, <1>3, <2>1
<1>4. CASE s \notin Delivery!Failed /\ s # "completed"
  <2>1. Delivery!Closing(s) = <<"answer">>
    BY <1>4 DEF Delivery!Closing
  <2> QED
    BY <1>4, <2>1
<1> QED
  BY <1>2, <1>3, <1>4

LEMMA BatchOrdered ==
  ASSUME DeliveryInv, OrderInv, NEW t \in Tasks, NEW s \in Delivery!TaskStatus,
         Delivery!CompleteRuntimeBatch(t, s)
  PROVE  OrderInv'
<1>0. ScriptTypes /\ TaskTypes /\ Heads
  BY DEF DeliveryInv, OrderInv
<1>1. PICK rest : rest = IF s = "pending" THEN << >> ELSE Delivery!Closing(s)
  OBVIOUS
<1>2. PICK items : items = <<"receipt">> \o rest
  OBVIOUS
<1>3. rest \in Seq(Items) /\ <<"receipt">> \in Seq(Items)
  BY <1>1, ClosingTyped DEF Items, Delivery!Marks
<1>4. items \in Seq(Items) /\ Len(items) = Len(rest) + 1 /\ Len(rest) \in Nat
      /\ items[1] = "receipt" /\ \A j \in 2..Len(items) : items[j] = rest[j - 1]
  BY <1>2, <1>3
<1>5. /\ Delivery!Then(Delivery!Intake, t, items) /\ status' = [status EXCEPT ![t] = s]
      /\ status[t] = "absent" /\ s \in {"pending", "clarification", "completed"}
      /\ service = Delivery!Live
      /\ UNCHANGED <<version, acting, sent, job, call, service>>
  BY <1>1, <1>2 DEF Delivery!CompleteRuntimeBatch, Delivery!Analysing, Delivery!world
<1>6. \A j \in 1..Len(items) :
        /\ items[j] = "answer" => j = 2 /\ s \in {"clarification", "completed"}
        /\ items[j] = "completion" => j = 3 /\ s = "completed"
  <2> SUFFICES ASSUME NEW j \in 1..Len(items), items[j] # "receipt"
               PROVE  /\ items[j] = "answer" => j = 2 /\ s \in {"clarification", "completed"}
                      /\ items[j] = "completion" => j = 3 /\ s = "completed"
    OBVIOUS
  <2>1. j \in 2..Len(items) /\ j - 1 \in 1..Len(rest) /\ items[j] = rest[j - 1]
    BY <1>4
  <2>2. s # "pending" /\ rest = Delivery!Closing(s)
    BY <1>1, <2>1
  <2>3. /\ rest[j - 1] = "answer" => j - 1 = 1
        /\ rest[j - 1] = "completion" => j - 1 = 2 /\ s = "completed"
    BY <2>1, <2>2, ClosingItems
  <2> QED
    BY <1>5, <2>1, <2>2, <2>3
<1>7. PICK n \in Nat : n = Len(script[Delivery!Intake])
  BY <1>0, <1>4, <1>5, ThenAt, DeliveryNumbers
<1>8. ASSUME NEW b \in Delivery!Actors, NEW i \in Nat, NEW u \in Tasks
      PROVE  /\ At(b, i, <<u, "answer">>)' =>
                  \/ At(b, i, <<u, "answer">>)
                  \/ u = t /\ b = Delivery!Intake /\ i = n + 2
                     /\ s \in {"clarification", "completed"}
             /\ At(b, i, <<u, "completion">>)' =>
                  \/ At(b, i, <<u, "completion">>)
                  \/ u = t /\ b = Delivery!Intake /\ i = n + 3 /\ s = "completed"
  <2>1. \A x : At(b, i, x)' => \/ At(b, i, x)
                               \/ b = Delivery!Intake /\ \E j \in 1..Len(items) :
                                    i = n + j /\ x = <<t, items[j]>>
    BY <1>0, <1>4, <1>5, <1>7, ThenAt, DeliveryNumbers
  <2>2. ASSUME At(b, i, <<u, "answer">>)', ~At(b, i, <<u, "answer">>)
        PROVE  u = t /\ b = Delivery!Intake /\ i = n + 2 /\ s \in {"clarification", "completed"}
    <3>1. PICK j \in 1..Len(items) : i = n + j /\ <<u, "answer">> = <<t, items[j]>>
      BY <2>1, <2>2
    <3> QED
      BY <1>6, <2>1, <2>2, <3>1
  <2>3. ASSUME At(b, i, <<u, "completion">>)', ~At(b, i, <<u, "completion">>)
        PROVE  u = t /\ b = Delivery!Intake /\ i = n + 3 /\ s = "completed"
    <3>1. PICK j \in 1..Len(items) : i = n + j /\ <<u, "completion">> = <<t, items[j]>>
      BY <2>1, <2>3
    <3> QED
      BY <1>6, <2>1, <2>3, <3>1
  <2> QED
    BY <2>2, <2>3
<1>9. \A u \in Tasks : u # t => status'[u] = status[u]
  BY <1>0, <1>5 DEF TaskTypes
<1>10. status'[t] = s
  BY <1>0, <1>5 DEF TaskTypes
<1>11. ASSUME NEW u \in Tasks PROVE Announced(u)' /\ (version'[u] = 1 => Ordered(u)')
  <2>1. Announced(u)'
    BY <1>5, <1>9, <1>10, ApartAnnounced DEF OrderInv
  <2>2. ASSUME version[u] = 1, u # t PROVE Ordered(u)'
    BY <1>5, <1>8, <1>9, <2>2, ApartOrdered DEF OrderInv
  <2>3. ASSUME version[t] = 1 PROVE Ordered(t)'
    <3>1. Ordered(t) /\ Announced(t)
      BY <2>3 DEF OrderInv
    <3>2. \A b \in Delivery!Actors, i \in Nat : ~Waiting(b, i, t) /\ ~Marking(b, i, t)
      BY <1>5, <3>1 DEF Ordered
    <3>3. ~acting[t] /\ sent[First(t, "confirmation")] = 0
          /\ \A b \in Delivery!Actors : ~Calling(b, First(t, "confirmation"))
      BY <1>5, <3>1 DEF Ordered
    <3>4. \A b \in Delivery!Actors, i \in Nat :
            ~At(b, i, <<t, "answer">>) /\ ~At(b, i, <<t, "completion">>)
      BY <3>2, <3>3 DEF Waiting, Marking
    <3>5. sent[First(t, "completion")] = 0
          /\ \A b \in Delivery!Actors : ~Calling(b, First(t, "completion"))
      BY <1>5, <2>3, <3>1 DEF Announced
    <3>6. \A w \in Deliverers : ~(job[w].doing = "task" /\ job[w].task = t /\ job[w].version = 1)
      BY <1>5, <3>1 DEF Ordered
    <3>7. n + 2 \in Nat /\ (n + 2) + 1 = n + 3
      OBVIOUS
    <3>8. PICK p \in Nat : p = n + 2
      BY <3>7
    <3>9. \A b \in Delivery!Actors, i \in Nat :
           /\ At(b, i, <<t, "answer">>)' =>
                b = Delivery!Intake /\ i = p
                  /\ s \in {"completed", "clarification", "awaiting_confirmation"}
           /\ At(b, i, <<t, "completion">>)' => b = Delivery!Intake /\ i = p + 1 /\ s = "completed"
      BY <1>8, <3>4, <3>7, <3>8
    <3>10. UNCHANGED <<sent, call>> /\ ~acting'[t]
           /\ \A w \in Deliverers :
                ~(job'[w].doing = "task" /\ job'[w].task = t /\ job'[w].version = 1)
      BY <1>5, <3>3, <3>6
    <3> QED
      BY <1>10, <3>3, <3>5, <3>8, <3>9, <3>10, AnswerOrdered, DeliveryNumbers
  <2> QED
    BY <1>5, <2>1, <2>2, <2>3
<1>12. Heads'
  BY <1>0, <1>4, <1>5, ThenHeads, DeliveryNumbers
<1> QED
  BY <1>11, <1>12 DEF OrderInv

LEMMA WorkerApart == \A w \in Deliverers : w \in Delivery!Actors /\ w \notin {"stages", "startup"}
BY DeliveryNumbers

LEMMA ClaimTaskOrdered ==
  ASSUME DeliveryInv, OrderInv, NEW w \in Deliverers, NEW t \in Tasks,
         Delivery!ClaimRuntimeTask(w, t)
  PROVE  OrderInv'
<1>0. ScriptTypes /\ TaskTypes /\ Heads
  BY DEF DeliveryInv, OrderInv
<1>1. PICK items : items = <<"receipt", "processing">>
  OBVIOUS
<1>2. items \in Seq(Items) /\ \A j \in 1..Len(items) : items[j] \notin {"answer", "completion"}
  BY <1>1 DEF Items, Delivery!Marks
<1>3. /\ status[t] = "pending" /\ status' = [status EXCEPT ![t] = "running"]
      /\ Delivery!Then(w, t, items) /\ service = Delivery!Live
      /\ job' = [job EXCEPT ![w] = [doing |-> "task", task |-> t, version |-> version[t]]]
      /\ UNCHANGED <<version, acting, sent, call, service>>
  BY <1>1 DEF Delivery!ClaimRuntimeTask, Delivery!world
<1>4. ASSUME NEW b \in Delivery!Actors, NEW i \in Nat, NEW u \in Tasks,
             NEW item \in {"answer", "completion"}, At(b, i, <<u, item>>)'
      PROVE  At(b, i, <<u, item>>)
  <2>1. \/ At(b, i, <<u, item>>)
        \/ \E j \in 1..Len(items) : <<u, item>> = <<t, items[j]>>
    BY <1>0, <1>2, <1>3, <1>4, ThenAt, WorkerApart
  <2> QED
    BY <1>2, <2>1
<1>5. Heads'
  BY <1>0, <1>2, <1>3, ThenHeads, WorkerApart
<1>6. /\ status'[t] = "running" /\ \A u \in Tasks : u # t => status'[u] = status[u]
      /\ \A v \in Deliverers : v # w => job'[v] = job[v]
      /\ job'[w].task = t /\ job'[w].doing = "task"
  BY <1>0, <1>3 DEF TaskTypes
<1>7. ASSUME NEW u \in Tasks PROVE Announced(u)' /\ (version'[u] = 1 => Ordered(u)')
  <2>1. Announced(u)'
    BY <1>3, <1>6, ApartAnnounced DEF OrderInv
  <2>2. ASSUME version[u] = 1, u # t PROVE Ordered(u)'
    <3>1. \A v \in Deliverers : job'[v].doing = "task" /\ job'[v].task = u => job'[v] = job[v]
      BY <1>6, <2>2
    <3>2. Ordered(u) /\ (acting'[u] => acting[u]) /\ status'[u] = status[u]
            /\ UNCHANGED <<sent, call>>
      BY <1>3, <1>6, <2>2 DEF OrderInv
    <3> QED
      BY <1>4, <3>1, <3>2, ApartOrdered
  <2>3. ASSUME version[t] = 1 PROVE Ordered(t)'
    <3>1. Ordered(t)
      BY <2>3 DEF OrderInv
    <3>2. /\ ~acting[t] /\ sent[First(t, "confirmation")] = 0
          /\ \A b \in Delivery!Actors : ~Calling(b, First(t, "confirmation"))
          /\ \A v \in Deliverers : ~(job[v].doing = "task" /\ job[v].task = t /\ job[v].version = 1)
      BY <1>3, <3>1 DEF Ordered
    <3>3. \A b \in Delivery!Actors, i \in Nat :
            ~At(b, i, <<t, "answer">>) /\ ~At(b, i, <<t, "completion">>)
      BY <1>3, <3>1, <3>2 DEF Ordered, Waiting, Marking
    <3>4. \A b \in Delivery!Actors, i \in Nat : ~Waiting(b, i, t)' /\ ~Marking(b, i, t)'
      BY <1>4, <3>3 DEF Waiting, Marking
    <3>5. \A v \in Deliverers : job'[v].doing = "task" /\ job'[v].task = t /\ job'[v].version = 1
            => v = w
      BY <1>6, <3>2
    <3>6. \A b \in Delivery!Actors : ~Calling(b, First(t, "confirmation"))'
      BY <1>3, <3>2 DEF Calling, First
    <3> QED
      BY <1>3, <1>6, <3>2, <3>4, <3>5, <3>6 DEF Ordered, First
  <2> QED
    BY <1>3, <2>1, <2>2, <2>3
<1> QED
  BY <1>5, <1>7 DEF OrderInv

LEMMA ClaimActionOrdered ==
  ASSUME DeliveryInv, OrderInv, NEW w \in Deliverers, NEW t \in Tasks,
         Delivery!ClaimRuntimeAction(w, t)
  PROVE  OrderInv'
<1>0. ScriptTypes /\ TaskTypes /\ Heads
  BY DEF DeliveryInv, OrderInv
<1>1. PICK items : items = <<"processing">>
  OBVIOUS
<1>2. items \in Seq(Items) /\ \A j \in 1..Len(items) : items[j] \notin {"answer", "completion"}
  BY <1>1 DEF Items, Delivery!Marks
<1>3. /\ status[t] = "awaiting_confirmation" /\ acting' = [acting EXCEPT ![t] = TRUE]
      /\ sent[<<t, version[t], "confirmation">>] > 0
      /\ Delivery!Then(w, t, items) /\ service = Delivery!Live
      /\ job' = [job EXCEPT ![w] = [doing |-> "action", task |-> t, version |-> version[t]]]
      /\ UNCHANGED <<status, version, sent, call, service>>
  BY <1>1 DEF Delivery!ClaimRuntimeAction, Delivery!world
<1>4. ASSUME NEW b \in Delivery!Actors, NEW i \in Nat, NEW u \in Tasks,
             NEW item \in {"answer", "completion"}, At(b, i, <<u, item>>)'
      PROVE  At(b, i, <<u, item>>)
  <2>1. \/ At(b, i, <<u, item>>)
        \/ \E j \in 1..Len(items) : <<u, item>> = <<t, items[j]>>
    BY <1>0, <1>2, <1>3, <1>4, ThenAt, WorkerApart
  <2> QED
    BY <1>2, <2>1
<1>5. Heads'
  BY <1>0, <1>2, <1>3, ThenHeads, WorkerApart
<1>6. /\ \A u \in Tasks : u # t => acting'[u] = acting[u]
      /\ \A v \in Deliverers : v # w => job'[v] = job[v]
      /\ job'[w].doing = "action"
  BY <1>0, <1>3 DEF TaskTypes
<1>7. ASSUME NEW u \in Tasks PROVE Announced(u)' /\ (version'[u] = 1 => Ordered(u)')
  <2>1. Announced(u)'
    BY <1>3, <1>6, ApartAnnounced DEF OrderInv
  <2>0. \A v \in Deliverers : job'[v].doing = "task" => job'[v] = job[v]
    BY <1>6
  <2>2. ASSUME version[u] = 1, u # t PROVE Ordered(u)'
    <3>2. Ordered(u) /\ (acting'[u] => acting[u]) /\ status'[u] = status[u]
            /\ UNCHANGED <<sent, call>>
      BY <1>3, <1>6, <2>2 DEF OrderInv
    <3> QED
      BY <1>4, <2>0, <3>2, ApartOrdered
  <2>3. ASSUME version[t] = 1 PROVE Ordered(t)'
    <3>1. Ordered(t)
      BY <2>3 DEF OrderInv
    <3>2. sent[First(t, "confirmation")] # 0
      <4>1. First(t, "confirmation") = <<t, version[t], "confirmation">>
        BY <2>3 DEF First
      <4>2. sent[First(t, "confirmation")] > 0
        BY <1>3, <4>1
      <4> QED
        BY <4>2
    <3>3. \A b \in Delivery!Actors, i \in Nat : ~Waiting(b, i, t) /\ ~Marking(b, i, t)
      BY <1>3, <3>1, <3>2 DEF Ordered
    <3>4. \A b \in Delivery!Actors, i \in Nat : ~Waiting(b, i, t)' /\ ~Marking(b, i, t)'
      <4>1. \A b \in Delivery!Actors, i \in Nat : Marking(b, i, t)' => Marking(b, i, t)
        BY <1>4 DEF Marking
      <4>2. \A b \in Delivery!Actors, i \in Nat : Waiting(b, i, t)' => Waiting(b, i, t)
        BY <1>3, <1>4 DEF Waiting, Calling, First
      <4> QED
        BY <3>3, <4>1, <4>2
    <3>5. \A v \in Deliverers : ~(job'[v].doing = "task" /\ job'[v].task = t /\ job'[v].version = 1)
      BY <1>3, <2>0, <3>1 DEF Ordered
    <3> QED
      BY <1>3, <3>4, <3>5 DEF Ordered, First
  <2> QED
    BY <1>3, <2>1, <2>2, <2>3
<1> QED
  BY <1>5, <1>7 DEF OrderInv

LEMMA EndsOrdered ==
  ASSUME DeliveryInv, OrderInv, NEW w \in Deliverers,
         NEW s \in {"completed", "clarification", "awaiting_confirmation", "failed",
           "action_unknown"},
         Delivery!Ends(w, s), s \in {"clarification", "awaiting_confirmation"}
           => job[w].doing = "task"
  PROVE  OrderInv'
<1>0. ScriptTypes /\ TaskTypes /\ Heads
  BY DEF DeliveryInv, OrderInv
<1>1. PICK t : t = job[w].task
  OBVIOUS
<1>2. /\ t \in Tasks /\ job' = [job EXCEPT ![w] = Delivery!NoJob] /\ service = Delivery!Live
      /\ script[w] = << >> /\ job[w].doing \in {"task", "action"}
         /\ Delivery!NoJob.doing = "nothing"
      /\ UNCHANGED <<version, sent, call, service>>
  BY <1>0, <1>1 DEF Delivery!Ends, TaskTypes, Delivery!Jobs, Delivery!NoJob, Delivery!Pending,
     Delivery!world
<1>3. job'[w].doing = "nothing" /\ \A v \in Deliverers : v # w => job'[v] = job[v]
  BY <1>0, <1>2 DEF TaskTypes
<1>4. CASE version[t] = job[w].version /\ (acting[t] \/ job[w].doing = "task")
  <2>1. PICK items \in Seq(Items) : items = Delivery!Closing(s)
    BY ClosingTyped
  <2>2. /\ Delivery!Then(w, t, items) /\ status' = [status EXCEPT ![t] = s]
        /\ acting' = [acting EXCEPT ![t] = FALSE]
    BY <1>1, <1>4, <2>1 DEF Delivery!Ends
  <2>3. /\ status'[t] = s /\ ~acting'[t]
        /\ \A u \in Tasks : u # t => status'[u] = status[u] /\ acting'[u] = acting[u]
    BY <1>0, <1>2, <2>2 DEF TaskTypes
  <2>4. ASSUME NEW b \in Delivery!Actors, NEW i \in Nat, NEW u \in Tasks
        PROVE  /\ At(b, i, <<u, "answer">>)' =>
                    \/ At(b, i, <<u, "answer">>)
                    \/ u = t /\ b = w /\ i = 1 /\ s \notin Delivery!Failed
               /\ At(b, i, <<u, "completion">>)' =>
                    \/ At(b, i, <<u, "completion">>)
                    \/ u = t /\ b = w /\ i = 2 /\ s = "completed"
    <3>1. \A x : At(b, i, x)' => \/ At(b, i, x)
                                 \/ b = w /\ \E j \in 1..Len(items) : i = j /\ x = <<t, items[j]>>
      <4>1. Len(script[w]) = 0
        BY <1>2
      <4>2. \A x : At(b, i, x)' => \/ At(b, i, x)
                                   \/ b = w /\ \E j \in 1..Len(items) :
                                        i = Len(script[w]) + j /\ x = <<t, items[j]>>
        BY <1>0, <1>2, <2>1, <2>2, ThenAt, WorkerApart
      <4> QED
        BY <4>1, <4>2
    <3>2. ASSUME At(b, i, <<u, "answer">>)', ~At(b, i, <<u, "answer">>)
          PROVE  u = t /\ b = w /\ i = 1 /\ s \notin Delivery!Failed
      <4>1. PICK j \in 1..Len(items) : i = j /\ <<u, "answer">> = <<t, items[j]>>
        BY <3>1, <3>2
      <4>2. items[j] = "answer" /\ u = t
        BY <4>1
      <4> QED
        BY <2>1, <3>1, <3>2, <4>1, <4>2, ClosingItems
    <3>3. ASSUME At(b, i, <<u, "completion">>)', ~At(b, i, <<u, "completion">>)
          PROVE  u = t /\ b = w /\ i = 2 /\ s = "completed"
      <4>1. PICK j \in 1..Len(items) : i = j /\ <<u, "completion">> = <<t, items[j]>>
        BY <3>1, <3>3
      <4>2. items[j] = "completion" /\ u = t
        BY <4>1
      <4> QED
        BY <2>1, <3>1, <3>3, <4>1, <4>2, ClosingItems
    <3> QED
      BY <3>2, <3>3
  <2>5. ASSUME version[t] = 1
        PROVE  /\ status[t] \in {"running", "awaiting_confirmation"}
               /\ job[w].doing = "task" => status[t] = "running"
               /\ \A b \in Delivery!Actors, i \in Nat :
                    ~At(b, i, <<t, "answer">>) \/ (status[t] = "awaiting_confirmation" /\ i = 1
                                                    /\ Calling(b, First(t, "confirmation")))
               /\ \A b \in Delivery!Actors, i \in Nat : ~Waiting(b, i, t) /\ ~Marking(b, i, t)
               /\ \A v \in Deliverers :
                    ~(job'[v].doing = "task" /\ job'[v].task = t /\ job'[v].version = 1)
    <3>1. Ordered(t)
      BY <1>2, <2>5 DEF OrderInv
    <3>2. CASE job[w].doing = "task"
      <4>1. status[t] = "running"
            /\ \A v \in Deliverers : job[v].doing = "task" /\ job[v].task = t /\ job[v].version = 1
                 => v = w
        BY <1>1, <1>4, <2>5, <3>1, <3>2 DEF Ordered
      <4>2. \A b \in Delivery!Actors, i \in Nat : ~Waiting(b, i, t) /\ ~Marking(b, i, t)
        BY <3>1, <4>1 DEF Ordered
      <4>3. \A b \in Delivery!Actors : ~Calling(b, First(t, "confirmation"))
        BY <3>1, <4>1 DEF Ordered
      <4>4. \A v \in Deliverers :
              ~(job'[v].doing = "task" /\ job'[v].task = t /\ job'[v].version = 1)
        BY <1>3, <4>1
      <4> QED
        BY <4>1, <4>2, <4>3, <4>4 DEF Waiting
    <3>3. CASE job[w].doing # "task"
      <4>1. acting[t] /\ status[t] = "awaiting_confirmation"
        BY <1>4, <3>1, <3>3 DEF Ordered
      <4>2. \A b \in Delivery!Actors, i \in Nat : ~Waiting(b, i, t) /\ ~Marking(b, i, t)
        BY <3>1, <4>1 DEF Ordered
      <4>4. \A v \in Deliverers :
              ~(job'[v].doing = "task" /\ job'[v].task = t /\ job'[v].version = 1)
        BY <1>3, <3>1, <4>1 DEF Ordered
      <4> QED
        BY <3>3, <4>1, <4>2, <4>4 DEF Waiting
    <3> QED
      BY <3>2, <3>3
  <2>6. ASSUME NEW u \in Tasks PROVE Announced(u)' /\ (version'[u] = 1 => Ordered(u)')
    <3>1. Announced(u)'
      BY <1>2, <2>3, <2>5, ApartAnnounced DEF OrderInv
    <3>2. ASSUME version[u] = 1, u # t PROVE Ordered(u)'
      <4>1. \A v \in Deliverers : job'[v].doing = "task" => job'[v] = job[v]
        BY <1>3
      <4>2. Ordered(u) /\ (acting'[u] => acting[u]) /\ status'[u] = status[u]
              /\ UNCHANGED <<sent, call>>
        BY <1>2, <2>3, <3>2 DEF OrderInv
      <4> QED
        BY <2>4, <3>2, <4>1, <4>2, ApartOrdered
    <3>3. ASSUME version[t] = 1 PROVE Ordered(t)'
      <4>1. Ordered(t) /\ Announced(t)
        BY <1>2, <3>3 DEF OrderInv
      <4>2. sent[First(t, "completion")] = 0
            /\ \A b \in Delivery!Actors : ~Calling(b, First(t, "completion"))
        BY <2>5, <3>3, <4>1 DEF Announced
      <4>3. \A b \in Delivery!Actors, i \in Nat :
              /\ Waiting(b, i, t)' => b = w /\ i = 1 /\ s \notin Delivery!Failed
              /\ Marking(b, i, t)' => b = w /\ i = 2 /\ s = "completed"
        <5>1. \A b \in Delivery!Actors, i \in Nat :
                Marking(b, i, t)' => b = w /\ i = 2 /\ s = "completed"
          BY <1>2, <2>4, <2>5, <3>3 DEF Marking
        <5>2. ASSUME NEW b \in Delivery!Actors, NEW i \in Nat, Waiting(b, i, t)'
              PROVE  b = w /\ i = 1 /\ s \notin Delivery!Failed
          <6>1. At(b, i, <<t, "answer">>)' /\ ~(i = 1 /\ Calling(b, First(t, "confirmation")))
            BY <1>2, <5>2 DEF Waiting, Calling, First
          <6>2. ~At(b, i, <<t, "answer">>)
            BY <2>5, <3>3, <6>1
          <6> QED
            BY <1>2, <2>4, <6>1, <6>2
        <5> QED
          BY <5>1, <5>2
      <4>4. s \in {"clarification", "awaiting_confirmation"} =>
              /\ sent[First(t, "confirmation")] = 0
              /\ \A b \in Delivery!Actors : ~Calling(b, First(t, "confirmation"))
        BY <2>5, <3>3, <4>1 DEF Ordered
      <4>5. \A b \in Delivery!Actors :
              /\ Calling(b, First(t, "completion"))' <=> Calling(b, First(t, "completion"))
              /\ Calling(b, First(t, "confirmation"))' <=> Calling(b, First(t, "confirmation"))
        BY <1>2 DEF Calling, First
      <4>6. s \notin Delivery!Failed
              => s \in {"completed", "clarification", "awaiting_confirmation"}
        BY DEF Delivery!Failed
      <4>7. \A v \in Deliverers :
              ~(job'[v].doing = "task" /\ job'[v].task = t /\ job'[v].version = 1)
        BY <2>5, <3>3
      <4>8. sent'[First(t, "completion")] = 0 /\ sent' = sent
        BY <1>2, <4>2 DEF First
      <4> QED
        BY <2>3, <4>2, <4>3, <4>4, <4>5, <4>6, <4>7, <4>8 DEF Ordered, First
    <3> QED
      BY <1>2, <3>1, <3>2, <3>3
  <2>7. Heads'
    BY <1>0, <1>2, <2>1, <2>2, ThenHeads, WorkerApart
  <2> QED
    BY <2>6, <2>7 DEF OrderInv
<1>5. CASE ~(version[t] = job[w].version /\ (acting[t] \/ job[w].doing = "task"))
  <2>1. PICK items \in Seq(Items) :
          /\ Delivery!Then(w, t, items)
          /\ \A j \in 1..Len(items) : items[j] \notin {"answer", "completion"}
    <3>1. /\ << >> \in Seq(Items) /\ Len(<< >>) = 0
          /\ Delivery!Closing("cancelled") \in Seq(Items)
      BY ClosingTyped
    <3>2. \A j \in 1..Len(Delivery!Closing("cancelled")) :
            Delivery!Closing("cancelled")[j] \notin {"answer", "completion"}
      BY ClosingItems DEF Delivery!Failed
    <3>3. Delivery!Then(w, t, IF job[w].doing = "task" /\ status[t] = "cancelled"
                              THEN Delivery!Closing("cancelled") ELSE << >>)
      BY <1>1, <1>5 DEF Delivery!Ends
    <3>4. CASE job[w].doing = "task" /\ status[t] = "cancelled"
      <4>1. Delivery!Then(w, t, Delivery!Closing("cancelled"))
        BY <3>3, <3>4
      <4> QED
        BY <3>1, <3>2, <4>1
    <3>5. CASE ~(job[w].doing = "task" /\ status[t] = "cancelled")
      <4>1. Delivery!Then(w, t, << >>)
        BY <3>3, <3>5
      <4>2. \A j \in 1..Len(<< >>) : << >>[j] \notin {"answer", "completion"}
        BY <3>1
      <4> QED
        BY <3>1, <4>1, <4>2
    <3> QED
      BY <3>4, <3>5
  <2>2. UNCHANGED <<status, acting>>
    BY <1>1, <1>5 DEF Delivery!Ends
  <2>3. ASSUME NEW b \in Delivery!Actors, NEW i \in Nat, NEW u \in Tasks,
               NEW item \in {"answer", "completion"}, At(b, i, <<u, item>>)'
        PROVE  At(b, i, <<u, item>>)
    <3>1. \A x : At(b, i, x)' => \/ At(b, i, x)
                               \/ \E j \in 1..Len(items) : x = <<t, items[j]>>
      BY <1>0, <1>2, <2>1, ThenAt, WorkerApart
    <3>2. At(b, i, <<u, item>>)' => \/ At(b, i, <<u, item>>)
                                   \/ \E j \in 1..Len(items) : <<u, item>> = <<t, items[j]>>
      BY <3>1
    <3> QED
      BY <2>1, <2>3, <3>2
  <2>4. ASSUME NEW u \in Tasks PROVE Announced(u)' /\ (version'[u] = 1 => Ordered(u)')
    <3>1. Announced(u)'
      BY <1>2, <2>2, ApartAnnounced DEF OrderInv
    <3>2. \A v \in Deliverers : job'[v].doing = "task" => job'[v] = job[v]
      BY <1>3
    <3> QED
      BY <1>2, <2>2, <2>3, <3>1, <3>2, ApartOrdered DEF OrderInv
  <2>5. Heads'
    BY <1>0, <1>2, <2>1, ThenHeads, WorkerApart
  <2> QED
    BY <2>4, <2>5 DEF OrderInv
<1> QED
  BY <1>4, <1>5

\* Steps of the service that leave the calls to their actors.
LEMMA ServiceOrdered ==
  ASSUME DeliveryInv, OrderInv,
         \/ Delivery!Crash \/ Delivery!RecoverRuntime \/ Delivery!reconcileStageAcknowledgements
         \/ Delivery!Serve \/ Delivery!UpdateRoute \/ Delivery!InvalidateRuntimeConfigWork
         \/ \E t \in Tasks : Delivery!EditSource(t)
         \/ UNCHANGED Delivery!vars
  PROVE  OrderInv'
<1>0. ScriptTypes /\ TaskTypes /\ RowTypes /\ Heads
  BY DEF DeliveryInv, OrderInv
<1>1. CASE Delivery!Crash
  <2>1. /\ \A a \in Delivery!Actors : script'[a] = << >> /\ call'[a].step = "none"
        /\ \A w \in Deliverers : job'[w] = Delivery!NoJob /\ Delivery!NoJob.doing = "nothing"
        /\ UNCHANGED <<status, version, acting, sent>>
    BY <1>1 DEF Delivery!Crash, Delivery!NoCall, Delivery!NoJob, Delivery!taskVars, Delivery!world
  <2>2. \A a \in Delivery!Actors, i \in Nat : \A x : ~At(a, i, x)'
    BY <2>1 DEF At
  <2>3. \A a \in Delivery!Actors : \A k : ~Calling(a, k)'
    BY <2>1 DEF Calling
  <2>4. Heads'
    BY <2>1, <2>2, DeliveryNumbers DEF Heads
  <2>5. ASSUME NEW t \in Tasks PROVE Announced(t)' /\ (version'[t] = 1 => Ordered(t)')
    <3>1. \A a \in Delivery!Actors : /\ ~Calling(a, First(t, "completion"))'
                                     /\ ~Calling(a, First(t, "confirmation"))'
                                     /\ ~Calling(a, First(t, "result"))'
      BY <2>3
    <3>2. \A a \in Delivery!Actors, i \in Nat : ~Waiting(a, i, t)' /\ ~Marking(a, i, t)'
      BY <2>2 DEF Waiting, Marking
    <3>3. Announced(t)'
      BY <2>1, <3>1 DEF OrderInv, Announced, First
    <3>4. ASSUME version[t] = 1 PROVE Ordered(t)'
      <4>1. /\ status[t] \in {"absent", "pending", "running"} => sent[First(t, "confirmation")] = 0
            /\ acting[t] => status[t] = "awaiting_confirmation"
        BY <3>4 DEF OrderInv, Ordered
      <4> QED
        BY <2>1, <3>1, <3>2, <4>1 DEF Ordered, First
    <3> QED
      BY <2>1, <3>3, <3>4
  <2> QED
    BY <2>4, <2>5 DEF OrderInv
<1>2. CASE Delivery!RecoverRuntime
  <2>1. /\ service = Delivery!Down /\ service' = 1
        /\ \A t \in Tasks : \/ status'[t] = status[t]
                            \/ status[t] = "running" /\ status'[t] = "failed"
                            \/ status[t] = "awaiting_confirmation" /\ status'[t] = "action_unknown"
        /\ \A t \in Tasks : ~acting'[t]
        /\ UNCHANGED <<version, sent, job, script, call>>
    BY <1>2 DEF Delivery!RecoverRuntime, Delivery!world
  <2>2. /\ \A a \in Delivery!Actors : a # "startup" => script[a] = << >>
        /\ \A w \in Deliverers : job[w] = Delivery!NoJob /\ Delivery!NoJob.doing = "nothing"
    BY <1>0, <2>1, DeliveryNumbers DEF Heads, Delivery!NoJob
  <2>3. Heads'
    <3>1. \A a \in {"stages", "startup"}, i \in Nat, t \in Tasks : ~At(a, i, <<t, "answer">>)'
      BY <1>0, <2>1 DEF Heads, At
    <3> QED
      BY <1>0, <2>1, <2>2, <3>1 DEF Heads
  <2>4. \A a \in Delivery!Actors, i \in Nat, t \in Tasks : ~At(a, i, <<t, "answer">>)
    BY <1>0, <2>2 DEF Heads, At
  <2>5. ASSUME NEW t \in Tasks PROVE Announced(t)' /\ (version'[t] = 1 => Ordered(t)')
    <3>1. Announced(t)'
      BY <2>1, ApartAnnounced DEF OrderInv
    <3>2. ASSUME version[t] = 1 PROVE Ordered(t)'
      <4>1. Ordered(t)
        BY <3>2 DEF OrderInv
      <4>2. \A a \in Delivery!Actors, i \in Nat : ~Waiting(a, i, t)'
        BY <2>1, <2>4 DEF Waiting, At
      <4>3. \A a \in Delivery!Actors, i \in Nat : Marking(a, i, t)' => status'[t] = "completed"
        <5>1. \A a \in Delivery!Actors, i \in Nat : Marking(a, i, t)' => Marking(a, i, t)
          BY <2>1 DEF Marking, At
        <5>2. \A a \in Delivery!Actors, i \in Nat : Marking(a, i, t) => status[t] = "completed"
          BY <4>1 DEF Ordered
        <5> QED
          BY <2>1, <5>1, <5>2
      <4>4. status'[t] \in {"absent", "pending", "running"} =>
              /\ sent'[First(t, "confirmation")] = 0
              /\ \A a \in Delivery!Actors : ~Calling(a, First(t, "confirmation"))'
        <5>1. status'[t] \in {"absent", "pending", "running"} => status'[t] = status[t]
          BY <2>1
        <5> QED
          BY <2>1, <4>1, <5>1 DEF Ordered, Calling, First
      <4> QED
        BY <2>1, <2>2, <4>2, <4>3, <4>4 DEF Ordered, First
    <3> QED
      BY <2>1, <3>1, <3>2
  <2> QED
    BY <2>3, <2>5 DEF OrderInv
<1>3. CASE Delivery!reconcileStageAcknowledgements
  <2>1. PICK pass, owed : pass = Delivery!Passes[service] /\ owed = Delivery!Owed(pass)
    OBVIOUS
  <2>2. service \in 1..4 /\ service' = service + 1 /\ script["startup"] = << >>
        /\ UNCHANGED <<status, version, acting, sent, job, call>>
    BY <1>3, DeliveryNumbers
       DEF Delivery!reconcileStageAcknowledgements, Delivery!Pending, Delivery!taskVars,
           Delivery!world
  <2>3. pass # "answer" /\ (pass = "completion" => \A t \in owed : status[t] = "completed")
    <3>1. pass \in {"processing", "completion", "failure", "notice"}
      BY <2>1, <2>2 DEF Delivery!Passes
    <3>2. Delivery!StatusFor("completion") = {"completed"}
      BY DEF Delivery!StatusFor
    <3> QED
      BY <2>1, <3>1, <3>2 DEF Delivery!Owed
  <2>4. owed \subseteq Tasks /\ IsFiniteSet(owed)
    <3>1. IsFiniteSet(Tasks)
      BY AgentResultsAssumption
         DEF Delivery!ResultDeliveryAssumption, IsFiniteSet, Delivery!IsFiniteSet
    <3>2. owed \subseteq Tasks
      BY <2>1 DEF Delivery!Owed
    <3> QED
      BY <3>1, <3>2, FS_Subset
  <2>5. PICK order \in Delivery!SetToSeqs(owed) :
          script' = [script EXCEPT !["startup"] = [i \in 1..Len(order) |-> <<order[i], pass>>]]
    BY <1>3, <2>1 DEF Delivery!reconcileStageAcknowledgements
  <2>6. order \in Seq(owed) /\ Len(order) \in Nat
    BY <2>4, Lists
  <2>7. PICK items : items = [i \in 1..Len(order) |-> <<order[i], pass>>]
    OBVIOUS
  <2>8. Len(items) = Len(order) /\ \A i \in 1..Len(order) : items[i] = <<order[i], pass>>
    BY <2>6, <2>7
  <2>9. script'["startup"] = items /\ \A a \in Delivery!Actors : a # "startup"
          => script'[a] = script[a]
    BY <1>0, <2>5, <2>7, DeliveryNumbers DEF ScriptTypes
  <2>10. ASSUME NEW a \in Delivery!Actors, NEW i \in Nat, NEW t \in Tasks,
                NEW item \in {"answer", "completion"}, At(a, i, <<t, item>>)',
                  ~At(a, i, <<t, item>>)
         PROVE  item = "completion" /\ pass = "completion" /\ t \in owed
    <3>1. a = "startup" /\ i \in 1..Len(order) /\ <<t, item>> = <<order[i], pass>>
      BY <2>6, <2>8, <2>9, <2>10 DEF At
    <3>2. order[i] \in owed
      BY <2>6, <3>1
    <3> QED
      BY <2>3, <3>1, <3>2
  <2>11. service # Delivery!Live /\ (\A a \in Delivery!Actors : a # "startup" => script[a] = << >>)
         /\ \A w \in Deliverers : job[w] = Delivery!NoJob
    BY <1>0, <2>2, DeliveryNumbers DEF Heads
  <2>12. \A a \in Delivery!Actors : call[a].step # "none" => script'[a] = script[a]
    <3>1. call["startup"].step = "none"
      BY <1>0, <2>2, Claimed, DeliveryNumbers
    <3> QED
      BY <2>9, <3>1
  <2>13. \A a \in Delivery!Actors, i \in Nat, t \in Tasks : ~At(a, i, <<t, "answer">>)'
    <3> SUFFICES ASSUME NEW a \in Delivery!Actors, NEW i \in Nat, NEW t \in Tasks,
                        At(a, i, <<t, "answer">>)'
                 PROVE  FALSE
      OBVIOUS
    <3>1. At(a, i, <<t, "answer">>)
      BY <2>10
    <3> QED
      BY <1>0, <2>11, <3>1 DEF Heads, At
  <2>14. Heads'
    BY <1>0, <2>2, <2>9, <2>11, <2>12, <2>13, DeliveryNumbers DEF Heads
  <2>15. ASSUME NEW t \in Tasks PROVE Announced(t)' /\ (version'[t] = 1 => Ordered(t)')
    <3>1. Announced(t)'
      BY <2>2, ApartAnnounced DEF OrderInv
    <3>2. ASSUME version[t] = 1 PROVE Ordered(t)'
      <4>1. Ordered(t)
        BY <3>2 DEF OrderInv
      <4>2. \A a \in Delivery!Actors, i \in Nat : ~Waiting(a, i, t)'
        BY <2>13 DEF Waiting
      <4>3. \A a \in Delivery!Actors, i \in Nat : Marking(a, i, t)' => status[t] = "completed"
        BY <2>3, <2>10, <4>1 DEF Ordered, Marking
      <4>4. \A a \in Delivery!Actors :
              Calling(a, First(t, "confirmation"))' <=> Calling(a, First(t, "confirmation"))
        BY <2>2 DEF Calling, First
      <4> QED
        BY <2>2, <4>1, <4>2, <4>3, <4>4 DEF Ordered, First
    <3> QED
      BY <2>2, <3>1, <3>2
  <2> QED
    BY <2>14, <2>15 DEF OrderInv
<1>4. CASE Delivery!InvalidateRuntimeConfigWork
  <2>1. PICK open : open = {t \in Tasks : status[t] \in {"pending", "running", "clarification",
                                                         "awaiting_confirmation", "failed"}}
    OBVIOUS
  <2>2. /\ status' = [t \in Tasks |-> IF t \in open THEN "stale" ELSE status[t]]
        /\ version' = [t \in Tasks |-> IF t \in open THEN version[t] + 1 ELSE version[t]]
        /\ acting' = [t \in Tasks |-> FALSE]
        /\ UNCHANGED <<sent, job, script, call, service>>
    BY <1>4, <2>1 DEF Delivery!InvalidateRuntimeConfigWork, Delivery!world
  <2>3. \A t \in Tasks : /\ version[t] <= version'[t] /\ version'[t] \in Nat
                         /\ t \in open => version'[t] # 1
                         /\ t \notin open => version'[t] = version[t] /\ status'[t] = status[t]
                         /\ ~acting'[t]
    <3>1. \A t \in Tasks : version[t] \in Nat /\ version[t] >= 1
      BY <1>0, DeliveryNumbers DEF TaskTypes
    <3> QED
      BY <2>2, <3>1
  <2>4. Heads'
    BY <1>0, <2>2, <2>3, VersionsHeads
  <2>5. \A a \in Delivery!Actors, i \in Nat : \A x : At(a, i, x)' <=> At(a, i, x)
    BY <2>2 DEF At
  <2>6. ASSUME NEW t \in Tasks PROVE Announced(t)' /\ (version'[t] = 1 => Ordered(t)')
    <3>1. Announced(t)'
      BY <2>2, <2>3, ApartAnnounced DEF OrderInv
    <3>2. ASSUME version'[t] = 1 PROVE Ordered(t)'
      <4>1. Ordered(t) /\ t \notin open
        BY <2>3, <3>2 DEF OrderInv
      <4>2. \A w \in Deliverers : job'[w] = job[w]
        BY <2>2
      <4> QED
        BY <2>2, <2>3, <2>5, <4>1, <4>2, ApartOrdered
    <3> QED
      BY <3>1, <3>2
  <2> QED
    BY <2>4, <2>6 DEF OrderInv
<1>5. CASE Delivery!Serve \/ Delivery!UpdateRoute \/ (\E t \in Tasks : Delivery!EditSource(t))
           \/ UNCHANGED Delivery!vars
  <2>1. UNCHANGED <<status, version, acting, sent, job, script, call>>
        /\ (service' = service \/ service' = Delivery!Live)
    BY <1>5 DEF Delivery!Serve, Delivery!UpdateRoute, Delivery!EditSource, Delivery!vars,
       Delivery!taskVars, Delivery!world
  <2>2. \A a \in Delivery!Actors, i \in Nat : \A x : At(a, i, x)' <=> At(a, i, x)
    BY <2>1 DEF At
  <2>3. ASSUME NEW t \in Tasks PROVE Announced(t)' /\ (version'[t] = 1 => Ordered(t)')
    <3>1. Announced(t)'
      BY <2>1, ApartAnnounced DEF OrderInv
    <3>2. \A w \in Deliverers : job'[w] = job[w]
      BY <2>1
    <3> QED
      BY <2>1, <2>2, <3>1, <3>2, ApartOrdered DEF OrderInv
  <2>4. Heads'
    <3>1. \A a \in {"stages", "startup"}, i \in Nat, t \in Tasks : ~At(a, i, <<t, "answer">>)'
      BY <1>0, <2>1 DEF Heads, At
    <3> QED
      BY <1>0, <2>1, <3>1 DEF Heads
  <2> QED
    BY <2>3, <2>4 DEF OrderInv
<1> QED
  BY <1>1, <1>2, <1>3, <1>4, <1>5

LEMMA OrderStep == DeliveryInv /\ OrderInv /\ [Delivery!Next]_(Delivery!vars) => OrderInv'
<1> SUFFICES ASSUME DeliveryInv, OrderInv, [Delivery!Next]_(Delivery!vars) PROVE OrderInv'
  OBVIOUS
<1>1. ASSUME NEW t \in Tasks,
             \/ Delivery!CancelTask(t) \/ Delivery!RetryTask(t) \/ Delivery!ResumeRuntimeTask(t)
             \/ Delivery!SyncRuntimeMessages(t) \/ Delivery!UpdateTask(t)
      PROVE  OrderInv'
  <2>1. PICK s \in {"cancelled", "pending", "stale"} : Delivery!NewVersion(t, s)
    BY <1>1 DEF Delivery!CancelTask, Delivery!RetryTask, Delivery!ResumeRuntimeTask,
       Delivery!SyncRuntimeMessages, Delivery!UpdateTask
  <2>2. s \in Delivery!TaskStatus
    BY DEF Delivery!TaskStatus, Delivery!Failed
  <2>3. /\ UNCHANGED service
        /\ \/ UNCHANGED script
           \/ Delivery!Then(Delivery!Intake, t, <<"receipt">>) /\ service = Delivery!Live
    BY <1>1 DEF Delivery!CancelTask, Delivery!RetryTask, Delivery!ResumeRuntimeTask,
       Delivery!SyncRuntimeMessages, Delivery!UpdateTask, Delivery!Analysing
  <2> QED
    BY <2>1, <2>2, <2>3, NewVersionOrdered
<1>2. ASSUME NEW w \in Deliverers, Delivery!executeClaimed(w) \/ Delivery!executeClaimedAction(w)
      PROVE  OrderInv'
  <2>1. PICK s \in {"completed", "clarification", "awaiting_confirmation", "failed",
                    "action_unknown"} :
          Delivery!Ends(w, s)
          /\ (s \in {"clarification", "awaiting_confirmation"} => job[w].doing = "task")
    BY <1>2 DEF Delivery!executeClaimed, Delivery!executeClaimedAction
  <2> QED
    BY <2>1, EndsOrdered
<1> QED
  BY <1>1, <1>2, BatchOrdered, ClaimTaskOrdered, ClaimActionOrdered, DeliverOrdered, ServiceOrdered
     DEF Delivery!Next, Delivery!Undisturbed, Delivery!Operator

LEMMA OrderStart == Delivery!Init => OrderInv
<1> SUFFICES ASSUME Delivery!Init PROVE OrderInv
  OBVIOUS
<1>1. /\ \A a \in Delivery!Actors : script[a] = << >> /\ call[a].step = "none"
      /\ \A w \in Deliverers : job[w].doing = "nothing"
      /\ \A t \in Tasks : status[t] = "absent" /\ ~acting[t]
      /\ \A k \in Delivery!Keys : sent[k] = 0
      /\ service = Delivery!Live
  BY DEF Delivery!Init, Delivery!NoCall, Delivery!NoJob
<1>2. \A a \in Delivery!Actors, i \in Nat : \A x : ~At(a, i, x)
  BY <1>1 DEF At
<1>3. \A a \in Delivery!Actors : \A k : ~Calling(a, k)
  BY <1>1 DEF Calling
<1>4. Heads
  BY <1>1, <1>2, DeliveryNumbers DEF Heads
<1>5. ASSUME NEW t \in Tasks PROVE Announced(t) /\ Ordered(t)
  <2>1. First(t, "confirmation") \in Delivery!Keys /\ First(t, "completion") \in Delivery!Keys
    BY Firsts, ThreeKinds
  <2>2. \A a \in Delivery!Actors, i \in Nat : ~Waiting(a, i, t) /\ ~Marking(a, i, t)
    BY <1>2 DEF Waiting, Marking
  <2>3. Announced(t)
    BY <1>1, <1>3, <2>1 DEF Announced
  <2>4. Ordered(t)
    BY <1>1, <1>3, <2>1, <2>2 DEF Ordered
  <2> QED
    BY <2>3, <2>4
<1> QED
  BY <1>4, <1>5 DEF OrderInv
================================================================================
