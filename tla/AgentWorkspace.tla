---------------------------- MODULE AgentWorkspace ----------------------------
(***************************************************************************)
(* One knowledge file of an Agent Workspace, its archive and its history   *)
(* (internal/agentworkspace/workspace.go), written by the workspace        *)
(* command of running tasks (internal/cli/agent_workspace.go) inside a     *)
(* transaction of the store (internal/core/db.go, Mutate).                 *)
(*                                                                         *)
(* A writer holds the store's write transaction from before the live       *)
(* check of its authority until the commit, and the lock of the workspace  *)
(* while it reads, archives and publishes.  Every step can be its last:    *)
(* a process that dies and a disk or store that reports an error both      *)
(* leave the files as they are and the transaction rolled back.            *)
(***************************************************************************)
EXTENDS Naturals, FiniteSets

CONSTANTS
  Writers,   \* task attempts that write the file
  Contents,  \* what the file may hold; a digest stands for its content
  Absent,    \* there is no file
  Initial,   \* the index a new workspace starts with
  MaxCalls, MaxFailures

ASSUME AgentWorkspaceAssumption ==
  /\ Initial \in Contents /\ Absent \notin Contents /\ "none" \notin Writers
  /\ MaxCalls \in Nat /\ MaxFailures \in Nat

VARIABLES
  file,       \* the current content
  archive,    \* contents in the history directory
  revisions,  \* revision records: pending, or confirmed (.json)
  published,  \* ids of the revisions whose content became the file's
  lock,       \* who holds the lock of the workspace
  tx,         \* who holds the store's write transaction
  operations, \* ids of the revisions whose command was committed
  authorized, \* attempts that may write
  request,    \* what each writer asks for
  step,       \* how far each writer is
  effect,     \* its request took effect
  cached,     \* the store has a result for its request key
  calls, failures

fileVars == <<file, archive, revisions, published>>
storeVars == <<tx, operations, authorized, cached>>
vars == <<fileVars, lock, storeVars, request, step, effect, calls, failures>>

None == "none"
Free == lock = None

Answers == {"ok", "conflict", "failed"}
Writing == {"saveOld", "saveNew", "pending", "publish", "record"}
Steps == {"idle", "called", "locking", "commit"} \cup Writing \cup Answers

Revision == [id : Nat \ {0}, previous : Contents \cup {Absent}, digest : Contents, confirmed : BOOLEAN]

TypeOK ==
  /\ file \in Contents \cup {Absent} /\ archive \subseteq Contents
  /\ revisions \subseteq Revision /\ published \subseteq {r.id : r \in revisions}
  /\ lock \in Writers \cup {None} /\ tx \in Writers \cup {None}
  /\ operations \subseteq Nat /\ authorized \subseteq Writers
  /\ request \in [Writers -> [expected : Contents \cup {Absent}, content : Contents, revision : Nat]]
  /\ step \in [Writers -> Steps]
  /\ effect \in [Writers -> BOOLEAN] /\ cached \in [Writers -> BOOLEAN]
  /\ calls \in 0..MaxCalls /\ failures \in 0..MaxFailures

Init ==
  /\ file = Absent /\ archive = {} /\ revisions = {} /\ published = {}
  /\ lock = None /\ tx = None /\ operations = {}
  /\ authorized = Writers
  /\ request = [w \in Writers |-> [expected |-> Absent, content |-> Initial, revision |-> 0]]
  /\ step = [w \in Writers |-> "idle"]
  /\ effect = [w \in Writers |-> FALSE] /\ cached = [w \in Writers |-> FALSE]
  /\ calls = 0 /\ failures = 0

Goes(w, s) == step' = [step EXCEPT ![w] = s]

----------------------------------------------------------------------------
(* Creation and reading.                                                   *)

\* Mutant: pending revisions are left alone.
recoverNothing == revisions

\* A pending revision of what the file now holds is confirmed, whoever left it.
recoverPending == {[r EXCEPT !.confirmed = @ \/ r.digest = file] : r \in revisions}

\* Mutant: the index is created without the lock of the workspace.
EnsureUnlocked ==
  /\ file = Absent
  /\ file' = Initial
  /\ UNCHANGED <<archive, revisions, published, lock, storeVars, request, step, effect, calls, failures>>

\* The first index is not archived and has no revision.
Ensure ==
  /\ Free /\ file = Absent
  /\ file' = Initial
  /\ UNCHANGED <<archive, revisions, published, lock, storeVars, request, step, effect, calls, failures>>

History ==
  /\ Free /\ revisions' = recoverPending
  /\ UNCHANGED <<file, archive, published, lock, storeVars, request, step, effect, calls, failures>>

----------------------------------------------------------------------------
(* A write command.                                                        *)

Call(w) ==
  /\ step[w] \in Answers \cup {"idle"} /\ calls < MaxCalls
  /\ \E expected \in Contents \cup {Absent}, content \in Contents :
       request' = [request EXCEPT ![w] = [expected |-> expected, content |-> content, revision |-> 0]]
  /\ Goes(w, "called")
  /\ effect' = [effect EXCEPT ![w] = FALSE] /\ cached' = [cached EXCEPT ![w] = FALSE]
  /\ calls' = calls + 1
  /\ UNCHANGED <<fileVars, lock, tx, operations, authorized, failures>>

\* The same request with the same key, after an error.
Retry(w) ==
  /\ step[w] = "failed" /\ calls < MaxCalls
  /\ Goes(w, "called") /\ calls' = calls + 1
  /\ UNCHANGED <<fileVars, lock, storeVars, request, effect, failures>>

\* A result the store has is returned without a write, to a writer that may
\* still see it.
Mutate(w) ==
  /\ step[w] = "called" /\ tx = None
  /\ IF cached[w]
     THEN Goes(w, IF w \in authorized THEN "ok" ELSE "failed") /\ UNCHANGED tx
     ELSE Goes(w, "locking") /\ tx' = w
  /\ UNCHANGED <<fileVars, lock, operations, authorized, cached, request, effect, calls, failures>>

\* Under the lock: who writes is checked again, what an earlier writer left is
\* settled, and the expected content compared.
WriteChecked(w) ==
  /\ step[w] = "locking" /\ Free
  /\ IF w \notin authorized
     THEN Goes(w, "failed") /\ tx' = None /\ UNCHANGED <<revisions, lock, effect>>
     ELSE /\ revisions' = recoverPending
          /\ \/ /\ file # request[w].expected
                /\ Goes(w, "conflict") /\ tx' = None /\ UNCHANGED <<lock, effect>>
             \/ /\ file = request[w].expected /\ file = request[w].content
                /\ Goes(w, "commit") /\ effect' = [effect EXCEPT ![w] = TRUE]
                /\ UNCHANGED <<lock, tx>>
             \/ /\ file = request[w].expected /\ file # request[w].content
                /\ Goes(w, "saveOld") /\ lock' = w /\ UNCHANGED <<tx, effect>>
  /\ UNCHANGED <<file, archive, published, operations, authorized, cached, request, calls, failures>>

saveBlob(w, content, next) ==
  /\ archive' = archive \cup ({content} \ {Absent})
  /\ Goes(w, next)
  /\ UNCHANGED <<file, revisions, published, lock, storeVars, request, effect, calls, failures>>

SaveOld(w) == step[w] = "saveOld" /\ saveBlob(w, file, "saveNew")
SaveNew(w) == step[w] = "saveNew" /\ saveBlob(w, request[w].content, "pending")

WritePending(w) ==
  /\ step[w] = "pending"
  /\ LET id == Cardinality(revisions) + 1
     IN /\ revisions' = revisions \cup {[id |-> id, previous |-> file, digest |-> request[w].content,
                                         confirmed |-> FALSE]}
        /\ request' = [request EXCEPT ![w].revision = id]
  /\ Goes(w, "publish")
  /\ UNCHANGED <<file, archive, published, lock, storeVars, effect, calls, failures>>

Publish(w) ==
  /\ step[w] = "publish"
  /\ file' = request[w].content /\ published' = published \cup {request[w].revision}
  /\ effect' = [effect EXCEPT ![w] = TRUE]
  /\ Goes(w, "record")
  /\ UNCHANGED <<archive, revisions, lock, storeVars, request, calls, failures>>

Record(w) ==
  /\ step[w] = "record"
  /\ revisions' = {[r EXCEPT !.confirmed = @ \/ r.id = request[w].revision] : r \in revisions}
  /\ lock' = None /\ Goes(w, "commit")
  /\ UNCHANGED <<file, archive, published, storeVars, request, effect, calls, failures>>

Commit(w) ==
  /\ step[w] = "commit"
  /\ operations' = operations \cup {request[w].revision}
  /\ cached' = [cached EXCEPT ![w] = TRUE]
  /\ tx' = None /\ Goes(w, "ok")
  /\ UNCHANGED <<fileVars, lock, authorized, request, effect, calls, failures>>

\* An error or the end of the process: locks and transaction are gone.
Fails(w) ==
  /\ step[w] \in {"locking", "commit"} \cup Writing /\ failures < MaxFailures
  /\ failures' = failures + 1
  /\ lock' = (IF lock = w THEN None ELSE lock) /\ tx' = None
  /\ Goes(w, "failed")
  /\ UNCHANGED <<fileVars, operations, authorized, cached, request, effect, calls>>

\* The attempt ends, is cancelled or loses its policy: a transaction of its own.
Revoke(w) ==
  /\ w \in authorized /\ tx = None
  /\ authorized' = authorized \ {w}
  /\ UNCHANGED <<fileVars, lock, tx, operations, cached, request, step, effect, calls, failures>>

Next ==
  \/ Ensure \/ History
  \/ \E w \in Writers :
       \/ Call(w) \/ Retry(w) \/ Mutate(w) \/ WriteChecked(w)
       \/ SaveOld(w) \/ SaveNew(w) \/ WritePending(w) \/ Publish(w) \/ Record(w) \/ Commit(w)
       \/ Fails(w) \/ Revoke(w)

Spec == Init /\ [][Next]_vars

----------------------------------------------------------------------------
(* Properties.                                                             *)

\* What the register knows of the writers: their requests, and whether a write
\* was asked for, took effect or was answered.
Asked == [w \in Writers |-> [expected |-> request[w].expected, content |-> request[w].content]]
StateOf(s) == IF s \in Answers \cup {"idle"} THEN s
              ELSE IF s \in {"record", "commit"} THEN "applied" ELSE "called"
State == [w \in Writers |-> StateOf(step[w])]

\* The file is the register it promises to be: no write is lost, applied over
\* a content its writer did not name or made after its authority ended, and
\* "ok" is only said of a write that was made (agent-workspace-design-detail.md:21).
Register == INSTANCE CasRegister WITH value <- file, asked <- Asked, state <- State

ImplementsRegister == Register!Spec

\* Both contents of every change are archived before it is published
\* (workspace.go:578), and no change is missing from the history: what is not
\* confirmed is the content of the file and is confirmed by the next access.
HistoryIsComplete == \A r \in revisions : r.id \in published =>
  /\ {r.digest, r.previous} \ {Absent} \subseteq archive
  /\ r.confirmed \/ r.digest = file

\* A change that was published and what the store says of it become visible
\* together (db.go, Mutate).
VisibleTogether == tx = None => published \subseteq operations

\* The history names only changes that were made.
HistoryIsTrue == \A r \in revisions : r.confirmed => r.id \in published
=============================================================================
