--------------------------- MODULE HistoryCoverage ---------------------------
(***************************************************************************)
(* What was read of one conversation's history, and what was not           *)
(* (internal/core/coverage.go, history_import.go, internal/channel/        *)
(* collect.go, data_source.go, history_import.go, dws/history_cursor.go).  *)
(*                                                                         *)
(* A reconcile loop pulls one window after another, an import worker steps *)
(* through fixed ranges, and an operator pulls or imports as well.  Each   *)
(* records its window: covered_until may only advance over ranges that     *)
(* were read completely, everything else stays listed as a gap.            *)
(*                                                                         *)
(* Time is counted in ticks, Fraction of them to the second: the clock is  *)
(* finer than the recorded bounds, which are cut to whole seconds.  One    *)
(* message is sent in every tick, and the tick identifies it.              *)
(***************************************************************************)
EXTENDS Integers, Sequences, FiniteSets, SequencesExt, FiniteSetsExt

CONSTANTS
  Fraction,      \* ticks per second
  Span, Overlap, \* length of a reconcile window and its overlap, in seconds
  Retention,     \* age at which messages are no longer collected, in seconds
  HistoryDays,   \* length of an imported range, in seconds
  PageSize,      \* messages in one read
  Imports, Workers,
  LeaseTime,     \* how long an import claim lasts, in ticks
  MaxFailures,   \* failures after which an import is given up
  Environment,   \* kinds of faults and interventions
  Enabled,       \* when the source was enabled; messages were sent before
  MaxTime, MaxEvents

\* What the proofs and the runs take for granted of the constants.
HistoryCoverageAssumption ==
  /\ Fraction \in Nat \ {0} /\ Overlap \in Nat \ {0} /\ Span \in Nat /\ Span > Overlap
  /\ Retention \in Nat /\ HistoryDays \in Nat \ {0} /\ PageSize \in Nat \ {0} /\ LeaseTime \in Nat \ {0}
  /\ MaxFailures \in Nat /\ MaxTime \in Nat /\ Enabled \in 0..MaxTime /\ MaxEvents \in Nat

VARIABLES
  now,      \* the clock
  stored,   \* messages committed by memgov
  expired,  \* messages passed over because they are older than the retention
  coverage, \* the watermark and the incomplete windows, see Nothing
  recorded, \* idempotency keys of recorded windows
  pull,     \* the pull in progress
  running,  \* the data source is running and the route admitted
  import,   \* history_imports
  worker,   \* what an import worker is doing
  events    \* how many faults and interventions there were

sourceVars == <<now, running>>
coverageVars == <<coverage, recorded>>
importVars == <<import, worker>>
vars == <<sourceVars, stored, expired, coverageVars, pull, importVars, events>>

None == -1
Idle == [step |-> "idle"]
NoImport == [status |-> "absent"]
Seconds(tick) == tick \div Fraction
Ticks(second) == second * Fraction

sent == 0..now - 1

Happens(kind) == kind \in Environment /\ events < MaxEvents /\ events' = events + 1

NoCursor == [resume |-> None]

\* covered is covered_until and from is where the first complete window began;
\* gaps are the windows recorded with complete=0, oldest first, with what became
\* of them since; flag is gap_unresolved.
Nothing == [from |-> None, covered |-> None, gaps |-> <<>>, flag |-> FALSE]
gaps == coverage.gaps
covered == coverage.covered

TypeOK ==
  /\ now \in 0..MaxTime /\ running \in BOOLEAN
  /\ stored \subseteq sent /\ expired \subseteq sent
  /\ coverage.from \in Int /\ covered \in Int /\ coverage.flag \in BOOLEAN
  /\ \A i \in DOMAIN gaps : /\ gaps[i].start < gaps[i].end
                             /\ gaps[i].resolved \in BOOLEAN /\ gaps[i].complete \in BOOLEAN
  /\ pull.step \in {"idle", "events", "record"}
  /\ import \in [Imports -> {NoImport}
       \cup [status : {"queued", "running", "completed", "failed", "cancelled"}, start : Int,
             end : Int, cursor : Int, failures : Nat, token : Nat, until : Int]]
  /\ \A w \in Workers : worker[w].step \in {"idle", "read"}

Init ==
  /\ now = Enabled /\ running = TRUE
  /\ stored = {} /\ expired = {}
  /\ coverage = Nothing /\ recorded = {}
  /\ pull = Idle
  /\ import = [i \in Imports |-> NoImport]
  /\ worker = [w \in Workers |-> Idle]
  /\ events = 0

----------------------------------------------------------------------------
(* The platform sends a message.  What the event stream stores by itself is *)
(* left out: it only adds to stored, which no step here reads.              *)

Tick ==
  /\ now < MaxTime
  /\ now' = now + 1
  /\ UNCHANGED <<running, stored, expired, coverageVars, pull, importVars, events>>

\* One read of [start, end) from where the cursor points: up to a page, in
\* order, and where to go on.
Listed(first, end) == {t \in sent : first <= t /\ t < end}
Page(first, end) ==
  {t \in Listed(first, end) : Cardinality(Listed(first, t)) < PageSize}
Rest(first, end) == Listed(first, end) \ Page(first, end)

----------------------------------------------------------------------------
(* coverage.go: the record of one window, [start, end) in seconds.         *)

Unresolved(g) == \E i \in DOMAIN g : ~g[i].complete /\ ~g[i].resolved

Gap(start, end, cursor) ==
  [start |-> start, end |-> end, cursor |-> cursor, resolved |-> FALSE, complete |-> FALSE]

Resolved(g, start, end) ==
  [i \in DOMAIN g |-> IF start <= g[i].start /\ g[i].end <= end
                      THEN [g[i] EXCEPT !.resolved = TRUE] ELSE g[i]]

\* Mutant: a complete window ahead of the covered range moves covered_until over the space between.
RecordCoverageJumping(start, end, complete, cursor, first) ==
  IF ~complete
  THEN [coverage EXCEPT !.gaps = Append(@, Gap(start, end, cursor)), !.flag = TRUE]
  ELSE LET ahead == covered # None /\ FALSE
           closed == Resolved(gaps, start, end)
           left == IF ahead THEN Append(closed, Gap(covered, start, NoCursor)) ELSE closed
       IN [from |-> IF covered = None THEN first ELSE coverage.from,
           covered |-> IF covered = None \/ (~ahead /\ end > covered) THEN end ELSE covered,
           gaps |-> left, flag |-> Unresolved(left)]

\* The watermark after one window; first is the tick from which it was read.
RecordCoverage(start, end, complete, cursor, first) ==
  IF ~complete
  THEN [coverage EXCEPT !.gaps = Append(@, Gap(start, end, cursor)), !.flag = TRUE]
  ELSE LET ahead == covered # None /\ start > covered
           closed == Resolved(gaps, start, end)
           left == IF ahead THEN Append(closed, Gap(covered, start, NoCursor)) ELSE closed
       IN [from |-> IF covered = None THEN first ELSE coverage.from,
           covered |-> IF covered = None \/ (~ahead /\ end > covered) THEN end ELSE covered,
           gaps |-> left, flag |-> Unresolved(left)]

\* The request key of the record names the bounds and the continuation.
RecordOnce(start, end, complete, cursor, first) ==
  LET key == <<start, end, IF complete THEN "complete" ELSE "partial", cursor>>
  IN IF key \in recorded
     THEN UNCHANGED coverageVars
     ELSE /\ recorded' = recorded \cup {key}
          /\ coverage' = RecordCoverage(start, end, complete, cursor, first)

----------------------------------------------------------------------------
(* Collector.PullCursor and the reconcile loop.                            *)

NextWindow ==
  IF covered = None THEN [start |-> now - Ticks(Span), end |-> now]
  ELSE LET start == Ticks(covered - Overlap)
       IN [start |-> start, end |-> IF now - start > Ticks(Span) THEN start + Ticks(Span)
                                    ELSE IF now > start THEN now ELSE start + Ticks(Span)]

Continuable ==
  {i \in DOMAIN gaps : ~gaps[i].complete /\ ~gaps[i].resolved /\ gaps[i].cursor # NoCursor}

Minimum == now - Ticks(Retention)

\* Mutant: a window that was cut short is not continued.
ReconcileWindowFresh ==
  IF FALSE
  THEN LET g == gaps[Max(Continuable)]
       IN [start |-> Ticks(g.start), end |-> Ticks(g.end), cursor |-> g.cursor]
  ELSE [start |-> IF NextWindow.start < Minimum THEN Minimum ELSE NextWindow.start,
        end |-> NextWindow.end, cursor |-> NoCursor]

\* Messages that a fresh window leaves out because they are too old by now.
TooOld == IF Continuable # {} THEN {}
          ELSE {t \in sent : NextWindow.start <= t /\ t < Minimum}

\* A window that was cut short is continued first, within its own bounds.
ReconcileWindow ==
  IF Continuable # {}
  THEN LET g == gaps[Max(Continuable)]
       IN [start |-> Ticks(g.start), end |-> Ticks(g.end), cursor |-> g.cursor]
  ELSE [start |-> IF NextWindow.start < Minimum THEN Minimum ELSE NextWindow.start,
        end |-> NextWindow.end, cursor |-> NoCursor]

Cursor(w, resume) == [start |-> w.start, end |-> w.end, resume |-> resume]

\* The adapter refuses an empty window and a cursor made for another one.
Readable(w) ==
  /\ w.start < w.end
  /\ w.cursor # NoCursor => w.cursor.start = w.start /\ w.cursor.end = w.end

First(w) == IF w.cursor = NoCursor THEN w.start ELSE w.cursor.resume

ReadWindow(w) ==
  LET rest == Rest(First(w), w.end)
  IN pull' = [step |-> "events", window |-> w, left |-> Page(First(w), w.end),
              complete |-> rest = {},
              next |-> IF rest = {} THEN NoCursor ELSE Cursor(w, Min(rest))]

\* A page the adapter cannot vouch for, or whose cursor does not advance.
ReadPartially(w) ==
  pull' = [step |-> "events", window |-> w, left |-> Page(First(w), w.end),
           complete |-> FALSE, next |-> NoCursor]

ReadFails(w) ==
  pull' = IF w.start < w.end
          THEN [step |-> "record", window |-> w, complete |-> FALSE, next |-> NoCursor]
          ELSE Idle

reconcileRoute ==
  /\ running /\ pull = Idle
  /\ LET w == ReconcileWindow
     IN \/ Readable(w) /\ ReadWindow(w) /\ UNCHANGED events
        \/ Readable(w) /\ ReadPartially(w) /\ Happens("stall")
        \/ ~Readable(w) /\ ReadFails(w) /\ UNCHANGED events
        \/ ReadFails(w) /\ Happens("fail")
  /\ expired' = expired \cup TooOld
  /\ UNCHANGED <<sourceVars, stored, coverageVars, importVars>>

\* `channel pull` of a range the operator names.
PullByOperator(start, end) ==
  /\ pull = Idle /\ start < end /\ end <= Seconds(now) /\ Happens("operator")
  /\ ReadWindow([start |-> Ticks(start), end |-> Ticks(end), cursor |-> NoCursor])
  /\ UNCHANGED <<sourceVars, stored, expired, coverageVars, importVars>>

\* Every message is its own transaction, in the order of the page.
Intake ==
  /\ pull.step = "events" /\ pull.left # {}
  /\ LET t == Min(pull.left)
     IN \/ /\ t < Minimum /\ expired' = expired \cup {t}
           /\ pull' = [pull EXCEPT !.left = @ \ {t}]
           /\ UNCHANGED <<stored, events>>
        \/ /\ t >= Minimum /\ stored' = stored \cup {t}
           /\ pull' = [pull EXCEPT !.left = @ \ {t}]
           /\ UNCHANGED <<expired, events>>
        \/ /\ t >= Minimum /\ Happens("busy")
           /\ pull' = [step |-> "record", window |-> pull.window, complete |-> FALSE,
                       next |-> pull.next]
           /\ UNCHANGED <<stored, expired>>
  /\ UNCHANGED <<sourceVars, coverageVars, importVars>>

recordCoverage ==
  /\ pull.step = "record" \/ (pull.step = "events" /\ pull.left = {})
  /\ RecordOnce(Seconds(pull.window.start), Seconds(pull.window.end), pull.complete,
                pull.next, pull.window.start)
  /\ pull' = Idle
  /\ UNCHANGED <<sourceVars, stored, expired, importVars, events>>

----------------------------------------------------------------------------
(* Imports of a fixed range.                                               *)

CreateHistoryImport(i) ==
  /\ import[i] = NoImport /\ running
  /\ \A j \in Imports : import[j] # NoImport => import[j].end # Seconds(now)
  /\ import' = [import EXCEPT ![i] = [status |-> "queued",
                                      start |-> Seconds(now) - HistoryDays, end |-> Seconds(now),
                                      cursor |-> None, failures |-> 0, token |-> 0, until |-> None]]
  /\ UNCHANGED <<sourceVars, stored, expired, coverageVars, pull, worker, events>>

Active(i) == import[i].status = "running" /\ import[i].until > now
Claimable(i) == import[i].status = "queued" \/ (import[i].status = "running" /\ import[i].until <= now)

\* The messages of a past range no longer change, so what the worker will read
\* is fixed with the cursor it was given.
ClaimHistoryImport(w, i) ==
  /\ worker[w] = Idle /\ running /\ Claimable(i)
  /\ \A j \in Imports : ~Active(j)
  /\ import' = [import EXCEPT ![i].status = "running", ![i].token = @ + 1,
                              ![i].until = now + LeaseTime]
  /\ LET end == Ticks(import[i].end)
         first == IF import[i].cursor = None THEN Ticks(import[i].start) ELSE import[i].cursor
         rest == Rest(first, end)
         Read(complete, next) == worker' = [worker EXCEPT ![w] =
           [step |-> "read", import |-> i, token |-> import[i].token + 1, page |-> Page(first, end),
            complete |-> complete, next |-> next]]
     IN \/ rest = {} /\ Read(TRUE, None) /\ UNCHANGED events
        \/ rest # {} /\ Read(FALSE, Min(rest)) /\ UNCHANGED events
        \/ Read(FALSE, import[i].cursor) /\ Happens("stall")
  /\ UNCHANGED <<sourceVars, stored, expired, coverageVars, pull>>

\* Mutant: the claim is checked without its token.
checkHistoryClaimStatus(w) ==
  LET i == worker[w].import
  IN Active(i) /\ running

checkHistoryClaim(w) ==
  LET i == worker[w].import
  IN Active(i) /\ import[i].token = worker[w].token /\ running

ImportCursor(h, resume) ==
  IF resume = None THEN NoCursor ELSE Cursor([start |-> Ticks(h.start), end |-> Ticks(h.end)], resume)

Completed(g, start, end) ==
  [i \in DOMAIN g |-> IF g[i].start = start /\ g[i].end = end
                      THEN [g[i] EXCEPT !.complete = TRUE, !.cursor = NoCursor] ELSE g[i]]

\* A finished import completes the partial windows of exactly its range, and the
\* flag is computed from all the others, resolved or not.
ImportCovers(h) ==
  LET after == RecordCoverage(h.start, h.end, TRUE, NoCursor, Ticks(h.start))
      left == Completed(after.gaps, h.start, h.end)
  IN [after EXCEPT !.gaps = left, !.flag = \E i \in DOMAIN left : ~left[i].complete]

\* Events, coverage and the continuation are committed together.  An import that
\* does not advance is given up.
FinishHistoryImport(w) ==
  /\ worker[w].step = "read"
  /\ LET i == worker[w].import
         h == import[i]
         complete == worker[w].complete
     IN IF checkHistoryClaim(w)
        THEN /\ stored' = stored \cup worker[w].page
             /\ coverage' = IF complete THEN ImportCovers(h)
                  ELSE RecordCoverage(h.start, h.end, FALSE, ImportCursor(h, worker[w].next),
                                      Ticks(h.start))
             /\ import' = [import EXCEPT
                  ![i].status = IF complete THEN "completed"
                                ELSE IF worker[w].next = h.cursor THEN "failed" ELSE "queued",
                  ![i].cursor = worker[w].next, ![i].failures = 0, ![i].until = None]
             /\ UNCHANGED recorded
        ELSE UNCHANGED <<stored, coverageVars, import>>
  /\ worker' = [worker EXCEPT ![w] = Idle]
  /\ UNCHANGED <<sourceVars, expired, pull, events>>

FailHistoryImport(w) ==
  /\ worker[w].step # "idle" /\ Happens("fail")
  /\ LET i == worker[w].import
     IN import' = IF checkHistoryClaim(w)
          THEN [import EXCEPT ![i].status = IF import[i].failures >= MaxFailures THEN "failed" ELSE "queued",
                              ![i].failures = @ + 1, ![i].until = None]
          ELSE import
  /\ worker' = [worker EXCEPT ![w] = Idle]
  /\ UNCHANGED <<sourceVars, stored, expired, coverageVars, pull>>

CancelHistoryImport(i) ==
  /\ import[i].status \in {"queued", "running", "failed"} /\ Happens("cancel")
  /\ import' = [import EXCEPT ![i].status = "cancelled", ![i].until = None]
  /\ UNCHANGED <<sourceVars, stored, expired, coverageVars, pull, worker>>

RetryHistoryImport(i) ==
  /\ import[i].status \in {"failed", "cancelled"}
  /\ import' = [import EXCEPT ![i].status = "queued", ![i].failures = 0, ![i].until = None]
  /\ UNCHANGED <<sourceVars, stored, expired, coverageVars, pull, worker, events>>

----------------------------------------------------------------------------
SetDataSourceStatus ==
  /\ Happens("pause")
  /\ running' = ~running
  /\ UNCHANGED <<now, stored, expired, coverageVars, pull, importVars>>

\* The process dies: what was being read is forgotten, claims run out.
Crash ==
  /\ Happens("crash")
  /\ pull' = Idle
  /\ worker' = [w \in Workers |-> Idle]
  /\ UNCHANGED <<sourceVars, stored, expired, coverageVars, import>>

Next ==
  \/ Tick
  \/ reconcileRoute \/ Intake \/ recordCoverage
  \/ \E start \in 0..Seconds(now), end \in 0..Seconds(now) : PullByOperator(start, end)
  \/ \E i \in Imports :
       \/ CreateHistoryImport(i) \/ CancelHistoryImport(i) \/ RetryHistoryImport(i)
       \/ \E w \in Workers : ClaimHistoryImport(w, i)
  \/ \E w \in Workers : FinishHistoryImport(w) \/ FailHistoryImport(w)
  \/ SetDataSourceStatus \/ Crash

Spec == Init /\ [][Next]_vars

\* The reconcile loop runs on a timer and a pull that began goes on.
Fairness == WF_vars(reconcileRoute) /\ WF_vars(Intake) /\ WF_vars(recordCoverage)
LiveSpec == Spec /\ Fairness

----------------------------------------------------------------------------
(* Properties.                                                             *)

\* covered_until never passes a message that is neither stored nor too old to
\* keep, however pulls, imports, faults and restarts interleave
\* (coverage.go:60, "a truncated window can never be mistaken for full coverage"),
\* and a window that is still open is never hidden by the flag (coverage.go:97).
CoveredIsStored ==
  /\ covered # None =>
       \A t \in sent : coverage.from <= t /\ t < Ticks(covered) => t \in stored \cup expired
  /\ Unresolved(gaps) => coverage.flag

\* Whichever worker takes which step, and however often an import is cancelled
\* and retried: a completed one left out no message of its range and stays as it
\* is, a cancelled one is only asked for again, and its cursor never moves back
\* (history_import.go:199).
ImportIsComplete ==
  /\ [](\A i \in Imports : import[i].status = "completed" =>
          \A t \in sent : Ticks(import[i].start) <= t /\ t < Ticks(import[i].end) => t \in stored)
  /\ [][\A i \in Imports :
          /\ import[i].status = "completed" => import'[i] = import[i]
          /\ import[i].status = "cancelled" => import'[i].status \in {"cancelled", "queued"}
          /\ import[i].status = "running" /\ import'[i].status = "queued" /\ import'[i].cursor # None
               => import'[i].cursor >= import[i].cursor]_vars

\* A window that was cut short is eventually read to its end
\* (direct-message-retention-design-detail.md:19).
CutWindowCloses == Continuable # {} /\ running ~> Continuable = {} \/ ~running
=============================================================================
