------------------------ MODULE HistoryCoverageProofs ------------------------
(***************************************************************************)
(* Proofs about HistoryCoverage: what covered_until and a completed import *)
(* claim was read.                                                         *)
(***************************************************************************)
EXTENDS HistoryCoverage, SequenceTheorems, WellFoundedInduction, TLAPS

Cursors == {NoCursor} \cup [start : Int, end : Int, resume : Nat]
Windows == [start : Int, end : Int, cursor : Cursors]
Gaps == [start : Int, end : Int, cursor : Cursors, resolved : BOOLEAN, complete : BOOLEAN]
Coverages == [from : Int, covered : Int, gaps : Seq(Gaps), flag : BOOLEAN]
Reading == [step : {"events"}, window : Windows, left : SUBSET Int, complete : BOOLEAN, next : Cursors]
Failing == [step : {"record"}, window : Windows, complete : {FALSE}, next : Cursors]
Points == Nat \cup {None}
ImportRecords ==
  [status : {"queued", "running", "completed", "failed", "cancelled"}, start : Int, end : Int,
   cursor : Points, failures : Nat, token : Nat, until : Int]
Steps == [step : {"read"}, import : Imports, token : Nat, page : SUBSET Int, complete : BOOLEAN,
          next : Points]

Types ==
  /\ now \in 0..MaxTime /\ running \in BOOLEAN
  /\ stored \subseteq sent /\ expired \subseteq sent
  /\ coverage \in Coverages
  /\ pull \in {Idle} \cup Reading \cup Failing
  /\ import \in [Imports -> {NoImport} \cup ImportRecords]
  /\ worker \in [Workers -> {Idle} \cup Steps]

Kept == stored \cup expired

\* Every message in [a, b) is in K.
Through(a, b, K) == \A t \in sent : a <= t /\ t < b => t \in K

----------------------------------------------------------------------------
(* What the watermark and the gaps claim.                                  *)

CoversIn(c, K) ==
  c.covered # None =>
    /\ c.covered \in Nat /\ c.covered <= Seconds(now)
    /\ Through(c.from, Ticks(c.covered), K)

\* A gap that can be continued was read up to where its cursor resumes.
GapsIn(g, K) == \A i \in DOMAIN g :
  /\ g[i].start < g[i].end /\ g[i].end \in Nat /\ g[i].end <= Seconds(now)
  /\ g[i].cursor # NoCursor =>
       g[i].cursor.resume < now /\ Through(g[i].cursor.start, g[i].cursor.resume, K)

Flagged(c) == Unresolved(c.gaps) => c.flag

CoverageIn(c, K) == CoversIn(c, K) /\ GapsIn(c.gaps, K) /\ Flagged(c)

\* The part of its first second that a window did not read is behind
\* covered_until or was passed over.
StartIn(w, c, K) ==
  c.covered # None => \A t \in sent :
    Ticks(c.covered) <= t /\ Ticks(Seconds(w.start)) <= t /\ t < w.start => t \in K

PullIn(p, c, K) ==
  /\ p.step # "idle" => StartIn(p.window, c, K)
  /\ p.step = "events" =>
       /\ p.complete => Through(p.window.start, p.window.end, K \cup p.left)
       /\ p.next # NoCursor => Through(p.next.start, p.next.resume, K \cup p.left)
  /\ p.step = "record" /\ p.next # NoCursor => Through(p.next.start, p.next.resume, K)

CoverageInv == CoverageIn(coverage, Kept) /\ PullIn(pull, coverage, Kept)

----------------------------------------------------------------------------
(* What an import has read.                                                *)

Resumed(h) == IF h.cursor = None THEN Ticks(h.start) ELSE h.cursor

RangeIn(h) ==
  /\ h.cursor # None => Ticks(h.start) <= h.cursor /\ Through(Ticks(h.start), h.cursor, stored)
  /\ h.status = "completed" => Through(Ticks(h.start), Ticks(h.end), stored)

\* What a worker holds in its hand, as long as its claim stands.
HeldIn(v, h) ==
  /\ v.token <= h.token
  /\ v.token = h.token /\ h.status = "running" =>
       /\ v.complete => v.next = None /\ Through(Resumed(h), Ticks(h.end), v.page)
       /\ ~v.complete /\ v.next # h.cursor =>
            v.next # None /\ Resumed(h) <= v.next /\ Through(Resumed(h), v.next, v.page)

ImportInv ==
  /\ \A i \in Imports : import[i].status # "absent" => RangeIn(import[i])
  /\ \A w \in Workers : worker[w].step = "read" => HeldIn(worker[w], import[worker[w].import])

----------------------------------------------------------------------------
(* Nothing claims to be about the future.                                  *)

PullBound ==
  /\ pull.step # "idle" =>
       /\ pull.window.end \in Nat /\ pull.window.end <= now
       /\ Seconds(pull.window.start) < Seconds(pull.window.end)
       /\ pull.next # NoCursor => pull.next.resume < now
  /\ pull.step = "events" => pull.left \subseteq sent

ImportBound == \A i \in Imports : import[i].status # "absent" =>
  /\ import[i].start < import[i].end /\ import[i].end \in Nat
  /\ import[i].end <= Seconds(now) /\ import[i].cursor < now

WorkerBound == \A w \in Workers : worker[w].step = "read" =>
  /\ import[worker[w].import].status # "absent"
  /\ worker[w].page \subseteq sent /\ worker[w].next < now

Bounds == CoverageIn(coverage, sent) /\ PullBound /\ ImportBound /\ WorkerBound

----------------------------------------------------------------------------
(* Lemmas about the operators.                                             *)

LEMMA Arithmetic ==
  ASSUME HistoryCoverageAssumption
  PROVE
         /\ \A x \in Int : Seconds(x) \in Int /\ Ticks(x) \in Int
         /\ \A x \in Int : Ticks(Seconds(x)) <= x /\ x < Ticks(Seconds(x)) + Fraction
         /\ \A x \in Int : Seconds(Ticks(x)) = x
         /\ \A x, y \in Int : x <= y => Ticks(x) <= Ticks(y) /\ Seconds(x) <= Seconds(y)
         /\ \A x, y \in Int : x < y => Ticks(x) + Fraction <= Ticks(y)
         /\ \A x, y \in Int : Ticks(x - y) = Ticks(x) - Ticks(y) /\ Ticks(x + y) = Ticks(x) + Ticks(y)
         /\ \A x \in Nat : Ticks(x) \in Nat /\ Seconds(x) \in Nat
         /\ \A x \in Nat \ {0} : Ticks(x) >= Fraction
<1>1. Fraction \in Nat /\ Fraction > 0
  BY DEF HistoryCoverageAssumption
<1>2. \A x \in Int : Seconds(x) \in Int /\ Ticks(x) \in Int
  BY <1>1 DEF Seconds, Ticks
<1>3. \A x \in Int : Ticks(Seconds(x)) <= x /\ x < Ticks(Seconds(x)) + Fraction
  BY <1>1, <1>2, SMTT(30) DEF Seconds, Ticks
<1>4. \A x, y \in Int : x < y => Ticks(x) + Fraction <= Ticks(y)
  <2> SUFFICES ASSUME NEW x \in Int, NEW y \in Int, x < y PROVE x * Fraction + Fraction <= y * Fraction
    BY DEF Ticks
  <2>1. (y - x - 1) \in Nat
    OBVIOUS
  <2>2. (y - x - 1) * Fraction \in Nat
    BY <1>1, <2>1
  <2>3. (y - x - 1) * Fraction = y * Fraction - x * Fraction - Fraction
    BY <1>1
  <2> QED
    BY <1>1, <2>2, <2>3
<1>5. \A x, y \in Int : x <= y => Ticks(x) <= Ticks(y)
  <2> SUFFICES ASSUME NEW x \in Int, NEW y \in Int, x <= y PROVE Ticks(x) <= Ticks(y)
    OBVIOUS
  <2>1. CASE x = y
    BY <1>2, <2>1
  <2>2. CASE x < y
    BY <1>1, <1>2, <1>4, <2>2
  <2> QED
    BY <2>1, <2>2
<1>6. \A x, y \in Int : x <= y => Seconds(x) <= Seconds(y)
  <2> SUFFICES ASSUME NEW x \in Int, NEW y \in Int, x <= y, Seconds(y) < Seconds(x) PROVE FALSE
    BY <1>2
  <2> QED
    BY <1>1, <1>2, <1>3, <1>4
<1>7. \A x \in Int : Seconds(Ticks(x)) = x
  <2> SUFFICES ASSUME NEW x \in Int PROVE Seconds(Ticks(x)) = x
    OBVIOUS
  <2> DEFINE s == Seconds(Ticks(x))
  <2>1. s \in Int /\ Ticks(s) <= Ticks(x) /\ Ticks(x) < Ticks(s) + Fraction
    BY <1>2, <1>3
  <2>2. ~(s < x)
    BY <1>1, <1>2, <1>4, <2>1
  <2>3. ~(x < s)
    BY <1>1, <1>2, <1>4, <2>1
  <2> QED
    BY <2>1, <2>2, <2>3
<1>8. \A x, y \in Int : Ticks(x - y) = Ticks(x) - Ticks(y) /\ Ticks(x + y) = Ticks(x) + Ticks(y)
  BY <1>1 DEF Ticks
<1>9. \A x \in Nat : Ticks(x) \in Nat
  BY <1>1 DEF Ticks
<1>10. \A x \in Nat : Seconds(x) \in Nat
  <2>1. Seconds(0) = 0
    BY <1>1, <1>7 DEF Ticks
  <2> QED
    BY <1>2, <1>6, <2>1
<1>11. \A x \in Nat \ {0} : Ticks(x) >= Fraction
  <2>1. Ticks(0) = 0
    BY <1>1 DEF Ticks
  <2> QED
    BY <1>1, <1>4, <2>1
<1> QED
  BY <1>2, <1>3, <1>4, <1>5, <1>6, <1>7, <1>8, <1>9, <1>10, <1>11

LEMMA WholeSeconds ==
  ASSUME HistoryCoverageAssumption, Fraction = 1
  PROVE \A x \in Int : Ticks(x) = x /\ Seconds(x) = x
<1>1. \A x \in Int : Ticks(x) = x
  BY DEF Ticks
<1> QED
  BY <1>1, Arithmetic

LEMMA LeastOf == ASSUME NEW S \in SUBSET Nat, S # {} PROVE Min(S) \in S /\ \A y \in S : Min(S) <= y
<1>1. IsWellFoundedOn(OpToRel(<, Nat), Nat)
  BY NatLessThanWellFounded
<1>2. \E x \in S : \A y \in S : ~(<<y, x>> \in OpToRel(<, Nat))
  BY <1>1, WFMin
<1>3. \E x \in S : \A y \in S : x <= y
  <2>1. PICK x \in S : \A y \in S : ~(<<y, x>> \in OpToRel(<, Nat))
    BY <1>2
  <2>2. \A y \in S : ~(y < x)
    BY <2>1 DEF OpToRel
  <2> QED
    BY <2>2
<1> QED
  BY <1>3 DEF Min

LEMMA GreatestOf == ASSUME NEW n \in Nat, NEW S \in SUBSET (1..n), S # {} PROVE Max(S) \in S
<1> DEFINE T == {n - x : x \in S}
<1>1. T \in SUBSET Nat /\ T # {}
  <2>1. \A x \in S : n - x \in Nat
    OBVIOUS
  <2> QED
    BY <2>1
<1>2. Min(T) \in T /\ \A y \in T : Min(T) <= y
  BY <1>1, LeastOf
<1>3. PICK x \in S : Min(T) = n - x
  BY <1>2
<1>4. \A y \in S : n - y \in T
  OBVIOUS
<1>5. \A y \in S : x >= y
  <2> SUFFICES ASSUME NEW y \in S PROVE x >= y
    OBVIOUS
  <2>1. n - y \in T
    BY <1>4
  <2>2. n - x <= n - y
    BY <1>2, <1>3, <2>1
  <2> QED
    BY <2>2
<1> QED
  BY <1>5 DEF Max

\* A read of [first, end): up to where it goes on, nothing was left out.
LEMMA PageRead ==
  ASSUME HistoryCoverageAssumption, now \in Nat, NEW first \in Int, NEW end \in Int
  PROVE  /\ Page(first, end) \subseteq sent
         /\ Rest(first, end) = {} => Through(first, end, Page(first, end))
         /\ Rest(first, end) # {} =>
              /\ Min(Rest(first, end)) \in sent /\ Min(Rest(first, end)) \in Nat
              /\ first <= Min(Rest(first, end)) /\ Min(Rest(first, end)) < now
              /\ Through(first, Min(Rest(first, end)), Page(first, end))
<1>1. Page(first, end) \subseteq Listed(first, end) /\ Listed(first, end) \subseteq sent
  BY DEF Page, Listed
<1>2. \A t \in sent : t \in Nat /\ t < now
  BY DEF sent
<1>3. Rest(first, end) = {} => Through(first, end, Page(first, end))
  BY DEF Through, Rest, Listed
<1>4. ASSUME Rest(first, end) # {}
      PROVE  /\ Min(Rest(first, end)) \in Rest(first, end)
             /\ \A y \in Rest(first, end) : Min(Rest(first, end)) <= y
  <2>1. Rest(first, end) \in SUBSET Nat
    BY <1>1, <1>2 DEF Rest
  <2> QED
    BY <1>4, <2>1, LeastOf
<1>5. ASSUME Rest(first, end) # {}
      PROVE  /\ Min(Rest(first, end)) \in sent /\ first <= Min(Rest(first, end))
             /\ Min(Rest(first, end)) < end
    BY <1>4, <1>5 DEF Rest, Listed
<1>6. ASSUME Rest(first, end) # {} PROVE Through(first, Min(Rest(first, end)), Page(first, end))
  <2> SUFFICES ASSUME NEW t \in sent, first <= t, t < Min(Rest(first, end)) PROVE t \in Page(first, end)
    BY DEF Through
  <2>1. t \in Listed(first, end)
    BY <1>2, <1>5, <1>6 DEF Listed
  <2>2. t \notin Rest(first, end)
    BY <1>2, <1>4, <1>5, <1>6
  <2> QED
    BY <2>1, <2>2 DEF Rest
<1> QED
  BY <1>1, <1>2, <1>3, <1>5, <1>6

\* A list of gaps whose entries are changed one by one.
LEMMA Mapped ==
  ASSUME NEW g \in Seq(Gaps), NEW f, f = [i \in DOMAIN g |-> f[i]], \A i \in DOMAIN g : f[i] \in Gaps
  PROVE  f \in Seq(Gaps) /\ DOMAIN f = DOMAIN g
<1>1. Len(g) \in Nat /\ DOMAIN g = 1..Len(g)
  BY LenProperties
<1>2. f \in [1..Len(g) -> Gaps]
  BY <1>1
<1> QED
  BY <1>1, <1>2, SeqDef

LEMMA Appended ==
  ASSUME NEW g \in Seq(Gaps), NEW x \in Gaps
  PROVE  /\ Append(g, x) \in Seq(Gaps)
         /\ \A i \in DOMAIN Append(g, x) :
              (i \in DOMAIN g /\ Append(g, x)[i] = g[i]) \/ Append(g, x)[i] = x
         /\ \A i \in DOMAIN g : i \in DOMAIN Append(g, x) /\ Append(g, x)[i] = g[i]
<1>1. Len(g) \in Nat /\ DOMAIN g = 1..Len(g)
  BY LenProperties
<1> QED
  BY <1>1

LEMMA ResolvedGaps ==
  ASSUME HistoryCoverageAssumption, NEW g \in Seq(Gaps), NEW start \in Int, NEW end \in Int
  PROVE  /\ Resolved(g, start, end) \in Seq(Gaps) /\ DOMAIN Resolved(g, start, end) = DOMAIN g
         /\ \A i \in DOMAIN g : /\ Resolved(g, start, end)[i].start = g[i].start
                               /\ Resolved(g, start, end)[i].end = g[i].end
                               /\ Resolved(g, start, end)[i].cursor = g[i].cursor
<1> DEFINE f == Resolved(g, start, end)
<1>1. ASSUME NEW r \in Gaps
      PROVE  /\ [r EXCEPT !.resolved = TRUE] \in Gaps
             /\ [r EXCEPT !.resolved = TRUE].start = r.start
             /\ [r EXCEPT !.resolved = TRUE].end = r.end
             /\ [r EXCEPT !.resolved = TRUE].cursor = r.cursor
  BY DEF Gaps
<1>2. \A i \in DOMAIN g : g[i] \in Gaps
  BY LenProperties
<1>3. f = [i \in DOMAIN g |-> f[i]]
  BY DEF Resolved
<1>4. \A i \in DOMAIN g : f[i] = [g[i] EXCEPT !.resolved = TRUE] \/ f[i] = g[i]
  BY DEF Resolved
<1>5. \A i \in DOMAIN g : f[i] \in Gaps /\ f[i].start = g[i].start /\ f[i].end = g[i].end
                                      /\ f[i].cursor = g[i].cursor
  BY <1>1, <1>2, <1>4
<1> HIDE DEF f
<1>6. f \in Seq(Gaps) /\ DOMAIN f = DOMAIN g
  BY <1>3, <1>5, Mapped
<1> QED
  BY <1>5, <1>6 DEF f

LEMMA CompletedGaps ==
  ASSUME HistoryCoverageAssumption, NEW g \in Seq(Gaps), NEW start \in Int, NEW end \in Int
  PROVE  /\ Completed(g, start, end) \in Seq(Gaps) /\ DOMAIN Completed(g, start, end) = DOMAIN g
         /\ \A i \in DOMAIN g : /\ Completed(g, start, end)[i].start = g[i].start
                               /\ Completed(g, start, end)[i].end = g[i].end
                               /\ Completed(g, start, end)[i].cursor \in {g[i].cursor, NoCursor}
<1> DEFINE f == Completed(g, start, end)
<1>1. ASSUME NEW r \in Gaps
      PROVE  /\ [r EXCEPT !.complete = TRUE, !.cursor = NoCursor] \in Gaps
             /\ [r EXCEPT !.complete = TRUE, !.cursor = NoCursor].start = r.start
             /\ [r EXCEPT !.complete = TRUE, !.cursor = NoCursor].end = r.end
             /\ [r EXCEPT !.complete = TRUE, !.cursor = NoCursor].cursor = NoCursor
  BY DEF Gaps, Cursors
<1>2. \A i \in DOMAIN g : g[i] \in Gaps
  BY LenProperties
<1>3. f = [i \in DOMAIN g |-> f[i]]
  BY DEF Completed
<1>4. \A i \in DOMAIN g : f[i] = [g[i] EXCEPT !.complete = TRUE, !.cursor = NoCursor] \/ f[i] = g[i]
  BY DEF Completed
<1>5. \A i \in DOMAIN g : f[i] \in Gaps /\ f[i].start = g[i].start /\ f[i].end = g[i].end
                                      /\ f[i].cursor \in {g[i].cursor, NoCursor}
  <2> HIDE DEF f
  <2> SUFFICES ASSUME NEW i \in DOMAIN g
               PROVE  f[i] \in Gaps /\ f[i].start = g[i].start /\ f[i].end = g[i].end
                                    /\ f[i].cursor \in {g[i].cursor, NoCursor}
    OBVIOUS
  <2>1. CASE f[i] = g[i]
    BY <1>2, <2>1
  <2>2. CASE f[i] = [g[i] EXCEPT !.complete = TRUE, !.cursor = NoCursor]
    <3> DEFINE e == [g[i] EXCEPT !.complete = TRUE, !.cursor = NoCursor]
    <3>1. g[i] \in Gaps
      BY <1>2
    <3>2. e \in Gaps /\ e.start = g[i].start /\ e.end = g[i].end /\ e.cursor = NoCursor
      BY <1>1, <3>1
    <3>3. f[i] = e
      BY <2>2
    <3> HIDE DEF e
    <3> QED
      BY <3>2, <3>3
  <2> QED
    BY <1>4, <2>1, <2>2
<1> HIDE DEF f
<1>6. f \in Seq(Gaps) /\ DOMAIN f = DOMAIN g
  BY <1>3, <1>5, Mapped
<1> QED
  BY <1>5, <1>6 DEF f

Opened(c, x) == [c EXCEPT !.gaps = Append(@, x), !.flag = TRUE]

\* A window that was not read to its end becomes a gap.
LEMMA RecordPartial ==
  ASSUME HistoryCoverageAssumption, now \in Nat, coverage \in Coverages, NEW K, CoverageIn(coverage, K),
         NEW start \in Int, NEW end \in Nat, start < end, end <= Seconds(now), NEW cursor \in Cursors,
         cursor # NoCursor => cursor.resume < now /\ Through(cursor.start, cursor.resume, K),
         NEW x, x = Gap(start, end, cursor), NEW R, R = Opened(coverage, x)
  PROVE  R \in Coverages /\ CoverageIn(R, K) /\ R.covered = covered
<1>a. gaps \in Seq(Gaps) /\ covered \in Int /\ coverage.from \in Int /\ coverage.flag \in BOOLEAN
      /\ coverage = [from |-> coverage.from, covered |-> covered, gaps |-> gaps, flag |-> coverage.flag]
  BY DEF Coverages, gaps, covered
<1>b. CoversIn(coverage, K) /\ GapsIn(gaps, K) /\ Flagged(coverage)
  BY DEF CoverageIn, gaps
<1>c. Seconds(now) \in Nat
  BY Arithmetic
<1>1. x \in Gaps /\ x.start = start /\ x.end = end /\ x.cursor = cursor
  BY DEF Gap, Gaps
<1>2. R = [from |-> coverage.from, covered |-> covered, gaps |-> Append(gaps, x), flag |-> TRUE]
  BY <1>a DEF gaps, covered, Opened
<1>3. Append(gaps, x) \in Seq(Gaps)
  BY <1>a, <1>1, Appended
<1>4. R \in Coverages /\ R.covered = covered /\ R.from = coverage.from /\ R.gaps = Append(gaps, x) /\ R.flag
  BY <1>a, <1>2, <1>3 DEF Coverages
<1>5. GapsIn(R.gaps, K)
  <2> SUFFICES ASSUME NEW i \in DOMAIN Append(gaps, x)
               PROVE  LET e == Append(gaps, x)[i]
                      IN /\ e.start < e.end /\ e.end \in Nat /\ e.end <= Seconds(now)
                         /\ e.cursor # NoCursor =>
                              e.cursor.resume < now /\ Through(e.cursor.start, e.cursor.resume, K)
    BY <1>4 DEF GapsIn
  <2>1. CASE i \in DOMAIN gaps /\ Append(gaps, x)[i] = gaps[i]
    BY <1>b, <2>1 DEF GapsIn
  <2>2. CASE Append(gaps, x)[i] = x
    BY <1>1, <2>2
  <2> QED
    BY <1>a, <1>1, <2>1, <2>2, Appended
<1>6. CoversIn(R, K) /\ Flagged(R)
  BY <1>b, <1>4 DEF CoversIn, Flagged, covered
<1> QED
  BY <1>a, <1>4, <1>5, <1>6 DEF CoverageIn

\* Recording a window that was read as far as it claims keeps every claim.
LEMMA RecordKeeps ==
  ASSUME HistoryCoverageAssumption, now \in Nat, coverage \in Coverages, NEW K, CoverageIn(coverage, K),
         NEW start \in Int, NEW end \in Nat, start < end, end <= Seconds(now),
         NEW complete \in BOOLEAN, NEW cursor \in Cursors, NEW first \in Int,
         complete => /\ Seconds(first) = start /\ Through(first, Ticks(end), K)
                     /\ covered # None => \A t \in sent :
                          Ticks(covered) <= t /\ Ticks(start) <= t /\ t < first => t \in K,
         ~complete /\ cursor # NoCursor =>
           cursor.resume < now /\ Through(cursor.start, cursor.resume, K),
         NEW R, R = RecordCoverage(start, end, complete, cursor, first)
  PROVE  /\ R \in Coverages /\ CoverageIn(R, K)
         /\ covered # None => R.covered # None /\ covered <= R.covered
         /\ ~complete => R.covered = covered
<1>1. gaps \in Seq(Gaps) /\ covered \in Int /\ coverage.from \in Int /\ coverage.flag \in BOOLEAN
      /\ coverage = [from |-> coverage.from, covered |-> covered, gaps |-> gaps, flag |-> coverage.flag]
  BY DEF Coverages, gaps, covered
<1>2. CoversIn(coverage, K) /\ GapsIn(gaps, K) /\ Flagged(coverage)
  BY DEF CoverageIn, gaps
<1>3. Seconds(now) \in Nat
  BY Arithmetic
<1>4. ASSUME ~complete
      PROVE  /\ R \in Coverages /\ CoverageIn(R, K)
             /\ covered # None => R.covered # None /\ covered <= R.covered
             /\ R.covered = covered
  <2>1. PICK x : x = Gap(start, end, cursor)
    OBVIOUS
  <2>2. R = Opened(coverage, x)
    BY <1>4, <2>1 DEF RecordCoverage, Opened
  <2>3. R \in Coverages /\ CoverageIn(R, K) /\ R.covered = covered
    BY <1>4, <2>1, <2>2, RecordPartial
  <2> QED
    BY <1>1, <2>3
<1>5. ASSUME complete
      PROVE  /\ R \in Coverages /\ CoverageIn(R, K)
             /\ covered # None => R.covered # None /\ covered <= R.covered
  <2> DEFINE ahead == covered # None /\ start > covered
             closed == Resolved(gaps, start, end)
             x == Gap(covered, start, NoCursor)
             left == IF ahead THEN Append(closed, x) ELSE closed
             from == IF covered = None THEN first ELSE coverage.from
             until == IF covered = None \/ (~ahead /\ end > covered) THEN end ELSE covered
  <2>1. R = [from |-> from, covered |-> until, gaps |-> left, flag |-> Unresolved(left)]
    BY <1>5 DEF RecordCoverage
  <2>2. closed \in Seq(Gaps) /\ GapsIn(closed, K)
    <3>1. closed \in Seq(Gaps) /\ DOMAIN closed = DOMAIN gaps
          /\ \A i \in DOMAIN gaps : /\ closed[i].start = gaps[i].start
                                   /\ closed[i].end = gaps[i].end
                                   /\ closed[i].cursor = gaps[i].cursor
      <4>1. end \in Int
        OBVIOUS
      <4> QED
        BY <1>1, <4>1, ResolvedGaps
    <3> HIDE DEF closed
    <3> QED
      BY <1>2, <3>1 DEF GapsIn
  <2>3. x \in Gaps /\ x.start = covered /\ x.end = start /\ x.cursor = NoCursor
    BY <1>1 DEF Gap, Gaps, Cursors
  <2> HIDE DEF closed, x
  <2>4. left \in Seq(Gaps) /\ GapsIn(left, K)
    <3>1. CASE ~ahead
      BY <2>2, <3>1
    <3>2. CASE ahead
      <4>1. left = Append(closed, x)
        BY <3>2
      <4>2. left \in Seq(Gaps)
        BY <2>2, <2>3, <4>1, Appended
      <4>3. ASSUME NEW i \in DOMAIN left
            PROVE  (i \in DOMAIN closed /\ left[i] = closed[i]) \/ left[i] = x
        BY <2>2, <2>3, <4>1, Appended
      <4>4. x.start < x.end /\ x.end \in Nat /\ x.end <= Seconds(now)
        BY <1>1, <1>2, <1>3, <2>3, <3>2 DEF CoversIn, covered
      <4> HIDE DEF left
      <4> QED
        BY <2>2, <2>3, <4>2, <4>3, <4>4 DEF GapsIn
    <3> QED
      BY <3>1, <3>2
  <2>5. Unresolved(left) \in BOOLEAN
    BY DEF Unresolved
  <2> HIDE DEF left
  <2>6. from \in Int /\ until \in Int
    BY <1>1
  <2>7. R \in Coverages /\ R.from = from /\ R.covered = until /\ R.gaps = left /\ R.flag = Unresolved(left)
    BY <2>1, <2>4, <2>5, <2>6 DEF Coverages
  <2>8. CoversIn(R, K)
    <3>1. until \in Nat /\ until <= Seconds(now) /\ until # None
      BY <1>1, <1>2, <1>3, <1>5 DEF CoversIn, covered, None
    <3>2. Through(from, Ticks(until), K)
      <4> SUFFICES ASSUME NEW t \in sent, from <= t, t < Ticks(until) PROVE t \in K
        BY DEF Through
      <4>1. t \in Nat
        BY DEF sent
      <4>2. CASE covered = None
        BY <1>5, <4>2 DEF Through
      <4>3. CASE covered # None /\ until = covered
        BY <1>2, <4>3 DEF CoversIn, Through, covered
      <4>4. CASE covered # None /\ until # covered
        <5>1. until = end /\ start <= covered /\ from = coverage.from
          BY <1>1, <4>4
        <5>2. Ticks(covered) \in Int /\ Ticks(start) \in Int /\ Ticks(start) <= Ticks(covered) /\ Ticks(end) \in Int
          BY <1>1, <5>1, Arithmetic
        <5>3. CASE t < Ticks(covered)
          BY <1>2, <4>4, <5>1, <5>3 DEF CoversIn, Through, covered
        <5>4. CASE Ticks(covered) <= t /\ t < first
          BY <1>5, <4>1, <4>4, <5>2, <5>4
        <5>5. CASE first <= t
          BY <1>5, <5>1, <5>5 DEF Through
        <5> QED
          BY <4>1, <5>2, <5>3, <5>4, <5>5
      <4> QED
        BY <4>2, <4>3, <4>4
    <3> HIDE DEF from, until
    <3> QED
      BY <2>7, <3>1, <3>2 DEF CoversIn
  <2>9. covered # None => R.covered # None /\ covered <= R.covered
    <3>1. covered # None => until # None /\ covered <= until
      BY <1>1, <1>5 DEF None
    <3> HIDE DEF until
    <3> QED
      BY <2>7, <3>1
  <2>10. Flagged(R)
    BY <2>7 DEF Flagged
  <2> HIDE DEF from, until
  <2> QED
    BY <2>4, <2>7, <2>8, <2>9, <2>10 DEF CoverageIn
<1> QED
  BY <1>4, <1>5

LEMMA SecondsBetween ==
  ASSUME HistoryCoverageAssumption, NEW x \in Int, NEW y \in Int
  PROVE  /\ x + Fraction <= y => Seconds(x) < Seconds(y)
         /\ x < Ticks(y) => Seconds(x) < y
         /\ y <= Seconds(x) => Ticks(y) <= x
<1>1. Fraction \in Nat /\ Fraction > 0
  BY DEF HistoryCoverageAssumption
<1>2. /\ Seconds(x) \in Int /\ Seconds(y) \in Int /\ Ticks(Seconds(x)) \in Int /\ Ticks(Seconds(y)) \in Int /\ Ticks(y) \in Int
      /\ Ticks(Seconds(x)) <= x /\ x < Ticks(Seconds(x)) + Fraction
      /\ Ticks(Seconds(y)) <= y /\ y < Ticks(Seconds(y)) + Fraction
  BY Arithmetic
<1>3. Seconds(y) <= Seconds(x) => Ticks(Seconds(y)) <= Ticks(Seconds(x))
  BY <1>2, Arithmetic
<1>4. y <= Seconds(x) => Ticks(y) <= Ticks(Seconds(x))
  BY <1>2, Arithmetic
<1> QED
  BY <1>1, <1>2, <1>3, <1>4

\* The windows a reconcile reads end by now and hold a whole second, and what
\* they leave out of their first second is covered or too old.
LEMMA WindowFacts ==
  ASSUME HistoryCoverageAssumption, Types, Bounds, NEW w, w = ReconcileWindow
  PROVE  /\ w \in Windows /\ w.end \in Nat /\ w.end <= now
         /\ w.start < w.end => Seconds(w.start) < Seconds(w.end)
         /\ covered # None => \A t \in sent :
              Ticks(covered) <= t /\ Ticks(Seconds(w.start)) <= t /\ t < w.start => t \in TooOld
         /\ w.cursor # NoCursor =>
              \E i \in DOMAIN gaps : gaps[i].cursor = w.cursor
<1>0. now \in Nat /\ coverage \in Coverages /\ gaps \in Seq(Gaps) /\ covered \in Int /\ MaxTime \in Nat
  BY DEF Types, HistoryCoverageAssumption, Coverages, gaps, covered
<1>a. /\ Fraction \in Nat \ {0} /\ Overlap \in Nat \ {0} /\ Span \in Nat \ {0} /\ Retention \in Nat
  BY DEF HistoryCoverageAssumption
<1>b. CoversIn(coverage, sent) /\ GapsIn(gaps, sent)
  BY DEF Bounds, CoverageIn, gaps
<1>c. Len(gaps) \in Nat /\ DOMAIN gaps = 1..Len(gaps) /\ \A i \in DOMAIN gaps : gaps[i] \in Gaps
  BY <1>0, LenProperties
<1>d. Seconds(now) \in Nat /\ Ticks(Seconds(now)) <= now /\ Ticks(Seconds(now)) \in Int
  <2>1. now \in Int
    BY <1>0
  <2>2. Seconds(now) \in Nat
    BY <1>0, Arithmetic
  <2>3. Ticks(Seconds(now)) <= now
    BY <2>1, Arithmetic
  <2>4. Ticks(Seconds(now)) \in Int
    BY <2>2, Arithmetic
  <2> QED
    BY <2>2, <2>3, <2>4
<1>1. CASE Continuable # {}
  <2>1. PICK i \in Continuable : i = Max(Continuable)
    <3>1. Continuable \in SUBSET (1..Len(gaps))
      BY <1>c DEF Continuable
    <3> QED
      BY <1>1, <1>c, <3>1, GreatestOf
  <2>2. i \in DOMAIN gaps /\ gaps[i] \in Gaps /\ gaps[i].start < gaps[i].end /\ gaps[i].end \in Nat /\ gaps[i].end <= Seconds(now)
    BY <1>b, <1>c, <2>1 DEF Continuable, GapsIn
  <2>3. gaps[i].start \in Int /\ gaps[i].end \in Int /\ gaps[i].cursor \in Cursors
    BY <2>2 DEF Gaps
  <2>4. w = [start |-> Ticks(gaps[i].start), end |-> Ticks(gaps[i].end), cursor |-> gaps[i].cursor]
    BY <1>1, <2>1 DEF ReconcileWindow
  <2>5. Ticks(gaps[i].start) \in Int /\ Ticks(gaps[i].end) \in Nat
        /\ Seconds(Ticks(gaps[i].start)) = gaps[i].start /\ Seconds(Ticks(gaps[i].end)) = gaps[i].end
    BY <2>2, <2>3, Arithmetic
  <2>6. Ticks(gaps[i].end) <= now
    BY <1>0, <2>2, <2>3, SecondsBetween
  <2>7. w \in Windows
    BY <2>3, <2>4, <2>5 DEF Windows
  <2>8. \A t \in sent : ~(Ticks(Seconds(w.start)) <= t /\ t < w.start)
    BY <2>4, <2>5 DEF sent
  <2> QED
    BY <2>2, <2>4, <2>5, <2>6, <2>7, <2>8
<1>2. CASE Continuable = {}
  <2> DEFINE s0 == NextWindow.start
             e0 == NextWindow.end
  <2>1. w = [start |-> IF s0 < Minimum THEN Minimum ELSE s0, end |-> e0, cursor |-> NoCursor]
    BY <1>2 DEF ReconcileWindow
  <2>2. TooOld = {t \in sent : s0 <= t /\ t < Minimum}
    BY <1>2 DEF TooOld
  <2>3. Minimum \in Int /\ (Retention = 0 => Minimum = now) /\ (Retention # 0 => Minimum + Fraction <= now)
    <3>1. Ticks(Retention) \in Nat /\ (Retention # 0 => Ticks(Retention) >= Fraction)
      BY <1>a, Arithmetic
    <3>2. Ticks(0) = 0
      BY <1>a DEF Ticks
    <3> QED
      BY <1>0, <1>a, <3>1, <3>2 DEF Minimum
  <2>4. Ticks(Span) \in Nat /\ Ticks(Span) >= Fraction
    BY <1>a, Arithmetic
  <2>5. CASE covered = None
    <3>1. s0 = now - Ticks(Span) /\ e0 = now
      BY <2>5 DEF NextWindow
    <3> HIDE DEF s0, e0
    <3>2. w \in Windows /\ w.end \in Nat /\ w.end <= now
      BY <1>0, <2>1, <2>3, <2>4, <3>1 DEF Windows, Cursors
    <3>3. ASSUME w.start < w.end PROVE w.start + Fraction <= w.end
      BY <1>0, <1>a, <2>1, <2>3, <2>4, <3>1, <3>3
    <3>4. w.start \in Int /\ w.end \in Int
      BY <3>2 DEF Windows
    <3> QED
      BY <2>1, <2>5, <3>2, <3>3, <3>4, SecondsBetween
  <2>6. CASE covered # None
    <3>1. covered \in Nat /\ covered <= Seconds(now)
      BY <1>b, <2>6 DEF CoversIn, covered
    <3> DEFINE o == covered - Overlap
    <3>2. o \in Int /\ s0 = Ticks(o)
      BY <1>a, <2>6, <3>1 DEF NextWindow
    <3>3. Ticks(o) \in Int /\ Ticks(covered) \in Int /\ Ticks(o) + Fraction <= Ticks(covered) /\ Ticks(covered) <= now
      <4>1. o < covered
        BY <1>a, <3>1
      <4>2. Ticks(o) + Fraction <= Ticks(covered) /\ Ticks(o) \in Int /\ Ticks(covered) \in Int
        BY <3>1, <3>2, <4>1, Arithmetic
      <4>3. Ticks(covered) <= now
        BY <1>0, <3>1, SecondsBetween
      <4> QED
        BY <4>2, <4>3
    <3>4. e0 = now \/ (e0 = Ticks(o + Span) /\ e0 \in Nat /\ e0 = Ticks(o) + Ticks(Span) /\ e0 < now)
      <4>1. e0 = IF now - Ticks(o) > Ticks(Span) THEN Ticks(o) + Ticks(Span)
                 ELSE IF now > Ticks(o) THEN now ELSE Ticks(o) + Ticks(Span)
        BY <2>6 DEF NextWindow
      <4>2. Ticks(o + Span) = Ticks(o) + Ticks(Span)
        BY <1>a, <3>2, Arithmetic
      <4>3. Ticks(o + Span) \in Nat
        <5>1. o + Span \in Nat
          BY <1>a, <3>1 DEF HistoryCoverageAssumption
        <5> QED
          BY <5>1, Arithmetic
      <4> HIDE DEF e0, o
      <4> QED
        BY <1>0, <1>a, <2>4, <3>3, <4>1, <4>2, <4>3
    <3> HIDE DEF s0, e0, o
    <3>5. w.start = (IF s0 < Minimum THEN Minimum ELSE s0) /\ w.end = e0
      BY <2>1
    <3>6. w \in Windows /\ w.end \in Nat /\ w.end <= now /\ w.start \in Int /\ w.end \in Int
      BY <1>0, <2>1, <2>3, <2>4, <3>2, <3>3, <3>4 DEF Windows, Cursors
    <3>7. ASSUME w.start < w.end PROVE Seconds(w.start) < Seconds(w.end)
      <4>1. CASE w.start + Fraction <= w.end
        BY <3>6, <4>1, SecondsBetween
      <4>2. CASE ~(w.start + Fraction <= w.end)
        <5>1. w.end = Ticks(o + Span)
          BY <1>0, <1>a, <2>3, <2>4, <3>2, <3>3, <3>4, <3>5, <3>7, <4>2
        <5>2. o + Span \in Int
          BY <1>a, <3>2
        <5>3. Seconds(w.start) < o + Span
          BY <3>6, <3>7, <5>1, <5>2, SecondsBetween
        <5>4. Seconds(w.end) = o + Span
          BY <5>1, <5>2, Arithmetic
        <5> QED
          BY <5>3, <5>4
      <4> QED
        BY <4>1, <4>2
    <3>8. ASSUME NEW t \in sent, Ticks(covered) <= t, Ticks(Seconds(w.start)) <= t, t < w.start
          PROVE  t \in TooOld
      <4>1. t \in Nat
        BY DEF sent
      <4>2. CASE s0 < Minimum
        BY <1>0, <1>a, <2>2, <2>3, <3>2, <3>3, <3>5, <3>8, <4>1, <4>2
      <4>3. CASE ~(s0 < Minimum)
        <5>1. w.start = Ticks(o)
          BY <3>2, <3>5, <4>3
        <5>2. Ticks(Seconds(w.start)) = w.start
          BY <3>2, <5>1, Arithmetic
        <5> QED
          BY <3>6, <3>8, <4>1, <5>2
      <4> QED
        BY <4>2, <4>3
    <3> QED
      BY <2>1, <3>6, <3>7, <3>8
  <2> QED
    BY <2>5, <2>6
<1> QED
  BY <1>1, <1>2

----------------------------------------------------------------------------
(* Claims that outlive a step.                                             *)

\* The clock only adds messages behind what anything claims.
LEMMA CoverageCarries ==
  ASSUME HistoryCoverageAssumption, now \in Nat, now' \in {now, now + 1},
         NEW c \in Coverages, NEW K, NEW L, K \cap sent \subseteq L, CoverageIn(c, K)
  PROVE  CoverageIn(c, L)'
<1>1. Seconds(now) \in Nat /\ Seconds(now) <= Seconds(now') /\ Seconds(now') \in Nat
      /\ \A x \in Nat : x <= Seconds(now) => Ticks(x) <= now /\ Ticks(x) \in Nat
  <2>1. \A x \in Nat : x <= Seconds(now) => Ticks(x) <= now /\ Ticks(x) \in Nat
    BY Arithmetic, SecondsBetween
  <2> QED
    BY <2>1, Arithmetic
<1>2. ASSUME NEW a \in Int, NEW b \in Int, b <= now, Through(a, b, K) PROVE Through(a, b, L)'
  BY <1>2 DEF Through, sent
<1>3. c.covered \in Int /\ c.from \in Int /\ c.gaps \in Seq(Gaps)
  BY DEF Coverages
<1>4. CoversIn(c, L)'
  BY <1>1, <1>2, <1>3 DEF CoverageIn, CoversIn
<1>5. GapsIn(c.gaps, L)'
  <2>1. \A i \in DOMAIN c.gaps : c.gaps[i] \in Gaps
    BY <1>3, LenProperties
  <2>2. \A i \in DOMAIN c.gaps : c.gaps[i].end \in Int /\
           (c.gaps[i].cursor # NoCursor => c.gaps[i].cursor.start \in Int /\ c.gaps[i].cursor.resume \in Int)
    BY <2>1 DEF Gaps, Cursors
  <2> QED
    BY <1>1, <1>2, <2>2 DEF CoverageIn, GapsIn
<1> QED
  BY <1>4, <1>5 DEF CoverageIn, Flagged, Unresolved

LEMMA PullCarries ==
  ASSUME HistoryCoverageAssumption, now \in Nat, now' \in {now, now + 1},
         pull \in {Idle} \cup Reading \cup Failing, PullBound,
         coverage \in Coverages, NEW c \in Coverages, c.covered # None => c.covered \in Nat,
         NEW K, NEW L, K \cap sent \subseteq L,
         c.covered # None /\ pull.step # "idle" =>
           \/ covered # None /\ covered <= c.covered
           \/ \A t \in sent : ~(Ticks(Seconds(pull.window.start)) <= t /\ t < pull.window.start),
         PullIn(pull, coverage, K), NEW p, p = pull
  PROVE  PullIn(p, c, L)'
<1>1. CASE p = Idle
  BY <1>1 DEF PullIn, Idle
<1>2. CASE p \in Reading \cup Failing
  <2>0. /\ p.step # "idle" /\ p.window \in Windows /\ p.next \in Cursors
    <3>1. CASE p \in Reading
      BY <3>1 DEF Reading
    <3>2. CASE p \in Failing
      BY <3>2 DEF Failing
    <3> QED
      BY <1>2, <3>1, <3>2
  <2>1. /\ p.window.start \in Int /\ p.window.end \in Int /\ p.window.end <= now
        /\ Seconds(p.window.start) < Seconds(p.window.end)
        /\ p.next # NoCursor => p.next.start \in Int /\ p.next.resume \in Int /\ p.next.resume < now
    <3>1. p.window.start \in Int /\ p.window.end \in Int /\ p.window.end <= now
          /\ Seconds(p.window.start) < Seconds(p.window.end)
      BY <2>0 DEF Windows, PullBound
    <3>2. p.next # NoCursor => p.next.start \in Int /\ p.next.resume \in Int /\ p.next.resume < now
      BY <2>0 DEF Cursors, PullBound
    <3> QED
      BY <3>1, <3>2
  <2>2. ASSUME NEW a \in Int, NEW b \in Int, b <= now, NEW X, Through(a, b, K \cup X)
        PROVE  Through(a, b, L \cup X)'
    BY <2>2 DEF Through, sent
  <2>3. ASSUME NEW a \in Int, NEW b \in Int, b <= now, Through(a, b, K) PROVE Through(a, b, L)'
    BY <2>3 DEF Through, sent
  <2>4. StartIn(p.window, c, L)'
    <3>1. p.window.start <= now
      <4>1. p.window.start < p.window.end
        <5>1. p.window.end <= p.window.start => Seconds(p.window.end) <= Seconds(p.window.start)
          BY <2>1, Arithmetic
        <5>2. Seconds(p.window.end) \in Int /\ Seconds(p.window.start) \in Int
          BY <2>1, Arithmetic
        <5> QED
          BY <2>1, <5>1, <5>2
      <4> QED
        BY <2>1, <4>1
    <3>2. c.covered \in Int /\ covered \in Int
      BY DEF Coverages, covered
    <3>3. covered <= c.covered => Ticks(covered) <= Ticks(c.covered)
      BY <3>2, Arithmetic
    <3>4. /\ Ticks(covered) \in Int /\ Ticks(c.covered) \in Int
          /\ Ticks(Seconds(p.window.start)) \in Int
      BY <2>1, <3>2, Arithmetic
    <3> SUFFICES ASSUME c.covered # None, NEW t \in sent', Ticks(c.covered) <= t,
                        Ticks(Seconds(p.window.start)) <= t, t < p.window.start
                 PROVE  t \in L
      BY DEF StartIn
    <3>5. t \in sent /\ t \in Int
      BY <2>1, <3>1 DEF sent
    <3>6. Ticks(covered) <= t /\ covered # None
      BY <2>0, <2>1, <3>3, <3>4, <3>5
    <3> QED
      BY <2>0, <2>1, <3>5, <3>6 DEF PullIn, StartIn, covered
  <2>5. p.step = "events" =>
          /\ p.complete => Through(p.window.start, p.window.end, L \cup p.left)'
          /\ p.next # NoCursor => Through(p.next.start, p.next.resume, L \cup p.left)'
    <3>1. ASSUME p.step = "events", p.complete
          PROVE Through(p.window.start, p.window.end, L \cup p.left)'
      <4>1. Through(p.window.start, p.window.end, K \cup p.left)
        BY <3>1 DEF PullIn
      <4> QED
        BY <2>1, <2>2, <4>1
    <3>2. ASSUME p.step = "events", p.next # NoCursor
          PROVE  Through(p.next.start, p.next.resume, L \cup p.left)'
      <4>1. Through(p.next.start, p.next.resume, K \cup p.left)
        BY <3>2 DEF PullIn
      <4>2. p.next.start \in Int /\ p.next.resume \in Int /\ p.next.resume <= now
        BY <2>1, <3>2
      <4> QED
        BY <2>2, <4>1, <4>2
    <3> QED
      BY <3>1, <3>2
  <2>6. p.step = "record" /\ p.next # NoCursor => Through(p.next.start, p.next.resume, L)'
    BY <2>1, <2>3 DEF PullIn
  <2> QED
    BY <2>4, <2>5, <2>6 DEF PullIn
<1> QED
  BY <1>1, <1>2

LEMMA AReading ==
  ASSUME NEW w \in Windows, NEW l \in SUBSET Int, NEW d \in BOOLEAN, NEW n \in Cursors,
         pull' = [step |-> "events", window |-> w, left |-> l, complete |-> d, next |-> n]
  PROVE  pull' \in Reading /\ pull'.window = w /\ pull'.left = l /\ (pull'.complete <=> d) /\ pull'.next = n
BY DEF Reading

\* What a read of a window leaves to be committed.
LEMMA ReadFacts ==
  ASSUME HistoryCoverageAssumption, now \in Nat, NEW w \in Windows, Readable(w),
         ReadWindow(w) \/ ReadPartially(w)
  PROVE  /\ pull' \in Reading /\ pull'.window = w /\ pull'.left \subseteq sent
         /\ pull'.complete => Through(First(w), w.end, pull'.left)
         /\ pull'.next # NoCursor =>
              /\ pull'.next.start = w.start /\ pull'.next.resume < now
              /\ Through(First(w), pull'.next.resume, pull'.left)
<1> DEFINE rest == Rest(First(w), w.end)
           page == Page(First(w), w.end)
           cursor == Cursor(w, Min(rest))
           done == rest = {}
<1>1. First(w) \in Int /\ w.start \in Int /\ w.end \in Int
  BY DEF First, Windows, Cursors
<1>2. /\ page \subseteq sent /\ (rest = {} => Through(First(w), w.end, page))
      /\ rest # {} => Min(rest) \in Nat /\ Min(rest) < now /\ Through(First(w), Min(rest), page)
  BY <1>1, PageRead
<1>3. page \subseteq Int
  BY <1>2 DEF sent
<1>4. rest # {} => cursor \in Cursors /\ cursor.start = w.start /\ cursor.resume = Min(rest)
  BY <1>1, <1>2 DEF Cursor, Cursors
<1>5. NoCursor \in Cursors
  BY DEF Cursors
<1>6. \/ pull' = [step |-> "events", window |-> w, left |-> page, complete |-> done,
                   next |-> IF rest = {} THEN NoCursor ELSE cursor]
      \/ pull' = [step |-> "events", window |-> w, left |-> page, complete |-> FALSE, next |-> NoCursor]
  BY DEF ReadWindow, ReadPartially
<1>9. (rest = {} => done = TRUE) /\ (rest # {} => done = FALSE)
  OBVIOUS
<1> HIDE DEF rest, page, cursor, done
<1>7. CASE rest = {}
  <2>0. \/ pull' = [step |-> "events", window |-> w, left |-> page, complete |-> TRUE, next |-> NoCursor]
        \/ pull' = [step |-> "events", window |-> w, left |-> page, complete |-> FALSE, next |-> NoCursor]
    <3>1. done = TRUE
      BY <1>7, <1>9
    <3> QED
      BY <1>6, <1>7, <3>1, Zenon
  <2>1. pull' \in Reading /\ pull'.window = w /\ pull'.left = page /\ pull'.next = NoCursor
    <3>1. page \in SUBSET Int
      BY <1>3
    <3>2. CASE pull' = [step |-> "events", window |-> w, left |-> page, complete |-> TRUE, next |-> NoCursor]
      BY <1>5, <3>1, <3>2, AReading
    <3>3. CASE pull' = [step |-> "events", window |-> w, left |-> page, complete |-> FALSE, next |-> NoCursor]
      BY <1>5, <3>1, <3>3, AReading
    <3> QED
      BY <2>0, <3>2, <3>3
  <2> QED
    BY <1>2, <1>7, <2>1
<1>8. CASE rest # {}
  <2>0. \/ pull' = [step |-> "events", window |-> w, left |-> page, complete |-> FALSE, next |-> cursor]
        \/ pull' = [step |-> "events", window |-> w, left |-> page, complete |-> FALSE, next |-> NoCursor]
    <3>1. done = FALSE
      BY <1>8, <1>9
    <3> QED
      BY <1>6, <1>8, <3>1, Zenon
  <2>1. pull' \in Reading /\ pull'.window = w /\ pull'.left = page /\ ~pull'.complete
        /\ (pull'.next = NoCursor \/ pull'.next = cursor)
    <3>1. page \in SUBSET Int /\ cursor \in Cursors
      BY <1>3, <1>4, <1>8
    <3>2. CASE pull' = [step |-> "events", window |-> w, left |-> page, complete |-> FALSE, next |-> cursor]
      BY <3>1, <3>2, AReading
    <3>3. CASE pull' = [step |-> "events", window |-> w, left |-> page, complete |-> FALSE, next |-> NoCursor]
      BY <1>5, <3>1, <3>3, AReading
    <3> QED
      BY <2>0, <3>2, <3>3
  <2> QED
    BY <1>2, <1>4, <1>8, <2>1
<1> QED
  BY <1>7, <1>8

----------------------------------------------------------------------------
(* Types and bounds, step by step.                                         *)

\* Coverage, pull, imports and workers stay as they are.
LEMMA BoundsCarry ==
  ASSUME HistoryCoverageAssumption, Types, Bounds, now' \in {now, now + 1}, now' <= MaxTime,
         coverage' = coverage
  PROVE  /\ now' \in 0..MaxTime /\ sent \subseteq sent' /\ Seconds(now) <= Seconds(now')
         /\ coverage' \in Coverages /\ CoverageIn(coverage, sent)'
         /\ pull' = pull => PullBound'
         /\ import' = import => ImportBound'
         /\ import' = import /\ worker' = worker => WorkerBound'
<1>1. now \in Nat /\ now' \in 0..MaxTime /\ sent \subseteq sent' /\ now <= now'
  <2>1. now \in Nat /\ now' \in Nat /\ now <= now' /\ now' \in 0..MaxTime
    BY DEF Types, HistoryCoverageAssumption
  <2>2. ASSUME NEW m \in Nat, NEW n \in Nat, m <= n PROVE 0..(m - 1) \subseteq 0..(n - 1)
    BY <2>2
  <2> QED
    BY <2>1, <2>2 DEF sent
<1>2. Seconds(now) \in Int /\ Seconds(now') \in Int /\ Seconds(now) <= Seconds(now')
  <2>1. now \in Int /\ now' \in Int /\ now <= now'
    BY <1>1
  <2> QED
    BY <2>1, Arithmetic
<1>3. CoverageIn(coverage, sent)'
  <2>1. PICK c \in Coverages : c = coverage
    BY DEF Types
  <2>2. PICK L : L = sent'
    OBVIOUS
  <2>3. CoverageIn(c, L)'
    <3>1. PICK K : K = sent
      OBVIOUS
    <3> QED
      BY <1>1, <2>1, <2>2, <3>1, CoverageCarries DEF Bounds
  <2> QED
    BY <2>1, <2>2, <2>3
<1>4. pull' = pull => PullBound'
  <2> SUFFICES ASSUME pull' = pull PROVE PullBound'
    OBVIOUS
  <2>1. pull.step # "idle" /\ pull.next # NoCursor => pull.next.resume \in Int
    <3>1. CASE pull \in Reading
      BY <3>1 DEF Reading, Cursors
    <3>2. CASE pull \in Failing
      BY <3>2 DEF Failing, Cursors
    <3> QED
      BY <3>1, <3>2 DEF Types, Idle
  <2> QED
    BY <1>1, <2>1 DEF Bounds, PullBound
<1>5. \A i \in Imports : import[i].status # "absent" => import[i].end \in Int /\ import[i].cursor \in Int
  BY DEF Types, NoImport, ImportRecords, Points, None
<1>6. \A w \in Workers : worker[w].step = "read" => worker[w].next \in Int
  BY DEF Types, Idle, Steps, Points, None
<1> QED
  BY <1>1, <1>2, <1>3, <1>4, <1>5, <1>6 DEF Types, Bounds, ImportBound, WorkerBound

LEMMA ReconcileBounds ==
  ASSUME HistoryCoverageAssumption, Types, Bounds, reconcileRoute
  PROVE Types' /\ Bounds'
<1>0. now \in Nat /\ now' = now /\ sent' = sent /\ now <= MaxTime /\ Seconds(now') = Seconds(now)
  BY DEF Types, reconcileRoute, sourceVars, HistoryCoverageAssumption, sent
<1>1. PICK w : w = ReconcileWindow
  OBVIOUS
<1>2. /\ w \in Windows /\ w.end \in Nat /\ w.end <= now
      /\ w.start < w.end => Seconds(w.start) < Seconds(w.end)
  BY <1>1, WindowFacts
<1>3. \/ Readable(w) /\ (ReadWindow(w) \/ ReadPartially(w))
      \/ ReadFails(w)
  BY <1>1 DEF reconcileRoute
<1>4. coverage' = coverage /\ import' = import /\ worker' = worker /\ stored' = stored
      /\ expired' = expired \cup TooOld /\ running' = running
  BY DEF reconcileRoute, coverageVars, importVars, sourceVars
<1>5. TooOld \subseteq sent
  BY DEF TooOld
<1>6. NoCursor \in Cursors
  BY DEF Cursors
<1>7. pull' \in {Idle} \cup Reading \cup Failing /\ PullBound'
  <2>1. CASE Readable(w) /\ (ReadWindow(w) \/ ReadPartially(w))
    <3>1. w.start < w.end
      BY <2>1 DEF Readable
    <3> QED
      BY <1>0, <1>2, <2>1, <3>1, ReadFacts DEF PullBound, Reading
  <2>2. CASE ReadFails(w)
    <3>1. CASE w.start < w.end
      <4>1. pull' = [step |-> "record", window |-> w, complete |-> FALSE, next |-> NoCursor]
        BY <2>2, <3>1 DEF ReadFails
      <4>2. pull' \in Failing /\ pull'.window = w /\ pull'.next = NoCursor
        BY <1>2, <1>6, <4>1 DEF Failing
      <4> QED
        BY <1>0, <1>2, <3>1, <4>1, <4>2 DEF PullBound
    <3>2. CASE ~(w.start < w.end)
      BY <2>2, <3>2 DEF ReadFails, PullBound, Idle
    <3> QED
      BY <3>1, <3>2
  <2> QED
    BY <1>3, <2>1, <2>2
<1> QED
  BY <1>0, <1>4, <1>5, <1>7, BoundsCarry DEF Types, Bounds

LEMMA OperatorBounds ==
  ASSUME HistoryCoverageAssumption, Types, Bounds, NEW start \in 0..Seconds(now),
         NEW end \in 0..Seconds(now), PullByOperator(start, end)
  PROVE  Types' /\ Bounds'
<1>0. now \in Nat /\ now' = now /\ sent' = sent /\ now <= MaxTime /\ Seconds(now') = Seconds(now)
  BY DEF Types, PullByOperator, sourceVars, HistoryCoverageAssumption, sent
<1>1. Seconds(now) \in Nat
  BY <1>0, Arithmetic
<1> DEFINE w == [start |-> Ticks(start), end |-> Ticks(end), cursor |-> NoCursor]
<1>2. /\ Ticks(start) \in Int /\ Ticks(end) \in Nat /\ Ticks(end) <= now
      /\ Seconds(Ticks(start)) = start /\ Seconds(Ticks(end)) = end /\ Ticks(start) < Ticks(end)
  <2>1. start \in Nat /\ end \in Nat /\ start < end /\ end <= Seconds(now)
    BY <1>1 DEF PullByOperator
  <2>2. Ticks(start) \in Nat /\ Ticks(end) \in Nat /\ Ticks(start) + Fraction <= Ticks(end)
    BY <2>1, Arithmetic
  <2>3. Ticks(end) <= now
    BY <1>0, <2>1, SecondsBetween
  <2>4. Seconds(Ticks(start)) = start /\ Seconds(Ticks(end)) = end
    BY <2>1, Arithmetic
  <2> QED
    BY <2>2, <2>3, <2>4 DEF HistoryCoverageAssumption
<1>3. w \in Windows /\ w.start = Ticks(start) /\ w.end = Ticks(end) /\ w.cursor = NoCursor /\ Readable(w)
  BY <1>2 DEF Windows, Cursors, Readable
<1>4. ReadWindow(w)
  BY DEF PullByOperator
<1> HIDE DEF w
<1>5. pull' \in Reading /\ PullBound'
  <2>1. /\ pull' \in Reading /\ pull'.window = w /\ pull'.left \subseteq sent
        /\ pull'.next # NoCursor => pull'.next.resume < now
    BY <1>0, <1>3, <1>4, ReadFacts
  <2>2. w.end \in Nat /\ w.end <= now /\ Seconds(w.start) < Seconds(w.end)
    BY <1>2, <1>3 DEF PullByOperator
  <2> QED
    BY <1>0, <2>1, <2>2 DEF PullBound
<1>6. coverage' = coverage /\ import' = import /\ worker' = worker /\ stored' = stored
      /\ expired' = expired /\ running' = running
  BY DEF PullByOperator, coverageVars, importVars, sourceVars
<1> QED
  BY <1>0, <1>5, <1>6, BoundsCarry DEF Types, Bounds

\* What Intake takes from a page.
LEMMA IntakeFacts ==
  ASSUME HistoryCoverageAssumption, Types, PullBound, Intake, NEW t, t = Min(pull.left)
  PROVE  /\ pull \in Reading /\ t \in pull.left /\ t \in sent
         /\ \/ /\ pull' = [pull EXCEPT !.left = @ \ {t}]
               /\ stored' \cup expired' = stored \cup expired \cup {t}
            \/ /\ pull' = [step |-> "record", window |-> pull.window, complete |-> FALSE, next |-> pull.next]
               /\ stored' \cup expired' = stored \cup expired /\ "busy" \in Environment
         /\ stored \subseteq stored' /\ expired \subseteq expired'
         /\ stored' \subseteq stored \cup {t} /\ expired' \subseteq expired \cup {t}
<1>1. pull \in Reading
  <2>1. pull # Idle
    BY DEF Intake, Idle
  <2>2. pull \notin Failing
    BY DEF Intake, Failing
  <2> QED
    BY <2>1, <2>2 DEF Types
<1>2. pull.left \in SUBSET Nat /\ pull.left # {} /\ pull.left \subseteq sent
  BY DEF Intake, PullBound, sent
<1>3. t \in pull.left
  BY <1>2, LeastOf
<1> QED
  BY <1>1, <1>2, <1>3 DEF Intake, Happens

LEMMA IntakeBounds == ASSUME HistoryCoverageAssumption, Types, Bounds, Intake PROVE Types' /\ Bounds'
<1>0. now \in Nat /\ now' = now /\ sent' = sent /\ now <= MaxTime /\ Seconds(now') = Seconds(now)
  BY DEF Types, Intake, sourceVars, HistoryCoverageAssumption, sent
<1>1. PICK t : t = Min(pull.left)
  OBVIOUS
<1>2. /\ pull \in Reading /\ t \in pull.left /\ t \in sent
      /\ \/ pull' = [pull EXCEPT !.left = @ \ {t}]
         \/ pull' = [step |-> "record", window |-> pull.window, complete |-> FALSE, next |-> pull.next]
      /\ stored' \subseteq stored \cup {t} /\ expired' \subseteq expired \cup {t}
  BY <1>1, IntakeFacts DEF Bounds
<1>3. pull' \in {Idle} \cup Reading \cup Failing /\ PullBound'
  <2>1. CASE pull' = [pull EXCEPT !.left = @ \ {t}]
    <3>1. pull' \in Reading /\ pull'.window = pull.window /\ pull'.next = pull.next /\ pull'.step = pull.step
          /\ pull'.left = pull.left \ {t}
      BY <1>2, <2>1 DEF Reading
    <3> QED
      BY <1>0, <1>2, <3>1 DEF Bounds, PullBound, Reading
  <2>2. CASE pull' = [step |-> "record", window |-> pull.window, complete |-> FALSE, next |-> pull.next]
    <3>1. pull.window \in Windows /\ pull.next \in Cursors /\ pull.step = "events"
      BY <1>2 DEF Reading
    <3>2. pull' \in Failing /\ pull'.window = pull.window /\ pull'.next = pull.next /\ pull'.step = "record"
      BY <2>2, <3>1 DEF Failing
    <3> QED
      BY <1>0, <3>1, <3>2 DEF Bounds, PullBound
  <2> QED
    BY <1>2, <2>1, <2>2
<1>4. coverage' = coverage /\ import' = import /\ worker' = worker /\ running' = running
  BY DEF Intake, coverageVars, importVars, sourceVars
<1> QED
  BY <1>0, <1>2, <1>3, <1>4, BoundsCarry DEF Types, Bounds

\* Recording the window of a pull keeps the claims, of whatever K.
LEMMA RecordStep ==
  ASSUME HistoryCoverageAssumption, Types, Bounds, recordCoverage, NEW K, CoverageIn(coverage, K),
         PullIn(pull, coverage, K)
  PROVE  coverage' \in Coverages /\ CoverageIn(coverage, K)'
<1>0. now \in Nat /\ now' = now /\ sent' = sent
  BY DEF Types, recordCoverage, sourceVars, HistoryCoverageAssumption, sent
<1> DEFINE start == Seconds(pull.window.start)
           end == Seconds(pull.window.end)
<1>1. /\ pull.step # "idle" /\ pull.window \in Windows /\ pull.next \in Cursors /\ pull.complete \in BOOLEAN
      /\ pull.step = "events" => pull \in Reading
      /\ pull.complete => pull.step = "events"
  <2>1. pull # Idle
    BY DEF recordCoverage, Idle
  <2>2. CASE pull \in Reading
    BY <2>2 DEF Reading
  <2>3. CASE pull \in Failing
    BY <2>3 DEF Failing
  <2> QED
    BY <2>1, <2>2, <2>3 DEF Types
<1>2. /\ pull.window.start \in Int /\ pull.window.end \in Nat /\ pull.window.end <= now
      /\ start < end /\ (pull.next # NoCursor => pull.next.resume < now)
  BY <1>1 DEF Windows, Bounds, PullBound
<1>3. start \in Int /\ end \in Nat /\ end <= Seconds(now) /\ Ticks(end) <= pull.window.end
      /\ Ticks(end) \in Int
  <2>1. ASSUME NEW a \in Int, NEW b \in Nat, b <= now
        PROVE  /\ Seconds(a) \in Int /\ Seconds(b) \in Nat /\ Seconds(b) <= Seconds(now)
               /\ Ticks(Seconds(b)) <= b
    <3>1. now \in Int /\ b \in Int
      BY <1>0
    <3> QED
      BY <2>1, <3>1, Arithmetic
  <2>2. start \in Int /\ end \in Nat /\ end <= Seconds(now) /\ Ticks(end) <= pull.window.end
    BY <1>2, <2>1
  <2> QED
    BY <2>2, Arithmetic
<1>4. pull.complete => Through(pull.window.start, Ticks(end), K)
  <2> SUFFICES ASSUME pull.complete, NEW t \in sent, pull.window.start <= t, t < Ticks(end)
               PROVE  t \in K
    BY DEF Through
  <2>1. t < pull.window.end
    BY <1>2, <1>3 DEF sent
  <2>2. pull.left = {}
    BY <1>1 DEF recordCoverage
  <2> QED
    BY <1>1, <2>1, <2>2 DEF PullIn, Through
<1>5. pull.complete /\ covered # None =>
        \A t \in sent : Ticks(covered) <= t /\ Ticks(start) <= t /\ t < pull.window.start => t \in K
  BY <1>1 DEF PullIn, StartIn, covered
<1>6. pull.next # NoCursor => Through(pull.next.start, pull.next.resume, K)
  <2>1. CASE pull.step = "events"
    BY <2>1 DEF PullIn, recordCoverage
  <2>2. CASE pull.step = "record"
    BY <2>2 DEF PullIn
  <2> QED
    BY <2>1, <2>2 DEF recordCoverage
<1>7. \/ coverage' = coverage
      \/ coverage' = RecordCoverage(start, end, pull.complete, pull.next, pull.window.start)
  BY DEF recordCoverage, RecordOnce, coverageVars
<1> HIDE DEF start, end
<1>8. PICK R : R = RecordCoverage(start, end, pull.complete, pull.next, pull.window.start)
  OBVIOUS
<1>9. R \in Coverages /\ CoverageIn(R, K)
  <2>1. coverage \in Coverages
    BY DEF Types
  <2> QED
    BY <1>0, <1>1, <1>2, <1>3, <1>4, <1>5, <1>6, <1>8, <2>1, RecordKeeps DEF start
<1>10. PICK c \in Coverages : c = coverage' /\ CoverageIn(c, K)
  BY <1>7, <1>8, <1>9 DEF Types
<1>11. CoverageIn(c, K)'
  BY <1>0, <1>10, CoverageCarries
<1> QED
  BY <1>10, <1>11

LEMMA RecordBounds ==
  ASSUME HistoryCoverageAssumption, Types, Bounds, recordCoverage
  PROVE Types' /\ Bounds'
<1>0. now \in Nat /\ now' = now /\ sent' = sent /\ now <= MaxTime /\ Seconds(now') = Seconds(now)
  BY DEF Types, recordCoverage, sourceVars, HistoryCoverageAssumption, sent
<1>1. pull' = Idle /\ stored' = stored /\ expired' = expired /\ running' = running /\ import' = import
      /\ worker' = worker
  BY DEF recordCoverage, sourceVars, importVars
<1>2. PullIn(pull, coverage, sent)
  BY DEF PullIn, StartIn, Through
<1>3. coverage' \in Coverages /\ CoverageIn(coverage, sent)'
  <2>1. PICK K : K = sent
    OBVIOUS
  <2>2. coverage' \in Coverages /\ CoverageIn(coverage, K)'
    BY <1>2, <2>1, RecordStep DEF Bounds
  <2> QED
    BY <1>0, <2>1, <2>2
<1>4. PullBound' /\ ImportBound' /\ WorkerBound'
  BY <1>0, <1>1 DEF Bounds, PullBound, Idle, ImportBound, WorkerBound
<1> QED
  BY <1>0, <1>1, <1>3, <1>4 DEF Types, Bounds

\* What every import is to a step that only moves its status, claim and failures.
Kin(g, h) == h \in ImportRecords /\ h.start = g.start /\ h.end = g.end /\ h.cursor = g.cursor

LEMMA NoneIsAnInt == None \in Int
BY DEF None

LEMMA Ended ==
  ASSUME NEW h \in ImportRecords,
         NEW s \in {"queued", "running", "completed", "failed", "cancelled"}
  PROVE  Kin(h, [h EXCEPT !.status = s, !.until = None])
BY NoneIsAnInt DEF Kin, ImportRecords

LEMMA EndedAfter ==
  ASSUME NEW h \in ImportRecords, NEW f \in Nat,
         NEW s \in {"queued", "running", "completed", "failed", "cancelled"}
  PROVE  Kin(h, [h EXCEPT !.status = s, !.failures = f, !.until = None])
BY NoneIsAnInt DEF Kin, ImportRecords

\* Steps that change one import, leave the rest alone and keep its range and cursor.
LEMMA KinBounds ==
  ASSUME HistoryCoverageAssumption, Types, Bounds, now' = now, running' = running, coverage' = coverage,
         pull' = pull,
         stored' = stored, expired' = expired,
         NEW i \in Imports, NEW h, import' = [import EXCEPT ![i] = h],
         \/ import[i].status # "absent" /\ Kin(import[i], h)
         \/ /\ h \in ImportRecords /\ h.start < h.end /\ h.end \in Nat
            /\ h.end <= Seconds(now) /\ h.cursor < now,
         \A w \in Workers :
           \/ worker'[w] = worker[w] \/ worker'[w] = Idle
           \/ worker'[w].import = i /\ worker'[w].page \subseteq sent /\ worker'[w].next < now,
         worker' \in [Workers -> {Idle} \cup Steps]
  PROVE  Types' /\ Bounds'
<1>0. now' = now /\ sent' = sent /\ Seconds(now') = Seconds(now) /\ now \in Nat /\ now <= MaxTime
      /\ running' = running /\ coverage' = coverage /\ pull' = pull
  BY DEF sent, Types, HistoryCoverageAssumption
<1>1. h \in ImportRecords /\ h.status # "absent"
  <2>1. h \in ImportRecords
    BY DEF Kin
  <2> QED
    BY <2>1 DEF ImportRecords
<1>2. import' \in [Imports -> {NoImport} \cup ImportRecords]
  BY <1>1 DEF Types
<1>3. import'[i] = h /\ \A j \in Imports : j # i => import'[j] = import[j]
  BY DEF Types
<1>4. ImportBound'
  BY <1>0, <1>1, <1>3 DEF ImportBound, Kin, Bounds
<1>5. WorkerBound'
  <2> SUFFICES ASSUME NEW w \in Workers, worker'[w].step = "read"
               PROVE  /\ import'[worker'[w].import].status # "absent"
                      /\ worker'[w].page \subseteq sent' /\ worker'[w].next < now'
    BY DEF WorkerBound
  <2>1. CASE worker'[w] = worker[w]
    <3>1. worker[w].import \in Imports
      BY <2>1 DEF Types, Steps, Idle
    <3> QED
      BY <1>0, <1>1, <1>3, <2>1, <3>1 DEF Bounds, WorkerBound
  <2>2. CASE worker'[w].import = i /\ worker'[w].page \subseteq sent /\ worker'[w].next < now
    BY <1>0, <1>1, <1>3, <2>2
  <2> QED
    BY <2>1, <2>2 DEF Idle
<1> QED
  BY <1>0, <1>2, <1>4, <1>5, BoundsCarry DEF Types, Bounds

LEMMA CreateBounds ==
  ASSUME HistoryCoverageAssumption, Types, Bounds, NEW i \in Imports, CreateHistoryImport(i)
  PROVE Types' /\ Bounds'
<1> DEFINE h == [status |-> "queued", start |-> Seconds(now) - HistoryDays, end |-> Seconds(now),
                 cursor |-> None, failures |-> 0, token |-> 0, until |-> None]
<1>1. now \in Nat /\ Seconds(now) \in Nat /\ HistoryDays \in Nat \ {0}
  BY Arithmetic DEF Types, HistoryCoverageAssumption
<1>2. h \in ImportRecords /\ h.start < h.end /\ h.end \in Nat /\ h.end <= Seconds(now) /\ h.cursor < now
  BY <1>1 DEF ImportRecords, Points, None
<1>3. import' = [import EXCEPT ![i] = h] /\ worker' = worker
  BY DEF CreateHistoryImport
<1> HIDE DEF h
<1> QED
  BY <1>2, <1>3, KinBounds DEF CreateHistoryImport, Types, sourceVars, coverageVars

LEMMA CancelBounds ==
  ASSUME HistoryCoverageAssumption, Types, Bounds, NEW i \in Imports, CancelHistoryImport(i)
  PROVE Types' /\ Bounds'
<1>1. import[i] \in ImportRecords /\ import[i].status # "absent"
  BY DEF Types, CancelHistoryImport, NoImport
<1> DEFINE h == [import[i] EXCEPT !.status = "cancelled", !.until = None]
<1>2. Kin(import[i], h)
  BY <1>1, Ended
<1>3. import' = [import EXCEPT ![i] = h] /\ worker' = worker
  BY DEF CancelHistoryImport
<1>4. worker' \in [Workers -> {Idle} \cup Steps]
  BY <1>3 DEF Types
<1>6. \A w \in Workers : worker'[w] = worker[w]
  BY <1>3
<1>5. /\ now' = now /\ running' = running /\ coverage' = coverage /\ pull' = pull
      /\ stored' = stored /\ expired' = expired
  BY DEF CancelHistoryImport, sourceVars, coverageVars
<1> HIDE DEF h
<1> QED
  BY <1>1, <1>2, <1>3, <1>4, <1>5, <1>6, KinBounds

LEMMA RetryBounds ==
  ASSUME HistoryCoverageAssumption, Types, Bounds, NEW i \in Imports, RetryHistoryImport(i)
  PROVE Types' /\ Bounds'
<1>1. import[i] \in ImportRecords /\ import[i].status # "absent"
  BY DEF Types, RetryHistoryImport, NoImport
<1> DEFINE h == [import[i] EXCEPT !.status = "queued", !.failures = 0, !.until = None]
<1>2. Kin(import[i], h)
  BY <1>1, EndedAfter
<1>3. import' = [import EXCEPT ![i] = h] /\ worker' = worker
  BY DEF RetryHistoryImport
<1>4. worker' \in [Workers -> {Idle} \cup Steps]
  BY <1>3 DEF Types
<1>6. \A w \in Workers : worker'[w] = worker[w]
  BY <1>3
<1>5. /\ now' = now /\ running' = running /\ coverage' = coverage /\ pull' = pull
      /\ stored' = stored /\ expired' = expired
  BY DEF RetryHistoryImport, sourceVars, coverageVars
<1> HIDE DEF h
<1> QED
  BY <1>1, <1>2, <1>3, <1>4, <1>5, <1>6, KinBounds

LEMMA FailBounds ==
  ASSUME HistoryCoverageAssumption, Types, Bounds, NEW w \in Workers, FailHistoryImport(w)
  PROVE Types' /\ Bounds'
<1> DEFINE i == worker[w].import
           s == IF import[i].failures >= MaxFailures THEN "failed" ELSE "queued"
           h == [import[i] EXCEPT !.status = s, !.failures = import[i].failures + 1, !.until = None]
<1>1. i \in Imports /\ worker[w].step = "read" /\ import[i] \in ImportRecords /\ import[i].status # "absent"
  <2>1. worker[w] \in Steps
    BY DEF FailHistoryImport, Types, Idle
  <2>2. i \in Imports /\ worker[w].step = "read"
    BY <2>1 DEF Steps
  <2>3. import[i].status # "absent"
    BY <2>2 DEF Bounds, WorkerBound
  <2> QED
    BY <2>2, <2>3 DEF Types, NoImport
<1>2. worker' = [worker EXCEPT ![w] = Idle]
  BY DEF FailHistoryImport
<1>3. worker' \in [Workers -> {Idle} \cup Steps] /\ \A v \in Workers : worker'[v] = worker[v] \/ worker'[v] = Idle
  BY <1>2 DEF Types
<1>4. CASE checkHistoryClaim(w)
  <2>1. import' = [import EXCEPT ![i] = h]
    BY <1>4 DEF FailHistoryImport
  <2>2. s \in {"queued", "running", "completed", "failed", "cancelled"} /\ import[i].failures + 1 \in Nat /\ None \in Int
    BY <1>1 DEF ImportRecords, None
  <2>3. Kin(import[i], h)
    <3>1. PICK g \in ImportRecords : g = import[i]
      BY <1>1
    <3>2. Kin(g, [g EXCEPT !.status = s, !.failures = g.failures + 1, !.until = None])
      <4> HIDE DEF s
      <4> QED
        BY <2>2, <3>1, EndedAfter
    <3> QED
      BY <3>1, <3>2
  <2>4. /\ now' = now /\ running' = running /\ coverage' = coverage /\ pull' = pull
        /\ stored' = stored /\ expired' = expired
    BY DEF FailHistoryImport, sourceVars, coverageVars
  <2> HIDE DEF h, i
  <2> QED
    BY <1>1, <1>3, <2>1, <2>3, <2>4, KinBounds
<1>5. CASE ~checkHistoryClaim(w)
  <2>1. import' = import
    BY <1>5 DEF FailHistoryImport
  <2>2. Kin(import[i], import[i]) /\ import' = [import EXCEPT ![i] = import[i]]
    BY <1>1, <2>1 DEF Kin, Types
  <2> HIDE DEF i
  <2> QED
    BY <1>1, <1>3, <2>2, KinBounds DEF FailHistoryImport, sourceVars, coverageVars
<1> QED
  BY <1>4, <1>5

\* What a worker takes into its hand with a claim.
LEMMA ClaimFacts ==
  ASSUME HistoryCoverageAssumption, Types, Bounds, NEW w \in Workers, NEW i \in Imports,
         ClaimHistoryImport(w, i)
  PROVE  /\ import[i] \in ImportRecords /\ import[i].status # "absent"
         /\ import' = [import EXCEPT ![i] =
              [import[i] EXCEPT !.status = "running", !.token = import[i].token + 1,
                                !.until = now + LeaseTime]]
         /\ worker'[w] \in Steps /\ worker' = [worker EXCEPT ![w] = worker'[w]]
         /\ worker'[w].import = i /\ worker'[w].token = import[i].token + 1
         /\ worker'[w].page \subseteq sent /\ worker'[w].next < now
         /\ worker'[w].complete =>
              worker'[w].next = None /\ Through(Resumed(import[i]), Ticks(import[i].end), worker'[w].page)
         /\ ~worker'[w].complete /\ worker'[w].next # import[i].cursor =>
              /\ worker'[w].next # None /\ Resumed(import[i]) <= worker'[w].next
              /\ Through(Resumed(import[i]), worker'[w].next, worker'[w].page)
<1> SUFFICES ASSUME NEW h, h = import[i], NEW v, v = worker'[w]
    PROVE  /\ h \in ImportRecords /\ h.status # "absent"
           /\ import' = [import EXCEPT ![i] = [h EXCEPT !.status = "running", !.token = h.token + 1,
                                                        !.until = now + LeaseTime]]
           /\ v \in Steps /\ worker' = [worker EXCEPT ![w] = v]
           /\ v.import = i /\ v.token = h.token + 1 /\ v.page \subseteq sent /\ v.next < now
           /\ v.complete => v.next = None /\ Through(Resumed(h), Ticks(h.end), v.page)
           /\ ~v.complete /\ v.next # h.cursor =>
                v.next # None /\ Resumed(h) <= v.next /\ Through(Resumed(h), v.next, v.page)
  OBVIOUS
<1>0. now \in Nat
  BY DEF Types, HistoryCoverageAssumption
<1>1. h.status # "absent"
  BY DEF ClaimHistoryImport, Claimable
<1>2. h \in ImportRecords
  BY <1>1 DEF Types, NoImport
<1> DEFINE end == Ticks(h.end)
           first == Resumed(h)
           rest == Rest(first, end)
           page == Page(first, end)
           Hand(complete, next) == [step |-> "read", import |-> i, token |-> h.token + 1, page |-> page,
                                    complete |-> complete, next |-> next]
<1>3. /\ worker \in [Workers -> {Idle} \cup Steps]
      /\ \/ rest = {} /\ worker' = [worker EXCEPT ![w] = Hand(TRUE, None)]
         \/ rest # {} /\ worker' = [worker EXCEPT ![w] = Hand(FALSE, Min(rest))]
         \/ worker' = [worker EXCEPT ![w] = Hand(FALSE, h.cursor)]
  BY DEF ClaimHistoryImport, Resumed, Types
<1>4. first \in Int /\ end \in Int
  <2>1. h.start \in Int /\ h.end \in Int /\ h.cursor \in Int
    BY <1>2, NoneIsAnInt DEF ImportRecords, Points
  <2>2. Ticks(h.start) \in Int /\ Ticks(h.end) \in Int
    BY <2>1, Arithmetic
  <2> QED
    BY <2>1, <2>2 DEF Resumed
<1>5. /\ page \subseteq sent /\ page \subseteq Int /\ (rest = {} => Through(first, end, page))
      /\ rest # {} => /\ Min(rest) \in Nat /\ first <= Min(rest) /\ Min(rest) < now
                      /\ Through(first, Min(rest), page)
  <2>1. page \subseteq sent
    BY <1>0, <1>4, PageRead
  <2>2. page \subseteq Int
    BY <2>1 DEF sent
  <2> QED
    BY <1>0, <1>4, <2>1, <2>2, PageRead
<1>6. h.token \in Nat /\ h.cursor \in Points /\ h.cursor < now
  BY <1>1, <1>2 DEF ImportRecords, Bounds, ImportBound
<1>7. import' = [import EXCEPT ![i] = [h EXCEPT !.status = "running", !.token = h.token + 1,
                                                !.until = now + LeaseTime]]
  BY <1>2 DEF ClaimHistoryImport, Types
<1>8. h.token + 1 \in Nat /\ page \in SUBSET Int
  BY <1>5, <1>6
<1>9. None \in Points /\ None < now
  BY <1>0 DEF None, Points
<1> HIDE DEF page, end, first, rest
<1>10. CASE rest = {} /\ worker' = [worker EXCEPT ![w] = Hand(TRUE, None)]
  <2>1. v = Hand(TRUE, None)
    BY <1>3, <1>10
  <2> QED
    <3>1. v \in Steps /\ v.import = i /\ v.token = h.token + 1 /\ v.page = page /\ v.complete /\ v.next = None
      BY <1>8, <1>9, <2>1 DEF Steps
    <3>2. worker' = [worker EXCEPT ![w] = v]
      BY <1>10, <2>1
    <3> QED
      BY <1>1, <1>2, <1>5, <1>7, <1>9, <1>10, <3>1, <3>2 DEF first, end
<1>11. CASE rest # {} /\ worker' = [worker EXCEPT ![w] = Hand(FALSE, Min(rest))]
  <2>1. v = Hand(FALSE, Min(rest)) /\ Min(rest) \in Points /\ Min(rest) # None
    BY <1>3, <1>5, <1>11 DEF Points, None
  <2> QED
    <3>1. v \in Steps /\ v.import = i /\ v.token = h.token + 1 /\ v.page = page /\ ~v.complete
          /\ v.next = Min(rest)
      BY <1>8, <2>1 DEF Steps
    <3>2. worker' = [worker EXCEPT ![w] = v]
      BY <1>11, <2>1
    <3> QED
      BY <1>1, <1>2, <1>5, <1>7, <1>11, <2>1, <3>1, <3>2 DEF first, end
<1>12. CASE worker' = [worker EXCEPT ![w] = Hand(FALSE, h.cursor)]
  <2>1. v = Hand(FALSE, h.cursor)
    BY <1>3, <1>12
  <2> QED
    <3>1. v \in Steps /\ v.import = i /\ v.token = h.token + 1 /\ v.page = page /\ ~v.complete
          /\ v.next = h.cursor
      BY <1>6, <1>8, <2>1 DEF Steps
    <3>2. worker' = [worker EXCEPT ![w] = v]
      BY <1>12, <2>1
    <3> QED
      BY <1>1, <1>2, <1>5, <1>6, <1>7, <3>1, <3>2
<1> QED
  BY <1>3, <1>10, <1>11, <1>12

LEMMA ClaimBounds ==
  ASSUME HistoryCoverageAssumption, Types, Bounds, NEW w \in Workers, NEW i \in Imports,
         ClaimHistoryImport(w, i)
  PROVE  Types' /\ Bounds'
<1>0. /\ import[i] \in ImportRecords /\ import[i].status # "absent"
      /\ import' = [import EXCEPT ![i] =
           [import[i] EXCEPT !.status = "running", !.token = import[i].token + 1,
                             !.until = now + LeaseTime]]
      /\ worker'[w] \in Steps /\ worker' = [worker EXCEPT ![w] = worker'[w]]
      /\ worker'[w].import = i /\ worker'[w].page \subseteq sent /\ worker'[w].next < now
  BY ClaimFacts
<1>1. PICK h : h = import[i]
  OBVIOUS
<1>2. /\ h \in ImportRecords /\ h.status # "absent"
      /\ import' = [import EXCEPT ![i] = [h EXCEPT !.status = "running", !.token = h.token + 1,
                                                   !.until = now + LeaseTime]]
  BY <1>0, <1>1
<1>3. PICK g : g = [h EXCEPT !.status = "running", !.token = h.token + 1, !.until = now + LeaseTime]
  OBVIOUS
<1>4. Kin(h, g)
  <2>1. h.token + 1 \in Nat /\ now + LeaseTime \in Int
    BY <1>2 DEF ImportRecords, Types, HistoryCoverageAssumption
  <2> QED
    BY <1>2, <1>3, <2>1 DEF Kin, ImportRecords
<1>5. import' = [import EXCEPT ![i] = g] /\ Kin(import[i], g) /\ import[i].status # "absent"
  BY <1>1, <1>2, <1>3, <1>4
<1>6. worker' \in [Workers -> {Idle} \cup Steps]
      /\ \A u \in Workers : worker'[u] = worker[u] \/
           (worker'[u].import = i /\ worker'[u].page \subseteq sent /\ worker'[u].next < now)
  <2>1. PICK v : v = worker'[w]
    OBVIOUS
  <2>2. v \in Steps /\ worker' = [worker EXCEPT ![w] = v] /\ v.import = i /\ v.page \subseteq sent /\ v.next < now
    BY <1>0, <2>1
  <2> QED
    BY <2>2 DEF Types
<1>7. now' = now /\ running' = running /\ coverage' = coverage /\ pull' = pull
      /\ stored' = stored /\ expired' = expired
  BY DEF ClaimHistoryImport, sourceVars, coverageVars
<1> QED
  BY <1>5, <1>6, <1>7, KinBounds

\* A finished import covers its whole range.
LEMMA ImportRecordKeeps ==
  ASSUME HistoryCoverageAssumption, now \in Nat, coverage \in Coverages, NEW K, CoverageIn(coverage, K),
         NEW h, h.start \in Int, h.end \in Nat, h.start < h.end, h.end <= Seconds(now),
         Through(Ticks(h.start), Ticks(h.end), K), NEW R, R = ImportCovers(h)
  PROVE  /\ R \in Coverages /\ CoverageIn(R, K)
         /\ covered # None => R.covered # None /\ covered <= R.covered
<1>0. PICK s, e, f, c : s = h.start /\ e = h.end /\ f = Ticks(h.start) /\ c = NoCursor
  OBVIOUS
<1>1. PICK full \in BOOLEAN : full = TRUE
  OBVIOUS
<1>a. PICK S : S = RecordCoverage(s, e, full, c, f)
  OBVIOUS
<1>2. /\ S \in Coverages /\ CoverageIn(S, K)
      /\ covered # None => S.covered # None /\ covered <= S.covered
  <2>1. s \in Int /\ e \in Nat /\ s < e /\ e <= Seconds(now) /\ Through(f, Ticks(e), K)
    BY <1>0
  <2>2. Seconds(f) = s /\ Ticks(s) = f /\ f \in Int
    BY <1>0, Arithmetic
  <2>3. \A t \in sent : Ticks(covered) <= t /\ Ticks(s) <= t /\ t < f => t \in K
    BY <2>2 DEF sent
  <2>4. c \in Cursors /\ (~full /\ c # NoCursor =>
          c.resume < now /\ Through(c.start, c.resume, K))
    BY <1>0 DEF Cursors
  <2>5. full => /\ Seconds(f) = s /\ Through(f, Ticks(e), K)
                /\ covered # None => \A t \in sent :
                     Ticks(covered) <= t /\ Ticks(s) <= t /\ t < f => t \in K
    BY <2>1, <2>2, <2>3
  <2> QED
    BY <1>a, <2>1, <2>2, <2>4, <2>5, RecordKeeps
<1> DEFINE left == Completed(S.gaps, h.start, h.end)
           flag == \E i \in DOMAIN left : ~left[i].complete
<1>3. R = [S EXCEPT !.gaps = left, !.flag = flag]
  BY <1>0, <1>1, <1>a DEF ImportCovers
<1>4. S.gaps \in Seq(Gaps) /\ GapsIn(S.gaps, K)
  BY <1>2 DEF CoverageIn, Coverages
<1>5. /\ left \in Seq(Gaps) /\ DOMAIN left = DOMAIN S.gaps
      /\ \A i \in DOMAIN S.gaps : /\ left[i].start = S.gaps[i].start /\ left[i].end = S.gaps[i].end
                                  /\ left[i].cursor \in {S.gaps[i].cursor, NoCursor}
  <2>1. h.end \in Int
    OBVIOUS
  <2> QED
    BY <1>4, <2>1, CompletedGaps
<1>6. flag \in BOOLEAN /\ (Unresolved(left) => flag)
  BY DEF Unresolved
<1> HIDE DEF left, flag
<1>7. GapsIn(left, K)
  BY <1>4, <1>5 DEF GapsIn
<1>8. R \in Coverages /\ R.covered = S.covered /\ R.from = S.from /\ R.gaps = left /\ R.flag = flag
  BY <1>2, <1>3, <1>5, <1>6 DEF Coverages
<1>9. CoversIn(R, K) /\ Flagged(R)
  BY <1>2, <1>6, <1>8 DEF CoverageIn, CoversIn, Flagged
<1> QED
  BY <1>2, <1>7, <1>8, <1>9 DEF CoverageIn

\* What a worker that still has its claim commits.
LEMMA FinishFacts ==
  ASSUME HistoryCoverageAssumption, Types, Bounds, NEW w \in Workers, FinishHistoryImport(w),
         checkHistoryClaim(w)
  PROVE  /\ worker[w] \in Steps /\ worker[w].import \in Imports /\ import[worker[w].import] \in ImportRecords
         /\ import[worker[w].import].status = "running" /\ import[worker[w].import].token = worker[w].token
         /\ stored' = stored \cup worker[w].page
         /\ \E s \in {"completed", "failed", "queued"} :
              /\ s = "completed" <=> worker[w].complete
              /\ s = "queued" => worker[w].next # import[worker[w].import].cursor
              /\ import' = [import EXCEPT ![worker[w].import] =
                   [import[worker[w].import] EXCEPT !.status = s, !.cursor = worker[w].next,
                                                    !.failures = 0, !.until = None]]
<1> DEFINE i == worker[w].import
<1>1. worker[w].step = "read"
  BY DEF FinishHistoryImport
<1>2. worker[w] \in Steps
  BY <1>1 DEF Types, Idle
<1>3. i \in Imports
  BY <1>2 DEF Steps
<1>4. import[i].status = "running" /\ import[i].token = worker[w].token
  BY DEF checkHistoryClaim, Active
<1>5. import[i] \in ImportRecords
  BY <1>3, <1>4 DEF Types, NoImport
<1> DEFINE s == IF worker[w].complete THEN "completed"
                ELSE IF worker[w].next = import[i].cursor THEN "failed" ELSE "queued"
<1>6. import' = [import EXCEPT ![i] =
                   [import[i] EXCEPT !.status = s, !.cursor = worker[w].next, !.failures = 0,
                                     !.until = None]]
      /\ stored' = stored \cup worker[w].page
  BY <1>3 DEF FinishHistoryImport, Types
<1>7. s \in {"completed", "failed", "queued"} /\ (s = "completed" <=> worker[w].complete)
      /\ (s = "queued" => worker[w].next # import[i].cursor)
  BY <1>2 DEF Steps
<1> HIDE DEF s
<1> QED
  BY <1>2, <1>3, <1>4, <1>5, <1>6, <1>7

\* Finishing keeps the claims about the coverage, of whatever K the range is in.
LEMMA FinishCoverage ==
  ASSUME HistoryCoverageAssumption, Types, Bounds, NEW w \in Workers, FinishHistoryImport(w), NEW K,
         CoverageIn(coverage, K),
         NEW h, h = import[worker[w].import],
         checkHistoryClaim(w) =>
           /\ worker[w].complete => Through(Ticks(h.start), Ticks(h.end), K)
           /\ worker[w].next # None => Through(Ticks(h.start), worker[w].next, K)
  PROVE  /\ coverage' \in Coverages /\ CoverageIn(coverage, K)'
         /\ covered # None => coverage'.covered # None /\ covered <= coverage'.covered
<1>0. now \in Nat /\ now' = now /\ coverage \in Coverages /\ covered \in Int
  BY DEF Types, FinishHistoryImport, sourceVars, HistoryCoverageAssumption, Coverages, covered
<1>1. \E c \in Coverages : /\ c = coverage' /\ CoverageIn(c, K)
                           /\ covered # None => c.covered # None /\ covered <= c.covered
  <2>1. CASE ~checkHistoryClaim(w)
    <3>1. coverage' = coverage
      BY <2>1 DEF FinishHistoryImport, coverageVars
    <3> QED
      BY <1>0, <3>1 DEF covered
  <2>2. CASE checkHistoryClaim(w)
    <3>1. worker[w] \in Steps /\ h \in ImportRecords /\ h.status # "absent" /\ worker[w].import \in Imports
      BY <2>2, FinishFacts
    <3>2. h.start \in Int /\ h.end \in Nat /\ h.start < h.end /\ h.end <= Seconds(now) /\ Ticks(h.start) \in Int
      BY <3>1, Arithmetic DEF ImportRecords, Bounds, ImportBound
    <3>3. worker[w].next \in Points /\ worker[w].next < now
      BY <3>1 DEF Steps, Bounds, WorkerBound
    <3>4. CASE worker[w].complete
      <4>1. coverage' = ImportCovers(h)
        BY <2>2, <3>4 DEF FinishHistoryImport
      <4>2. PICK R : R = ImportCovers(h)
        OBVIOUS
      <4> QED
        BY <1>0, <2>2, <3>2, <3>4, <4>1, <4>2, ImportRecordKeeps
    <3>5. CASE ~worker[w].complete
      <4> DEFINE cursor == ImportCursor(h, worker[w].next)
      <4>1. coverage' = RecordCoverage(h.start, h.end, FALSE, cursor, Ticks(h.start))
        BY <2>2, <3>5 DEF FinishHistoryImport
      <4>2. PICK R : R = RecordCoverage(h.start, h.end, FALSE, cursor, Ticks(h.start))
        OBVIOUS
      <4>3. cursor \in Cursors
            /\ (cursor # NoCursor => cursor.start = Ticks(h.start) /\ cursor.resume = worker[w].next
                                     /\ worker[w].next # None)
        <5>1. CASE worker[w].next = None
          BY <5>1 DEF ImportCursor, Cursors
        <5>2. CASE worker[w].next # None
          <6>1. worker[w].next \in Nat
            BY <3>3, <5>2 DEF Points
          <6>2. h.end \in Int
            BY <3>2
          <6>3. Ticks(h.end) \in Int
            BY <6>2, Arithmetic
          <6> QED
            BY <3>2, <5>2, <6>1, <6>3 DEF ImportCursor, Cursor, Cursors
        <5> QED
          BY <5>1, <5>2
      <4> HIDE DEF cursor
      <4>4. R \in Coverages /\ CoverageIn(R, K) /\ (covered # None => R.covered # None /\ covered <= R.covered)
        <5>1. cursor # NoCursor => cursor.resume < now /\ Through(cursor.start, cursor.resume, K)
          BY <2>2, <3>3, <4>3
        <5>2. PICK d : d = cursor
          OBVIOUS
        <5>3. d \in Cursors /\ (d # NoCursor => d.resume < now /\ Through(d.start, d.resume, K))
              /\ R = RecordCoverage(h.start, h.end, FALSE, d, Ticks(h.start))
          BY <4>2, <4>3, <5>1, <5>2
        <5>4. PICK x : x = Gap(h.start, h.end, d)
          OBVIOUS
        <5>5. R = Opened(coverage, x)
          BY <5>3, <5>4 DEF RecordCoverage, Opened
        <5>6. R \in Coverages /\ CoverageIn(R, K) /\ R.covered = covered
          <6>1. ASSUME NEW a, a = h.start, NEW b, b = h.end
                PROVE R \in Coverages /\ CoverageIn(R, K) /\ R.covered = covered
            <7>1. a \in Int /\ b \in Nat /\ a < b /\ b <= Seconds(now) /\ x = Gap(a, b, d)
              BY <3>2, <5>4, <6>1
            <7> QED
              BY <1>0, <5>3, <5>5, <7>1, RecordPartial
          <6> QED
            BY <6>1
        <5> QED
          BY <1>0, <5>6
      <4> QED
        BY <4>1, <4>2, <4>4
    <3> QED
      BY <3>4, <3>5
  <2> QED
    BY <2>1, <2>2
<1>2. PICK c \in Coverages : c = coverage' /\ CoverageIn(c, K)
  BY <1>1
<1>3. CoverageIn(c, K)'
  BY <1>0, <1>2, CoverageCarries
<1> QED
  BY <1>1, <1>2, <1>3

LEMMA FinishBounds ==
  ASSUME HistoryCoverageAssumption, Types, Bounds, NEW w \in Workers, FinishHistoryImport(w)
  PROVE Types' /\ Bounds'
<1>0. now \in Nat /\ now' = now /\ sent' = sent /\ Seconds(now') = Seconds(now) /\ now' \in 0..MaxTime
      /\ running' = running /\ expired' = expired /\ pull' = pull
  BY DEF Types, FinishHistoryImport, sourceVars, HistoryCoverageAssumption, sent
<1>1. coverage' \in Coverages /\ CoverageIn(coverage, sent)'
  <2>1. PICK K : K = sent
    OBVIOUS
  <2>2. PICK h : h = import[worker[w].import]
    OBVIOUS
  <2>3. \A a, b : Through(a, b, K)
    BY <2>1 DEF Through
  <2>4. coverage' \in Coverages /\ CoverageIn(coverage, K)'
    BY <2>1, <2>2, <2>3, FinishCoverage DEF Bounds
  <2> QED
    BY <1>0, <2>1, <2>4
<1>2. PICK i : i = worker[w].import
  OBVIOUS
<1>3. worker' = [worker EXCEPT ![w] = Idle] /\ worker[w].step = "read"
  BY DEF FinishHistoryImport
<1>4. i \in Imports /\ worker[w].page \subseteq sent /\ worker[w].next \in Points /\ worker[w].next < now
  <2>1. worker[w] \in Steps
    BY <1>3 DEF Types, Idle
  <2> QED
    BY <1>2, <1>3, <2>1 DEF Steps, Bounds, WorkerBound
<1>5. /\ import' \in [Imports -> {NoImport} \cup ImportRecords]
      /\ \A j \in Imports :
           \/ import'[j] = import[j]
           \/ /\ import[j].status # "absent" /\ import'[j].status # "absent"
              /\ import'[j].start = import[j].start /\ import'[j].end = import[j].end
              /\ import'[j].cursor = worker[w].next
      /\ stored' \subseteq stored \cup worker[w].page
  <2>1. CASE ~checkHistoryClaim(w)
    BY <2>1 DEF FinishHistoryImport, Types
  <2>2. CASE checkHistoryClaim(w)
    <3>0. PICK s \in {"completed", "failed", "queued"} :
            import' = [import EXCEPT ![worker[w].import] =
              [import[worker[w].import] EXCEPT !.status = s, !.cursor = worker[w].next, !.failures = 0,
                                               !.until = None]]
      BY <2>2, FinishFacts
    <3>1. import' = [import EXCEPT ![i] =
              [import[i] EXCEPT !.status = s, !.cursor = worker[w].next, !.failures = 0, !.until = None]]
      BY <1>2, <3>0
    <3>2. import[i] \in ImportRecords /\ import[i].status = "running" /\ stored' = stored \cup worker[w].page
      BY <1>2, <2>2, FinishFacts
    <3>3. PICK g : g = [import[i] EXCEPT !.status = s, !.cursor = worker[w].next, !.failures = 0, !.until = None]
      OBVIOUS
    <3>4. g \in ImportRecords /\ g.start = import[i].start /\ g.end = import[i].end
          /\ g.cursor = worker[w].next /\ g.status # "absent"
      BY <1>4, <3>2, <3>3, NoneIsAnInt DEF ImportRecords
    <3>5. import' = [import EXCEPT ![i] = g]
      BY <3>1, <3>3
    <3> QED
      BY <1>4, <3>2, <3>4, <3>5 DEF Types
  <2> QED
    BY <2>1, <2>2
<1>6. ImportBound'
  BY <1>0, <1>4, <1>5 DEF Bounds, ImportBound
<1>7. worker' \in [Workers -> {Idle} \cup Steps] /\ \A v \in Workers : worker'[v] = worker[v] \/ worker'[v] = Idle
  BY <1>3 DEF Types
<1>8. WorkerBound'
  <2> SUFFICES ASSUME NEW v \in Workers, worker'[v].step = "read"
               PROVE  /\ import'[worker'[v].import].status # "absent"
                      /\ worker'[v].page \subseteq sent' /\ worker'[v].next < now'
    BY DEF WorkerBound
  <2>1. worker'[v] = worker[v] /\ worker[v] \in Steps
    BY <1>7 DEF Types, Idle
  <2>2. worker[v].import \in Imports
    BY <2>1 DEF Steps
  <2> QED
    BY <1>0, <1>5, <2>1, <2>2 DEF Bounds, WorkerBound
<1>9. PullBound'
  BY <1>0 DEF Bounds, PullBound
<1> QED
  BY <1>0, <1>1, <1>4, <1>5, <1>6, <1>7, <1>8, <1>9 DEF Types, Bounds

LEMMA QuietBounds ==
  ASSUME HistoryCoverageAssumption, Types, Bounds, Tick \/ SetDataSourceStatus \/ Crash \/ UNCHANGED vars
  PROVE  Types' /\ Bounds'
<1>1. /\ now' \in {now, now + 1} /\ now' <= MaxTime /\ running' \in BOOLEAN
      /\ coverage' = coverage /\ stored' = stored /\ expired' = expired /\ import' = import
      /\ \/ pull' = pull /\ worker' = worker
         \/ now' = now /\ pull' = Idle /\ worker' = [w \in Workers |-> Idle]
  <2>1. now \in Nat /\ now <= MaxTime /\ running \in BOOLEAN
    BY DEF Types, HistoryCoverageAssumption
  <2>2. CASE Tick
    BY <2>1, <2>2 DEF Tick, coverageVars, importVars, HistoryCoverageAssumption
  <2>3. CASE SetDataSourceStatus
    BY <2>1, <2>3 DEF SetDataSourceStatus, coverageVars, importVars
  <2>4. CASE Crash
    BY <2>1, <2>4 DEF Crash, sourceVars, coverageVars
  <2>5. CASE UNCHANGED vars
    BY <2>1, <2>5 DEF vars, sourceVars, coverageVars, importVars
  <2> QED
    BY <2>2, <2>3, <2>4, <2>5
<1>2. sent \subseteq sent' /\ now' \in 0..MaxTime /\ CoverageIn(coverage, sent)' /\ ImportBound'
      /\ coverage' \in Coverages
  BY <1>1, BoundsCarry
<1>3. CASE pull' = pull /\ worker' = worker
  BY <1>1, <1>2, <1>3, BoundsCarry DEF Types, Bounds
<1>4. CASE pull' = Idle /\ worker' = [w \in Workers |-> Idle]
  <2>1. PullBound' /\ WorkerBound'
    BY <1>4 DEF PullBound, WorkerBound, Idle
  <2>2. worker' \in [Workers -> {Idle} \cup Steps]
    BY <1>4
  <2> QED
    BY <1>1, <1>2, <1>4, <2>1, <2>2 DEF Types, Bounds
<1> QED
  BY <1>1, <1>3, <1>4

LEMMA BoundsStep == ASSUME HistoryCoverageAssumption, Types, Bounds, [Next]_vars PROVE Types' /\ Bounds'
<1>1. CASE Tick \/ SetDataSourceStatus \/ Crash \/ UNCHANGED vars
  BY <1>1, QuietBounds
<1>2. CASE reconcileRoute \/ Intake \/ recordCoverage
  BY <1>2, ReconcileBounds, IntakeBounds, RecordBounds
<1>3. CASE \E start \in 0..Seconds(now), end \in 0..Seconds(now) : PullByOperator(start, end)
  BY <1>3, OperatorBounds
<1>4. ASSUME NEW i \in Imports,
             CreateHistoryImport(i) \/ CancelHistoryImport(i) \/ RetryHistoryImport(i)
             \/ \E w \in Workers : ClaimHistoryImport(w, i)
      PROVE  Types' /\ Bounds'
  BY <1>4, CreateBounds, CancelBounds, RetryBounds, ClaimBounds
<1>5. ASSUME NEW w \in Workers, FinishHistoryImport(w) \/ FailHistoryImport(w) PROVE Types' /\ Bounds'
  BY <1>5, FinishBounds, FailBounds
<1> QED
  BY <1>1, <1>2, <1>3, <1>4, <1>5 DEF Next

LEMMA BoundsStart == ASSUME HistoryCoverageAssumption, Init PROVE Types /\ Bounds
<1>1. now = Enabled /\ stored = {} /\ expired = {} /\ coverage = Nothing /\ pull = Idle /\ running = TRUE
      /\ import = [i \in Imports |-> NoImport] /\ worker = [w \in Workers |-> Idle]
  BY DEF Init
<1>2. coverage \in Coverages /\ CoverageIn(coverage, sent)
  <2>1. coverage.gaps = << >> /\ coverage.covered = None /\ coverage.from = None /\ coverage.flag = FALSE
    BY <1>1 DEF Nothing
  <2>2. << >> \in Seq(Gaps) /\ DOMAIN << >> = {}
    OBVIOUS
  <2> QED
    BY <1>1, <2>1, <2>2, NoneIsAnInt
       DEF CoverageIn, CoversIn, GapsIn, Flagged, Unresolved, Nothing, Coverages
<1>3. PullBound /\ ImportBound /\ WorkerBound
  BY <1>1 DEF PullBound, ImportBound, WorkerBound, Idle, NoImport
<1>4. now \in 0..MaxTime /\ sent \subseteq Int
  BY <1>1 DEF HistoryCoverageAssumption, sent
<1> QED
  BY <1>1, <1>2, <1>3, <1>4 DEF Types, Bounds

----------------------------------------------------------------------------
(* Imports.                                                                *)

\* How one import may change in a step that leaves S stored.
Moves(h, g, S) ==
  \/ g = h
  \/ h.status = "absent" /\ g.status = "queued" /\ g.cursor = None
  \/ /\ g.start = h.start /\ g.end = h.end /\ g.cursor = h.cursor
     /\ \/ /\ h.status \in {"queued", "running", "failed"} /\ g.status = "cancelled"
           /\ g.token = h.token
        \/ h.status \in {"failed", "cancelled"} /\ g.status = "queued" /\ g.token = h.token
        \/ h.status = "running" /\ g.status \in {"queued", "failed"} /\ g.token = h.token
        \/ h.status \in {"queued", "running"} /\ g.status = "running" /\ g.token = h.token + 1
  \/ /\ g.start = h.start /\ g.end = h.end /\ g.token = h.token
     /\ h.status = "running" /\ g.status \in {"completed", "failed", "queued"}
     /\ g.status = "queued" /\ g.cursor # None => g.cursor >= h.cursor
     /\ g.cursor # None =>
          Ticks(h.start) <= g.cursor /\ Through(Ticks(h.start), g.cursor, S)
     /\ g.status = "completed" => Through(Ticks(h.start), Ticks(h.end), S)

\* Cancelling, retrying, failing and creating leave the hands of the workers as
\* they are or empty.
LEMMA StatusMoves ==
  ASSUME HistoryCoverageAssumption, Types, Bounds, NEW i \in Imports,
         \/ CreateHistoryImport(i) \/ CancelHistoryImport(i) \/ RetryHistoryImport(i)
         \/ \E w \in Workers : FailHistoryImport(w)
  PROVE  /\ \A j \in Imports : Moves(import[j], import'[j], stored)
         /\ \A v \in Workers : worker'[v] = worker[v] \/ worker'[v] = Idle
         /\ stored' = stored /\ now' = now
<1>1. \A j \in Imports : import[j] \in {NoImport} \cup ImportRecords
  BY DEF Types
<1>2. CASE CreateHistoryImport(i)
  BY <1>2 DEF CreateHistoryImport, Types, Moves, NoImport, sourceVars
<1>3. CASE CancelHistoryImport(i)
  BY <1>1, <1>3 DEF CancelHistoryImport, Types, Moves, NoImport, ImportRecords, sourceVars
<1>4. CASE RetryHistoryImport(i)
  BY <1>1, <1>4 DEF RetryHistoryImport, Types, Moves, NoImport, ImportRecords, sourceVars
<1>5. ASSUME NEW w \in Workers, FailHistoryImport(w)
      PROVE  /\ \A j \in Imports : Moves(import[j], import'[j], stored)
             /\ \A v \in Workers : worker'[v] = worker[v] \/ worker'[v] = Idle
             /\ stored' = stored /\ now' = now
  <2>1. worker'= [worker EXCEPT ![w] = Idle] /\ stored' = stored /\ now' = now
    BY <1>5 DEF FailHistoryImport, sourceVars
  <2>2. CASE ~checkHistoryClaim(w)
    BY <1>5, <2>1, <2>2 DEF FailHistoryImport, Types, Moves
  <2>3. CASE checkHistoryClaim(w)
    <3>1. worker[w] \in Steps
      <4>1. worker[w].step # "idle"
        BY <1>5 DEF FailHistoryImport
      <4>2. Idle.step = "idle"
        BY DEF Idle
      <4> QED
        BY <4>1, <4>2 DEF Types
    <3>2. PICK k \in Imports : k = worker[w].import
      BY <3>1 DEF Steps
    <3>3. import[k].status = "running" /\ import[k] \in ImportRecords
      BY <1>1, <2>3, <3>2 DEF checkHistoryClaim, Active, NoImport
    <3>4. PICK s \in {"failed", "queued"} :
            import' = [import EXCEPT ![k].status = s, ![k].failures = @ + 1, ![k].until = None]
      BY <1>5, <2>3, <3>2 DEF FailHistoryImport
    <3>5. \A j \in Imports : Moves(import[j], import'[j], stored)
      BY <3>3, <3>4 DEF Types, Moves, ImportRecords
    <3> QED
      BY <2>1, <3>5 DEF Types
  <2> QED
    BY <2>2, <2>3
<1> QED
  BY <1>2, <1>3, <1>4, <1>5

LEMMA ClaimMoves ==
  ASSUME HistoryCoverageAssumption, Types, Bounds, NEW w \in Workers, NEW i \in Imports,
         ClaimHistoryImport(w, i)
  PROVE  /\ \A j \in Imports : Moves(import[j], import'[j], stored)
         /\ stored' = stored /\ now' = now
<1>1. import[i].status \in {"queued", "running"} /\ stored' = stored /\ now' = now
  BY DEF ClaimHistoryImport, Claimable, sourceVars
<1>2. PICK g : g = [import[i] EXCEPT !.status = "running", !.token = import[i].token + 1,
                                     !.until = now + LeaseTime]
  OBVIOUS
<1>3. import[i] \in ImportRecords /\ import' = [import EXCEPT ![i] = g]
  <2>1. import[i] \in ImportRecords
    BY ClaimFacts
  <2>2. import' = [import EXCEPT ![i] = [import[i] EXCEPT !.status = "running",
                     !.token = import[i].token + 1, !.until = now + LeaseTime]]
    BY ClaimFacts
  <2> QED
    BY <1>2, <2>1, <2>2
<1>4. Moves(import[i], g, stored)
  BY <1>1, <1>2, <1>3 DEF Moves, ImportRecords
<1>5. \A j \in Imports : Moves(import[j], import'[j], stored)
  BY <1>3, <1>4 DEF Types, Moves
<1> QED
  BY <1>1, <1>5

\* What a worker commits with its claim is a whole piece of the range.
LEMMA Committed ==
  ASSUME HistoryCoverageAssumption, Types, Bounds, ImportInv, NEW w \in Workers, FinishHistoryImport(w),
         checkHistoryClaim(w),
         NEW h, h = import[worker[w].import], NEW S, S = stored \cup worker[w].page
  PROVE  /\ worker[w].complete => Through(Ticks(h.start), Ticks(h.end), S)
         /\ worker[w].next # None =>
              Ticks(h.start) <= worker[w].next /\ Through(Ticks(h.start), worker[w].next, S)
         /\ worker[w].next # None => worker[w].next >= h.cursor
<1>1. worker[w] \in Steps /\ h \in ImportRecords /\ h.status = "running" /\ h.token = worker[w].token
  BY FinishFacts
<1>2. RangeIn(h) /\ HeldIn(worker[w], h)
  <2>1. worker[w].step = "read" /\ worker[w].import \in Imports
    BY <1>1 DEF Steps
  <2> QED
    BY <1>1, <2>1 DEF ImportInv
<1>3. worker[w].next \in Int /\ h.cursor \in Int /\ h.cursor >= None /\ worker[w].next >= None
  BY <1>1 DEF Steps, ImportRecords, Points, None
<1>4. Ticks(h.start) \in Int
  BY <1>1, Arithmetic DEF ImportRecords
<1>5. ASSUME NEW b, Through(Resumed(h), b, worker[w].page)
      PROVE  Through(Ticks(h.start), b, S)
  <2> SUFFICES ASSUME NEW t \in sent, Ticks(h.start) <= t, t < b, t \notin S PROVE FALSE
    BY DEF Through
  <2>1. t \in Int
    BY DEF sent
  <2>2. CASE h.cursor = None
    BY <1>5, <2>2 DEF Through, Resumed
  <2>3. CASE h.cursor # None
    <3>1. ~(h.cursor <= t)
      BY <1>5, <2>3 DEF Through, Resumed
    <3>2. t < h.cursor
      BY <1>3, <2>1, <3>1
    <3> QED
      BY <1>2, <2>3, <3>2 DEF RangeIn, Through
  <2> QED
    BY <2>2, <2>3
<1>6. worker[w].complete => Through(Ticks(h.start), Ticks(h.end), S)
  BY <1>1, <1>2, <1>5 DEF HeldIn
<1>7. ASSUME worker[w].next # None
      PROVE  /\ Ticks(h.start) <= worker[w].next /\ Through(Ticks(h.start), worker[w].next, S)
             /\ worker[w].next >= h.cursor
  <2>1. CASE worker[w].next = h.cursor
    BY <1>2, <1>3, <1>7, <2>1 DEF RangeIn, Through
  <2>2. CASE worker[w].next # h.cursor /\ ~worker[w].complete
    <3>1. Resumed(h) <= worker[w].next /\ Through(Resumed(h), worker[w].next, worker[w].page)
      BY <1>1, <1>2, <2>2 DEF HeldIn
    <3>2. Ticks(h.start) <= Resumed(h) /\ Resumed(h) \in Int /\ (h.cursor = None \/ h.cursor = Resumed(h))
      BY <1>2, <1>3, <1>4 DEF Resumed, RangeIn
    <3> QED
      BY <1>3, <1>4, <1>5, <3>1, <3>2
  <2>3. CASE worker[w].complete
    BY <1>1, <1>2, <1>7, <2>3 DEF HeldIn
  <2> QED
    BY <1>1, <2>1, <2>2, <2>3 DEF Steps
<1> QED
  BY <1>6, <1>7

LEMMA FinishMoves ==
  ASSUME HistoryCoverageAssumption, Types, Bounds, ImportInv, NEW w \in Workers, FinishHistoryImport(w)
  PROVE  /\ \A j \in Imports : Moves(import[j], import'[j], stored')
         /\ \A v \in Workers : worker'[v] = worker[v] \/ worker'[v] = Idle
         /\ stored \subseteq stored' /\ now' = now
<1>1. now' = now /\ worker' = [worker EXCEPT ![w] = Idle]
  BY DEF FinishHistoryImport, sourceVars
<1>2. \A v \in Workers : worker'[v] = worker[v] \/ worker'[v] = Idle
  BY <1>1 DEF Types
<1>3. CASE ~checkHistoryClaim(w)
  BY <1>1, <1>2, <1>3 DEF FinishHistoryImport, Moves
<1>4. CASE checkHistoryClaim(w)
  <2>1. PICK i \in Imports : i = worker[w].import
    BY <1>4, FinishFacts
  <2>2. /\ worker[w] \in Steps /\ import[i] \in ImportRecords /\ import[i].status = "running"
        /\ stored' = stored \cup worker[w].page
    BY <1>4, <2>1, FinishFacts
  <2>3. PICK s \in {"completed", "failed", "queued"} :
          /\ s = "completed" <=> worker[w].complete
          /\ import' = [import EXCEPT ![worker[w].import] =
              [import[worker[w].import] EXCEPT !.status = s, !.cursor = worker[w].next,
                                               !.failures = 0, !.until = None]]
    BY <1>4, FinishFacts
  <2>4. PICK g : g = [import[i] EXCEPT !.status = s, !.cursor = worker[w].next, !.failures = 0, !.until = None]
    OBVIOUS
  <2>5. import' = [import EXCEPT ![i] = g]
    BY <2>1, <2>3, <2>4
  <2>6. PICK h, S : h = import[worker[w].import] /\ S = stored \cup worker[w].page
    OBVIOUS
  <2>7. /\ worker[w].complete => Through(Ticks(h.start), Ticks(h.end), S)
        /\ worker[w].next # None =>
             Ticks(h.start) <= worker[w].next /\ Through(Ticks(h.start), worker[w].next, S)
        /\ worker[w].next # None => worker[w].next >= h.cursor
    BY <1>4, <2>6, Committed
  <2>8. h = import[i] /\ S = stored'
    BY <2>1, <2>2, <2>6
  <2>9. /\ g.start = h.start /\ g.end = h.end /\ g.token = h.token /\ g.status = s
        /\ g.cursor = worker[w].next
    BY <2>2, <2>4, <2>8 DEF ImportRecords
  <2>10. Moves(h, g, S)
    BY <2>2, <2>3, <2>7, <2>8, <2>9 DEF Moves
  <2>11. \A j \in Imports : Moves(import[j], import'[j], stored')
    <3> SUFFICES ASSUME NEW j \in Imports PROVE Moves(import[j], import'[j], stored')
      OBVIOUS
    <3>1. CASE j = i
      BY <2>5, <2>8, <2>10, <3>1 DEF Types
    <3>2. CASE j # i
      BY <2>5, <3>2 DEF Types, Moves
    <3> QED
      BY <3>1, <3>2
  <2> QED
    BY <1>1, <1>2, <2>2, <2>11
<1> QED
  BY <1>3, <1>4

\* Every step.
LEMMA ImportMoves ==
  ASSUME HistoryCoverageAssumption, Types, Bounds, ImportInv, [Next]_vars
  PROVE  /\ \A j \in Imports : Moves(import[j], import'[j], stored')
         /\ stored \subseteq stored' /\ now' \in {now, now + 1}
         /\ \A v \in Workers :
              \/ worker'[v] = worker[v] \/ worker'[v] = Idle
              \/ now' = now /\ \E i \in Imports : ClaimHistoryImport(v, i)
<1> DEFINE Goal ==
         /\ \A j \in Imports : Moves(import[j], import'[j], stored')
         /\ stored \subseteq stored' /\ now' \in {now, now + 1}
         /\ \A v \in Workers :
              \/ worker'[v] = worker[v] \/ worker'[v] = Idle
              \/ now' = now /\ \E i \in Imports : ClaimHistoryImport(v, i)
<1>1. ASSUME import' = import, stored \subseteq stored', now' \in {now, now + 1},
             worker' = worker \/ worker' = [w \in Workers |-> Idle]
      PROVE  Goal
  BY <1>1 DEF Moves
<1>2. CASE Tick \/ SetDataSourceStatus \/ Crash \/ UNCHANGED vars
  BY <1>1, <1>2 DEF Tick, SetDataSourceStatus, Crash, vars, sourceVars, importVars
<1>3. CASE reconcileRoute
  BY <1>1, <1>3 DEF reconcileRoute, sourceVars, importVars
<1>4. CASE Intake
  BY <1>1, <1>4 DEF Intake, sourceVars, importVars
<1>5. CASE recordCoverage
  BY <1>1, <1>5 DEF recordCoverage, sourceVars, importVars
<1>6. CASE \E start \in 0..Seconds(now), end \in 0..Seconds(now) : PullByOperator(start, end)
  BY <1>1, <1>6 DEF PullByOperator, sourceVars, importVars
<1>7. ASSUME NEW i \in Imports, CreateHistoryImport(i) \/ CancelHistoryImport(i) \/ RetryHistoryImport(i)
      PROVE  Goal
  BY <1>7, StatusMoves
<1>8. ASSUME NEW w \in Workers, FailHistoryImport(w) PROVE Goal
  <2>1. \E i \in Imports : TRUE
    <3>1. worker[w] # Idle
      BY <1>8 DEF FailHistoryImport, Idle
    <3> QED
      BY <3>1 DEF Types, Steps
  <2> QED
    BY <1>8, <2>1, StatusMoves
<1>9. ASSUME NEW w \in Workers, FinishHistoryImport(w) PROVE Goal
  BY <1>9, FinishMoves
<1>10. ASSUME NEW i \in Imports, NEW w \in Workers, ClaimHistoryImport(w, i) PROVE Goal
  <2>1. \A v \in Workers : v # w => worker'[v] = worker[v]
    BY <1>10 DEF ClaimHistoryImport, Types
  <2> QED
    BY <1>10, <2>1, ClaimMoves
<1> QED
  BY <1>2, <1>3, <1>4, <1>5, <1>6, <1>7, <1>8, <1>9, <1>10 DEF Next

LEMMA ImportStep ==
  ASSUME HistoryCoverageAssumption, Types, Bounds, ImportInv, [Next]_vars
  PROVE ImportInv'
<1>0. now \in Nat /\ Types' /\ Bounds'
  BY BoundsStep DEF Types, HistoryCoverageAssumption
<1>1. /\ \A j \in Imports : Moves(import[j], import'[j], stored')
      /\ stored \subseteq stored' /\ now' \in {now, now + 1}
      /\ \A v \in Workers :
           \/ worker'[v] = worker[v] \/ worker'[v] = Idle
           \/ now' = now /\ \E i \in Imports : ClaimHistoryImport(v, i)
  BY ImportMoves
<1>2. ASSUME NEW a \in Int, NEW b \in Int, b <= now, NEW K, NEW L, K \subseteq L, Through(a, b, K)
      PROVE  Through(a, b, L)'
  BY <1>0, <1>1, <1>2 DEF Through, sent
<1>3. ASSUME NEW j \in Imports, import[j].status # "absent"
      PROVE  /\ import[j].start \in Int /\ import[j].end \in Int /\ import[j].cursor \in Int
             /\ import[j].cursor < now /\ Ticks(import[j].start) \in Int /\ Ticks(import[j].end) \in Int
             /\ Ticks(import[j].end) <= now /\ import[j].token \in Nat /\ Resumed(import[j]) \in Int
  <2>1. import[j] \in ImportRecords
    BY <1>3 DEF Types, NoImport
  <2>2. import[j].start \in Int /\ import[j].end \in Int /\ import[j].cursor \in Int /\ import[j].token \in Nat
    BY <2>1, NoneIsAnInt DEF ImportRecords, Points
  <2>3. import[j].cursor < now /\ import[j].end <= Seconds(now)
    BY <1>3 DEF Bounds, ImportBound
  <2>4. Ticks(import[j].start) \in Int /\ Ticks(import[j].end) \in Int
    BY <2>2, Arithmetic
  <2>5. Ticks(import[j].end) <= now
    BY <1>0, <2>2, <2>3, SecondsBetween
  <2> QED
    BY <2>2, <2>3, <2>4, <2>5 DEF Resumed
<1>4. ASSUME NEW j \in Imports, import'[j].status # "absent" PROVE RangeIn(import[j])'
  <2> SUFFICES ASSUME NEW h, h = import[j], NEW g, g = import'[j], NEW S,
                      S = stored' PROVE RangeIn(import[j])'
    OBVIOUS
  <2>1. Moves(h, g, S)
    BY <1>1
  <2>2. ASSUME h.status # "absent", g.start = h.start, g.end = h.end,
               g.cursor # None => g.cursor \in Int /\ g.cursor <= now /\ Ticks(g.start) <= g.cursor
                                  /\ Through(Ticks(g.start), g.cursor, S),
               g.status = "completed" => Through(Ticks(g.start), Ticks(g.end), S)
        PROVE  RangeIn(import[j])'
    <3>1. Ticks(g.start) \in Int /\ Ticks(g.end) \in Int /\ Ticks(g.end) <= now
      BY <1>3, <2>2
    <3>2. g.cursor # None => Through(Ticks(g.start), g.cursor, S)'
      BY <1>2, <2>2, <3>1
    <3>3. g.status = "completed" => Through(Ticks(g.start), Ticks(g.end), S)'
      BY <1>2, <2>2, <3>1
    <3> QED
      BY <2>2, <3>2, <3>3 DEF RangeIn, Through
  <2>3. ASSUME h.status # "absent", g.start = h.start, g.end = h.end, g.cursor = h.cursor,
               g.status = "completed" => h.status = "completed"
        PROVE  RangeIn(import[j])'
    <3>1. RangeIn(h) /\ h.cursor \in Int /\ h.cursor < now
      BY <1>3, <2>3 DEF ImportInv
    <3>2. \A a, b : Through(a, b, stored) => Through(a, b, S)
      BY <1>1 DEF Through
    <3> QED
      BY <1>0, <2>2, <2>3, <3>1, <3>2 DEF RangeIn
  <2>4. CASE g = h
    BY <1>4, <2>3, <2>4
  <2>5. CASE h.status = "absent" /\ g.status = "queued" /\ g.cursor = None
    BY <2>5 DEF RangeIn
  <2>6. CASE /\ g.start = h.start /\ g.end = h.end /\ g.cursor = h.cursor
             /\ h.status # "absent" /\ g.status # "completed"
    BY <2>3, <2>6
  <2>7. CASE /\ g.start = h.start /\ g.end = h.end /\ h.status = "running"
             /\ g.cursor # None =>
                  Ticks(h.start) <= g.cursor /\ Through(Ticks(h.start), g.cursor, S)
             /\ g.status = "completed" => Through(Ticks(h.start), Ticks(h.end), S)
    <3>1. g.cursor \in Int /\ g.cursor < now'
      <4>1. g \in ImportRecords
        BY <1>0, <1>4 DEF Types, NoImport
      <4> QED
        BY <1>0, <1>4, <4>1, NoneIsAnInt DEF Bounds, ImportBound, ImportRecords, Points
    <3>2. g.cursor <= now
      BY <1>0, <1>1, <3>1
    <3> QED
      BY <2>2, <2>7, <3>1, <3>2
  <2> QED
    BY <2>1, <2>4, <2>5, <2>6, <2>7 DEF Moves
<1>5. ASSUME NEW w \in Workers, worker'[w].step = "read"
      PROVE  HeldIn(worker[w], import[worker[w].import])'
  <2>1. CASE now' = now /\ \E i \in Imports : ClaimHistoryImport(w, i)
    <3>1. PICK i \in Imports : ClaimHistoryImport(w, i)
      BY <2>1
    <3>2. /\ worker'[w].import = i /\ worker'[w].token = import[i].token + 1
          /\ import[i] \in ImportRecords
      BY <3>1, ClaimFacts
    <3>3. /\ worker'[w].complete =>
               worker'[w].next = None /\ Through(Resumed(import[i]), Ticks(import[i].end), worker'[w].page)
          /\ ~worker'[w].complete /\ worker'[w].next # import[i].cursor =>
               /\ worker'[w].next # None /\ Resumed(import[i]) <= worker'[w].next
               /\ Through(Resumed(import[i]), worker'[w].next, worker'[w].page)
      BY <3>1, ClaimFacts
    <3>4. import'[i].start = import[i].start /\ import'[i].end = import[i].end
          /\ import'[i].cursor = import[i].cursor /\ import'[i].token = import[i].token + 1
      <4>1. import' = [import EXCEPT ![i] = [import[i] EXCEPT !.status = "running",
                         !.token = import[i].token + 1, !.until = now + LeaseTime]]
        BY <3>1, ClaimFacts
      <4>2. PICK g : g = [import[i] EXCEPT !.status = "running", !.token = import[i].token + 1,
                                           !.until = now + LeaseTime]
        OBVIOUS
      <4>3. g.start = import[i].start /\ g.end = import[i].end /\ g.cursor = import[i].cursor
            /\ g.token = import[i].token + 1
        BY <3>2, <4>2 DEF ImportRecords
      <4> QED
        BY <4>1, <4>2, <4>3 DEF Types
    <3>5. import[i].token \in Nat
      BY <3>2 DEF ImportRecords
    <3> QED
      BY <2>1, <3>2, <3>3, <3>4, <3>5 DEF HeldIn, Resumed, Through, sent
  <2>2. CASE worker'[w] = worker[w]
    <3> SUFFICES ASSUME NEW v, v = worker[w], NEW h, h = import[v.import], NEW g, g = import'[v.import]
                 PROVE  HeldIn(worker[w], import[worker[w].import])'
      OBVIOUS
    <3>1. v \in Steps /\ v.import \in Imports
      BY <1>5, <2>2 DEF Types, Idle, Steps
    <3>2. h.status # "absent" /\ HeldIn(v, h) /\ v.next \in Int /\ v.next < now /\ v.token \in Nat
      BY <1>5, <2>2, <3>1, NoneIsAnInt DEF Bounds, WorkerBound, ImportInv, Steps, Points
    <3>3. Moves(h, g, stored')
      BY <1>1, <3>1
    <3>4. h.token \in Nat /\ Ticks(h.end) \in Int /\ Ticks(h.end) <= now /\ Resumed(h) \in Int
      BY <1>3, <3>1, <3>2
    <3>5. CASE g = h
      <4>1. \A a \in Int, b \in Int : b <= now /\ Through(a, b, v.page) => Through(a, b, v.page)'
        <5> SUFFICES ASSUME NEW a \in Int, NEW b \in Int, b <= now, Through(a, b, v.page)
                     PROVE  Through(a, b, v.page)'
          OBVIOUS
        <5>1. PICK K : K = v.page
          OBVIOUS
        <5> QED
          BY <1>2, <5>1
      <4>2. HeldIn(v, h)'
        BY <1>0, <3>2, <3>4, <4>1 DEF HeldIn, Resumed
      <4> QED
        BY <2>2, <3>5, <4>2
    <3>6. CASE g # h
      <4>1. v.token <= g.token /\ (v.token = g.token => g.status # "running")
        BY <3>2, <3>3, <3>4, <3>6 DEF Moves, HeldIn
      <4>2. HeldIn(v, g)'
        BY <4>1 DEF HeldIn
      <4> QED
        BY <2>2, <4>2
    <3> QED
      BY <3>5, <3>6
  <2> QED
    BY <1>1, <1>5, <2>1, <2>2 DEF Idle
<1> QED
  BY <1>4, <1>5 DEF ImportInv

----------------------------------------------------------------------------
(* Coverage.                                                               *)

\* A window that begins on a whole second leaves nothing of it out.
LEMMA WholeStart ==
  ASSUME HistoryCoverageAssumption, Fraction = 1, NEW x \in Int, NEW t \in Int
  PROVE ~(Ticks(Seconds(x)) <= t /\ t < x)
<1>1. Ticks(Seconds(x)) = x
  BY WholeSeconds, Arithmetic
<1> QED
  BY <1>1

\* Steps that do not touch the coverage and leave the pull as it is, or end it.
LEMMA PullStays ==
  ASSUME HistoryCoverageAssumption, Types, Bounds, CoverageInv, now' \in {now, now + 1},
         coverage' = coverage,
         Kept \subseteq Kept', pull' = pull \/ pull' = Idle
  PROVE  CoverageInv'
<1>1. now \in Nat /\ coverage \in Coverages
  BY DEF Types, HistoryCoverageAssumption
<1>2. PICK K, L : K = Kept /\ L = Kept'
  OBVIOUS
<1>3. PICK c \in Coverages : c = coverage
  BY <1>1
<1>4. CoverageIn(c, K) /\ PullIn(pull, c, K) /\ K \subseteq L
  BY <1>2, <1>3 DEF CoverageInv
<1>5. CoverageIn(c, L)'
  BY <1>1, <1>4, CoverageCarries
<1>6. c.covered # None => c.covered \in Nat /\ covered # None /\ covered <= c.covered
  <2>1. c.covered # None => c.covered \in Nat
    BY <1>4 DEF CoverageIn, CoversIn
  <2> QED
    BY <1>3, <2>1 DEF covered
<1>7. PICK p : p = pull
  OBVIOUS
<1>8. PullIn(p, c, L)'
  BY <1>1, <1>3, <1>4, <1>6, <1>7, PullCarries DEF Types, Bounds
<1>9. PullIn(pull, coverage, Kept)'
  <2>1. CASE pull' = pull
    BY <1>2, <1>3, <1>7, <1>8, <2>1
  <2>2. CASE pull' = Idle
    BY <2>2 DEF PullIn, Idle
  <2> QED
    BY <2>1, <2>2
<1> QED
  BY <1>2, <1>3, <1>5, <1>9 DEF CoverageInv

\* A read that was started claims what it will have stored.
LEMMA ReadStarts ==
  ASSUME HistoryCoverageAssumption, Types, Bounds, CoverageInv, coverage' = coverage, now' = now,
         Kept \subseteq Kept',
         NEW w \in Windows,
         \/ Readable(w) /\ (ReadWindow(w) \/ ReadPartially(w))
         \/ ReadFails(w),
         w.cursor # NoCursor => \E i \in DOMAIN gaps : gaps[i].cursor = w.cursor,
         covered # None => \A t \in sent :
           Ticks(covered) <= t /\ Ticks(Seconds(w.start)) <= t /\ t < w.start => t \in Kept'
  PROVE  CoverageInv'
<1>1. now \in Nat /\ coverage \in Coverages /\ sent' = sent
  BY DEF Types, HistoryCoverageAssumption, sent
<1>2. PICK K, L, c : K = Kept /\ L = Kept' /\ c = coverage /\ c \in Coverages
  BY <1>1
<1>3. CoverageIn(c, K) /\ K \subseteq L
  BY <1>2 DEF CoverageInv
<1>4. CoverageIn(c, L)'
  BY <1>1, <1>2, <1>3, CoverageCarries
<1>5. StartIn(w, c, L)
  BY <1>2 DEF StartIn, covered
<1>6. PullIn(pull', c, L)
  <2>1. CASE Readable(w) /\ (ReadWindow(w) \/ ReadPartially(w))
    <3>1. /\ pull' \in Reading /\ pull'.window = w
          /\ pull'.complete => Through(First(w), w.end, pull'.left)
          /\ pull'.next # NoCursor =>
               pull'.next.start = w.start /\ Through(First(w), pull'.next.resume, pull'.left)
      BY <1>1, <2>1, ReadFacts
    <3>2. \A t \in sent : w.start <= t /\ t < First(w) => t \in K
      <4>1. CASE w.cursor = NoCursor
        BY <4>1 DEF First, Windows, sent
      <4>2. CASE w.cursor # NoCursor
        <5>1. PICK i \in DOMAIN gaps : gaps[i].cursor = w.cursor
          BY <4>2
        <5>2. Through(w.cursor.start, w.cursor.resume, K)
          BY <1>2, <1>3, <4>2, <5>1 DEF CoverageIn, GapsIn, gaps
        <5> QED
          BY <2>1, <4>2, <5>2 DEF Readable, First, Through
      <4> QED
        BY <4>1, <4>2
    <3>3. First(w) \in Int
      BY DEF First, Windows, Cursors
    <3>4. ASSUME NEW b, Through(First(w), b, pull'.left) PROVE Through(w.start, b, L \cup pull'.left)
      <4> SUFFICES ASSUME NEW t \in sent, w.start <= t, t < b PROVE t \in L \cup pull'.left
        BY DEF Through
      <4>1. t \in Int
        BY DEF sent
      <4>2. CASE t < First(w)
        BY <1>3, <3>2, <4>2
      <4>3. CASE First(w) <= t
        BY <3>4, <4>3 DEF Through
      <4> QED
        BY <3>3, <4>1, <4>2, <4>3
    <3>5. pull'.step = "events"
      BY <3>1 DEF Reading
    <3> QED
      BY <1>5, <3>1, <3>4, <3>5 DEF PullIn
  <2>2. CASE ReadFails(w)
    <3>1. CASE w.start < w.end
      <4>1. pull' = [step |-> "record", window |-> w, complete |-> FALSE, next |-> NoCursor]
        BY <2>2, <3>1 DEF ReadFails
      <4> QED
        BY <1>5, <4>1 DEF PullIn
    <3>2. CASE ~(w.start < w.end)
      BY <2>2, <3>2 DEF ReadFails, PullIn, Idle
    <3> QED
      BY <3>1, <3>2
  <2> QED
    BY <2>1, <2>2
<1>7. PullIn(pull, coverage, Kept)'
  <2>1. PICK p : p = pull'
    OBVIOUS
  <2>2. PullIn(p, c, L)'
    BY <1>1, <1>6, <2>1 DEF PullIn, StartIn, Through
  <2> QED
    BY <1>2, <2>1, <2>2
<1> QED
  BY <1>2, <1>4, <1>7 DEF CoverageInv

LEMMA IntakeCovers ==
  ASSUME HistoryCoverageAssumption, Types, Bounds, CoverageInv, Intake, "busy" \notin Environment
  PROVE CoverageInv'
<1>1. now \in Nat /\ coverage \in Coverages /\ sent' = sent /\ now' = now /\ coverage' = coverage
  BY DEF Types, HistoryCoverageAssumption, sent, Intake, sourceVars, coverageVars
<1>2. PICK t : t = Min(pull.left)
  OBVIOUS
<1>3. /\ pull \in Reading /\ t \in pull.left /\ t \in sent
      /\ pull' = [pull EXCEPT !.left = @ \ {t}]
      /\ Kept' = Kept \cup {t}
  BY <1>2, IntakeFacts DEF Bounds, Kept
<1>4. pull' \in Reading /\ pull'.window = pull.window /\ pull'.next = pull.next /\ pull'.step = "events"
      /\ pull'.left = pull.left \ {t} /\ pull'.complete = pull.complete /\ pull.step = "events"
  BY <1>3 DEF Reading
<1>5. PICK K, L, c, p, q : K = Kept /\ L = Kept' /\ c = coverage /\ c \in Coverages /\ p = pull' /\ q = pull
  BY <1>1
<1>6. CoverageIn(c, L)'
  BY <1>1, <1>3, <1>5, CoverageCarries DEF CoverageInv
<1>7. PullIn(p, c, L)'
  <2>1. K \cup q.left \subseteq L \cup p.left /\ K \subseteq L
    BY <1>3, <1>4, <1>5
  <2>2. PullIn(q, c, K)
    BY <1>5 DEF CoverageInv
  <2>3. q.step = "events" /\ p.step = "events" /\ p.window = q.window /\ p.next = q.next /\ p.complete = q.complete
    BY <1>4, <1>5
  <2>4. StartIn(p.window, c, L)'
    BY <1>1, <2>1, <2>2, <2>3 DEF PullIn, StartIn
  <2> QED
    BY <1>1, <2>1, <2>2, <2>3, <2>4 DEF PullIn, Through
<1> QED
  BY <1>1, <1>5, <1>6, <1>7 DEF CoverageInv

LEMMA RecordCovers ==
  ASSUME HistoryCoverageAssumption, Types, Bounds, CoverageInv, recordCoverage
  PROVE CoverageInv'
<1>1. now' = now /\ Kept' = Kept /\ pull' = Idle
  BY DEF recordCoverage, sourceVars, Kept
<1>2. PICK K : K = Kept
  OBVIOUS
<1>3. CoverageIn(coverage, K)'
  BY <1>2, RecordStep DEF CoverageInv
<1>4. PullIn(pull, coverage, Kept)'
  BY <1>1 DEF PullIn, Idle
<1> QED
  BY <1>1, <1>2, <1>3, <1>4 DEF CoverageInv

LEMMA FinishCovers ==
  ASSUME HistoryCoverageAssumption, Types, Bounds, ImportInv, CoverageInv, NEW w \in Workers,
         FinishHistoryImport(w), Fraction = 1
  PROVE  CoverageInv'
<1>1. now \in Nat /\ coverage \in Coverages /\ now' = now /\ sent' = sent /\ pull' = pull /\ expired' = expired
  BY DEF Types, HistoryCoverageAssumption, FinishHistoryImport, sourceVars, sent
<1>2. PICK K, L, h, S : K = Kept /\ L = Kept' /\ h = import[worker[w].import] /\ S = stored \cup worker[w].page
  OBVIOUS
<1>3. stored \subseteq stored' /\ (checkHistoryClaim(w) => stored' = S)
  BY <1>2, FinishFacts DEF FinishHistoryImport
<1>4. K \subseteq L /\ (checkHistoryClaim(w) => S \subseteq L)
  BY <1>1, <1>2, <1>3 DEF Kept
<1>5. coverage' \in Coverages /\ CoverageIn(coverage, L)'
      /\ (covered # None => coverage'.covered # None /\ covered <= coverage'.covered)
  <2>1. CoverageIn(coverage, L)
    <3>1. CoverageIn(coverage, K)
      BY <1>2 DEF CoverageInv
    <3> QED
      BY <1>4, <3>1 DEF CoverageIn, CoversIn, GapsIn, Through
  <2>2. checkHistoryClaim(w) =>
           /\ worker[w].complete => Through(Ticks(h.start), Ticks(h.end), L)
           /\ worker[w].next # None => Through(Ticks(h.start), worker[w].next, L)
    <3> SUFFICES ASSUME checkHistoryClaim(w)
                 PROVE  /\ worker[w].complete => Through(Ticks(h.start), Ticks(h.end), L)
                        /\ worker[w].next # None => Through(Ticks(h.start), worker[w].next, L)
      OBVIOUS
    <3>1. /\ worker[w].complete => Through(Ticks(h.start), Ticks(h.end), S)
          /\ worker[w].next # None => Through(Ticks(h.start), worker[w].next, S)
      BY <1>2, Committed
    <3> QED
      BY <1>4, <3>1 DEF Through
  <2> QED
    BY <1>2, <2>1, <2>2, FinishCoverage
<1>6. PullIn(pull, coverage, Kept)'
  <2>1. PICK c, p : c = coverage' /\ p = pull
    OBVIOUS
  <2>2. c \in Coverages /\ (c.covered # None => c.covered \in Nat)
    BY <1>5, <2>1 DEF CoverageIn, CoversIn
  <2>3. pull.step # "idle" => \A t \in sent : ~(Ticks(Seconds(pull.window.start)) <= t /\ t < pull.window.start)
    <3>1. pull.step # "idle" => pull.window.start \in Int
      <4>1. CASE pull \in Reading
        BY <4>1 DEF Reading, Windows
      <4>2. CASE pull \in Failing
        BY <4>2 DEF Failing, Windows
      <4> QED
        BY <4>1, <4>2 DEF Types, Idle
    <3>2. sent \subseteq Int
      BY DEF sent
    <3> QED
      BY <3>1, <3>2, WholeStart
  <2>4. PullIn(p, c, L)'
    <3>1. PullIn(pull, coverage, K)
      BY <1>2 DEF CoverageInv
    <3> QED
      BY <1>1, <1>4, <2>1, <2>2, <2>3, <3>1, PullCarries DEF Types, Bounds
  <2> QED
    BY <1>1, <1>2, <2>1, <2>4
<1> QED
  BY <1>2, <1>5, <1>6 DEF CoverageInv

LEMMA CoverageStep ==
  ASSUME HistoryCoverageAssumption, Types, Bounds, ImportInv, CoverageInv, [Next]_vars,
         "busy" \notin Environment, Fraction = 1 \/ Imports = {}
  PROVE  CoverageInv'
<1>0. now \in Nat
  BY DEF Types, HistoryCoverageAssumption
<1>1. CASE Tick \/ SetDataSourceStatus \/ Crash \/ UNCHANGED vars
  BY <1>1, PullStays DEF Tick, SetDataSourceStatus, Crash, vars, sourceVars, coverageVars, Kept
<1>2. CASE reconcileRoute
  <2>1. PICK w : w = ReconcileWindow
    OBVIOUS
  <2>2. /\ w \in Windows
        /\ covered # None => \A t \in sent :
             Ticks(covered) <= t /\ Ticks(Seconds(w.start)) <= t /\ t < w.start => t \in TooOld
        /\ w.cursor # NoCursor => \E i \in DOMAIN gaps : gaps[i].cursor = w.cursor
    BY <2>1, WindowFacts
  <2>3. coverage' = coverage /\ now' = now /\ Kept \subseteq Kept' /\ TooOld \subseteq Kept'
    BY <1>2 DEF reconcileRoute, coverageVars, sourceVars, Kept
  <2>4. \/ Readable(w) /\ (ReadWindow(w) \/ ReadPartially(w))
        \/ ReadFails(w)
    BY <1>2, <2>1 DEF reconcileRoute
  <2> QED
    BY <2>2, <2>3, <2>4, ReadStarts
<1>3. ASSUME NEW start \in 0..Seconds(now), NEW end \in 0..Seconds(now), PullByOperator(start, end)
      PROVE  CoverageInv'
  <2>1. PICK w : w = [start |-> Ticks(start), end |-> Ticks(end), cursor |-> NoCursor]
    OBVIOUS
  <2>2. start \in Int /\ end \in Int /\ Ticks(start) \in Int /\ Ticks(end) \in Int /\ Seconds(Ticks(start)) = start
        /\ start < end
    <3>1. Seconds(now) \in Nat
      BY <1>0, Arithmetic
    <3> QED
      BY <1>3, <3>1, Arithmetic DEF PullByOperator
  <2>3. Ticks(start) + Fraction <= Ticks(end) /\ Fraction \in Nat \ {0}
    BY <2>2, Arithmetic DEF HistoryCoverageAssumption
  <2>4. w \in Windows /\ Readable(w) /\ w.cursor = NoCursor /\ w.start = Ticks(start)
    BY <2>1, <2>2, <2>3 DEF Windows, Cursors, Readable
  <2>5. ReadWindow(w) /\ coverage' = coverage /\ now' = now /\ Kept' = Kept
    BY <1>3, <2>1 DEF PullByOperator, coverageVars, sourceVars, Kept
  <2>6. \A t \in sent : ~(Ticks(Seconds(w.start)) <= t /\ t < w.start)
    BY <2>2, <2>4 DEF sent
  <2> QED
    BY <2>4, <2>5, <2>6, ReadStarts
<1>4. CASE Intake
  BY <1>4, IntakeCovers
<1>5. CASE recordCoverage
  BY <1>5, RecordCovers
<1>6. ASSUME NEW i \in Imports,
             CreateHistoryImport(i) \/ CancelHistoryImport(i) \/ RetryHistoryImport(i)
             \/ \E w \in Workers : ClaimHistoryImport(w, i)
      PROVE  CoverageInv'
  <2>1. coverage' = coverage /\ now' = now /\ Kept' = Kept /\ pull' = pull
    BY <1>6 DEF CreateHistoryImport, CancelHistoryImport, RetryHistoryImport, ClaimHistoryImport,
                coverageVars, sourceVars, Kept
  <2> QED
    BY <2>1, PullStays
<1>7. ASSUME NEW w \in Workers, FailHistoryImport(w) PROVE CoverageInv'
  BY <1>7, PullStays DEF FailHistoryImport, coverageVars, sourceVars, Kept
<1>8. ASSUME NEW w \in Workers, FinishHistoryImport(w) PROVE CoverageInv'
  <2>1. CASE Fraction = 1
    BY <1>8, <2>1, FinishCovers
  <2>2. CASE Imports = {}
    <3>1. worker[w] = Idle
      BY <2>2 DEF Types, Steps
    <3> QED
      BY <1>8, <3>1 DEF FinishHistoryImport, Idle
  <2> QED
    BY <2>1, <2>2
<1> QED
  BY <1>1, <1>2, <1>3, <1>4, <1>5, <1>6, <1>7, <1>8 DEF Next

----------------------------------------------------------------------------
(* Theorems.                                                               *)

HistoryInv == Types /\ Bounds /\ ImportInv

\* Nothing the records claim lies ahead of the clock, and whatever an import says
\* of its range, what it and the worker holding its claim have read is stored or
\* in the worker's hand (history_import.go:199, 276).
THEOREM HistoryInvariant ==
  ASSUME HistoryCoverageAssumption PROVE Spec => []HistoryInv
<1>1. Init => HistoryInv
  <2> SUFFICES ASSUME Init PROVE HistoryInv
    OBVIOUS
  <2>1. ImportInv
    BY DEF Init, ImportInv, NoImport, Idle
  <2> QED
    BY <2>1, BoundsStart DEF HistoryInv
<1>2. HistoryInv /\ [Next]_vars => HistoryInv'
  BY BoundsStep, ImportStep DEF HistoryInv
<1> QED
  BY <1>1, <1>2, PTL DEF Spec

\* Types and the order of every gap's bounds (coverage.go:24).
THEOREM HistoryTypes ==
  ASSUME HistoryCoverageAssumption PROVE Spec => []TypeOK
<1>1. HistoryInv => TypeOK
  <2> SUFFICES ASSUME HistoryInv PROVE TypeOK
    OBVIOUS
  <2>1. Types /\ Bounds
    BY DEF HistoryInv
  <2>2. /\ coverage.from \in Int /\ covered \in Int /\ coverage.flag \in BOOLEAN /\ gaps \in Seq(Gaps)
    BY <2>1 DEF Types, Coverages, covered, gaps
  <2>3. \A i \in DOMAIN gaps : /\ gaps[i].start < gaps[i].end
                               /\ gaps[i].resolved \in BOOLEAN /\ gaps[i].complete \in BOOLEAN
    <3>1. \A i \in DOMAIN gaps : gaps[i] \in Gaps
      BY <2>2, LenProperties
    <3>2. \A i \in DOMAIN gaps : gaps[i].start < gaps[i].end
      BY <2>1 DEF Bounds, CoverageIn, GapsIn, gaps
    <3> QED
      BY <3>1, <3>2 DEF Gaps
  <2>4. pull.step \in {"idle", "events", "record"}
    <3>1. \A p \in Reading : p.step = "events"
      BY DEF Reading
    <3>2. \A p \in Failing : p.step = "record"
      BY DEF Failing
    <3> QED
      BY <2>1, <3>1, <3>2 DEF Types, Idle
  <2>5. import \in [Imports -> {NoImport}
          \cup [status : {"queued", "running", "completed", "failed", "cancelled"}, start : Int,
                end : Int, cursor : Int, failures : Nat, token : Nat, until : Int]]
    <3>1. Points \subseteq Int
      BY NoneIsAnInt DEF Points
    <3>2. ImportRecords \subseteq
            [status : {"queued", "running", "completed", "failed", "cancelled"}, start : Int,
             end : Int, cursor : Int, failures : Nat, token : Nat, until : Int]
      BY <3>1 DEF ImportRecords
    <3> QED
      BY <2>1, <3>2 DEF Types
  <2>6. \A w \in Workers : worker[w].step \in {"idle", "read"}
    BY <2>1 DEF Types, Idle, Steps
  <2> QED
    BY <2>1, <2>2, <2>3, <2>4, <2>5, <2>6 DEF Types, TypeOK
<1> QED
  BY <1>1, HistoryInvariant, PTL

\* covered_until never passes a message that is neither stored nor too old, and
\* an open window keeps its flag (coverage.go:60, 97), whatever the lengths of
\* windows, pages and retention, as long as a failed intake leaves no part of its
\* page behind and, where the clock is finer than the recorded bounds, no import
\* runs beside the first window.
THEOREM CoverageIsKept ==
  ASSUME HistoryCoverageAssumption, "busy" \notin Environment, Fraction = 1 \/ Imports = {}
  PROVE  Spec => []CoveredIsStored
<1>1. Init => CoverageInv
  <2> SUFFICES ASSUME Init PROVE CoverageInv
    OBVIOUS
  <2>1. pull = Idle /\ coverage.covered = None /\ coverage.gaps = << >>
    BY DEF Init, Nothing
  <2> QED
    BY <2>1 DEF CoverageInv, CoverageIn, CoversIn, GapsIn, Flagged, Unresolved, PullIn, Idle
<1>2. HistoryInv /\ CoverageInv /\ [Next]_vars => CoverageInv'
  BY CoverageStep DEF HistoryInv
<1>3. CoverageInv => CoveredIsStored
  BY DEF CoverageInv, CoverageIn, CoversIn, Flagged, Through, Kept, CoveredIsStored, covered, gaps
<1> QED
  BY <1>1, <1>2, <1>3, HistoryInvariant, PTL DEF Spec

\* A completed import left out no message of its range and stays as it is, a
\* cancelled one is only asked for again and a continued one never goes back
\* (history_import.go:199), for any number of imports and workers, with every
\* fault and intervention.
THEOREM ImportsAreComplete ==
  ASSUME HistoryCoverageAssumption PROVE Spec => ImportIsComplete
<1>1. HistoryInv =>
        \A i \in Imports : import[i].status = "completed" =>
          \A t \in sent : Ticks(import[i].start) <= t /\ t < Ticks(import[i].end) => t \in stored
  BY DEF HistoryInv, ImportInv, RangeIn, Through
<1>2. HistoryInv /\ [Next]_vars =>
        [\A i \in Imports :
          /\ import[i].status = "completed" => import'[i] = import[i]
          /\ import[i].status = "cancelled" => import'[i].status \in {"cancelled", "queued"}
          /\ import[i].status = "running" /\ import'[i].status = "queued" /\ import'[i].cursor # None
               => import'[i].cursor >= import[i].cursor]_vars
  <2> SUFFICES ASSUME HistoryInv, [Next]_vars, NEW i \in Imports
      PROVE  /\ import[i].status = "completed" => import'[i] = import[i]
             /\ import[i].status = "cancelled" => import'[i].status \in {"cancelled", "queued"}
             /\ import[i].status = "running" /\ import'[i].status = "queued" /\ import'[i].cursor # None
                  => import'[i].cursor >= import[i].cursor
    OBVIOUS
  <2>1. PICK h, g, S : h = import[i] /\ g = import'[i] /\ S = stored'
    OBVIOUS
  <2>2. Moves(h, g, S)
    BY <2>1, ImportMoves DEF HistoryInv
  <2>3. h \in {NoImport} \cup ImportRecords
    BY <2>1 DEF HistoryInv, Types
  <2>4. h.status = "running" => h.cursor \in Int
    BY <2>3, NoneIsAnInt DEF NoImport, ImportRecords, Points
  <2> QED
    BY <2>1, <2>2, <2>4 DEF Moves
<1> QED
  BY <1>1, <1>2, HistoryInvariant, PTL DEF Spec, ImportIsComplete
=============================================================================
