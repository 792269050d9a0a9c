--------------------------- MODULE DirectSessionProofs ---------------------------
(***************************************************************************)
(* The Agent of a direct conversation remembers what it was told, and      *)
(* nothing from before the last `/clear`, for any number of messages and   *)
(* any interference.                                                       *)
(*                                                                         *)
(* What a process knows is spread over four records that are written at    *)
(* different times: the process itself, the transcript on disk, what the   *)
(* logical session remembers, and what a failed attempt left with its      *)
(* task.  The invariant relates them.  Messages are bound in the order of  *)
(* arrival to the session that is open (Arrival), and one turn is answered *)
(* at a time (OneTurn).  A native session is named by one logical session  *)
(* only, and knows turns of that one only (Separate).  A history that was  *)
(* recorded holds turns that are not answered again (Accepted), so that    *)
(* one that a turn has just extended is told apart from all earlier ones.  *)
(* A native session that can be used knows the history it is remembered    *)
(* with (Knows), and two that are remembered with the same history are the *)
(* same one, unless the other cannot be used (Agrees).                     *)
(*                                                                         *)
(* Most steps move no knowledge (Quiet); those that do start a turn, tell  *)
(* an Agent its message, take its reply or record its native session.      *)
(***************************************************************************)
EXTENDS DirectSession, FiniteSetTheorems, SequenceTheorems, TLAPS

Turn == Nat \X Nat

Message == [body : {"text", "clear"}, rev : Nat, available : BOOLEAN]
Status == {"none", "pending", "running", "completed", "failed", "cancelled"}
Bound == [session : Nat, status : Status, rev : Nat, delivered : SUBSET Nat, resume : Nat,
          past : [native : Nat, history : SUBSET Turn]]
LogicalSession == [open : BOOLEAN, native : Nat, context : SUBSET Turn]
Process == [native : Nat, context : SUBSET Turn, expected : SUBSET Turn]
Steps == {"idle", "started", "asked", "replied", "completed", "accepted"}
Run == [turn : Nat, step : Steps, rev : Nat, history : SUBSET Turn, attempt : Nat, native : Nat,
        recorded : Nat]

Types ==
  /\ messages \in Seq(Message) /\ turns \in Seq(Bound) /\ Len(turns) = Len(messages)
  /\ queue \in Seq(DOMAIN turns)
  /\ sessions \in Seq(LogicalSession) /\ processes \in Seq(Process)
  /\ Len(processes) = Len(sessions)
  /\ transcripts \in Seq(SUBSET Turn)
  /\ run \in Run /\ (run.turn \in DOMAIN turns \/ run = Idle)
  /\ \A i \in DOMAIN turns : turns[i].session \in 0 .. Len(sessions)
     /\ turns[i].rev <= messages[i].rev
  /\ run.step = "idle" <=> run.turn = 0

\* Messages are bound in the order of their arrival to the last session, and a
\* clear opens a new one.
Arrival ==
  /\ \A k \in DOMAIN sessions : sessions[k].open <=> k = Len(sessions)
  /\ \A i \in DOMAIN turns : turns[i].session # 0 <=> turns[i].status # "none"
  /\ \A i, j \in DOMAIN turns : i < j /\ turns[j].session # 0 =>
       /\ turns[i].session # 0 \/ ~messages[i].available
       /\ turns[i].session <= turns[j].session
       /\ messages[j].body = "clear" => turns[i].session < turns[j].session

\* One turn is answered at a time; what waits is pending, and waits once.
OneTurn ==
  /\ \A n \in DOMAIN queue : turns[queue[n]].status = "pending"
  /\ \A m, n \in DOMAIN queue : queue[m] = queue[n] => m = n
  /\ \A i \in DOMAIN turns : turns[i].status = "running" =>
       i = run.turn /\ turns[i].rev = run.rev
  /\ \A i \in DOMAIN turns : turns[i].status = "cancelled" => ~messages[i].available
  /\ run.turn # 0 =>
       /\ turns[run.turn].status \notin {"none", "failed"} /\ run.rev <= turns[run.turn].rev
       /\ turns[run.turn].status = "running" => run.step \in {"started", "asked", "replied"}
       /\ run.step \in {"started", "asked", "accepted"} => messages[run.turn].body = "text"

\* A turn that was accepted is not answered again in that revision.
Done(u) ==
  /\ u[1] \in DOMAIN turns /\ u[2] <= turns[u[1]].rev
  /\ u[2] = turns[u[1]].rev => turns[u[1]].status \in {"completed", "cancelled"}

Accepted ==
  /\ \A k \in DOMAIN sessions : \A u \in sessions[k].context : Done(u)
  /\ \A i \in DOMAIN turns : \A u \in turns[i].past.history : Done(u)
  /\ \A u \in run.history : Done(u)
  /\ run.turn # 0 =>
       /\ Own \notin run.history
       /\ \A k \in DOMAIN sessions : Own \notin sessions[k].context
       /\ \A i \in DOMAIN turns : Own \notin turns[i].past.history
       /\ run.step \in {"completed", "accepted"} => Done(Own)

\* The native sessions that logical session k names.
Named(k, n) ==
  \/ n = sessions[k].native \/ n = processes[k].native
  \/ \E i \in DOMAIN turns : turns[i].session = k /\ n = turns[i].past.native
  \/ run.turn # 0 /\ Here = k /\ n \in {run.attempt, run.recorded, run.native}

\* Turns of one logical session.
Of(k, h) == \A u \in h : u[1] \in DOMAIN turns /\ turns[u[1]].session = k

Separate ==
  /\ \A k \in DOMAIN sessions, n \in Nat : Named(k, n) => n <= Len(transcripts)
  /\ \A j, k \in DOMAIN sessions, n \in Nat : Named(j, n) /\ Named(k, n) => j = k \/ n = 0
  /\ \A k \in DOMAIN sessions, n \in DOMAIN transcripts : Named(k, n) => Of(k, transcripts[n])
  /\ \A k \in DOMAIN sessions : 
       /\ Of(k, sessions[k].context) /\ Of(k, processes[k].context) /\ Of(k, processes[k].expected)
  /\ \A i \in DOMAIN turns : Of(turns[i].session, turns[i].past.history)
  /\ run.turn # 0 => Of(Here, run.history)

\* Native session n of logical session k can be used: it is alive or on disk.
Usable(k, n) == transcripts[n] # {} \/ processes[k].native = n

\* What is known of native session n: if it can be used, it knows h; and if the
\* session remembers the same history, it remembers the same native session.
Knows(k, n, h) ==
  n # 0 => 
    /\ processes[k].native = n => h \subseteq processes[k].context
    /\ transcripts[n] # {} => h \subseteq transcripts[n]
Agrees(k, n, h) ==
  n # 0 /\ sessions[k].native # 0 /\ sessions[k].context = h =>
    n = sessions[k].native \/ ~Usable(k, sessions[k].native)

Remembers ==
  /\ \A k \in DOMAIN sessions :
       /\ Knows(k, sessions[k].native, sessions[k].context)
       /\ Knows(k, processes[k].native, processes[k].expected)
       /\ Agrees(k, processes[k].native, processes[k].expected)
       /\ processes[k].native # 0 => transcripts[processes[k].native] \in {{}, processes[k].context}
       /\ processes[k].native = 0 => processes[k] = NoProcess
  /\ \A i \in DOMAIN turns : turns[i].session # 0 =>
       /\ Knows(turns[i].session, turns[i].past.native, turns[i].past.history)
       /\ Agrees(turns[i].session, turns[i].past.native, turns[i].past.history)
       /\ turns[i].status \in {"pending", "running"} \/ i = run.turn =>
            turns[i].resume \in {0, turns[i].past.native}
  /\ \A i \in DOMAIN turns : turns[i].session = 0 => turns[i] = Unbound

Asked ==
  /\ run.step = "started" =>
       /\ run.attempt # 0 /\ run.native = 0 /\ run.recorded = 0
       /\ transcripts[run.attempt] = {} /\ run.attempt # sessions[Here].native
       /\ run.attempt # processes[Here].native
       /\ \A i \in DOMAIN turns : run.attempt # turns[i].past.native
  /\ run.turn # 0 /\ messages[run.turn].body = "text" /\ run.step # "started" =>
       /\ run.recorded # 0 /\ run.native # 0 /\ processes[Here].native = run.recorded
       /\ run.history \cup {Own} \subseteq processes[Here].context
       /\ processes[Here].expected = (IF run.step = "asked" THEN run.history ELSE run.history
          \cup {Own})
       /\ Agrees(Here, run.recorded, run.history)
       /\ run.native = run.recorded \/ ~Usable(Here, run.native)
  /\ run.turn # 0 /\ messages[run.turn].body = "clear" => run.recorded = 0
  
SessionInv == Types /\ Arrival /\ OneTurn /\ Accepted /\ Separate /\ Remembers /\ Asked

----------------------------------------------------------------------------
(* The queue.                                                              *)
LEMMA Dequeued ==
  ASSUME NEW S, NEW q \in Seq(S), NEW i, \A m, n \in DOMAIN q : q[m] = q[n] => m = n
  PROVE  /\ RemoveFirst(q, i) \in Seq(S)
         /\ \A n \in DOMAIN RemoveFirst(q, i) :
              RemoveFirst(q, i)[n] # i /\ \E m \in DOMAIN q : q[m] = RemoveFirst(q, i)[n]
         /\ \A m, n \in DOMAIN RemoveFirst(q, i) :
              RemoveFirst(q, i)[m] = RemoveFirst(q, i)[n] => m = n
<1>1. CASE ~\E n \in 1 .. Len(q) : q[n] = i
  BY <1>1 DEF RemoveFirst
<1>2. CASE \E n \in 1 .. Len(q) : q[n] = i
  <2>1. PICK p \in 1 .. Len(q) : q[p] = i
    BY <1>2
  <2>2. SelectInSeq(q, LAMBDA v : v = i) = p
    <3>1. {n \in 1 .. Len(q) : q[n] = i} = {p}
      BY <2>1
    <3> QED
      BY <3>1, <2>1 DEF SelectInSeq, Min
  <2>3. RemoveFirst(q, i) = SubSeq(q, 1, p - 1) \o SubSeq(q, p + 1, Len(q))
    BY <1>2, <2>2 DEF RemoveFirst, RemoveAt
  <2>4. PICK r : r = [n \in 1 .. Len(q) - 1 |-> IF n < p THEN q[n] ELSE q[n + 1]]
    OBVIOUS
  <2>5. RemoveFirst(q, i) = r /\ r \in Seq(S)
    <3>1. PICK front : front = SubSeq(q, 1, p - 1)
      OBVIOUS
    <3>2. PICK back : back = SubSeq(q, p + 1, Len(q))
      OBVIOUS
    <3>3. front \in Seq(S) /\ Len(front) = p - 1 /\ \A n \in 1 .. p - 1 : front[n] = q[n]
      BY <2>1, <3>1
    <3>4. /\ back \in Seq(S) /\ Len(back) = Len(q) - p
          /\ \A n \in 1 .. Len(q) - p : back[n] = q[n + p]
      BY <2>1, <3>2
    <3>5. RemoveFirst(q, i) = front \o back
      BY <2>3, <3>1, <3>2
    <3>6. /\ front \o back \in Seq(S) /\ Len(front \o back) = Len(q) - 1
          /\ \A n \in 1 .. Len(q) - 1 : (front \o back)[n] = IF n < p THEN q[n] ELSE q[n + 1]
      <4>1. front \o back \in Seq(S) /\ Len(front \o back) = Len(front) + Len(back)
        <5>1. front \in Seq(S) /\ back \in Seq(S)
          BY <3>3, <3>4
        <5> QED
          BY <5>1
      <4>2. \A n \in 1 .. Len(front) + Len(back) :
              (front \o back)[n] = IF n <= Len(front) THEN front[n] ELSE back[n - Len(front)]
        BY <3>3, <3>4
      <4>3. Len(front \o back) = Len(q) - 1
        BY <2>1, <3>3, <3>4, <4>1
      <4>4. ASSUME NEW n \in 1 .. Len(q) - 1
            PROVE  (front \o back)[n] = IF n < p THEN q[n] ELSE q[n + 1]
        <5>1. (front \o back)[n] = IF n <= p - 1 THEN front[n] ELSE back[n - (p - 1)]
          BY <2>1, <3>3, <3>4, <4>2
        <5>2. CASE n < p
          BY <2>1, <3>3, <5>1, <5>2
        <5>3. CASE ~(n < p)
          <6>1. n - (p - 1) \in 1 .. Len(q) - p /\ n - (p - 1) + p = n + 1 /\ ~(n <= p - 1)
            BY <2>1, <5>3
          <6> QED
            BY <3>4, <5>1, <5>3, <6>1
        <5> QED
          BY <5>2, <5>3
      <4> QED
        BY <4>1, <4>3, <4>4
    <3>7. Len(r) = Len(q) - 1 /\ r \in Seq(S)
      BY <2>1, <2>4
    <3>8. \A n \in 1 .. Len(q) - 1 : r[n] = (front \o back)[n]
      BY <2>4, <3>6
    <3> QED
      BY <3>5, <3>6, <3>7, <3>8, SeqEqual
  <2> QED
    BY <2>1, <2>4, <2>5
<1> QED
  BY <1>1, <1>2

----------------------------------------------------------------------------
(* Types.                                                                  *)

LEMMA Typed ==
  ASSUME Types
  PROVE  /\ messages \in [1 .. Len(messages) -> Message] /\ Len(messages) \in Nat
         /\ turns \in [1 .. Len(messages) -> Bound] /\ DOMAIN turns = 1 .. Len(messages)
         /\ sessions \in [1 .. Len(sessions) -> LogicalSession] /\ Len(sessions) \in Nat
         /\ processes \in [1 .. Len(sessions) -> Process] /\ DOMAIN processes = 1 .. Len(sessions)
         /\ DOMAIN sessions = 1 .. Len(sessions) /\ DOMAIN messages = 1 .. Len(messages)
         /\ transcripts \in [1 .. Len(transcripts) -> SUBSET Turn] /\ Len(transcripts) \in Nat
         /\ DOMAIN transcripts = 1 .. Len(transcripts)
         /\ queue \in [1 .. Len(queue) -> 1 .. Len(messages)] /\ DOMAIN queue = 1 .. Len(queue)
         /\ Len(queue) \in Nat
         /\ run.turn \in Nat /\ (run.turn # 0 => run.turn \in 1 .. Len(messages))
BY DEF Types, Run, Idle

LEMMA IdleTyped == Idle \in Run /\ Idle.turn = 0 /\ Idle.step = "idle"
BY DEF Idle, Run, Steps, Turn

LEMMA UnboundTyped == Unbound \in Bound /\ NoProcess \in Process
BY DEF Unbound, Bound, Status, NoProcess, Process

\* A sequence of which one element is replaced.
LEMMA Replaced ==
  ASSUME NEW S, NEW q \in Seq(S), NEW i \in DOMAIN q, NEW x \in S
  PROVE  /\ [q EXCEPT ![i] = x] \in Seq(S) /\ Len([q EXCEPT ![i] = x]) = Len(q)
         /\ DOMAIN [q EXCEPT ![i] = x] = DOMAIN q
         /\ \A j \in DOMAIN q : [q EXCEPT ![i] = x][j] = IF j = i THEN x ELSE q[j]
<1>1. q \in [1 .. Len(q) -> S] /\ i \in 1 .. Len(q) /\ Len(q) \in Nat
  OBVIOUS
<1>2. [q EXCEPT ![i] = x] \in [1 .. Len(q) -> S]
  BY <1>1
<1>3. [q EXCEPT ![i] = x] \in Seq(S)
  BY <1>1, <1>2, SeqDef
<1>4. Len([q EXCEPT ![i] = x]) = Len(q)
  BY <1>1, <1>2, <1>3
<1> QED
  BY <1>1, <1>3, <1>4

\* A sequence that is built position by position.
LEMMA Built ==
  ASSUME NEW S, NEW n \in Nat, NEW f \in [1 .. n -> S]
  PROVE  f \in Seq(S) /\ Len(f) = n /\ DOMAIN f = 1 .. n
<1>1. f \in Seq(S)
  BY SeqDef
<1> QED
  BY <1>1

LEMMA Grown ==
  ASSUME NEW S, NEW q \in Seq(S), NEW x \in S
  PROVE  /\ Append(q, x) \in Seq(S) /\ Len(Append(q, x)) = Len(q) + 1
         /\ DOMAIN Append(q, x) = 1 .. Len(q) + 1 /\ Append(q, x)[Len(q) + 1] = x
         /\ \A j \in 1 .. Len(q) : Append(q, x)[j] = q[j]
OBVIOUS

----------------------------------------------------------------------------
(* Steps that move no knowledge.                                           *)

Same(r, s) ==
  /\ r.turn = s.turn /\ r.rev = s.rev /\ r.history = s.history
  /\ r.attempt = s.attempt /\ r.native = s.native /\ r.recorded = s.recorded

\* What is remembered is kept, or forgotten with the process that knew it; a turn
\* that fails remembers its attempt.
Quiet ==
  /\ DOMAIN turns \subseteq DOMAIN turns' /\ DOMAIN sessions \subseteq DOMAIN sessions'
  /\ \A k \in DOMAIN sessions :
       /\ sessions'[k].native = sessions[k].native /\ sessions'[k].context = sessions[k].context
       /\ processes'[k] = processes[k] \/ processes'[k] = NoProcess
  /\ \A k \in DOMAIN sessions' \ DOMAIN sessions :
       sessions'[k].native = 0 /\ sessions'[k].context = {} /\ processes'[k] = NoProcess
  /\ DOMAIN transcripts' = DOMAIN transcripts
  /\ \A n \in DOMAIN transcripts : transcripts'[n] = transcripts[n] \/ transcripts'[n] = {}
  /\ \A i \in DOMAIN turns' \ DOMAIN turns : turns'[i] = Unbound
  /\ \A i \in DOMAIN turns :
       /\ messages'[i].body = messages[i].body
       /\ turns[i].session # 0 => turns'[i].session = turns[i].session
       /\ turns'[i].session = 0 => turns'[i] = Unbound
       /\ turns[i].rev <= turns'[i].rev
       /\ turns'[i].rev = turns[i].rev /\ turns[i].status \in {"completed", "cancelled"} =>
            turns'[i].status \in {"completed", "cancelled"}
       /\ turns'[i].status \in {"pending", "running"} \/ i = run'.turn =>
            turns'[i].resume \in {0, turns'[i].past.native}
  /\ \/ /\ run' = Idle
        /\ \A i \in DOMAIN turns :
             \/ turns'[i].past = turns[i].past
             \/ /\ i = run.turn
                /\ turns'[i].past = [native |-> run.recorded, history |-> run.history]
     \/ /\ \A k \in DOMAIN sessions : processes'[k] = processes[k]
        /\ \A i \in DOMAIN turns : turns'[i].past = turns[i].past
        /\ run.turn # 0 /\ Same(run', run)
        /\ \/ run'.step = run.step
           \/ /\ run.step \notin {"started", "asked"}
              /\ run'.step \in {"completed", "accepted"} /\ Done(Own)'

\* A logical session names the native sessions it named, or a new one.
LEMMA NamesApart ==
  ASSUME Types, Types', Separate, DOMAIN sessions \subseteq DOMAIN sessions',
         Len(transcripts) <= Len(transcripts'), NEW owner,
         \A k \in DOMAIN sessions', n \in Nat : Named(k, n)' =>
           \/ n = 0
           \/ k \in DOMAIN sessions /\ Named(k, n)
           \/ k = owner /\ Len(transcripts) < n /\ n <= Len(transcripts')
  PROVE  /\ \A k \in DOMAIN sessions', n \in Nat : Named(k, n)' => n <= Len(transcripts')
         /\ \A j, k \in DOMAIN sessions', n \in Nat : Named(j, n)' /\ Named(k, n)' => j = k \/ n = 0
<1>1. Len(transcripts) \in Nat /\ Len(transcripts') \in Nat
  BY Typed DEF Types
<1>2. /\ \A k \in DOMAIN sessions, n \in Nat : Named(k, n) => n <= Len(transcripts)
      /\ \A j, k \in DOMAIN sessions, n \in Nat : Named(j, n) /\ Named(k, n) => j = k \/ n = 0
  BY DEF Separate
<1>3. ASSUME NEW k \in DOMAIN sessions', NEW n \in Nat, Named(k, n)' PROVE n <= Len(transcripts')
  BY <1>1, <1>2, <1>3
<1>4. ASSUME NEW j \in DOMAIN sessions', NEW k \in DOMAIN sessions', NEW n \in Nat,
             Named(j, n)', Named(k, n)', n # 0
      PROVE  j = k
  <2>1. \/ j \in DOMAIN sessions /\ Named(j, n)
        \/ j = owner /\ Len(transcripts) < n
    BY <1>4
  <2>2. \/ k \in DOMAIN sessions /\ Named(k, n)
        \/ k = owner /\ Len(transcripts) < n
    BY <1>4
  <2> QED
    BY <1>1, <1>2, <1>4, <2>1, <2>2
<1> QED
  BY <1>3, <1>4

\* The turns that are told stay turns of their session.
LEMMA OfStays ==
  ASSUME Types, DOMAIN turns \subseteq DOMAIN turns', NEW k, k # 0,
         \A i \in DOMAIN turns : turns[i].session # 0 => turns'[i].session = turns[i].session,
         NEW h, Of(k, h)
  PROVE  Of(k, h)'
BY DEF Of

LEMMA DoneStays ==
  ASSUME Types, Types', DOMAIN turns \subseteq DOMAIN turns', NEW u \in Turn, Done(u),
         \A i \in DOMAIN turns :
           /\ turns[i].rev <= turns'[i].rev
           /\ turns'[i].rev = turns[i].rev /\ turns[i].status \in {"completed", "cancelled"} =>
                turns'[i].status \in {"completed", "cancelled"}
  PROVE  Done(u)'
<1>1. u[1] \in DOMAIN turns /\ u[2] \in Nat /\ u[2] <= turns[u[1]].rev
  BY DEF Done, Turn
<1>2. turns \in Seq(Bound) /\ turns' \in Seq(Bound)
  BY DEF Types
<1>3. turns[u[1]].rev \in Nat /\ turns'[u[1]].rev \in Nat
  <2>1. turns[u[1]] \in Bound /\ turns'[u[1]] \in Bound
    BY <1>1, <1>2
  <2> QED
    BY <2>1 DEF Bound
<1> QED
  BY <1>1, <1>3 DEF Done

\* The turn that is answered belongs to a session.
LEMMA RunBound ==
  ASSUME Types, Arrival, OneTurn, run.turn # 0
  PROVE  run.turn \in DOMAIN turns /\ Here # 0 /\ Here \in DOMAIN sessions /\ Own \in Turn
<1>1. run.turn \in DOMAIN turns /\ turns[run.turn].status # "none" /\ run.rev \in Nat
        /\ run.turn \in Nat
  BY DEF Types, OneTurn, Run, Idle
<1>2. Here \in 0 .. Len(sessions) /\ Here # 0
  BY <1>1 DEF Types, Arrival, Here
<1> QED
  BY <1>1, <1>2, Typed DEF Own, Turn

LEMMA QuietNames ==
  ASSUME SessionInv, Types', Quiet, NEW k \in DOMAIN sessions', NEW n \in Nat, Named(k, n)'
  PROVE  n = 0 \/ (k \in DOMAIN sessions /\ Named(k, n))
<1>0. Types /\ Arrival /\ OneTurn /\ Remembers
  BY DEF SessionInv
<1>1. k # 0
  BY DEF Types
<1>2. CASE n = sessions'[k].native
  BY <1>2 DEF Quiet, Named
<1>3. CASE n = processes'[k].native
  BY <1>3 DEF Quiet, Named, NoProcess
<1>4. ASSUME NEW i \in DOMAIN turns', turns'[i].session = k, n = turns'[i].past.native
      PROVE  n = 0 \/ (k \in DOMAIN sessions /\ Named(k, n))
  <2>1. CASE i \notin DOMAIN turns
    BY <1>1, <1>4, <2>1 DEF Quiet, Unbound
  <2>2. CASE i \in DOMAIN turns /\ turns[i].session = 0
    <3>1. turns[i].past.native = 0 /\ i # run.turn
      BY <1>0, <2>2, RunBound DEF Remembers, Unbound, Here, Types
    <3> QED
      BY <1>4, <2>2, <3>1 DEF Quiet
  <2>3. CASE i \in DOMAIN turns /\ turns[i].session # 0
    <3>1. turns[i].session = k /\ k \in DOMAIN sessions
      BY <1>0, <1>4, <2>3, Typed DEF Quiet, Types
    <3>2. CASE turns'[i].past = turns[i].past
      BY <1>4, <2>3, <3>1, <3>2 DEF Named
    <3>3. CASE i = run.turn /\ turns'[i].past = [native |-> run.recorded, history |-> run.history]
      <4>1. run.turn # 0
        BY <1>0, <2>3, <3>3, Typed
      <4>2. n = run.recorded /\ Here = k
        BY <1>4, <3>1, <3>3 DEF Here
      <4> QED
        BY <3>1, <4>1, <4>2 DEF Named
    <3> QED
      BY <2>3, <3>2, <3>3 DEF Quiet
  <2> QED
    BY <2>1, <2>2, <2>3
<1>5. CASE run'.turn # 0 /\ Here' = k /\ n \in {run'.attempt, run'.recorded, run'.native}
  <2>1. run' # Idle
    BY <1>5 DEF Idle
  <2>2. run.turn # 0 /\ Same(run', run)
    BY <2>1 DEF Quiet
  <2>3. run.turn \in DOMAIN turns /\ Here # 0 /\ Here \in DOMAIN sessions
    BY <1>0, <2>2, RunBound
  <2>4. Here' = Here
    BY <2>2, <2>3 DEF Quiet, Here, Same
  <2> QED
    BY <1>5, <2>2, <2>3, <2>4 DEF Named, Same
<1> QED
  BY <1>2, <1>3, <1>4, <1>5 DEF Named

LEMMA QuietSeparate ==
  ASSUME SessionInv, Types', Quiet
  PROVE  Separate'
<1>0. Types /\ Arrival /\ OneTurn /\ Remembers /\ Separate
  BY DEF SessionInv
<1>1. Len(transcripts) <= Len(transcripts') /\ DOMAIN transcripts' = DOMAIN transcripts
  <2>1. DOMAIN transcripts' = DOMAIN transcripts
    BY DEF Quiet
  <2>2. transcripts \in Seq(SUBSET Turn) /\ transcripts' \in Seq(SUBSET Turn)
    BY <1>0 DEF Types
  <2> QED
    BY <2>1, <2>2
<1>2. /\ \A k \in DOMAIN sessions', n \in Nat : Named(k, n)' => n <= Len(transcripts')
      /\ \A j, k \in DOMAIN sessions', n \in Nat : Named(j, n)' /\ Named(k, n)' => j = k \/ n = 0
  <2>1. PICK owner : owner = 0
    OBVIOUS
  <2>2. \A k \in DOMAIN sessions', n \in Nat : Named(k, n)' =>
           \/ n = 0
           \/ k \in DOMAIN sessions /\ Named(k, n)
           \/ k = owner /\ Len(transcripts) < n /\ n <= Len(transcripts')
    BY QuietNames
  <2>3. DOMAIN sessions \subseteq DOMAIN sessions'
    BY DEF Quiet
  <2> QED
    BY <1>0, <1>1, <2>2, <2>3, NamesApart
<1>3. \A i \in DOMAIN turns : turns[i].session # 0 =>
        i \in DOMAIN turns' /\ turns'[i].session = turns[i].session
  BY DEF Quiet
<1>4. ASSUME NEW k \in DOMAIN sessions', NEW n \in DOMAIN transcripts', Named(k, n)'
      PROVE  Of(k, transcripts[n])'
  <2>1. n \in Nat /\ n # 0 /\ n \in DOMAIN transcripts
    BY <1>0, <1>1, Typed
  <2>2. k \in DOMAIN sessions /\ Named(k, n)
    BY <1>4, <2>1, QuietNames
  <2>3. Of(k, transcripts[n]) /\ k # 0
    BY <1>0, <2>1, <2>2, Typed DEF Separate
  <2>4. transcripts'[n] \subseteq transcripts[n]
    BY <2>1 DEF Quiet
  <2> QED
    BY <1>3, <2>3, <2>4 DEF Of
<1>5. ASSUME NEW k \in DOMAIN sessions'
      PROVE  Of(k, sessions[k].context)' /\ Of(k, processes[k].context)'
             /\ Of(k, processes[k].expected)'
  <2>1. CASE k \in DOMAIN sessions
    <3>1. /\ Of(k, sessions[k].context) /\ Of(k, processes[k].context)
             /\ Of(k, processes[k].expected)
          /\ k # 0
      BY <1>0, <2>1, Typed DEF Separate
    <3>2. /\ sessions'[k].context = sessions[k].context
          /\ processes'[k].context \subseteq processes[k].context
          /\ processes'[k].expected \subseteq processes[k].expected
      BY <2>1 DEF Quiet, NoProcess
    <3> QED
      BY <1>3, <3>1, <3>2 DEF Of
  <2>2. CASE k \notin DOMAIN sessions
    BY <2>2 DEF Quiet, Of, NoProcess
  <2> QED
    BY <2>1, <2>2
<1>6. ASSUME NEW i \in DOMAIN turns' PROVE Of(turns[i].session, turns[i].past.history)'
  <2>1. CASE turns'[i].past.history = {}
    BY <2>1 DEF Of
  <2>2. CASE i \in DOMAIN turns /\ turns[i].session = 0
    <3>1. turns[i].past.history = {} /\ i # run.turn
      BY <1>0, <2>2, RunBound DEF Remembers, Unbound, Here, Types
    <3> QED
      BY <2>1, <2>2, <3>1 DEF Quiet
  <2>3. CASE i \in DOMAIN turns /\ turns[i].session # 0
    <3>1. turns'[i].session = turns[i].session
      BY <2>3 DEF Quiet
    <3>2. CASE turns'[i].past = turns[i].past
      <4>1. Of(turns[i].session, turns[i].past.history)
        BY <1>0, <2>3 DEF Separate
      <4> QED
        BY <1>3, <2>3, <3>1, <3>2, <4>1 DEF Of
    <3>3. CASE i = run.turn /\ turns'[i].past = [native |-> run.recorded, history |-> run.history]
      <4>1. run.turn # 0
        BY <1>0, <2>3, <3>3, Typed
      <4>2. Of(Here, run.history) /\ Here = turns'[i].session /\ Here = turns[i].session
        BY <1>0, <3>1, <3>3, <4>1 DEF Separate, Here
      <4>3. turns'[i].past.history = run.history
        BY <3>3
      <4> QED
        BY <1>3, <2>3, <4>2, <4>3 DEF Of
    <3> QED
      BY <2>3, <3>2, <3>3 DEF Quiet
  <2>4. CASE i \notin DOMAIN turns
    BY <2>1, <2>4 DEF Quiet, Unbound
  <2> QED
    BY <2>2, <2>3, <2>4
<1>7. ASSUME run'.turn # 0 PROVE Of(Here, run.history)'
  <2>1. run' # Idle
    BY <1>7 DEF Idle
  <2>2. run.turn # 0 /\ Same(run', run)
    BY <2>1 DEF Quiet
  <2>3. run.turn \in DOMAIN turns /\ Here # 0 /\ Here \in DOMAIN sessions
    BY <1>0, <2>2, RunBound
  <2>4. Here' = Here /\ Of(Here, run.history) /\ run'.history = run.history
    BY <1>0, <2>2, <2>3 DEF Quiet, Here, Same, Separate
  <2> QED
    BY <1>3, <2>2, <2>3, <2>4 DEF Of
<1> QED
  BY <1>2, <1>4, <1>5, <1>6, <1>7 DEF Separate

LEMMA QuietAccepted ==
  ASSUME SessionInv, Types', Quiet
  PROVE  Accepted'
<1>0. Types /\ Arrival /\ OneTurn /\ Accepted
  BY DEF SessionInv
<1>1. ASSUME NEW u \in Turn, Done(u) PROVE Done(u)'
  BY <1>0, <1>1, DoneStays DEF Quiet
<1>2. ASSUME NEW k \in DOMAIN sessions', NEW u \in sessions'[k].context
      PROVE  Done(u)'
  <2>1. k \in DOMAIN sessions /\ u \in sessions[k].context
    BY <1>2 DEF Quiet
  <2>2. u \in Turn /\ Done(u)
    <3>1. sessions[k] \in LogicalSession
      BY <1>0, <2>1 DEF Types
    <3> QED
      BY <1>0, <2>1, <3>1 DEF LogicalSession, Accepted
  <2> QED
    BY <1>1, <2>2
<1>3. run.history \subseteq Turn /\ \A u \in run.history : Done(u)
  BY <1>0 DEF Types, Run, Accepted
<1>4. ASSUME NEW i \in DOMAIN turns', NEW u \in turns'[i].past.history PROVE Done(u)'
  <2>1. i \in DOMAIN turns
    BY <1>4 DEF Quiet, Unbound
  <2>2. u \in turns[i].past.history \/ u \in run.history
    BY <1>4, <2>1 DEF Quiet
  <2>3. u \in Turn /\ Done(u)
    <3>1. turns[i] \in Bound
      BY <1>0, <2>1 DEF Types
    <3> QED
      BY <1>0, <1>3, <2>1, <2>2, <3>1 DEF Bound, Accepted
  <2> QED
    BY <1>1, <2>3
<1>5. ASSUME NEW u \in run'.history PROVE Done(u)'
  <2>1. u \in run.history
    BY <1>5 DEF Quiet, Idle, Same
  <2> QED
    BY <1>1, <1>3, <2>1
<1>6. ASSUME run'.turn # 0
      PROVE  /\ Own' \notin run'.history
             /\ \A k \in DOMAIN sessions' : Own' \notin sessions'[k].context
             /\ \A i \in DOMAIN turns' : Own' \notin turns'[i].past.history
             /\ run'.step \in {"completed", "accepted"} => Done(Own)'
  <2>1. /\ run.turn # 0 /\ Same(run', run) /\ \A i \in DOMAIN turns : turns'[i].past = turns[i].past
        /\ run'.step = run.step \/ Done(Own)'
    BY <1>6 DEF Quiet, Idle
  <2>2. Own' = Own /\ Own \in Turn
    BY <1>0, <2>1, RunBound DEF Own, Same
  <2>3. Own \notin run'.history
    BY <1>0, <2>1 DEF Accepted, Same
  <2>4. \A k \in DOMAIN sessions' : Own \notin sessions'[k].context
    BY <1>0, <2>1 DEF Accepted, Quiet
  <2>5. \A i \in DOMAIN turns' : Own \notin turns'[i].past.history
    BY <1>0, <2>1 DEF Accepted, Quiet, Unbound
  <2>6. run'.step = run.step /\ run.step \in {"completed", "accepted"} => Done(Own)'
    <3>1. run.step \in {"completed", "accepted"} => Done(Own)
      BY <1>0, <2>1 DEF Accepted
    <3>2. Done(Own) => \A u : u = Own => Done(u)
      OBVIOUS
    <3>3. Done(Own) => Done(Own)'
      <4>1. PICK u : u = Own
        OBVIOUS
      <4>2. Done(u) => Done(u)'
        BY <1>1, <2>2, <4>1
      <4> QED
        BY <2>2, <4>1, <4>2 DEF Done
    <3> QED
      BY <3>1, <3>3
  <2> QED
    BY <2>1, <2>2, <2>3, <2>4, <2>5, <2>6
<1> QED
  BY <1>2, <1>4, <1>5, <1>6 DEF Accepted

\* What the turn that is answered was told is known of its native session.
LEMMA RunKnows ==
  ASSUME SessionInv, run.turn # 0
  PROVE  Knows(Here, run.recorded, run.history) /\ Agrees(Here, run.recorded, run.history)
<1>0. Types /\ Arrival /\ OneTurn /\ Remembers /\ Asked
  BY DEF SessionInv
<1>1. run.turn \in DOMAIN turns /\ Here \in DOMAIN sessions /\ run.turn \in DOMAIN messages
  BY <1>0, RunBound, Typed
<1>2. messages[run.turn].body \in {"text", "clear"}
  <2>1. messages[run.turn] \in Message
    BY <1>0, <1>1 DEF Types
  <2> QED
    BY <2>1 DEF Message
<1>3. CASE run.step = "started" \/ messages[run.turn].body = "clear"
  BY <1>0, <1>3 DEF Asked, Knows, Agrees
<1>4. CASE run.step # "started" /\ messages[run.turn].body = "text"
  <2>1. /\ processes[Here].native = run.recorded /\ run.recorded # 0
        /\ run.history \subseteq processes[Here].context
        /\ Agrees(Here, run.recorded, run.history)
    BY <1>0, <1>4 DEF Asked
  <2>2. transcripts[run.recorded] = {} \/ transcripts[run.recorded] = processes[Here].context
    BY <1>0, <1>1, <2>1 DEF Remembers
  <2> QED
    BY <2>1, <2>2 DEF Knows
<1> QED
  BY <1>2, <1>3, <1>4

\* Nothing that was known is contradicted.
LEMMA QuietKnows ==
  ASSUME SessionInv, Types', Quiet, NEW k \in DOMAIN sessions, NEW n \in Nat, Named(k, n), NEW h
  PROVE  /\ Knows(k, n, h) => Knows(k, n, h)'
         /\ Agrees(k, n, h) => Agrees(k, n, h)'
         /\ n # 0 /\ ~Usable(k, n) => ~Usable(k, n)'
<1>0. Types /\ Separate
  BY DEF SessionInv
<1>1. n # 0 => n \in DOMAIN transcripts
  BY <1>0, Typed DEF Separate
<1>2. sessions[k].native # 0 => sessions[k].native \in DOMAIN transcripts
  <2>1. sessions[k] \in LogicalSession
    BY <1>0 DEF Types
  <2> QED
    BY <1>0, <2>1, Typed DEF Separate, Named, LogicalSession
<1>3. n # 0 => transcripts'[n] = transcripts[n] \/ transcripts'[n] = {}
  BY <1>1 DEF Quiet
<1>4. processes'[k] = processes[k] \/ processes'[k] = NoProcess
  BY DEF Quiet
<1>5. Knows(k, n, h) => Knows(k, n, h)'
  BY <1>3, <1>4 DEF Knows, NoProcess
<1>6. sessions'[k].native = sessions[k].native /\ sessions'[k].context = sessions[k].context
  BY DEF Quiet
<1>7. \A m \in DOMAIN transcripts : ~Usable(k, m) /\ m # 0 => ~Usable(k, m)'
  BY <1>4 DEF Usable, NoProcess, Quiet
<1> QED
  BY <1>1, <1>2, <1>5, <1>6, <1>7 DEF Agrees

LEMMA QuietRemembers ==
  ASSUME SessionInv, Types', Quiet
  PROVE  Remembers'
<1>0. Types /\ Arrival /\ OneTurn /\ Remembers /\ Separate /\ Asked
  BY DEF SessionInv
<1>1. ASSUME NEW k \in DOMAIN sessions'
      PROVE  /\ Knows(k, sessions[k].native, sessions[k].context)'
             /\ Knows(k, processes[k].native, processes[k].expected)'
             /\ Agrees(k, processes[k].native, processes[k].expected)'
             /\ processes'[k].native # 0 =>
                  transcripts'[processes'[k].native] \in {{}, processes'[k].context}
             /\ processes'[k].native = 0 => processes'[k] = NoProcess
  <2>1. CASE k \notin DOMAIN sessions
    BY <2>1 DEF Quiet, Knows, Agrees, NoProcess
  <2>2. CASE k \in DOMAIN sessions
    <3>1. sessions[k].native \in Nat /\ processes[k].native \in Nat
      <4>1. sessions[k] \in LogicalSession /\ processes[k] \in Process
        BY <1>0, <2>2, Typed DEF Types
      <4> QED
        BY <4>1 DEF LogicalSession, Process
    <3>2. Named(k, sessions[k].native) /\ Named(k, processes[k].native)
      BY DEF Named
    <3>3. Knows(k, sessions[k].native, sessions[k].context)
      BY <1>0, <2>2 DEF Remembers
    <3>4. PICK n, h : n = sessions[k].native /\ h = sessions[k].context
      OBVIOUS
    <3>5. Knows(k, n, h)'
      BY <2>2, <3>1, <3>2, <3>3, <3>4, QuietKnows
    <3>6. n = sessions'[k].native /\ h = sessions'[k].context
      BY <2>2, <3>4 DEF Quiet
    <3>7. Knows(k, sessions[k].native, sessions[k].context)'
      BY <3>5, <3>6 DEF Knows
    <3>8. CASE processes'[k] = NoProcess
      BY <3>7, <3>8 DEF NoProcess, Knows, Agrees
    <3>9. CASE processes'[k] = processes[k]
      <4>1. PICK p, e : p = processes[k].native /\ e = processes[k].expected
        OBVIOUS
      <4>2. Knows(k, p, e) /\ Agrees(k, p, e)
        BY <1>0, <2>2, <4>1 DEF Remembers
      <4>3. Knows(k, p, e)' /\ Agrees(k, p, e)'
        BY <2>2, <3>1, <3>2, <4>1, <4>2, QuietKnows
      <4>4. p = processes'[k].native /\ e = processes'[k].expected
        BY <3>9, <4>1
      <4>5. Knows(k, processes[k].native, processes[k].expected)'
        BY <4>3, <4>4 DEF Knows
      <4>6. Agrees(k, processes[k].native, processes[k].expected)'
        BY <4>3, <4>4 DEF Agrees, Usable
      <4>7. p # 0 => p \in DOMAIN transcripts
        BY <1>0, <2>2, <3>1, <3>2, <4>1, Typed DEF Separate
      <4>8. p # 0 => transcripts[p] \in {{}, processes[k].context}
        BY <1>0, <2>2, <4>1 DEF Remembers
      <4>9. p # 0 => transcripts'[p] \in {{}, processes'[k].context}
        BY <3>9, <4>7, <4>8 DEF Quiet
      <4>10. p = 0 => processes'[k] = NoProcess
        BY <1>0, <2>2, <3>9, <4>1 DEF Remembers
      <4> QED
        BY <3>7, <4>4, <4>5, <4>6, <4>9, <4>10
    <3> QED
      BY <2>2, <3>8, <3>9 DEF Quiet
  <2> QED
    BY <2>1, <2>2
<1>2. ASSUME NEW i \in DOMAIN turns', turns'[i].session # 0
      PROVE  /\ Knows(turns[i].session, turns[i].past.native, turns[i].past.history)'
             /\ Agrees(turns[i].session, turns[i].past.native, turns[i].past.history)'
  <2>1. i \in DOMAIN turns
    BY <1>2 DEF Quiet, Unbound
  <2>2. CASE turns[i].session = 0
    <3>1. turns[i].past.native = 0 /\ i # run.turn
      BY <1>0, <2>1, <2>2, RunBound DEF Remembers, Unbound, Here, Types
    <3>2. turns'[i].past.native = 0
      BY <2>1, <3>1 DEF Quiet
    <3> QED
      BY <3>2 DEF Knows, Agrees
  <2>3. CASE turns[i].session # 0
    <3>1. PICK k : k = turns[i].session
      OBVIOUS
    <3>2. k = turns'[i].session /\ k \in DOMAIN sessions
      BY <1>0, <2>1, <2>3, <3>1, Typed DEF Quiet, Types
    <3>3. PICK n, h : n = turns'[i].past.native /\ h = turns'[i].past.history
      OBVIOUS
    <3>4. Knows(k, n, h) /\ Agrees(k, n, h) /\ Named(k, n) /\ n \in Nat
      <4>1. CASE turns'[i].past = turns[i].past
        <5>1. turns[i] \in Bound
          BY <1>0, <2>1 DEF Types
        <5> QED
          BY <1>0, <2>1, <2>3, <3>1, <3>3, <4>1, <5>1 DEF Remembers, Named, Bound
      <4>2. CASE i = run.turn /\ turns'[i].past = [native |-> run.recorded, history |-> run.history]
        <5>1. run.turn # 0 /\ Here = k /\ n = run.recorded /\ h = run.history
          BY <1>0, <2>1, <3>1, <3>3, <4>2, Typed DEF Here
        <5>2. n \in Nat
          BY <1>0, <5>1 DEF Types, Run
        <5>3. Knows(Here, run.recorded, run.history) /\ Agrees(Here, run.recorded, run.history)
          BY <5>1, RunKnows
        <5> QED
          BY <5>1, <5>2, <5>3 DEF Named
      <4> QED
        BY <2>1, <4>1, <4>2 DEF Quiet
    <3>5. Knows(k, n, h)' /\ Agrees(k, n, h)'
      BY <3>2, <3>4, QuietKnows
    <3> QED
      BY <3>2, <3>3, <3>5 DEF Knows, Agrees, Usable
  <2> QED
    BY <2>2, <2>3
<1>3. ASSUME NEW i \in DOMAIN turns', turns'[i].session # 0
      PROVE  turns'[i].status \in {"pending", "running"} \/ i = run'.turn =>
               turns'[i].resume \in {0, turns'[i].past.native}
  BY <1>3 DEF Quiet, Unbound
<1>4. ASSUME NEW i \in DOMAIN turns', turns'[i].session = 0 PROVE turns'[i] = Unbound
  BY <1>4 DEF Quiet
<1> QED
  BY <1>1, <1>2, <1>3, <1>4 DEF Remembers

LEMMA QuietAsked ==
  ASSUME SessionInv, Types', Quiet
  PROVE  Asked'
<1>0. Types /\ Arrival /\ OneTurn /\ Remembers /\ Separate /\ Asked
  BY DEF SessionInv
<1>1. CASE run' = Idle
  BY <1>1, IdleTyped DEF Asked
<1>2. CASE run' # Idle
  <2>1. /\ run.turn # 0 /\ Same(run', run)
        /\ \A k \in DOMAIN sessions : processes'[k] = processes[k]
        /\ \A i \in DOMAIN turns : turns'[i].past = turns[i].past
        /\ \/ run'.step = run.step
           \/ run.step \notin {"started", "asked"} /\ run'.step \in {"completed", "accepted"}
    BY <1>2 DEF Quiet
  <2>2. run.turn \in DOMAIN turns /\ Here # 0 /\ Here \in DOMAIN sessions
    BY <1>0, <2>1, RunBound
  <2>3. PICK k : k = Here
    OBVIOUS
  <2>4. Here' = k /\ Own' = Own /\ messages'[run.turn].body = messages[run.turn].body
    BY <2>1, <2>2, <2>3 DEF Quiet, Here, Same, Own
  <2>5. sessions'[k].native = sessions[k].native /\ sessions'[k].context = sessions[k].context
    BY <2>2, <2>3 DEF Quiet
  <2>6. run.attempt \in Nat /\ run.native \in Nat /\ run.recorded \in Nat
    BY <1>0 DEF Types, Run
  <2>7. Named(k, run.attempt) /\ Named(k, run.native) /\ Named(k, run.recorded)
    BY <2>1, <2>3 DEF Named
  <2>8. ASSUME run'.step = "started"
        PROVE  /\ run'.attempt # 0 /\ run'.native = 0 /\ run'.recorded = 0
               /\ transcripts'[run'.attempt] = {} /\ run'.attempt # sessions'[k].native
               /\ run'.attempt # processes'[k].native
               /\ \A i \in DOMAIN turns' : run'.attempt # turns'[i].past.native
    <3>1. run.step = "started"
      BY <2>1, <2>8
    <3>2. /\ run.attempt # 0 /\ run.native = 0 /\ run.recorded = 0
          /\ transcripts[run.attempt] = {} /\ run.attempt # sessions[k].native
          /\ run.attempt # processes[k].native
          /\ \A i \in DOMAIN turns : run.attempt # turns[i].past.native
      BY <1>0, <2>3, <3>1 DEF Asked
    <3>3. run.attempt \in DOMAIN transcripts
      BY <1>0, <2>2, <2>3, <2>6, <2>7, <3>2, Typed DEF Separate
    <3>4. transcripts'[run.attempt] = {}
      BY <3>2, <3>3 DEF Quiet
    <3>5. \A i \in DOMAIN turns' : run.attempt # turns'[i].past.native
      BY <2>1, <3>2 DEF Quiet, Unbound
    <3> QED
      BY <2>1, <2>2, <2>3, <2>5, <3>2, <3>4, <3>5 DEF Same
  <2>9. ASSUME messages'[run'.turn].body = "text", run'.step # "started"
        PROVE  /\ run'.recorded # 0 /\ run'.native # 0 /\ processes'[k].native = run'.recorded
               /\ run'.history \cup {Own'} \subseteq processes'[k].context
               /\ processes'[k].expected =
                    (IF run'.step = "asked" THEN run'.history ELSE run'.history \cup {Own'})
               /\ Agrees(Here, run.recorded, run.history)'
               /\ run'.native = run'.recorded \/ ~Usable(Here, run.native)'
    <3>1. messages[run.turn].body = "text" /\ run.step # "started"
      BY <2>1, <2>4, <2>9 DEF Same
    <3>2. /\ run.recorded # 0 /\ run.native # 0 /\ processes[k].native = run.recorded
          /\ run.history \cup {Own} \subseteq processes[k].context
          /\ processes[k].expected =
               (IF run.step = "asked" THEN run.history ELSE run.history \cup {Own})
          /\ Agrees(k, run.recorded, run.history)
          /\ run.native = run.recorded \/ ~Usable(k, run.native)
      BY <1>0, <2>1, <2>3, <3>1 DEF Asked
    <3>3. PICK n, m, h : n = run.recorded /\ m = run.native /\ h = run.history
      OBVIOUS
    <3>4. Agrees(k, n, h)'
      BY <2>2, <2>3, <2>6, <2>7, <3>2, <3>3, QuietKnows
    <3>5. n = m \/ ~Usable(k, m)'
      BY <2>2, <2>3, <2>6, <2>7, <3>2, <3>3, QuietKnows
    <3>6. n = run'.recorded /\ m = run'.native /\ h = run'.history
      BY <2>1, <3>3 DEF Same
    <3>7. Agrees(Here, run.recorded, run.history)' /\ (n = m \/ ~Usable(Here, run.native)')
      BY <2>4, <3>4, <3>5, <3>6 DEF Agrees, Usable
    <3>8. processes'[k] = processes[k] /\ (run'.step = "asked" <=> run.step = "asked")
      BY <2>1, <2>2, <2>3
    <3> QED
      BY <2>4, <3>2, <3>3, <3>6, <3>7, <3>8
  <2>10. messages'[run'.turn].body = "clear" => run'.recorded = 0
    BY <1>0, <2>1, <2>4 DEF Asked, Same
  <2> QED
    BY <2>4, <2>8, <2>9, <2>10 DEF Asked
<1> QED
  BY <1>1, <1>2

LEMMA QuietKeeps ==
  ASSUME SessionInv, Types', Arrival', OneTurn', Quiet
  PROVE  SessionInv'
BY QuietAccepted, QuietSeparate, QuietRemembers, QuietAsked DEF SessionInv

----------------------------------------------------------------------------
(* Messages, edits and the operator.                                       *)

LEMMA ArrivalKeeps ==
  ASSUME Types, Types', Arrival, UNCHANGED sessions, DOMAIN turns \subseteq DOMAIN turns',
         \A i \in DOMAIN turns' \ DOMAIN turns : turns'[i] = Unbound,
         \A i \in DOMAIN turns :
           /\ messages'[i].body = messages[i].body
           /\ messages'[i].available => messages[i].available
           /\ turns'[i].session = turns[i].session
           /\ turns'[i].status = "none" <=> turns[i].status = "none"
  PROVE  Arrival'
<1>1. \A i \in DOMAIN turns' : turns'[i].session # 0 <=> turns'[i].status # "none"
  BY DEF Arrival, Unbound
<1>2. ASSUME NEW i \in DOMAIN turns', NEW j \in DOMAIN turns', i < j, turns'[j].session # 0
      PROVE  /\ turns'[i].session # 0 \/ ~messages'[i].available
             /\ turns'[i].session <= turns'[j].session
             /\ messages'[j].body = "clear" => turns'[i].session < turns'[j].session
  <2>1. j \in DOMAIN turns
    BY <1>2 DEF Unbound
  <2>2. i \in DOMAIN turns
    BY <1>2, <2>1, Typed DEF Types
  <2> QED
    BY <1>2, <2>1, <2>2 DEF Arrival
<1> QED
  BY <1>1, <1>2 DEF Arrival

\* Facts about the turns of a state that the steps below need.
LEMMA TurnFacts ==
  ASSUME SessionInv, NEW i \in DOMAIN turns
  PROVE  /\ turns[i] \in Bound /\ messages[i] \in Message /\ i \in DOMAIN messages
         /\ turns[i].rev <= messages[i].rev /\ turns[i].session \in 0 .. Len(sessions)
         /\ turns[i].session # 0 <=> turns[i].status # "none"
         /\ turns[i].session = 0 => turns[i] = Unbound
         /\ turns[i].status = "cancelled" => ~messages[i].available
         /\ turns[i].status = "running" => i = run.turn /\ turns[i].rev = run.rev
         /\ turns[i].session # 0 /\ (turns[i].status \in {"pending", "running"} \/ i = run.turn) =>
              turns[i].resume \in {0, turns[i].past.native}
<1>0. Types /\ Arrival /\ OneTurn /\ Remembers
  BY DEF SessionInv
<1>1. turns[i] \in Bound /\ i \in DOMAIN messages
  BY <1>0, Typed DEF Types
<1>2. messages[i] \in Message
  BY <1>0, <1>1 DEF Types
<1> QED
  BY <1>0, <1>1, <1>2 DEF Types, Arrival, OneTurn, Remembers

LEMMA ReceiveKeeps ==
  ASSUME SessionInv, NEW body \in {"text", "clear"}, Receive(body)
  PROVE  SessionInv'
<1>0. Types /\ Arrival /\ OneTurn /\ Remembers
  BY DEF SessionInv
<1>1. PICK m : m = [body |-> body, rev |-> 1, available |-> TRUE]
  OBVIOUS
<1>2. m \in Message /\ m.rev = 1
  BY <1>1 DEF Message
<1>3. /\ messages' = Append(messages, m) /\ turns' = Append(turns, Unbound)
      /\ UNCHANGED <<queue, sessions, processes, transcripts, run>>
  BY <1>1 DEF Receive
<1>4. /\ messages \in Seq(Message) /\ turns \in Seq(Bound) /\ Unbound \in Bound
      /\ Len(turns) = Len(messages) /\ Len(messages) \in Nat
  BY <1>0, Typed, UnboundTyped DEF Types
<1>5. /\ messages' \in Seq(Message) /\ Len(messages') = Len(messages) + 1
      /\ messages'[Len(messages) + 1] = m
      /\ \A i \in 1 .. Len(messages) : messages'[i] = messages[i]
  BY <1>2, <1>3, <1>4, Grown
<1>6. /\ turns' \in Seq(Bound) /\ Len(turns') = Len(messages) + 1
      /\ DOMAIN turns' = 1 .. Len(messages) + 1 /\ turns'[Len(messages) + 1] = Unbound
      /\ \A i \in 1 .. Len(messages) : turns'[i] = turns[i]
  BY <1>3, <1>4, Grown
<1>7. DOMAIN turns = 1 .. Len(messages) /\ DOMAIN turns \subseteq DOMAIN turns'
      /\ \A i \in DOMAIN turns' \ DOMAIN turns : i = Len(messages) + 1
  BY <1>0, <1>4, <1>6, Typed
<1>8. Types'
  <2>1. queue' \in Seq(DOMAIN turns')
    <3>1. queue \in Seq(DOMAIN turns)
      BY <1>0 DEF Types
    <3> QED
      BY <1>3, <1>7, <3>1, SeqMonotonic
  <2>2. \A i \in DOMAIN turns' :
          turns'[i].session \in 0 .. Len(sessions) /\ turns'[i].rev <= messages'[i].rev
    BY <1>0, <1>2, <1>5, <1>6, <1>7, Typed DEF Types, Unbound
  <2> QED
    BY <1>0, <1>3, <1>5, <1>6, <1>7, <2>1, <2>2 DEF Types
<1>9. OneTurn'
  <2>1. /\ \A n \in DOMAIN queue : queue[n] \in DOMAIN turns
        /\ run.turn # 0 => run.turn \in DOMAIN turns
    BY <1>0, Typed DEF Types
  <2>2. \A i \in DOMAIN turns : messages'[i] = messages[i] /\ turns'[i] = turns[i]
    BY <1>5, <1>6, <1>7
  <2>3. \A i \in DOMAIN turns' \ DOMAIN turns : turns'[i].status = "none"
    BY <1>6, <1>7 DEF Unbound
  <2>4. queue' = queue /\ run' = run
    BY <1>3
  <2>5. /\ \A n \in DOMAIN queue : turns'[queue[n]].status = "pending"
        /\ \A m1, n \in DOMAIN queue : queue[m1] = queue[n] => m1 = n
    BY <1>0, <2>1, <2>2 DEF OneTurn
  <2>6. \A i \in DOMAIN turns' : turns'[i].status = "running"
          => i = run.turn /\ turns'[i].rev = run.rev
    BY <1>0, <2>2, <2>3 DEF OneTurn
  <2>7. \A i \in DOMAIN turns' : turns'[i].status = "cancelled" => ~messages'[i].available
    BY <1>0, <2>2, <2>3 DEF OneTurn
  <2>8. run.turn # 0 =>
          /\ turns'[run.turn].status \notin {"none", "failed"} /\ run.rev <= turns'[run.turn].rev
          /\ turns'[run.turn].status = "running" => run.step \in {"started", "asked", "replied"}
          /\ run.step \in {"started", "asked", "accepted"} => messages'[run.turn].body = "text"
    BY <1>0, <2>1, <2>2 DEF OneTurn
  <2> QED
    BY <2>4, <2>5, <2>6, <2>7, <2>8 DEF OneTurn
<1>10. \A i \in DOMAIN turns : turns'[i] = turns[i] /\ messages'[i] = messages[i]
  BY <1>5, <1>6, <1>7
<1>11. \A i \in DOMAIN turns' \ DOMAIN turns : turns'[i] = Unbound
  BY <1>6, <1>7
<1>12. Arrival'
  BY <1>0, <1>3, <1>7, <1>8, <1>10, <1>11, ArrivalKeeps
<1>13. Quiet
  <2>1. \A i \in DOMAIN turns :
          /\ turns[i].session = 0 => turns[i] = Unbound
          /\ turns[i].rev \in Nat
          /\ turns[i].status \in {"pending", "running"} \/ i = run.turn =>
               turns[i].resume \in {0, turns[i].past.native}
    BY TurnFacts DEF Bound, Unbound
  <2>2. run' = Idle \/ run.turn # 0
    BY <1>0, <1>3, Typed DEF Types, Idle
  <2> QED
    BY <1>3, <1>7, <1>10, <1>11, <2>1, <2>2 DEF Quiet, Same
<1> QED
  BY <1>8, <1>9, <1>12, <1>13, QuietKeeps

LEMMA MessageKeeps ==
  ASSUME SessionInv, NEW i \in DOMAIN messages, NEW m \in Message, m.body = messages[i].body,
         messages' = [messages EXCEPT ![i] = m], messages[i].rev <= m.rev,
         m.available => messages[i].available,
         UNCHANGED <<turns, queue, sessions, processes, transcripts, run>>
  PROVE  SessionInv'
<1>0. Types /\ Arrival /\ OneTurn /\ Remembers
  BY DEF SessionInv
<1>1. /\ messages' \in Seq(Message) /\ Len(messages') = Len(messages)
      /\ \A j \in DOMAIN messages : messages'[j] = IF j = i THEN m ELSE messages[j]
  BY <1>0, Replaced DEF Types
<1>2. DOMAIN turns = DOMAIN messages /\ \A j \in DOMAIN turns : turns[j].rev \in Nat
        /\ messages[j].rev \in Nat
  <2>1. DOMAIN turns = DOMAIN messages
    BY <1>0, Typed
  <2> QED
    BY <2>1, TurnFacts DEF Bound, Message
<1>3. \A j \in DOMAIN turns :
        /\ messages'[j].body = messages[j].body /\ messages[j].rev <= messages'[j].rev
        /\ messages'[j].available => messages[j].available
  BY <1>1, <1>2
<1>4. Types'
  <2>1. \A j \in DOMAIN turns : turns[j].session \in 0 .. Len(sessions)
          /\ turns[j].rev <= messages'[j].rev
    <3>1. m.rev \in Nat
      BY DEF Message
    <3>2. \A j \in DOMAIN turns : messages'[j].rev \in Nat
      BY <1>1, <1>2, <3>1
    <3> QED
      BY <1>0, <1>2, <1>3, <3>2 DEF Types
  <2> QED
    BY <1>0, <1>1, <2>1 DEF Types
<1>5. OneTurn'
  <2>1. run.turn # 0 => run.turn \in DOMAIN turns
    BY <1>0, Typed DEF Types
  <2> QED
    BY <1>0, <1>3, <2>1 DEF OneTurn
<1>6. Arrival'
  BY <1>0, <1>3, <1>4, ArrivalKeeps
<1>7. Quiet
  <2>1. \A j \in DOMAIN turns :
          /\ turns[j].session = 0 => turns[j] = Unbound
          /\ turns[j].rev \in Nat
          /\ turns[j].status \in {"pending", "running"} \/ j = run.turn =>
               turns[j].resume \in {0, turns[j].past.native}
    BY TurnFacts DEF Bound, Unbound
  <2>2. run' = Idle \/ run.turn # 0
    BY <1>0, Typed DEF Types, Idle
  <2> QED
    BY <1>3, <2>1, <2>2 DEF Quiet, Same
<1> QED
  BY <1>4, <1>5, <1>6, <1>7, QuietKeeps

LEMMA EditKeeps ==
  ASSUME SessionInv, NEW i \in DOMAIN messages, Edit(i)
  PROVE  SessionInv'
<1>1. messages[i] \in Message
  BY DEF SessionInv, Types
<1>2. PICK m : m = [messages[i] EXCEPT !.rev = @ + 1]
  OBVIOUS
<1>3. /\ m \in Message /\ m.body = messages[i].body /\ messages[i].rev <= m.rev
      /\ m.available = messages[i].available
  BY <1>1, <1>2 DEF Message
<1>4. messages' = [messages EXCEPT ![i] = m]
  BY <1>2 DEF Edit
<1> QED
  BY <1>3, <1>4, MessageKeeps DEF Edit

LEMMA RecallKeeps ==
  ASSUME SessionInv, NEW i \in DOMAIN messages, Recall(i)
  PROVE  SessionInv'
<1>1. messages[i] \in Message
  BY DEF SessionInv, Types
<1>2. PICK no : no = FALSE
  OBVIOUS
<1>3. no \in BOOLEAN
  BY <1>2
<1>4. PICK m : m = [messages[i] EXCEPT !.available = no]
  OBVIOUS
<1>5. m \in Message /\ m.body = messages[i].body /\ messages[i].rev <= m.rev /\ m.available = no
  BY <1>1, <1>3, <1>4 DEF Message
<1>6. messages' = [messages EXCEPT ![i] = m]
  BY <1>2, <1>4 DEF Recall
<1> QED
  BY <1>2, <1>5, <1>6, MessageKeeps DEF Recall

\* A turn moves while the one that is answered, and what is known, stay.
LEMMA TurnMoves ==
  ASSUME SessionInv, NEW i \in DOMAIN turns, NEW x \in Bound, turns' = [turns EXCEPT ![i] = x],
         turns[i].session # 0, x.session = turns[i].session, x.past = turns[i].past,
         x.status # "none", turns[i].rev <= x.rev, x.rev <= messages[i].rev,
         x.rev = turns[i].rev /\ turns[i].status \in {"completed", "cancelled"} =>
           x.status \in {"completed", "cancelled"},
         x.status \in {"pending", "running"} \/ i = run.turn => x.resume \in {0, x.past.native},
         UNCHANGED <<messages, sessions, processes, transcripts, run>>,
         queue' \in Seq(DOMAIN turns), OneTurn'
  PROVE  SessionInv'
<1>0. Types /\ Arrival /\ OneTurn /\ Remembers
  BY DEF SessionInv
<1>1. /\ turns' \in Seq(Bound) /\ Len(turns') = Len(turns) /\ DOMAIN turns' = DOMAIN turns
      /\ \A j \in DOMAIN turns : turns'[j] = IF j = i THEN x ELSE turns[j]
  BY <1>0, Replaced DEF Types
<1>2. Types'
  <2>1. \A j \in DOMAIN turns : turns'[j].session \in 0 .. Len(sessions)
          /\ turns'[j].rev <= messages[j].rev
    BY <1>0, <1>1 DEF Types
  <2> QED
    BY <1>0, <1>1, <2>1 DEF Types
<1>3. turns[i].status # "none"
  BY TurnFacts
<1>4. Arrival'
  BY <1>0, <1>1, <1>2, <1>3, ArrivalKeeps
<1>5. Quiet
  <2>1. \A j \in DOMAIN turns :
          /\ turns[j].session = 0 => turns[j] = Unbound
          /\ turns[j].rev \in Nat
          /\ turns[j].status \in {"pending", "running"} \/ j = run.turn =>
               turns[j].resume \in {0, turns[j].past.native}
    BY TurnFacts DEF Bound, Unbound
  <2>2. run' = Idle \/ run.turn # 0
    BY <1>0, Typed DEF Types, Idle
  <2>3. \A j \in DOMAIN turns :
         /\ turns'[j].session = turns[j].session /\ turns'[j].past = turns[j].past
         /\ turns'[j].session = 0 => turns'[j] = Unbound
         /\ turns[j].rev <= turns'[j].rev
         /\ turns'[j].rev = turns[j].rev /\ turns[j].status \in {"completed", "cancelled"} =>
              turns'[j].status \in {"completed", "cancelled"}
         /\ turns'[j].status \in {"pending", "running"} \/ j = run.turn =>
              turns'[j].resume \in {0, turns'[j].past.native}
    BY <1>1, <2>1
  <2> QED
    BY <1>1, <2>2, <2>3 DEF Quiet, Same
<1> QED
  BY <1>2, <1>4, <1>5, QuietKeeps

\* The queue after one turn was taken out of it, and put behind.
LEMMA Requeued ==
  ASSUME Types, OneTurn, NEW i \in DOMAIN turns,
         NEW r, r = RemoveFirst(queue, i)
  PROVE  /\ r \in Seq(DOMAIN turns) /\ Append(r, i) \in Seq(DOMAIN turns)
         /\ \A n \in DOMAIN r : r[n] # i /\ r[n] \in DOMAIN turns /\ turns[r[n]].status = "pending"
         /\ \A m, n \in DOMAIN r : r[m] = r[n] => m = n
         /\ \A n \in DOMAIN Append(r, i) : Append(r, i)[n] = i \/
              (Append(r, i)[n] \in DOMAIN turns /\ turns[Append(r, i)[n]].status = "pending")
         /\ \A m, n \in DOMAIN Append(r, i) : Append(r, i)[m] = Append(r, i)[n] => m = n
<1>1. queue \in Seq(DOMAIN turns) /\ \A m, n \in DOMAIN queue : queue[m] = queue[n] => m = n
  BY DEF Types, OneTurn
<1>2. /\ r \in Seq(DOMAIN turns)
      /\ \A n \in DOMAIN r : r[n] # i /\ \E m \in DOMAIN queue : queue[m] = r[n]
      /\ \A m, n \in DOMAIN r : r[m] = r[n] => m = n
  BY <1>1, Dequeued
<1>3. \A n \in DOMAIN r : r[n] \in DOMAIN turns /\ turns[r[n]].status = "pending"
  BY <1>2 DEF OneTurn
<1>4. /\ Append(r, i) \in Seq(DOMAIN turns) /\ DOMAIN Append(r, i) = 1 .. Len(r) + 1
      /\ Append(r, i)[Len(r) + 1] = i /\ \A j \in 1 .. Len(r) : Append(r, i)[j] = r[j]
  BY <1>2, Grown
<1>5. DOMAIN r = 1 .. Len(r) /\ Len(r) \in Nat
  BY <1>2
<1>6. \A n \in DOMAIN Append(r, i) : n = Len(r) + 1 \/ (n \in DOMAIN r /\ Append(r, i)[n] = r[n])
  BY <1>4, <1>5
<1>7. \A n \in DOMAIN Append(r, i) : Append(r, i)[n] = i \/
              (Append(r, i)[n] \in DOMAIN turns /\ turns[Append(r, i)[n]].status = "pending")
  BY <1>3, <1>4, <1>6
<1>8. \A m, n \in DOMAIN Append(r, i) : Append(r, i)[m] = Append(r, i)[n] => m = n
  BY <1>2, <1>4, <1>6
<1> QED
  BY <1>2, <1>3, <1>4, <1>7, <1>8

\* A turn that did not wait is put behind those that do.
LEMMA Queued ==
  ASSUME Types, OneTurn, NEW i \in DOMAIN turns, turns[i].status # "pending"
  PROVE  /\ Append(queue, i) \in Seq(DOMAIN turns)
         /\ \A n \in DOMAIN Append(queue, i) : Append(queue, i)[n] = i \/
              (Append(queue, i)[n] \in DOMAIN turns
                /\ turns[Append(queue, i)[n]].status = "pending")
         /\ \A m, n \in DOMAIN Append(queue, i) :
              Append(queue, i)[m] = Append(queue, i)[n] => m = n
<1>1. /\ queue \in Seq(DOMAIN turns)
      /\ \A n \in DOMAIN queue : queue[n] # i /\ queue[n] \in DOMAIN turns
                                 /\ turns[queue[n]].status = "pending"
      /\ \A m, n \in DOMAIN queue : queue[m] = queue[n] => m = n
  BY DEF Types, OneTurn
<1>2. /\ Append(queue, i) \in Seq(DOMAIN turns) /\ DOMAIN Append(queue, i) = 1 .. Len(queue) + 1
      /\ Append(queue, i)[Len(queue) + 1] = i
      /\ \A j \in 1 .. Len(queue) : Append(queue, i)[j] = queue[j]
  BY <1>1, Grown
<1>3. DOMAIN queue = 1 .. Len(queue) /\ Len(queue) \in Nat
  BY <1>1
<1>4. \A n \in DOMAIN Append(queue, i) :
        n = Len(queue) + 1 \/ (n \in DOMAIN queue /\ Append(queue, i)[n] = queue[n])
  BY <1>2, <1>3
<1>5. \A n \in DOMAIN Append(queue, i) : Append(queue, i)[n] = i \/
        (Append(queue, i)[n] \in DOMAIN turns /\ turns[Append(queue, i)[n]].status = "pending")
  BY <1>1, <1>2, <1>4
<1>6. \A m, n \in DOMAIN Append(queue, i) : Append(queue, i)[m] = Append(queue, i)[n] => m = n
  BY <1>1, <1>2, <1>4
<1> QED
  BY <1>2, <1>5, <1>6

LEMMA RevisionKeeps ==
  ASSUME SessionInv, NEW i \in DOMAIN messages, QueueRevision(i)
  PROVE  SessionInv'
<1>0. Types /\ Arrival /\ OneTurn
  BY DEF SessionInv
<1>1. i \in DOMAIN turns
  BY <1>0, Typed
<1>2. turns[i] \in Bound /\ messages[i] \in Message /\ turns[i].session # 0
      /\ messages[i].rev > turns[i].rev
  BY <1>1, TurnFacts DEF QueueRevision
<1>3. messages[i].rev \in Nat /\ turns[i].rev \in Nat
  BY <1>2 DEF Message, Bound
<1>4. PICK x : x = [turns[i] EXCEPT !.status = "pending", !.rev = messages[i].rev, !.resume = 0]
  OBVIOUS
<1>5. /\ x \in Bound /\ x.session = turns[i].session /\ x.past = turns[i].past
      /\ x.status = "pending" /\ x.rev = messages[i].rev /\ x.resume = 0
  BY <1>2, <1>3, <1>4 DEF Bound, Status
<1>6. turns' = [turns EXCEPT ![i] = x] /\ queue' = Append(RemoveFirst(queue, i), i)
      /\ UNCHANGED <<messages, sessions, processes, transcripts, run>>
  BY <1>4 DEF QueueRevision
<1>7. /\ DOMAIN turns' = DOMAIN turns
      /\ \A j \in DOMAIN turns : turns'[j] = IF j = i THEN x ELSE turns[j]
  BY <1>0, <1>1, <1>5, <1>6, Replaced DEF Types
<1>8. /\ queue' \in Seq(DOMAIN turns)
      /\ \A n \in DOMAIN queue' : queue'[n] = i \/
           (queue'[n] \in DOMAIN turns /\ turns[queue'[n]].status = "pending")
      /\ \A m, n \in DOMAIN queue' : queue'[m] = queue'[n] => m = n
  BY <1>0, <1>1, <1>6, Requeued
<1>9. messages[i].available
  BY DEF QueueRevision
<1>10. OneTurn'
  <2>1. \A n \in DOMAIN queue' : turns'[queue'[n]].status = "pending"
    BY <1>1, <1>5, <1>7, <1>8
  <2>2. /\ \A j \in DOMAIN turns' : turns'[j].status = "running"
           => j = run.turn /\ turns'[j].rev = run.rev
        /\ \A j \in DOMAIN turns' : turns'[j].status = "cancelled" => ~messages[j].available
    BY <1>0, <1>5, <1>7 DEF OneTurn
  <2>3. ASSUME run.turn # 0
        PROVE  /\ turns'[run.turn].status \notin {"none", "failed"}
                  /\ run.rev <= turns'[run.turn].rev
               /\ turns'[run.turn].status = "running"
                  => run.step \in {"started", "asked", "replied"}
               /\ run.step \in {"started", "asked", "accepted"} => messages[run.turn].body = "text"
    <3>1. run.turn \in DOMAIN turns /\ run.rev \in Nat
      BY <1>0, <2>3 DEF Types, Idle, Run
    <3> QED
      BY <1>0, <1>2, <1>3, <1>5, <1>7, <2>3, <3>1 DEF OneTurn
  <2> QED
    BY <1>6, <1>8, <2>1, <2>2, <2>3 DEF OneTurn
<1>11. /\ x.status # "none" /\ turns[i].rev <= x.rev /\ x.rev <= messages[i].rev
       /\ x.rev = turns[i].rev /\ turns[i].status \in {"completed", "cancelled"} =>
            x.status \in {"completed", "cancelled"}
       /\ x.status \in {"pending", "running"} \/ i = run.turn => x.resume \in {0, x.past.native}
  BY <1>2, <1>3, <1>5
<1>12. UNCHANGED <<messages, sessions, processes, transcripts, run>>
  BY <1>6
<1> QED
  BY <1>1, <1>2, <1>5, <1>6, <1>8, <1>10, <1>11, <1>12, TurnMoves

LEMMA CancelKeeps ==
  ASSUME SessionInv, NEW i \in DOMAIN messages, CancelRecalled(i)
  PROVE  SessionInv'
<1>0. Types /\ Arrival /\ OneTurn
  BY DEF SessionInv
<1>1. i \in DOMAIN turns
  BY <1>0, Typed
<1>2. /\ turns[i] \in Bound /\ turns[i].session # 0 /\ turns[i].rev <= messages[i].rev
      /\ turns[i].rev \in Nat
      /\ turns[i].status \in {"pending", "running"} \/ i = run.turn =>
           turns[i].resume \in {0, turns[i].past.native}
  BY <1>1, TurnFacts DEF CancelRecalled, Bound
<1>3. ~messages[i].available /\ turns[i].status # "none"
  BY DEF CancelRecalled
<1>4. PICK x : x = [turns[i] EXCEPT !.status = "cancelled"]
  OBVIOUS
<1>5. /\ x \in Bound /\ x.session = turns[i].session /\ x.past = turns[i].past
      /\ x.status = "cancelled" /\ x.rev = turns[i].rev /\ x.resume = turns[i].resume
  BY <1>2, <1>4 DEF Bound, Status
<1>6. turns' = [turns EXCEPT ![i] = x] /\ queue' = RemoveFirst(queue, i)
      /\ UNCHANGED <<messages, sessions, processes, transcripts, run>>
  BY <1>4 DEF CancelRecalled
<1>7. /\ DOMAIN turns' = DOMAIN turns
      /\ \A j \in DOMAIN turns : turns'[j] = IF j = i THEN x ELSE turns[j]
  BY <1>0, <1>1, <1>5, <1>6, Replaced DEF Types
<1>8. /\ queue' \in Seq(DOMAIN turns)
      /\ \A n \in DOMAIN queue' : queue'[n] # i /\ queue'[n] \in DOMAIN turns
                                  /\ turns[queue'[n]].status = "pending"
      /\ \A m, n \in DOMAIN queue' : queue'[m] = queue'[n] => m = n
  BY <1>0, <1>1, <1>6, Requeued
<1>10. OneTurn'
  <2>1. \A n \in DOMAIN queue' : turns'[queue'[n]].status = "pending"
    BY <1>1, <1>7, <1>8
  <2>2. /\ \A j \in DOMAIN turns' : turns'[j].status = "running"
           => j = run.turn /\ turns'[j].rev = run.rev
        /\ \A j \in DOMAIN turns' : turns'[j].status = "cancelled" => ~messages[j].available
    BY <1>0, <1>3, <1>5, <1>7 DEF OneTurn
  <2>3. ASSUME run.turn # 0
        PROVE  /\ turns'[run.turn].status \notin {"none", "failed"}
                  /\ run.rev <= turns'[run.turn].rev
               /\ turns'[run.turn].status = "running"
                  => run.step \in {"started", "asked", "replied"}
               /\ run.step \in {"started", "asked", "accepted"} => messages[run.turn].body = "text"
    <3>1. run.turn \in DOMAIN turns
      BY <1>0, <2>3 DEF Types, Idle
    <3> QED
      BY <1>0, <1>5, <1>7, <2>3, <3>1 DEF OneTurn
  <2> QED
    BY <1>6, <1>8, <2>1, <2>2, <2>3 DEF OneTurn
<1>11. /\ x.status # "none" /\ turns[i].rev <= x.rev /\ x.rev <= messages[i].rev
       /\ x.rev = turns[i].rev /\ turns[i].status \in {"completed", "cancelled"} =>
            x.status \in {"completed", "cancelled"}
       /\ x.status \in {"pending", "running"} \/ i = run.turn => x.resume \in {0, x.past.native}
  BY <1>2, <1>5
<1>12. UNCHANGED <<messages, sessions, processes, transcripts, run>>
  BY <1>6
<1> QED
  BY <1>1, <1>2, <1>5, <1>6, <1>8, <1>10, <1>11, <1>12, TurnMoves

\* A retry and a continuation.
LEMMA AgainKeeps ==
  ASSUME SessionInv, NEW i \in DOMAIN messages, turns[i].status = "failed",
         NEW n \in {0, turns[i].past.native},
         turns' = [turns EXCEPT ![i].status = "pending", ![i].resume = n],
         queue' = Append(queue, i), UNCHANGED <<messages, sessions, processes, transcripts, run>>
  PROVE  SessionInv'
<1>0. Types /\ Arrival /\ OneTurn
  BY DEF SessionInv
<1>1. i \in DOMAIN turns
  BY <1>0, Typed
<1>2. /\ turns[i] \in Bound /\ turns[i].session # 0 /\ turns[i].rev <= messages[i].rev
      /\ turns[i].rev \in Nat /\ n \in Nat
  BY <1>1, TurnFacts DEF Bound
<1>3. i # run.turn
  <2>1. run.turn # 0 => turns[run.turn].status # "failed"
    BY <1>0 DEF OneTurn
  <2> QED
    BY <1>0, <1>1, <2>1, Typed
<1>4. PICK x : x = [turns[i] EXCEPT !.status = "pending", !.resume = n]
  OBVIOUS
<1>5. /\ x \in Bound /\ x.session = turns[i].session /\ x.past = turns[i].past
      /\ x.status = "pending" /\ x.rev = turns[i].rev /\ x.resume = n
  BY <1>2, <1>4 DEF Bound, Status
<1>6. turns' = [turns EXCEPT ![i] = x]
  BY <1>4
<1>7. /\ DOMAIN turns' = DOMAIN turns
      /\ \A j \in DOMAIN turns : turns'[j] = IF j = i THEN x ELSE turns[j]
  BY <1>0, <1>1, <1>5, <1>6, Replaced DEF Types
<1>8. /\ queue' \in Seq(DOMAIN turns)
      /\ \A m \in DOMAIN queue' : queue'[m] = i \/
           (queue'[m] \in DOMAIN turns /\ turns[queue'[m]].status = "pending")
      /\ \A m, o \in DOMAIN queue' : queue'[m] = queue'[o] => m = o
  BY <1>0, <1>1, Queued
<1>10. OneTurn'
  <2>1. \A m \in DOMAIN queue' : turns'[queue'[m]].status = "pending"
    BY <1>1, <1>5, <1>7, <1>8
  <2>2. /\ \A j \in DOMAIN turns' : turns'[j].status = "running"
           => j = run.turn /\ turns'[j].rev = run.rev
        /\ \A j \in DOMAIN turns' : turns'[j].status = "cancelled" => ~messages[j].available
    BY <1>0, <1>5, <1>7 DEF OneTurn
  <2>3. ASSUME run.turn # 0
        PROVE  /\ turns'[run.turn].status \notin {"none", "failed"}
                  /\ run.rev <= turns'[run.turn].rev
               /\ turns'[run.turn].status = "running"
                  => run.step \in {"started", "asked", "replied"}
               /\ run.step \in {"started", "asked", "accepted"} => messages[run.turn].body = "text"
    <3>1. run.turn \in DOMAIN turns
      BY <1>0, <2>3 DEF Types, Idle
    <3> QED
      BY <1>0, <1>3, <1>7, <2>3, <3>1 DEF OneTurn
  <2> QED
    BY <1>8, <2>1, <2>2, <2>3 DEF OneTurn
<1>11. /\ x.status # "none" /\ turns[i].rev <= x.rev /\ x.rev <= messages[i].rev
       /\ x.rev = turns[i].rev /\ turns[i].status \in {"completed", "cancelled"} =>
            x.status \in {"completed", "cancelled"}
       /\ x.status \in {"pending", "running"} \/ i = run.turn => x.resume \in {0, x.past.native}
  BY <1>2, <1>5
<1>12. UNCHANGED <<messages, sessions, processes, transcripts, run>>
  OBVIOUS
<1> QED
  BY <1>1, <1>2, <1>5, <1>6, <1>8, <1>10, <1>11, <1>12, TurnMoves

LEMMA OperatorKeeps ==
  ASSUME SessionInv, NEW i \in DOMAIN messages, RetryTask(i) \/ ResumeRuntimeTask(i)
  PROVE  SessionInv'
<1>1. CASE RetryTask(i)
  BY <1>1, AgainKeeps DEF RetryTask
<1>2. CASE ResumeRuntimeTask(i)
  BY <1>2, AgainKeeps DEF ResumeRuntimeTask
<1> QED
  BY <1>1, <1>2

----------------------------------------------------------------------------
(* The end of a turn.                                                      *)

\* The turn that is answered ends, and with it perhaps its process.
LEMMA TurnEnds ==
  ASSUME SessionInv, run' = Idle, UNCHANGED <<messages, queue, sessions, transcripts>>,
         processes' \in Seq(Process), Len(processes') = Len(processes),
         \A k \in DOMAIN sessions : processes'[k] = processes[k] \/ processes'[k] = NoProcess,
         turns' \in Seq(Bound), Len(turns') = Len(turns),
         \A i \in DOMAIN turns :
           \/ turns'[i] = turns[i] /\ turns[i].status # "running"
           \/ /\ turns'[i].session = turns[i].session /\ turns'[i].rev = turns[i].rev
              /\ \/ turns[i].status = "running" /\ turns'[i].status = "failed"
                 \/ turns[i].status = "completed" /\ turns'[i].status = "completed"
              /\ \/ turns'[i].past = turns[i].past
                 \/ /\ i = run.turn
                    /\ turns'[i].past = [native |-> run.recorded, history |-> run.history]
  PROVE  SessionInv'
<1>0. Types /\ Arrival /\ OneTurn
  BY DEF SessionInv
<1>1. DOMAIN turns' = DOMAIN turns
  BY <1>0 DEF Types
<1>2. \A i \in DOMAIN turns :
        /\ turns'[i].session = turns[i].session /\ turns'[i].rev = turns[i].rev
        /\ turns[i].rev \in Nat
        /\ turns'[i].status = "none" <=> turns[i].status = "none"
        /\ turns[i].status = "pending" => turns'[i].status = "pending"
        /\ turns'[i].status # "running"
        /\ turns'[i].status \in {"pending", "cancelled"} => turns'[i] = turns[i]
        /\ turns[i].session = 0 => turns[i] = Unbound /\ turns'[i] = turns[i]
  BY TurnFacts DEF Bound, Unbound
<1>3. Types'
  <2>1. \A i \in DOMAIN turns : turns'[i].session \in 0 .. Len(sessions)
          /\ turns'[i].rev <= messages[i].rev
    BY <1>0, <1>2 DEF Types
  <2> QED
    BY <1>0, <1>1, <2>1, IdleTyped DEF Types
<1>4. OneTurn'
  <2>1. \A n \in DOMAIN queue : queue[n] \in DOMAIN turns
    BY <1>0 DEF Types
  <2> QED
    BY <1>0, <1>1, <1>2, <2>1, IdleTyped DEF OneTurn
<1>5. Arrival'
  BY <1>0, <1>1, <1>2, <1>3, ArrivalKeeps
<1>6. Quiet
  <2>1. \A i \in DOMAIN turns : turns'[i].status \in {"pending", "running"} \/ i = run'.turn =>
               turns'[i].resume \in {0, turns'[i].past.native}
    <3>1. run'.turn = 0
      BY IdleTyped
    <3>2. \A i \in DOMAIN turns : i # 0
      BY <1>0, Typed
    <3>3. \A i \in DOMAIN turns : turns[i].status = "pending" =>
            turns[i].resume \in {0, turns[i].past.native}
      BY <1>2, TurnFacts DEF Unbound
    <3> QED
      BY <1>2, <3>1, <3>2, <3>3
  <2>2. \A i \in DOMAIN turns :
          \/ turns'[i].past = turns[i].past
          \/ /\ i = run.turn
             /\ turns'[i].past = [native |-> run.recorded, history |-> run.history]
    OBVIOUS
  <2>3. \A i \in DOMAIN turns :
          turns'[i].rev = turns[i].rev /\ turns[i].status \in {"completed", "cancelled"} =>
            turns'[i].status \in {"completed", "cancelled"}
    OBVIOUS
  <2> QED
    BY <1>1, <1>2, <2>1, <2>2, <2>3 DEF Quiet
<1> QED
  BY <1>3, <1>4, <1>5, <1>6, QuietKeeps

\* The processes after the one of the session was closed.
LEMMA ProcessClosed ==
  ASSUME SessionInv, run.turn # 0
  PROVE  /\ [processes EXCEPT ![Here] = NoProcess] \in Seq(Process)
         /\ Len([processes EXCEPT ![Here] = NoProcess]) = Len(processes)
         /\ \A k \in DOMAIN sessions :
              [processes EXCEPT ![Here] = NoProcess][k] \in {processes[k], NoProcess}
<1>1. Here \in DOMAIN processes /\ DOMAIN sessions = DOMAIN processes
  BY RunBound, Typed DEF SessionInv
<1>2. processes \in Seq(Process) /\ NoProcess \in Process
  BY UnboundTyped DEF SessionInv, Types
<1> QED
  BY <1>1, <1>2, Replaced

LEMMA FailKeeps ==
  ASSUME SessionInv, run.turn # 0, FailTurn, UNCHANGED <<messages, queue, sessions, transcripts>>
  PROVE  SessionInv'
<1>0. Types /\ Arrival /\ OneTurn
  BY DEF SessionInv
<1>1. run.turn \in DOMAIN turns
  BY <1>0, RunBound
<1>2. /\ processes' \in Seq(Process) /\ Len(processes') = Len(processes)
      /\ \A k \in DOMAIN sessions : processes'[k] = processes[k] \/ processes'[k] = NoProcess
      /\ run' = Idle
  BY ProcessClosed DEF FailTurn
<1>3. CASE turns[run.turn].status = "running" /\ turns[run.turn].rev = run.rev
  <2>1. turns[run.turn] \in Bound /\ run.recorded \in Nat /\ run.history \in SUBSET Turn
    BY <1>0, <1>1, TurnFacts DEF Types, Run
  <2>2. PICK x : x = [turns[run.turn] EXCEPT !.status = "failed",
                        !.past = [native |-> run.recorded, history |-> run.history]]
    OBVIOUS
  <2>3. /\ x \in Bound /\ x.status = "failed" /\ x.session = turns[run.turn].session
        /\ x.rev = turns[run.turn].rev
        /\ x.past = [native |-> run.recorded, history |-> run.history]
    BY <2>1, <2>2 DEF Bound, Status
  <2>4. turns' = [turns EXCEPT ![run.turn] = x]
    BY <1>3, <2>2 DEF FailTurn
  <2>5. /\ turns' \in Seq(Bound) /\ Len(turns') = Len(turns)
        /\ \A j \in DOMAIN turns : turns'[j] = IF j = run.turn THEN x ELSE turns[j]
    BY <1>0, <1>1, <2>3, <2>4, Replaced DEF Types
  <2>6. \A j \in DOMAIN turns : j # run.turn => turns[j].status # "running"
    BY <1>0 DEF OneTurn
  <2> QED
    BY <1>2, <1>3, <2>3, <2>5, <2>6, TurnEnds
<1>4. CASE ~(turns[run.turn].status = "running" /\ turns[run.turn].rev = run.rev)
  <2>1. turns' = turns
    BY <1>4 DEF FailTurn
  <2>2. \A j \in DOMAIN turns : turns[j].status # "running"
    BY <1>0, <1>4 DEF OneTurn
  <2>3. turns' \in Seq(Bound) /\ Len(turns') = Len(turns)
    BY <1>0, <2>1 DEF Types
  <2> QED
    BY <1>2, <2>1, <2>2, <2>3, TurnEnds
<1> QED
  BY <1>3, <1>4

LEMMA CrashKeeps ==
  ASSUME SessionInv, CrashAndRecover
  PROVE  SessionInv'
<1>0. Types /\ Arrival /\ OneTurn
  BY DEF SessionInv
<1>1. /\ processes' = [k \in DOMAIN processes |-> NoProcess] /\ run' = Idle
      /\ UNCHANGED <<messages, queue, sessions, transcripts>>
  BY DEF CrashAndRecover
<1>2. /\ processes' \in Seq(Process) /\ Len(processes') = Len(processes)
      /\ \A k \in DOMAIN sessions : processes'[k] = NoProcess
  <2>1. DOMAIN processes = 1 .. Len(sessions) /\ Len(sessions) \in Nat
          /\ Len(processes) = Len(sessions)
        /\ DOMAIN sessions = 1 .. Len(sessions)
    BY <1>0, Typed DEF Types
  <2>2. processes' \in [1 .. Len(sessions) -> Process]
    BY <1>1, <2>1, UnboundTyped
  <2> QED
    BY <1>1, <2>1, <2>2, Built
<1>3. PICK failed : failed = [native |-> run.recorded, history |-> run.history]
  OBVIOUS
<1>4. failed \in [native : Nat, history : SUBSET Turn]
  BY <1>0, <1>3 DEF Types, Run
<1>5. DOMAIN turns' = DOMAIN turns
      /\ \A i \in DOMAIN turns : turns'[i] = IF turns[i].status = "running"
                                             THEN [turns[i] EXCEPT !.status = "failed",
                                               !.past = failed]
                                             ELSE turns[i]
  BY <1>3 DEF CrashAndRecover
<1>6. \A i \in DOMAIN turns : turns[i].status = "running" =>
        /\ turns'[i] \in Bound /\ turns'[i].session = turns[i].session
        /\ turns'[i].rev = turns[i].rev /\ turns'[i].status = "failed" /\ turns'[i].past = failed
        /\ i = run.turn
  <2> SUFFICES ASSUME NEW i \in DOMAIN turns, turns[i].status = "running"
               PROVE  /\ turns'[i] \in Bound /\ turns'[i].session = turns[i].session
                      /\ turns'[i].rev = turns[i].rev /\ turns'[i].status = "failed"
                      /\ turns'[i].past = failed /\ i = run.turn
    OBVIOUS
  <2>1. turns[i] \in Bound /\ i = run.turn
    BY TurnFacts
  <2>2. PICK x : x = [turns[i] EXCEPT !.status = "failed", !.past = failed]
    OBVIOUS
  <2>3. /\ x \in Bound /\ x.session = turns[i].session /\ x.rev = turns[i].rev
        /\ x.status = "failed" /\ x.past = failed
    BY <1>4, <2>1, <2>2 DEF Bound, Status
  <2>4. turns'[i] = x
    BY <1>5, <2>2
  <2> QED
    BY <2>1, <2>3, <2>4
<1>7. turns' \in Seq(Bound) /\ Len(turns') = Len(turns)
  <2>1. DOMAIN turns = 1 .. Len(turns) /\ Len(turns) \in Nat
    BY <1>0 DEF Types
  <2>2. \A i \in DOMAIN turns : turns'[i] \in Bound
    BY <1>5, <1>6, TurnFacts
  <2>3. turns' = [i \in 1 .. Len(turns) |-> turns'[i]]
    BY <1>5, <2>1 DEF CrashAndRecover
  <2>4. turns' \in [1 .. Len(turns) -> Bound]
    BY <2>1, <2>2, <2>3
  <2> QED
    BY <2>1, <2>4, Built
<1> QED
  BY <1>1, <1>2, <1>3, <1>5, <1>6, <1>7, TurnEnds

LEMMA NotDeliveredKeeps ==
  ASSUME SessionInv, AnswerNotDelivered
  PROVE  SessionInv'
<1>0. Types /\ OneTurn
  BY DEF SessionInv
<1>1. run.turn # 0 /\ run.step = "completed"
  BY <1>0 DEF Types, AnswerNotDelivered
<1>2. /\ processes' \in Seq(Process) /\ Len(processes') = Len(processes)
      /\ \A k \in DOMAIN sessions : processes'[k] = processes[k] \/ processes'[k] = NoProcess
  BY <1>1, ProcessClosed DEF AnswerNotDelivered
<1>3. \A i \in DOMAIN turns : turns[i].status # "running"
  BY <1>0, <1>1 DEF OneTurn
<1>4. turns' = turns /\ turns' \in Seq(Bound)
  BY <1>0 DEF AnswerNotDelivered, Types
<1> QED
  BY <1>2, <1>3, <1>4, TurnEnds DEF AnswerNotDelivered

\* The turn that is answered goes on to its next step.
LEMMA TurnGoesOn ==
  ASSUME SessionInv, run.turn # 0, run.step \notin {"started", "asked"},
         NEW s \in {"completed", "accepted"}, run' = [run EXCEPT !.step = s],
         s = "accepted" => messages[run.turn].body = "text",
         UNCHANGED <<messages, queue, sessions, processes, transcripts>>,
         NEW x \in Bound, turns' = [turns EXCEPT ![run.turn] = x],
         x.session = Here, x.past = turns[run.turn].past, x.rev = turns[run.turn].rev,
         x.rev = run.rev, x.status = "completed",
           turns[run.turn].status \in {"running", "completed"},
         x.resume \in {0, x.past.native}
  PROVE  SessionInv'
<1>0. Types /\ Arrival /\ OneTurn
  BY DEF SessionInv
<1>1. run.turn \in DOMAIN turns /\ run.turn \in Nat /\ run.rev \in Nat /\ Here # 0
  BY <1>0, RunBound, Typed DEF Types, Run
<1>2. /\ turns' \in Seq(Bound) /\ Len(turns') = Len(turns) /\ DOMAIN turns' = DOMAIN turns
      /\ \A j \in DOMAIN turns : turns'[j] = IF j = run.turn THEN x ELSE turns[j]
  BY <1>0, <1>1, Replaced DEF Types
<1>3. run' \in Run /\ Same(run', run) /\ run'.step = s
  BY <1>0 DEF Types, Run, Steps, Same
<1>4. Types'
  <2>1. \A j \in DOMAIN turns : turns'[j].session \in 0 .. Len(sessions)
          /\ turns'[j].rev <= messages[j].rev
    BY <1>0, <1>1, <1>2 DEF Types, Here
  <2>2. run'.turn \in DOMAIN turns' /\ (run'.step = "idle" <=> run'.turn = 0)
    BY <1>1, <1>2, <1>3 DEF Same
  <2> QED
    BY <1>0, <1>2, <1>3, <2>1, <2>2 DEF Types
<1>5. \A j \in DOMAIN turns :
        /\ turns'[j].session = turns[j].session /\ turns'[j].rev = turns[j].rev
        /\ turns'[j].status = "none" <=> turns[j].status = "none"
        /\ turns'[j].status \in {"pending", "cancelled", "running"} => turns'[j] = turns[j]
        /\ turns[j].status = "pending" => turns'[j] = turns[j]
        /\ j = run.turn => turns'[j].status = "completed"
        /\ turns'[j].past = turns[j].past
  BY <1>2 DEF Here
<1>6. OneTurn'
  <2>1. \A n \in DOMAIN queue : queue[n] \in DOMAIN turns
    BY <1>0 DEF Types
  <2>2. /\ \A n \in DOMAIN queue : turns'[queue[n]].status = "pending"
        /\ \A m, n \in DOMAIN queue : queue[m] = queue[n] => m = n
    BY <1>0, <1>5, <2>1 DEF OneTurn
  <2>3. /\ \A i \in DOMAIN turns : turns'[i].status = "running"
           => i = run.turn /\ turns'[i].rev = run.rev
        /\ \A i \in DOMAIN turns : turns'[i].status = "cancelled" => ~messages[i].available
    BY <1>0, <1>5 DEF OneTurn
  <2>4. /\ turns'[run.turn].status = "completed" /\ run.rev <= turns'[run.turn].rev
    BY <1>1, <1>2
  <2> QED
    BY <1>2, <1>3, <2>2, <2>3, <2>4 DEF OneTurn, Same
<1>7. Arrival'
  BY <1>0, <1>2, <1>4, <1>5, ArrivalKeeps
<1>8. Quiet
  <2>1. \A i \in DOMAIN turns : turns'[i].status \in {"pending", "running"} \/ i = run'.turn =>
               turns'[i].resume \in {0, turns'[i].past.native}
    <3>1. \A i \in DOMAIN turns : turns[i].status \in {"pending", "running"} =>
            turns[i].resume \in {0, turns[i].past.native}
      BY TurnFacts DEF Unbound
    <3> QED
      BY <1>2, <1>3, <1>5, <3>1 DEF Same
  <2>2. Done(Own)'
    <3>1. Own' = <<run.turn, run.rev>>
      BY <1>3 DEF Own, Same
    <3> QED
      BY <1>1, <1>2, <3>1 DEF Done
  <2>3. \A i \in DOMAIN turns :
          /\ turns[i].rev <= turns'[i].rev
          /\ turns'[i].session = 0 => turns'[i] = Unbound
          /\ turns[i].status \in {"completed", "cancelled"} =>
               turns'[i].status \in {"completed", "cancelled"}
    <3>1. \A i \in DOMAIN turns : turns[i].rev \in Nat
            /\ (turns[i].session = 0 => turns[i] = Unbound)
      BY TurnFacts DEF Bound
    <3>2. turns'[run.turn].session # 0
      BY <1>1, <1>2
    <3> QED
      BY <1>2, <1>5, <3>1, <3>2
  <2> QED
    BY <1>1, <1>2, <1>3, <1>5, <2>1, <2>2, <2>3 DEF Quiet
<1> QED
  BY <1>4, <1>6, <1>7, <1>8, QuietKeeps

LEMMA CompleteKeeps ==
  ASSUME SessionInv, CompleteRuntimeTask
  PROVE  SessionInv'
<1>0. Types /\ OneTurn
  BY DEF SessionInv
<1>1. run.turn # 0 /\ run.step = "replied" /\ UNCHANGED <<messages, queue, sessions, transcripts>>
  BY <1>0 DEF Types, CompleteRuntimeTask
<1>2. CASE turns[run.turn].status = "running" /\ turns[run.turn].rev = run.rev /\ Current(run.turn)
  <2>1. turns[run.turn] \in Bound
    BY <1>0, <1>1, TurnFacts, Typed
  <2>2. PICK x : x = [turns[run.turn] EXCEPT !.status = "completed", !.resume = 0]
    OBVIOUS
  <2>3. /\ x \in Bound /\ x.session = Here /\ x.past = turns[run.turn].past
        /\ x.rev = turns[run.turn].rev /\ x.status = "completed" /\ x.resume = 0
    BY <2>1, <2>2 DEF Bound, Status, Here
  <2>4. /\ turns' = [turns EXCEPT ![run.turn] = x] /\ run' = [run EXCEPT !.step = "completed"]
        /\ UNCHANGED processes
    BY <1>2, <2>2 DEF CompleteRuntimeTask
  <2> QED
    BY <1>1, <1>2, <2>3, <2>4, TurnGoesOn
<1>3. CASE ~(turns[run.turn].status = "running" /\ turns[run.turn].rev = run.rev
             /\ Current(run.turn))
  <2>1. FailTurn
    BY <1>3 DEF CompleteRuntimeTask
  <2> QED
    BY <1>1, <2>1, FailKeeps
<1> QED
  BY <1>2, <1>3

LEMMA AnswerKeeps ==
  ASSUME SessionInv, DeliverAnswer
  PROVE  SessionInv'
<1>0. Types /\ OneTurn /\ Accepted
  BY DEF SessionInv
<1>1. /\ run.turn # 0 /\ run.step = "completed" /\ turns[run.turn].rev = run.rev
      /\ UNCHANGED <<messages, queue, sessions, processes, transcripts>>
  BY <1>0 DEF Types, DeliverAnswer
<1>2. run.turn \in DOMAIN turns /\ run.rev \in Nat
  BY <1>0, <1>1, Typed DEF Types, Run
<1>3. /\ turns[run.turn] \in Bound /\ messages[run.turn] \in Message
      /\ turns[run.turn].resume \in {0, turns[run.turn].past.native}
      /\ turns[run.turn].status = "cancelled" => ~messages[run.turn].available
  BY <1>2, TurnFacts DEF Unbound
<1>4. turns[run.turn].status = "completed"
  <2>1. Done(Own)
    BY <1>0, <1>1 DEF Accepted
  <2>2. turns[run.turn].status \in {"completed", "cancelled"}
    BY <1>1, <2>1 DEF Done, Own
  <2>3. messages[run.turn].available
    BY DEF DeliverAnswer, Current, Available
  <2> QED
    BY <1>3, <2>2, <2>3
<1>5. PICK x : x = [turns[run.turn] EXCEPT !.delivered = @ \cup {run.rev}]
  OBVIOUS
<1>6. /\ x \in Bound /\ x.session = Here /\ x.past = turns[run.turn].past
      /\ x.rev = turns[run.turn].rev /\ x.status = "completed" /\ x.resume = turns[run.turn].resume
  BY <1>2, <1>3, <1>4, <1>5 DEF Bound, Here
<1>7. turns' = [turns EXCEPT ![run.turn] = x]
  BY <1>5 DEF DeliverAnswer
<1>8. CASE messages[run.turn].body = "clear"
  <2>1. run' = Idle
    BY <1>8 DEF DeliverAnswer
  <2>2. /\ turns' \in Seq(Bound) /\ Len(turns') = Len(turns)
        /\ \A j \in DOMAIN turns : turns'[j] = IF j = run.turn THEN x ELSE turns[j]
    BY <1>0, <1>2, <1>6, <1>7, Replaced DEF Types
  <2>3. \A i \in DOMAIN turns : turns[i].status # "running"
    BY <1>0, <1>1 DEF OneTurn
  <2>4. processes' \in Seq(Process) /\ processes' = processes
    BY <1>0, <1>1 DEF Types
  <2> QED
    BY <1>1, <1>4, <1>6, <2>1, <2>2, <2>3, <2>4, TurnEnds DEF Here
<1>9. CASE messages[run.turn].body # "clear"
  <2>1. run' = [run EXCEPT !.step = "accepted"]
    BY <1>9 DEF DeliverAnswer
  <2>2. messages[run.turn].body = "text"
    BY <1>3, <1>9 DEF Message
  <2> QED
    BY <1>1, <1>3, <1>4, <1>6, <1>7, <2>1, <2>2, TurnGoesOn
<1> QED
  BY <1>8, <1>9

LEMMA LoseKeeps ==
  ASSUME SessionInv, NEW n \in DOMAIN transcripts, LoseTranscript(n)
  PROVE  SessionInv'
<1>0. Types /\ Arrival /\ OneTurn
  BY DEF SessionInv
<1>1. UNCHANGED <<messages, turns, queue, sessions, processes, run>>
  BY DEF LoseTranscript
<1>2. transcripts' = [transcripts EXCEPT ![n] = {}] /\ transcripts \in Seq(SUBSET Turn)
  BY <1>0 DEF LoseTranscript, Types
<1>3. /\ transcripts' \in Seq(SUBSET Turn) /\ DOMAIN transcripts' = DOMAIN transcripts
      /\ \A m \in DOMAIN transcripts : transcripts'[m] = IF m = n THEN {} ELSE transcripts[m]
  <2>1. PICK none : none = {}
    OBVIOUS
  <2>2. none \in SUBSET Turn
    BY <2>1
  <2> QED
    BY <1>2, <2>1, <2>2, Replaced
<1>4. Types'
  BY <1>0, <1>1, <1>3 DEF Types
<1>5. Arrival' /\ OneTurn'
  BY <1>0, <1>1 DEF Arrival, OneTurn
<1>6. Quiet
  <2>1. \A j \in DOMAIN turns :
          /\ turns[j].session = 0 => turns[j] = Unbound
          /\ turns[j].rev \in Nat
          /\ turns[j].status \in {"pending", "running"} \/ j = run.turn =>
               turns[j].resume \in {0, turns[j].past.native}
    BY TurnFacts DEF Bound, Unbound
  <2>2. run' = Idle \/ run.turn # 0
    BY <1>0, <1>1, Typed DEF Types, Idle
  <2> QED
    BY <1>1, <1>3, <2>1, <2>2 DEF Quiet, Same
<1> QED
  BY <1>4, <1>5, <1>6, QuietKeeps

\* The sessions after a turn of that body has joined: the last one is open.
LEMMA JoinedFacts ==
  ASSUME Types, Arrival, NEW body
  PROVE  /\ Joined(body) \in Seq(LogicalSession)
         /\ Len(Joined(body)) \in {Len(sessions), Len(sessions) + 1} /\ Len(Joined(body)) # 0
         /\ \A k \in DOMAIN sessions :
              /\ Joined(body)[k].native = sessions[k].native
              /\ Joined(body)[k].context = sessions[k].context
         /\ \A k \in DOMAIN Joined(body) \ DOMAIN sessions :
              Joined(body)[k].native = 0 /\ Joined(body)[k].context = {}
         /\ \A k \in DOMAIN Joined(body) : Joined(body)[k].open <=> k = Len(Joined(body))
         /\ body = "clear" => Len(Joined(body)) = Len(sessions) + 1
<1>1. /\ sessions \in Seq(LogicalSession) /\ Len(sessions) \in Nat
      /\ DOMAIN sessions = 1 .. Len(sessions)
      /\ \A k \in DOMAIN sessions : sessions[k].open <=> k = Len(sessions)
  BY Typed DEF Types, Arrival
<1>2. PICK no, yes : no = FALSE /\ yes = TRUE
  OBVIOUS
<1>3. no \in BOOLEAN /\ yes \in BOOLEAN
  BY <1>2
<1>4. PICK closed : closed = [k \in DOMAIN sessions |-> [sessions[k] EXCEPT !.open = no]]
  OBVIOUS
<1>5. PICK new : new = [open |-> yes, native |-> 0, context |-> {}]
  OBVIOUS
<1>6. new \in LogicalSession /\ new.open = yes /\ new.native = 0 /\ new.context = {}
  BY <1>3, <1>5 DEF LogicalSession
<1>7. \A k \in DOMAIN sessions :
        /\ closed[k] \in LogicalSession /\ closed[k].open = no
        /\ closed[k].native = sessions[k].native /\ closed[k].context = sessions[k].context
  <2> SUFFICES ASSUME NEW k \in DOMAIN sessions
               PROVE  /\ closed[k] \in LogicalSession /\ closed[k].open = no
                      /\ closed[k].native = sessions[k].native
                      /\ closed[k].context = sessions[k].context
    OBVIOUS
  <2>1. sessions[k] \in LogicalSession
    BY <1>1
  <2>2. closed[k] = [sessions[k] EXCEPT !.open = no]
    BY <1>4
  <2> QED
    BY <1>3, <2>1, <2>2 DEF LogicalSession
<1>8. closed \in [1 .. Len(sessions) -> LogicalSession]
  BY <1>1, <1>4, <1>7
<1>9. closed \in Seq(LogicalSession) /\ Len(closed) = Len(sessions)
  BY <1>1, <1>8, Built
<1>10. CASE body = "clear"
  <2>1. ~\E k \in DOMAIN closed : closed[k].open
    BY <1>2, <1>4, <1>7
  <2>2. Joined(body) = Append(closed, new)
    BY <1>2, <1>4, <1>5, <1>10, <2>1 DEF Joined
  <2>3. /\ Append(closed, new) \in Seq(LogicalSession)
        /\ Len(Append(closed, new)) = Len(sessions) + 1
        /\ DOMAIN Append(closed, new) = 1 .. Len(sessions) + 1
        /\ Append(closed, new)[Len(sessions) + 1] = new
        /\ \A k \in 1 .. Len(sessions) : Append(closed, new)[k] = closed[k]
    BY <1>6, <1>9, Grown
  <2>4. \A k \in 1 .. Len(sessions) + 1 : k \in 1 .. Len(sessions) \/ k = Len(sessions) + 1
    BY <1>1
  <2>5. \A k \in DOMAIN sessions : k # Len(sessions) + 1
    BY <1>1
  <2>6. \A k \in DOMAIN Append(closed, new) :
          Append(closed, new)[k].open <=> k = Len(sessions) + 1
    BY <1>1, <1>2, <1>6, <1>7, <2>3, <2>4, <2>5
  <2> QED
    BY <1>1, <1>6, <1>7, <2>2, <2>3, <2>4, <2>6
<1>11. CASE body # "clear" /\ \E k \in DOMAIN sessions : sessions[k].open
  <2>1. Joined(body) = sessions
    BY <1>11 DEF Joined
  <2>2. Len(sessions) # 0
    BY <1>1, <1>11
  <2>3. Len(sessions) \in {Len(sessions), Len(sessions) + 1}
    OBVIOUS
  <2>4. \A k \in DOMAIN Joined(body) : Joined(body)[k].open <=> k = Len(Joined(body))
    BY <1>1, <2>1
  <2>5. \A k \in DOMAIN Joined(body) \ DOMAIN sessions : FALSE
    BY <2>1
  <2> QED
    BY <1>1, <1>11, <2>1, <2>2, <2>3, <2>4, <2>5
<1>12. CASE body # "clear" /\ ~\E k \in DOMAIN sessions : sessions[k].open
  <2>1. Joined(body) = Append(sessions, new)
    BY <1>2, <1>5, <1>12 DEF Joined
  <2>2. Len(sessions) = 0
    BY <1>1, <1>12
  <2>3. /\ Append(sessions, new) \in Seq(LogicalSession)
        /\ Len(Append(sessions, new)) = Len(sessions) + 1
        /\ DOMAIN Append(sessions, new) = 1 .. Len(sessions) + 1
        /\ Append(sessions, new)[Len(sessions) + 1] = new
    BY <1>1, <1>6, Grown
  <2>4. DOMAIN sessions = {} /\ DOMAIN Append(sessions, new) = {1} /\ Append(sessions, new)[1] = new
    BY <1>1, <2>2, <2>3
  <2>5. new.open
    BY <1>2, <1>6
  <2> QED
    BY <1>6, <1>12, <2>1, <2>2, <2>3, <2>4, <2>5
<1> QED
  BY <1>10, <1>11, <1>12

LEMMA BindKeeps ==
  ASSUME SessionInv, NEW i \in DOMAIN messages, BindRuntimeDirectTurn(i)
  PROVE  SessionInv'
<1>0. Types /\ Arrival /\ OneTurn /\ Remembers
  BY DEF SessionInv
<1>1. i \in DOMAIN turns /\ DOMAIN turns = 1 .. Len(messages) /\ Len(messages) \in Nat
  BY <1>0, Typed
<1>2. UNCHANGED <<messages, transcripts, run>> /\ turns[i].session = 0 /\ messages[i].available
  BY DEF BindRuntimeDirectTurn
<1>3. turns[i] = Unbound /\ messages[i] \in Message /\ run.turn # i
  <2>1. run.turn # 0 => Here # 0
    BY <1>0, RunBound
  <2> QED
    BY <1>1, <1>2, <2>1, TurnFacts DEF Here
<1>4. PICK last : last = Len(sessions')
  OBVIOUS
<1>5. /\ sessions' \in Seq(LogicalSession) /\ last \in {Len(sessions), Len(sessions) + 1}
         /\ last # 0
      /\ \A k \in DOMAIN sessions :
           sessions'[k].native = sessions[k].native /\ sessions'[k].context = sessions[k].context
      /\ \A k \in DOMAIN sessions' \ DOMAIN sessions :
           sessions'[k].native = 0 /\ sessions'[k].context = {}
      /\ \A k \in DOMAIN sessions' : sessions'[k].open <=> k = last
      /\ messages[i].body = "clear" => last = Len(sessions) + 1
  <2>1. PICK body : body = messages[i].body
    OBVIOUS
  <2>2. sessions' = Joined(body)
    BY <2>1 DEF BindRuntimeDirectTurn
  <2> QED
    BY <1>0, <1>4, <2>1, <2>2, JoinedFacts
<1>6. /\ DOMAIN sessions' = 1 .. last /\ DOMAIN sessions = 1 .. Len(sessions)
         /\ Len(sessions) \in Nat
      /\ last \in Nat /\ last \in DOMAIN sessions' /\ DOMAIN sessions \subseteq DOMAIN sessions'
      /\ DOMAIN processes = DOMAIN sessions
  BY <1>0, <1>4, <1>5, Typed
<1>20. Len(sessions) <= last /\ (messages[i].body = "clear" => Len(sessions) < last)
  <2>1. last = Len(sessions) \/ last = Len(sessions) + 1
    BY <1>5
  <2>2. messages[i].body = "clear" => last = Len(sessions) + 1
    BY <1>5
  <2>3. PICK n \in Nat : n = Len(sessions)
    BY <1>6
  <2>4. last = n \/ last = n + 1
    BY <2>1, <2>3
  <2> QED
    BY <2>2, <2>3, <2>4
<1>7. (CHOOSE k \in DOMAIN sessions' : sessions'[k].open) = last
  BY <1>5, <1>6
<1>8. /\ processes' \in Seq(Process) /\ Len(processes') = last
      /\ \A k \in DOMAIN sessions : processes'[k] = processes[k]
      /\ \A k \in DOMAIN sessions' \ DOMAIN sessions : processes'[k] = NoProcess
  <2>1. processes' = [k \in DOMAIN sessions' |-> IF k \in DOMAIN processes THEN processes[k]
          ELSE NoProcess]
    BY DEF BindRuntimeDirectTurn
  <2>2. \A k \in DOMAIN processes : processes[k] \in Process
    BY <1>0 DEF Types
  <2>3. processes' \in [1 .. last -> Process]
    BY <1>6, <2>1, <2>2, UnboundTyped
  <2>4. processes' \in Seq(Process) /\ Len(processes') = last
    BY <1>6, <2>3, Built
  <2> QED
    BY <1>6, <2>1, <2>4
<1>9. PICK x : x = [Unbound EXCEPT !.session = last, !.status = "pending", !.rev = messages[i].rev]
  OBVIOUS
<1>10. /\ x \in Bound /\ x.session = last /\ x.status = "pending" /\ x.rev = messages[i].rev
       /\ x.resume = 0 /\ x.past = Unbound.past
  BY <1>3, <1>6, <1>9, UnboundTyped DEF Bound, Status, Unbound, Message
<1>11. turns' = [turns EXCEPT ![i] = x]
  BY <1>7, <1>9 DEF BindRuntimeDirectTurn
<1>12. /\ turns' \in Seq(Bound) /\ Len(turns') = Len(turns) /\ DOMAIN turns' = DOMAIN turns
       /\ \A j \in DOMAIN turns : turns'[j] = IF j = i THEN x ELSE turns[j]
  BY <1>0, <1>1, <1>10, <1>11, Replaced DEF Types
<1>13. turns[i].status # "pending" /\ turns[i].status = "none" /\ turns[i].rev = 0
  BY <1>3 DEF Unbound
<1>14. queue' = Append(queue, i)
  BY DEF BindRuntimeDirectTurn
<1>15. /\ queue' \in Seq(DOMAIN turns)
       /\ \A n \in DOMAIN queue' : queue'[n] = i \/
              (queue'[n] \in DOMAIN turns /\ turns[queue'[n]].status = "pending")
       /\ \A m, n \in DOMAIN queue' : queue'[m] = queue'[n] => m = n
  BY <1>0, <1>1, <1>13, <1>14, Queued
<1>16. Types'
  <2>1. \A j \in DOMAIN turns : turns'[j].session \in 0 .. last /\ turns'[j].rev <= messages[j].rev
    <3>1. x.rev <= messages[i].rev /\ last \in 0 .. last
      BY <1>3, <1>6, <1>10 DEF Message
    <3>2. \A j \in DOMAIN turns : turns[j].session \in 0 .. Len(sessions)
            /\ turns[j].rev <= messages[j].rev
      BY <1>0 DEF Types
    <3>3. 0 .. Len(sessions) \subseteq 0 .. last
      BY <1>6, <1>20
    <3> QED
      BY <1>10, <1>12, <3>1, <3>2, <3>3
  <2> QED
    BY <1>0, <1>2, <1>4, <1>5, <1>8, <1>12, <1>15, <2>1 DEF Types
<1>17. Arrival'
  <2>1. \A j \in DOMAIN turns' : turns'[j].session # 0 <=> turns'[j].status # "none"
    BY <1>0, <1>5, <1>10, <1>12 DEF Arrival
  <2>2. ASSUME NEW h \in DOMAIN turns', NEW j \in DOMAIN turns', h < j, turns'[j].session # 0
        PROVE  /\ turns'[h].session # 0 \/ ~messages[h].available
               /\ turns'[h].session <= turns'[j].session
               /\ messages[j].body = "clear" => turns'[h].session < turns'[j].session
    <3>1. CASE j = i
      <4>1. h \in 1 .. i - 1 /\ h # i /\ turns'[h] = turns[h] /\ turns'[j].session = last
        BY <1>1, <1>10, <1>12, <2>2, <3>1
      <4>2. turns[h].session # 0 \/ ~messages[h].available
        BY <4>1 DEF BindRuntimeDirectTurn
      <4>3. turns[h].session \in 0 .. Len(sessions)
        BY <1>0, <1>12 DEF Types
      <4> QED
        BY <1>6, <1>20, <3>1, <4>1, <4>2, <4>3
    <3>2. CASE j # i
      <4>1. turns[j].session # 0 /\ turns'[j] = turns[j]
        BY <1>12, <2>2, <3>2
      <4>2. h # i
        BY <1>0, <1>2, <1>12, <2>2, <4>1 DEF Arrival
      <4>3. turns'[h] = turns[h]
        BY <1>12, <4>2
      <4> QED
        BY <1>0, <1>12, <2>2, <4>1, <4>3 DEF Arrival
    <3> QED
      BY <3>1, <3>2
  <2> QED
    BY <1>2, <1>4, <1>5, <2>1, <2>2 DEF Arrival
<1>18. OneTurn'
  <2>1. \A n \in DOMAIN queue' : turns'[queue'[n]].status = "pending"
    BY <1>10, <1>12, <1>15
  <2>2. /\ \A j \in DOMAIN turns' : turns'[j].status = "running" =>
             j = run.turn /\ turns'[j].rev = run.rev
        /\ \A j \in DOMAIN turns' : turns'[j].status = "cancelled" => ~messages[j].available
    BY <1>0, <1>10, <1>12 DEF OneTurn
  <2>3. run.turn # 0 => run.turn \in DOMAIN turns /\ turns'[run.turn] = turns[run.turn]
    BY <1>0, <1>3, <1>12, Typed DEF Types
  <2>4. run.turn # 0 =>
           /\ turns'[run.turn].status \notin {"none", "failed"} /\ run.rev <= turns'[run.turn].rev
           /\ turns'[run.turn].status = "running" => run.step \in {"started", "asked", "replied"}
           /\ run.step \in {"started", "asked", "accepted"} => messages[run.turn].body = "text"
    BY <1>0, <2>3 DEF OneTurn
  <2> QED
    BY <1>2, <1>15, <2>1, <2>2, <2>4 DEF OneTurn
<1>19. Quiet
  <2>1. \A j \in DOMAIN turns :
          /\ turns[j].session = 0 => turns[j] = Unbound
          /\ turns[j].rev \in Nat
          /\ turns[j].status \in {"pending", "running"} \/ j = run.turn =>
               turns[j].resume \in {0, turns[j].past.native}
    BY TurnFacts DEF Bound, Unbound
  <2>2. run' = Idle \/ run.turn # 0
    BY <1>0, <1>2, Typed DEF Types, Idle
  <2>3. x.past = turns[i].past /\ x.rev \in Nat /\ x.session # 0
    BY <1>3, <1>5, <1>10 DEF Bound
  <2>4. \A j \in DOMAIN turns :
         /\ turns[j].session # 0 => turns'[j].session = turns[j].session
         /\ turns'[j].past = turns[j].past
         /\ turns'[j].session = 0 => turns'[j] = Unbound
         /\ turns[j].rev <= turns'[j].rev
         /\ turns'[j].rev = turns[j].rev /\ turns[j].status \in {"completed", "cancelled"} =>
              turns'[j].status \in {"completed", "cancelled"}
         /\ turns'[j].status \in {"pending", "running"} \/ j = run.turn =>
              turns'[j].resume \in {0, turns'[j].past.native}
    BY <1>2, <1>10, <1>12, <1>13, <2>1, <2>3
  <2> QED
    BY <1>2, <1>5, <1>6, <1>8, <1>12, <2>2, <2>4 DEF Quiet, Same
<1> QED
  BY <1>16, <1>17, <1>18, <1>19, QuietKeeps

----------------------------------------------------------------------------
(* A turn starts.                                                          *)

\* Turn i, which was waiting, is the one that is answered; a new native session
\* may be kept for it.
Starts(i) ==
  /\ run = Idle /\ i \in DOMAIN turns /\ turns[i].status = "pending"
  /\ UNCHANGED <<messages, sessions>> /\ DOMAIN turns' = DOMAIN turns
  /\ \A j \in DOMAIN turns :
       /\ turns'[j].session = turns[j].session /\ turns'[j].rev = turns[j].rev
       /\ turns'[j].past = turns[j].past /\ turns'[j].resume = turns[j].resume
       /\ j # i => turns'[j] = turns[j]
  /\ \A k \in DOMAIN sessions : processes'[k] = processes[k] \/ processes'[k] = NoProcess
  /\ Len(transcripts) <= Len(transcripts')
  /\ \A n \in DOMAIN transcripts : transcripts'[n] = transcripts[n]
  /\ \A n \in DOMAIN transcripts' \ DOMAIN transcripts : transcripts'[n] = {}
  /\ run'.turn = i /\ run'.rev = turns[i].rev /\ run'.native = 0 /\ run'.recorded = 0
  /\ run'.history \subseteq RuntimeDirectHistory(i)
  /\ \/ messages[i].body = "clear" /\ run'.step = "replied" /\ run'.attempt = 0
     \/ /\ messages[i].body = "text" /\ run'.step = "started"
        /\ run'.attempt = Len(transcripts) + 1 /\ run'.attempt \in DOMAIN transcripts'

\* The history of a turn holds accepted turns of its session that came before.
LEMMA HistoryFacts ==
  ASSUME Types, NEW i \in DOMAIN turns, NEW u \in RuntimeDirectHistory(i)
  PROVE  /\ u \in Turn /\ u[1] \in DOMAIN turns /\ u[1] < i /\ u[2] = turns[u[1]].rev
         /\ turns[u[1]].session = turns[i].session /\ turns[u[1]].status = "completed"
         /\ messages[u[1]].body = "text"
<1>1. PICK j \in 1 .. i - 1 :
        /\ u = <<j, turns[j].rev>> /\ turns[j].session = turns[i].session
        /\ turns[j].status = "completed" /\ messages[j].body = "text"
  BY DEF RuntimeDirectHistory
<1>2. j \in DOMAIN turns /\ j \in Nat /\ j < i
  BY Typed DEF Types
<1>3. turns[j].rev \in Nat
  <2>1. turns[j] \in Bound
    BY <1>2 DEF Types
  <2> QED
    BY <2>1 DEF Bound
<1> QED
  BY <1>1, <1>2, <1>3 DEF Turn

LEMMA StartsAccepted ==
  ASSUME SessionInv, Types', NEW i, Starts(i)
  PROVE  Accepted'
<1>0. Types /\ Arrival /\ OneTurn /\ Accepted
  BY DEF SessionInv
<1>1. i \in DOMAIN turns /\ turns[i].rev \in Nat /\ DOMAIN turns' = DOMAIN turns
  BY TurnFacts DEF Starts, Bound
<1>2. ASSUME NEW u \in Turn, Done(u) PROVE Done(u)'
  <2>1. \A j \in DOMAIN turns :
          /\ turns[j].rev <= turns'[j].rev
          /\ turns'[j].rev = turns[j].rev /\ turns[j].status \in {"completed", "cancelled"} =>
               turns'[j].status \in {"completed", "cancelled"}
    <3>1. \A j \in DOMAIN turns : turns[j].rev \in Nat
      BY TurnFacts DEF Bound
    <3> QED
      BY <3>1 DEF Starts
  <2> QED
    BY <1>0, <1>1, <1>2, <2>1, DoneStays
<1>3. PICK own : own = <<i, turns[i].rev>>
  OBVIOUS
<1>4. Own' = own /\ ~Done(own)
  BY <1>3 DEF Starts, Own, Done
<1>5. ASSUME NEW k \in DOMAIN sessions', NEW u \in sessions'[k].context
      PROVE  Done(u)' /\ u # own
  <2>1. sessions[k] \in LogicalSession /\ u \in sessions[k].context /\ k \in DOMAIN sessions
    BY <1>0, <1>5 DEF Starts, Types
  <2>2. u \in Turn /\ Done(u)
    BY <1>0, <2>1 DEF Accepted, LogicalSession
  <2> QED
    BY <1>2, <1>4, <2>2
<1>6. ASSUME NEW j \in DOMAIN turns', NEW u \in turns'[j].past.history
      PROVE  Done(u)' /\ u # own
  <2>1. turns[j] \in Bound /\ u \in turns[j].past.history /\ j \in DOMAIN turns
    BY <1>1, <1>6, TurnFacts DEF Starts
  <2>2. u \in Turn /\ Done(u)
    BY <1>0, <2>1 DEF Accepted, Bound
  <2> QED
    BY <1>2, <1>4, <2>2
<1>7. ASSUME NEW u \in run'.history PROVE Done(u)' /\ u # own
  <2>1. u \in RuntimeDirectHistory(i)
    BY <1>7 DEF Starts
  <2>2. u \in Turn /\ u[1] \in DOMAIN turns /\ u[2] = turns[u[1]].rev
          /\ turns[u[1]].status = "completed"
    BY <1>0, <1>1, <2>1, HistoryFacts
  <2>3. u[2] \in Nat
    BY <2>2 DEF Turn
  <2>4. Done(u)
    BY <2>2, <2>3 DEF Done
  <2> QED
    BY <1>2, <1>4, <2>2, <2>4
<1>8. run'.step \notin {"completed", "accepted"}
  BY DEF Starts
<1> QED
  BY <1>4, <1>5, <1>6, <1>7, <1>8 DEF Accepted

\* The native sessions that are named after a turn started.
LEMMA StartsNames ==
  ASSUME SessionInv, Types', NEW i, Starts(i), NEW k \in DOMAIN sessions', NEW n \in Nat,
         Named(k, n)'
  PROVE  \/ n = 0
         \/ k \in DOMAIN sessions /\ Named(k, n)
         \/ k = turns[i].session /\ Len(transcripts) < n /\ n <= Len(transcripts')
<1>0. Types
  BY DEF SessionInv
<1>1. k \in DOMAIN sessions
  BY DEF Starts
<1>2. CASE n = sessions'[k].native
  BY <1>1, <1>2 DEF Named, Starts
<1>3. CASE n = processes'[k].native
  BY <1>1, <1>3 DEF Named, Starts, NoProcess
<1>4. CASE \E j \in DOMAIN turns' : turns'[j].session = k /\ n = turns'[j].past.native
  BY <1>1, <1>4 DEF Named, Starts
<1>5. CASE Here' = k /\ n \in {run'.attempt, run'.recorded, run'.native}
  <2>1. k = turns[i].session
    BY <1>5 DEF Here, Starts
  <2>2. n = 0 \/ (n = Len(transcripts) + 1 /\ n \in DOMAIN transcripts')
    BY <1>5 DEF Starts
  <2>3. DOMAIN transcripts' = 1 .. Len(transcripts') /\ Len(transcripts) \in Nat
    BY <1>0, Typed DEF Types
  <2> QED
    BY <2>1, <2>2, <2>3
<1> QED
  BY <1>2, <1>3, <1>4, <1>5 DEF Named

LEMMA StartsSeparate ==
  ASSUME SessionInv, Types', NEW i, Starts(i)
  PROVE  Separate'
<1>0. Types /\ Arrival /\ OneTurn /\ Separate
  BY DEF SessionInv
<1>1. DOMAIN sessions' = DOMAIN sessions /\ DOMAIN turns' = DOMAIN turns /\ i \in DOMAIN turns
  BY DEF Starts
<1>2. Len(transcripts) <= Len(transcripts') /\ Len(transcripts) \in Nat /\ Len(transcripts') \in Nat
      /\ DOMAIN transcripts = 1 .. Len(transcripts) /\ DOMAIN transcripts' = 1 .. Len(transcripts')
  BY <1>0, Typed DEF Starts, Types
<1>3. /\ \A k \in DOMAIN sessions', n \in Nat : Named(k, n)' => n <= Len(transcripts')
      /\ \A j, k \in DOMAIN sessions', n \in Nat : Named(j, n)' /\ Named(k, n)' => j = k \/ n = 0
  <2>1. PICK owner : owner = turns[i].session
    OBVIOUS
  <2>2. \A k \in DOMAIN sessions', n \in Nat : Named(k, n)' =>
           \/ n = 0
           \/ k \in DOMAIN sessions /\ Named(k, n)
           \/ k = owner /\ Len(transcripts) < n /\ n <= Len(transcripts')
    BY <2>1, StartsNames
  <2> QED
    BY <1>0, <1>1, <1>2, <2>2, NamesApart
<1>4. \A j \in DOMAIN turns : turns'[j].session = turns[j].session
  BY DEF Starts
<1>5. ASSUME NEW k \in DOMAIN sessions', NEW n \in DOMAIN transcripts', Named(k, n)'
      PROVE  Of(k, transcripts[n])'
  <2>1. CASE n \in DOMAIN transcripts
    <3>1. n \in Nat /\ n # 0 /\ n <= Len(transcripts)
      BY <1>2, <2>1
    <3>2. k \in DOMAIN sessions /\ Named(k, n)
      BY <1>2, <1>5, <3>1, StartsNames
    <3>3. Of(k, transcripts[n])
      BY <1>0, <2>1, <3>2 DEF Separate
    <3>4. transcripts'[n] = transcripts[n]
      BY <2>1 DEF Starts
    <3> QED
      BY <1>1, <1>4, <3>3, <3>4 DEF Of
  <2>2. CASE n \notin DOMAIN transcripts
    BY <1>5, <2>2 DEF Of, Starts
  <2> QED
    BY <2>1, <2>2
<1>6. ASSUME NEW k \in DOMAIN sessions'
      PROVE  Of(k, sessions[k].context)' /\ Of(k, processes[k].context)'
             /\ Of(k, processes[k].expected)'
  <2>1. Of(k, sessions[k].context) /\ Of(k, processes[k].context) /\ Of(k, processes[k].expected)
    BY <1>0, <1>1 DEF Separate
  <2>2. /\ sessions'[k].context = sessions[k].context
        /\ processes'[k].context \subseteq processes[k].context
        /\ processes'[k].expected \subseteq processes[k].expected
    BY <1>1 DEF Starts, NoProcess
  <2> QED
    BY <1>1, <1>4, <2>1, <2>2 DEF Of
<1>7. ASSUME NEW j \in DOMAIN turns' PROVE Of(turns[j].session, turns[j].past.history)'
  <2>1. Of(turns[j].session, turns[j].past.history)
    BY <1>0, <1>1 DEF Separate
  <2>2. turns'[j].past = turns[j].past
    BY <1>1 DEF Starts
  <2> QED
    BY <1>1, <1>4, <2>1, <2>2 DEF Of
<1>8. Of(Here, run.history)'
  <2>1. \A u \in run'.history : u[1] \in DOMAIN turns /\ turns[u[1]].session = turns[i].session
    BY <1>0, <1>1, HistoryFacts DEF Starts
  <2>2. Here' = turns[i].session
    BY <1>1 DEF Here, Starts
  <2> QED
    BY <1>1, <1>4, <2>1, <2>2 DEF Of
<1> QED
  BY <1>3, <1>5, <1>6, <1>7, <1>8 DEF Separate

\* What a logical session names is a native session that there is.
LEMMA NamesKnown ==
  ASSUME SessionInv, NEW k \in DOMAIN sessions
  PROVE  /\ sessions[k].native \in 0 .. Len(transcripts)
         /\ processes[k].native \in 0 .. Len(transcripts)
         /\ \A j \in DOMAIN turns : turns[j].session = k
            => turns[j].past.native \in 0 .. Len(transcripts)
<1>0. Types /\ Separate
  BY DEF SessionInv
<1>1. sessions[k].native \in Nat /\ processes[k].native \in Nat
  <2>1. sessions[k] \in LogicalSession /\ processes[k] \in Process
    BY <1>0, Typed DEF Types
  <2> QED
    BY <2>1 DEF LogicalSession, Process
<1>2. \A j \in DOMAIN turns : turns[j].past.native \in Nat
  BY TurnFacts DEF Bound
<1>3. Named(k, sessions[k].native) /\ Named(k, processes[k].native)
      /\ \A j \in DOMAIN turns : turns[j].session = k => Named(k, turns[j].past.native)
  BY DEF Named
<1>4. \A n \in Nat : Named(k, n) => n <= Len(transcripts)
  BY <1>0 DEF Separate
<1>5. Len(transcripts) \in Nat
  BY <1>0, Typed
<1> QED
  BY <1>1, <1>2, <1>3, <1>4, <1>5

LEMMA StartsRemembers ==
  ASSUME SessionInv, Types', NEW i, Starts(i)
  PROVE  Remembers' /\ Asked'
<1>0. Types /\ Arrival /\ OneTurn /\ Remembers
  BY DEF SessionInv
<1>1. DOMAIN sessions' = DOMAIN sessions /\ DOMAIN turns' = DOMAIN turns /\ i \in DOMAIN turns
      /\ sessions' = sessions /\ messages' = messages
  BY DEF Starts
<1>2. DOMAIN transcripts = 1 .. Len(transcripts) /\ Len(transcripts) \in Nat
  BY <1>0, Typed
<1>3. \A n \in 0 .. Len(transcripts) : n # 0 => transcripts'[n] = transcripts[n]
  BY <1>2 DEF Starts
<1>4. ASSUME NEW k \in DOMAIN sessions, NEW n \in 0 .. Len(transcripts), NEW h
      PROVE  (Knows(k, n, h) => Knows(k, n, h)') /\ (Agrees(k, n, h) => Agrees(k, n, h)')
  <2>1. processes'[k] = processes[k] \/ processes'[k] = NoProcess
    BY DEF Starts
  <2>2. sessions[k].native \in 0 .. Len(transcripts)
    BY NamesKnown
  <2>3. Knows(k, n, h) => Knows(k, n, h)'
    BY <1>3, <2>1 DEF Knows, NoProcess
  <2>4. sessions[k].native # 0 /\ ~Usable(k, sessions[k].native) => ~Usable(k, sessions[k].native)'
    BY <1>1, <1>3, <2>1, <2>2 DEF Usable, NoProcess
  <2> QED
    BY <1>1, <2>3, <2>4 DEF Agrees
<1>5. ASSUME NEW k \in DOMAIN sessions'
      PROVE  /\ Knows(k, sessions[k].native, sessions[k].context)'
             /\ Knows(k, processes[k].native, processes[k].expected)'
             /\ Agrees(k, processes[k].native, processes[k].expected)'
             /\ processes'[k].native # 0 =>
                  transcripts'[processes'[k].native] \in {{}, processes'[k].context}
             /\ processes'[k].native = 0 => processes'[k] = NoProcess
  <2>1. PICK n, h, m, g : /\ n = sessions[k].native /\ h = sessions[k].context
                          /\ m = processes[k].native /\ g = processes[k].expected
    OBVIOUS
  <2>2. n \in 0 .. Len(transcripts) /\ m \in 0 .. Len(transcripts)
    BY <1>1, <2>1, NamesKnown
  <2>3. Knows(k, n, h) /\ Knows(k, m, g) /\ Agrees(k, m, g)
    BY <1>0, <1>1, <2>1 DEF Remembers
  <2>4. Knows(k, n, h)' /\ Knows(k, m, g)' /\ Agrees(k, m, g)'
    BY <1>1, <1>4, <2>2, <2>3
  <2>5. Knows(k, sessions[k].native, sessions[k].context)'
    BY <1>1, <2>1, <2>4 DEF Knows
  <2>6. CASE processes'[k] = NoProcess
    BY <2>5, <2>6 DEF NoProcess, Knows, Agrees
  <2>7. CASE processes'[k] = processes[k]
    <3>1. /\ Knows(k, processes[k].native, processes[k].expected)'
          /\ Agrees(k, processes[k].native, processes[k].expected)'
      BY <2>1, <2>4, <2>7 DEF Knows, Agrees, Usable
    <3>2. /\ m # 0 => transcripts[m] \in {{}, processes[k].context}
          /\ m = 0 => processes[k] = NoProcess
      BY <1>0, <1>1, <2>1 DEF Remembers
    <3> QED
      BY <1>3, <2>1, <2>2, <2>5, <2>7, <3>1, <3>2
  <2> QED
    BY <1>1, <2>6, <2>7 DEF Starts
<1>6. ASSUME NEW j \in DOMAIN turns', turns'[j].session # 0
      PROVE  /\ Knows(turns[j].session, turns[j].past.native, turns[j].past.history)'
             /\ Agrees(turns[j].session, turns[j].past.native, turns[j].past.history)'
             /\ turns'[j].status \in {"pending", "running"} \/ j = run'.turn =>
                  turns'[j].resume \in {0, turns'[j].past.native}
  <2>1. PICK k, n, h : k = turns[j].session /\ n = turns[j].past.native /\ h = turns[j].past.history
    OBVIOUS
  <2>2. /\ k # 0 /\ k \in DOMAIN sessions /\ k = turns'[j].session /\ turns'[j].past = turns[j].past
        /\ turns'[j].resume = turns[j].resume
    BY <1>0, <1>1, <1>6, <2>1, Typed DEF Starts, Types
  <2>3. n \in 0 .. Len(transcripts)
    BY <1>1, <2>1, <2>2, NamesKnown
  <2>4. Knows(k, n, h) /\ Agrees(k, n, h)
    BY <1>0, <1>1, <2>1, <2>2 DEF Remembers
  <2>5. Knows(k, n, h)' /\ Agrees(k, n, h)'
    BY <1>4, <2>2, <2>3, <2>4
  <2>6. /\ Knows(turns[j].session, turns[j].past.native, turns[j].past.history)'
        /\ Agrees(turns[j].session, turns[j].past.native, turns[j].past.history)'
    BY <2>1, <2>2, <2>5 DEF Knows, Agrees, Usable
  <2>7. turns[j].status \in {"pending", "running"} \/ j = i => turns[j].resume \in {0, n}
    BY <1>0, <1>1, <2>1, <2>2 DEF Remembers, Starts
  <2>8. j # i => turns'[j] = turns[j]
    BY <1>1 DEF Starts
  <2>9. run'.turn = i
    BY DEF Starts
  <2> QED
    BY <2>1, <2>2, <2>6, <2>7, <2>8, <2>9
<1>7. ASSUME NEW j \in DOMAIN turns', turns'[j].session = 0 PROVE turns'[j] = Unbound
  <2>1. turns[j] = Unbound
    BY <1>0, <1>1, <1>7 DEF Starts, Remembers
  <2> QED
    BY <1>1, <2>1 DEF Starts, Unbound
<1>8. Remembers'
  BY <1>5, <1>6, <1>7 DEF Remembers
<1>9. Asked'
  <2>1. PICK k : k = turns[i].session
    OBVIOUS
  <2>2. k \in DOMAIN sessions /\ Here' = k
    <3>1. turns[i].session # 0
      BY <1>0, <1>1 DEF Starts, Arrival
    <3> QED
      BY <1>0, <1>1, <2>1, <3>1, Typed DEF Here, Starts, Types
  <2>3. CASE run'.step = "started"
    <3>1. /\ run'.attempt = Len(transcripts) + 1 /\ run'.attempt \in DOMAIN transcripts'
          /\ messages[i].body = "text" /\ run'.turn = i /\ run'.native = 0 /\ run'.recorded = 0
      BY <2>3 DEF Starts
    <3>2. run'.attempt \notin DOMAIN transcripts /\ run'.attempt # 0
            /\ run'.attempt \notin 0 .. Len(transcripts)
      BY <1>2, <3>1
    <3>3. transcripts'[run'.attempt] = {}
      BY <3>1, <3>2 DEF Starts
    <3>4. sessions'[k].native # run'.attempt /\ processes'[k].native # run'.attempt
      BY <1>1, <2>2, <3>2, NamesKnown DEF Starts, NoProcess
    <3>5. \A j \in DOMAIN turns' : run'.attempt # turns'[j].past.native
      <4> SUFFICES ASSUME NEW j \in DOMAIN turns PROVE run'.attempt # turns[j].past.native
        BY <1>1 DEF Starts
      <4>1. CASE turns[j].session = 0
        BY <1>0, <3>2, <4>1 DEF Remembers, Unbound
      <4>2. CASE turns[j].session # 0
        <5>1. turns[j].session \in DOMAIN sessions
          BY <1>0, <4>2, Typed DEF Types
        <5> QED
          BY <3>2, <5>1, NamesKnown
      <4> QED
        BY <4>1, <4>2
    <3> QED
      BY <1>1, <2>2, <2>3, <3>1, <3>2, <3>3, <3>4, <3>5 DEF Asked
  <2>4. CASE run'.step # "started"
    <3>1. messages[i].body = "clear" /\ run'.turn = i /\ run'.recorded = 0
      BY <2>4 DEF Starts
    <3> QED
      BY <1>1, <2>4, <3>1 DEF Asked
  <2> QED
    BY <2>3, <2>4
<1> QED
  BY <1>8, <1>9

LEMMA StartKeeps ==
  ASSUME SessionInv, StartTurn
  PROVE  SessionInv'
<1>0. Types /\ Arrival /\ OneTurn /\ Accepted
  BY DEF SessionInv
<1>1. PICK i : i = Head(queue)
  OBVIOUS
<1>2. /\ run = Idle /\ queue # <<>> /\ queue' = Tail(queue) /\ UNCHANGED <<messages, sessions>>
  BY DEF StartTurn
<1>3. /\ i \in DOMAIN turns /\ turns[i].status = "pending"
      /\ queue' \in Seq(DOMAIN turns)
      /\ \A n \in DOMAIN queue' :
           queue'[n] # i /\ queue'[n] \in DOMAIN turns /\ turns[queue'[n]].status = "pending"
      /\ \A m, n \in DOMAIN queue' : queue'[m] = queue'[n] => m = n
  <2>1. queue \in Seq(DOMAIN turns) /\ Len(queue) \in Nat \ {0} /\ DOMAIN queue = 1 .. Len(queue)
    BY <1>0, <1>2 DEF Types
  <2>2. 1 \in DOMAIN queue /\ i = queue[1]
    BY <1>1, <2>1
  <2>3. /\ queue' \in Seq(DOMAIN turns) /\ DOMAIN queue' = 1 .. Len(queue) - 1
        /\ \A n \in DOMAIN queue' : n + 1 \in DOMAIN queue /\ n + 1 # 1 /\ queue'[n] = queue[n + 1]
    BY <1>2, <2>1
  <2>4. \A n \in DOMAIN queue : queue[n] \in DOMAIN turns /\ turns[queue[n]].status = "pending"
    BY <1>0, <2>1 DEF OneTurn
  <2>5. \A m, n \in DOMAIN queue : queue[m] = queue[n] => m = n
    BY <1>0 DEF OneTurn
  <2>6. \A m, n \in DOMAIN queue' : queue'[m] = queue'[n] => m = n
    <3> SUFFICES ASSUME NEW m \in DOMAIN queue', NEW n \in DOMAIN queue', queue'[m] = queue'[n]
                 PROVE  m = n
      OBVIOUS
    <3>1. m + 1 = n + 1
      BY <2>3, <2>5
    <3> QED
      BY <2>1, <2>3, <3>1
  <2>7. \A n \in DOMAIN queue' : queue'[n] # i
    BY <2>2, <2>3, <2>5
  <2> QED
    BY <2>2, <2>3, <2>4, <2>6, <2>7
<1>4. turns[i] \in Bound /\ messages[i] \in Message /\ turns[i].session \in DOMAIN sessions
  <2>1. turns[i].session # 0 /\ turns[i].session \in 0 .. Len(sessions)
    BY <1>0, <1>3 DEF Types, Arrival
  <2> QED
    BY <1>0, <1>3, <2>1, TurnFacts, Typed
<1>5. PICK x : x = [turns[i] EXCEPT !.status = "running"]
  OBVIOUS
<1>6. /\ x \in Bound /\ x.status = "running" /\ x.session = turns[i].session /\ x.rev = turns[i].rev
      /\ x.past = turns[i].past /\ x.resume = turns[i].resume
  BY <1>4, <1>5 DEF Bound, Status
<1>7. /\ turns' \in Seq(Bound) /\ Len(turns') = Len(turns) /\ DOMAIN turns' = DOMAIN turns
      /\ \A j \in DOMAIN turns : turns'[j] = IF j = i THEN x ELSE turns[j]
  <2>1. turns' = [turns EXCEPT ![i] = x]
    BY <1>1, <1>5 DEF StartTurn
  <2> QED
    BY <1>0, <1>3, <1>6, <2>1, Replaced DEF Types
<1>8. /\ run' \in Run /\ run'.turn = i /\ run'.rev = turns[i].rev
      /\ run'.native = 0 /\ run'.recorded = 0
      /\ run'.history \subseteq RuntimeDirectHistory(i)
      /\ processes' \in Seq(Process) /\ Len(processes') = Len(sessions)
      /\ \A k \in DOMAIN sessions : processes'[k] = processes[k] \/ processes'[k] = NoProcess
      /\ transcripts' \in Seq(SUBSET Turn) /\ Len(transcripts) <= Len(transcripts')
      /\ \A n \in DOMAIN transcripts : transcripts'[n] = transcripts[n]
      /\ \A n \in DOMAIN transcripts' \ DOMAIN transcripts : transcripts'[n] = {}
      /\ \/ messages[i].body = "clear" /\ run'.step = "replied" /\ run'.attempt = 0
         \/ /\ messages[i].body = "text" /\ run'.step = "started"
            /\ run'.attempt = Len(transcripts) + 1 /\ run'.attempt \in DOMAIN transcripts'
  <2>1. i \in Nat /\ turns[i].rev \in Nat /\ messages[i].body \in {"text", "clear"}
    BY <1>0, <1>3, <1>4, Typed DEF Bound, Message
  <2>2. /\ transcripts \in Seq(SUBSET Turn) /\ Len(transcripts) \in Nat
        /\ DOMAIN transcripts = 1 .. Len(transcripts)
        /\ processes \in Seq(Process) /\ Len(processes) = Len(sessions) /\ Len(sessions) \in Nat
        /\ DOMAIN processes = 1 .. Len(sessions) /\ DOMAIN sessions = 1 .. Len(sessions)
    BY <1>0, Typed DEF Types
  <2>3. CASE messages[i].body = "clear"
    <3>1. /\ run' = [Idle EXCEPT !.turn = i, !.step = "replied", !.rev = turns[i].rev]
          /\ processes' = [k \in DOMAIN processes |-> NoProcess] /\ transcripts' = transcripts
      BY <1>1, <2>3 DEF StartTurn
    <3>2. /\ run' \in Run /\ run'.turn = i /\ run'.rev = turns[i].rev /\ run'.history = {}
          /\ run'.native = 0 /\ run'.recorded = 0 /\ run'.step = "replied" /\ run'.attempt = 0
      BY <2>1, <3>1 DEF Idle, Run, Steps
    <3>3. processes' \in [1 .. Len(sessions) -> Process]
      BY <2>2, <3>1, UnboundTyped
    <3>4. processes' \in Seq(Process) /\ Len(processes') = Len(sessions)
      BY <2>2, <3>3, Built
    <3> QED
      BY <2>2, <2>3, <3>1, <3>2, <3>4
  <2>4. CASE messages[i].body = "text"
    <3>1. PICK h, a : h = RuntimeDirectHistory(i) /\ a = Len(transcripts) + 1
      OBVIOUS
    <3>2. /\ run' = [Idle EXCEPT !.turn = i, !.step = "started", !.rev = turns[i].rev,
                                 !.history = h, !.attempt = a]
          /\ processes' = processes
      BY <1>1, <2>4, <3>1 DEF StartTurn
    <3>3. PICK none : none = {}
      OBVIOUS
    <3>4. transcripts' = Append(transcripts, none) /\ none \in SUBSET Turn
      BY <2>4, <1>1, <3>3 DEF StartTurn
    <3>5. h \subseteq Turn /\ a \in Nat
      BY <1>0, <1>3, <2>2, <3>1, HistoryFacts
    <3>6. /\ run' \in Run /\ run'.turn = i /\ run'.rev = turns[i].rev /\ run'.history = h
          /\ run'.native = 0 /\ run'.recorded = 0 /\ run'.step = "started" /\ run'.attempt = a
      BY <2>1, <3>2, <3>5 DEF Idle, Run, Steps
    <3>7. /\ transcripts' \in Seq(SUBSET Turn) /\ Len(transcripts') = Len(transcripts) + 1
          /\ DOMAIN transcripts' = 1 .. Len(transcripts) + 1
             /\ transcripts'[Len(transcripts) + 1] = none
          /\ \A j \in 1 .. Len(transcripts) : transcripts'[j] = transcripts[j]
      BY <2>2, <3>4, Grown
    <3>8. /\ a \in DOMAIN transcripts' /\ \A n \in DOMAIN transcripts' \ DOMAIN transcripts : n = a
      BY <2>2, <3>1, <3>7
    <3> QED
      BY <2>2, <2>4, <3>1, <3>2, <3>3, <3>6, <3>7, <3>8
  <2> QED
    BY <2>1, <2>3, <2>4
<1>9. Starts(i)
  BY <1>2, <1>3, <1>6, <1>7, <1>8 DEF Starts
<1>10. Types'
  <2>1. \A j \in DOMAIN turns : turns'[j].session \in 0 .. Len(sessions)
          /\ turns'[j].rev <= messages[j].rev
    BY <1>0, <1>6, <1>7 DEF Types
  <2>2. run'.turn \in DOMAIN turns' /\ run'.turn # 0 /\ run'.step # "idle"
    BY <1>0, <1>3, <1>7, <1>8, Typed
  <2> QED
    BY <1>0, <1>2, <1>3, <1>7, <1>8, <2>1, <2>2 DEF Types
<1>11. Arrival'
  BY <1>0, <1>2, <1>3, <1>6, <1>7, <1>10, ArrivalKeeps
<1>12. OneTurn'
  <2>1. \A n \in DOMAIN queue' : turns'[queue'[n]].status = "pending"
    BY <1>3, <1>7
  <2>2. \A j \in DOMAIN turns : turns[j].status # "running"
    <3>1. \A j \in DOMAIN turns : j # 0
      BY <1>0, Typed
    <3> QED
      BY <1>0, <1>2, <3>1, IdleTyped DEF OneTurn
  <2>3. \A j \in DOMAIN turns' : turns'[j].status = "running" =>
          j = run'.turn /\ turns'[j].rev = run'.rev
    BY <1>6, <1>7, <1>8, <2>2
  <2>4. \A j \in DOMAIN turns' : turns'[j].status = "cancelled" => ~messages'[j].available
    BY <1>0, <1>2, <1>6, <1>7 DEF OneTurn
  <2>5. /\ turns'[i].status = "running" /\ turns'[i].rev = turns[i].rev /\ turns[i].rev \in Nat
    BY <1>3, <1>4, <1>6, <1>7 DEF Bound
  <2>6. run'.step \in {"started", "asked", "replied"}
        /\ (run'.step \in {"started", "asked", "accepted"} => messages'[i].body = "text")
    BY <1>2, <1>8
  <2> QED
    BY <1>3, <1>8, <2>1, <2>3, <2>4, <2>5, <2>6 DEF OneTurn
<1>13. Accepted' /\ Separate' /\ Remembers' /\ Asked'
  BY <1>9, <1>10, StartsAccepted, StartsSeparate, StartsRemembers
<1> QED
  BY <1>10, <1>11, <1>12, <1>13 DEF SessionInv

LEMMA RefuseKeeps ==
  ASSUME SessionInv, RefuseTurn
  PROVE  SessionInv'
<1>1. run.turn # 0
  BY DEF SessionInv, Types, RefuseTurn
<1> QED
  BY <1>1, FailKeeps DEF RefuseTurn

LEMMA ReplyFailsKeeps ==
  ASSUME SessionInv, ReplyFails
  PROVE  SessionInv'
<1>1. run.turn # 0
  BY DEF SessionInv, Types, ReplyFails
<1> QED
  BY <1>1, FailKeeps DEF ReplyFails

----------------------------------------------------------------------------
(* An Agent is told the message.                                           *)

\* What is known of the native session that is told a message, when the process
\* goes on, when it is resumed and when it is new.
MayTell(native, context) ==
  /\ run.step = "started" /\ native \in Nat \ {0}
  /\ native = Len(transcripts) + 1 \/ Named(Here, native)
  /\ context \subseteq Turn /\ Of(Here, context) /\ run.history \subseteq context
  /\ native = sessions[Here].native
     => sessions[Here].context \subseteq context /\ Usable(Here, native)
  /\ Remembered => native = sessions[Here].native \/ transcripts[sessions[Here].native] = {}
  /\ \A j \in DOMAIN turns : turns[j].session = Here /\ turns[j].past.native = native =>
       turns[j].past.history \subseteq context

\* What changes when it is told.
ToldFacts(n, c) ==
  /\ Types' /\ run'.step = "asked" /\ run'.turn = run.turn /\ run'.rev = run.rev
  /\ run'.history = run.history /\ run'.attempt = run.attempt /\ run'.recorded = n
  /\ run'.native = (IF Remembered THEN sessions[Here].native ELSE run.attempt)
  /\ run.turn # 0 /\ Here' = Here /\ Here \in DOMAIN sessions /\ Own' = Own /\ Own \in Turn
  /\ run.turn \in DOMAIN turns /\ turns[run.turn].session = Here
  /\ \A k \in DOMAIN sessions : k # Here => processes'[k] = processes[k]
  /\ processes'[Here].native = n /\ processes'[Here].context = c \cup {Own}
  /\ processes'[Here].expected = run.history
  /\ Len(transcripts) <= Len(transcripts') /\ n <= Len(transcripts')
  /\ DOMAIN transcripts' = DOMAIN transcripts \cup {n} /\ transcripts'[n] = c \cup {Own}
  /\ \A m \in DOMAIN transcripts : m # n => transcripts'[m] = transcripts[m]

LEMMA Told ==
  ASSUME SessionInv, NEW n, NEW c, MayTell(n, c), Tell(n, c),
         UNCHANGED <<messages, turns, queue, sessions>>
  PROVE  ToldFacts(n, c)
<1>0. Types /\ Arrival /\ OneTurn /\ Separate
  BY DEF SessionInv
<1>1. run.turn # 0 /\ run \in Run
  BY <1>0 DEF MayTell, Types
<1>2. run.turn \in DOMAIN turns /\ Here \in DOMAIN sessions /\ Own \in Turn
  BY <1>0, <1>1, RunBound
<1>3. /\ Len(transcripts) \in Nat /\ transcripts \in Seq(SUBSET Turn)
      /\ DOMAIN transcripts = 1 .. Len(transcripts)
      /\ processes \in Seq(Process) /\ DOMAIN processes = DOMAIN sessions
      /\ Len(processes) = Len(sessions)
      /\ transcripts \in [1 .. Len(transcripts) -> SUBSET Turn]
  BY <1>0, Typed DEF Types
<1>4. n \in Nat \ {0} /\ (n = Len(transcripts) + 1 \/ n \in DOMAIN transcripts)
      /\ c \subseteq Turn /\ run.history \subseteq Turn
  <2>1. Named(Here, n) /\ n \in Nat => n <= Len(transcripts)
    BY <1>0, <1>2 DEF Separate
  <2> QED
    BY <1>1, <1>3, <2>1 DEF MayTell, Run
<1>5. PICK told : told = c \cup {Own}
  OBVIOUS
<1>6. told \subseteq Turn
  BY <1>2, <1>4, <1>5
<1>7. PICK p : p = [native |-> n, context |-> told, expected |-> run.history]
  OBVIOUS
<1>8. p \in Process /\ p.native = n /\ p.context = told /\ p.expected = run.history
  BY <1>4, <1>6, <1>7 DEF Process
<1>9. processes' = [processes EXCEPT ![Here] = p]
  BY <1>5, <1>7 DEF Tell
<1>10. /\ processes' \in Seq(Process) /\ Len(processes') = Len(processes)
       /\ \A k \in DOMAIN processes : processes'[k] = IF k = Here THEN p ELSE processes[k]
  BY <1>2, <1>3, <1>8, <1>9, Replaced
<1>11. PICK l \in Nat : l = Len(transcripts)
  BY <1>3
<1>24. PICK len : len = IF n = l + 1 THEN l + 1 ELSE l
  OBVIOUS
<1>25. len \in Nat /\ l <= len /\ n <= len /\ 1 .. l \cup {n} = 1 .. len
  <2>1. n \in Nat \ {0} /\ (n = l + 1 \/ n \in 1 .. l)
    BY <1>3, <1>4, <1>11
  <2>2. CASE n = l + 1
    BY <1>24, <2>2
  <2>3. CASE n \in 1 .. l
    BY <1>24, <2>3
  <2> QED
    BY <2>1, <2>2, <2>3
<1>12. 1 .. Len(transcripts) \cup {n} = 1 .. len /\ Len(transcripts) <= len /\ n <= len
  BY <1>11, <1>25
<1>13. transcripts' = [m \in 1 .. len |-> IF m = n THEN told ELSE transcripts[m]]
  BY <1>5, <1>12 DEF Tell
<1>14. transcripts' \in [1 .. len -> SUBSET Turn]
  <2>1. \A m \in 1 .. len : m = n \/ m \in 1 .. Len(transcripts)
    BY <1>12
  <2> QED
    BY <1>3, <1>6, <1>13, <2>1
<1>15. transcripts' \in Seq(SUBSET Turn) /\ Len(transcripts') = len
         /\ DOMAIN transcripts' = 1 .. len
  BY <1>14, <1>25, Built
<1>16. PICK m : m = IF Remembered THEN sessions[Here].native ELSE run.attempt
  OBVIOUS
<1>17. m \in Nat
  <2>1. sessions[Here] \in LogicalSession
    BY <1>0, <1>2 DEF Types
  <2> QED
    BY <1>1, <1>16, <2>1 DEF Run, LogicalSession
<1>18. run' = [run EXCEPT !.step = "asked", !.recorded = n, !.native = m]
  BY <1>16 DEF Tell
<1>19. /\ run' \in Run /\ run'.step = "asked" /\ run'.turn = run.turn /\ run'.rev = run.rev
       /\ run'.history = run.history /\ run'.attempt = run.attempt /\ run'.recorded = n
       /\ run'.native = m
  BY <1>1, <1>4, <1>17, <1>18 DEF Run, Steps
<1>20. Types'
  BY <1>0, <1>1, <1>2, <1>3, <1>10, <1>15, <1>19 DEF Types
<1>21. Here' = Here /\ Own' = Own /\ turns[run.turn].session = Here
  BY <1>19 DEF Here, Own
<1>22. processes'[Here] = p
  BY <1>2, <1>3, <1>10
<1>23. /\ DOMAIN transcripts' = DOMAIN transcripts \cup {n} /\ transcripts'[n] = told
       /\ \A m2 \in DOMAIN transcripts : m2 # n => transcripts'[m2] = transcripts[m2]
  BY <1>3, <1>12, <1>13, <1>15
<1> QED
  BY <1>1, <1>2, <1>3, <1>5, <1>8, <1>10, <1>12, <1>15, <1>16, <1>19, <1>20, <1>21, <1>22,
    <1>23 DEF ToldFacts

LEMMA ToldNames ==
  ASSUME SessionInv, NEW n, NEW c, MayTell(n, c), Tell(n, c),
         UNCHANGED <<messages, turns, queue, sessions>>,
         NEW k \in DOMAIN sessions', NEW m \in Nat, Named(k, m)'
  PROVE  \/ m = 0
         \/ k \in DOMAIN sessions /\ Named(k, m)
         \/ k = Here /\ Len(transcripts) < m /\ m <= Len(transcripts')
<1>1. k \in DOMAIN sessions /\ sessions' = sessions /\ turns' = turns
  OBVIOUS
<1>2. Len(transcripts) \in Nat
  BY Typed DEF SessionInv
<1>3. k = Here /\ m = n => Named(k, m) \/ (Len(transcripts) < m /\ m <= Len(transcripts'))
  <2>1. n <= Len(transcripts')
    BY Told DEF ToldFacts
  <2>2. n = Len(transcripts) + 1 \/ Named(Here, n)
    BY DEF MayTell
  <2> QED
    BY <1>2, <2>1, <2>2
<1>4. CASE m = sessions'[k].native \/ \E i \in DOMAIN turns' : turns'[i].session = k
             /\ m = turns'[i].past.native
  BY <1>1, <1>4 DEF Named
<1>5. CASE m = processes'[k].native
  <2>1. k # Here => m = processes[k].native
    BY <1>1, <1>5, Told DEF ToldFacts
  <2>2. k = Here => m = n
    BY <1>5, Told DEF ToldFacts
  <2> QED
    BY <1>1, <1>3, <2>1, <2>2 DEF Named
<1>6. CASE run'.turn # 0 /\ Here' = k /\ m \in {run'.attempt, run'.recorded, run'.native}
  <2>1. k = Here /\ run.turn # 0 /\ m \in {run.attempt, n, sessions[Here].native}
    BY <1>6, Told DEF ToldFacts
  <2> QED
    BY <1>1, <1>3, <2>1 DEF Named
<1> QED
  BY <1>4, <1>5, <1>6 DEF Named

LEMMA ToldSeparate ==
  ASSUME SessionInv, NEW n, NEW c, MayTell(n, c), Tell(n, c),
         UNCHANGED <<messages, turns, queue, sessions>>
  PROVE  Separate' /\ Accepted'
<1>0. Types /\ Arrival /\ OneTurn /\ Separate /\ Accepted /\ Types'
  BY Told DEF ToldFacts, SessionInv
<1>1. Len(transcripts) <= Len(transcripts') /\ Len(transcripts) \in Nat
      /\ DOMAIN transcripts = 1 .. Len(transcripts) /\ DOMAIN sessions' = DOMAIN sessions
      /\ sessions' = sessions /\ turns' = turns
  BY <1>0, Typed, Told DEF ToldFacts
<1>2. /\ \A k \in DOMAIN sessions', m \in Nat : Named(k, m)' => m <= Len(transcripts')
      /\ \A j, k \in DOMAIN sessions', m \in Nat : Named(j, m)' /\ Named(k, m)' => j = k \/ m = 0
  <2>1. PICK owner : owner = Here
    OBVIOUS
  <2>2. \A k \in DOMAIN sessions', m \in Nat : Named(k, m)' =>
           \/ m = 0
           \/ k \in DOMAIN sessions /\ Named(k, m)
           \/ k = owner /\ Len(transcripts) < m /\ m <= Len(transcripts')
    BY <2>1, ToldNames
  <2> QED
    BY <1>0, <1>1, <2>2, NamesApart
<1>3. Of(Here, c \cup {Own})
  <2>1. Of(Here, c)
    BY DEF MayTell
  <2>2. run.turn \in DOMAIN turns /\ turns[run.turn].session = Here
    BY Told DEF ToldFacts
  <2> QED
    BY <2>1, <2>2 DEF Of, Own
<1>4. ASSUME NEW k \in DOMAIN sessions', NEW m \in DOMAIN transcripts', Named(k, m)'
      PROVE  Of(k, transcripts[m])'
  <2>1. CASE m = n
    <3>1. Named(Here, n)' /\ Here \in DOMAIN sessions' /\ n \in Nat \ {0}
      BY <1>1, Told DEF ToldFacts, Named, MayTell
    <3>2. PICK h : h = Here
      OBVIOUS
    <3>3. Named(h, n)' /\ h \in DOMAIN sessions'
      BY <3>1, <3>2, Told DEF ToldFacts, Named
    <3>4. k = h
      BY <1>2, <1>4, <2>1, <3>1, <3>3
    <3>5. transcripts'[m] = c \cup {Own}
      BY <2>1, Told DEF ToldFacts
    <3> QED
      BY <1>1, <1>3, <3>2, <3>4, <3>5 DEF Of
  <2>2. CASE m # n
    <3>1. m \in DOMAIN transcripts /\ transcripts'[m] = transcripts[m] /\ m \in Nat /\ m # 0
          /\ m <= Len(transcripts)
      <4>1. /\ DOMAIN transcripts' = DOMAIN transcripts \cup {n}
            /\ \A l \in DOMAIN transcripts : l # n => transcripts'[l] = transcripts[l]
        <5>1. ToldFacts(n, c)
          BY Told
        <5> QED
          BY <5>1 DEF ToldFacts
      <4> QED
        BY <1>1, <2>2, <4>1
    <3>2. k \in DOMAIN sessions /\ Named(k, m)
      BY <1>1, <1>4, <3>1, ToldNames
    <3>3. Of(k, transcripts[m])
      BY <1>0, <3>1, <3>2 DEF Separate
    <3> QED
      BY <1>1, <3>1, <3>3 DEF Of
  <2> QED
    BY <2>1, <2>2
<1>5. ASSUME NEW k \in DOMAIN sessions'
      PROVE  Of(k, sessions[k].context)' /\ Of(k, processes[k].context)'
             /\ Of(k, processes[k].expected)'
  <2>1. Of(k, sessions[k].context) /\ Of(k, processes[k].context) /\ Of(k, processes[k].expected)
    BY <1>0, <1>1 DEF Separate
  <2>2. CASE k = Here
    <3>1. /\ processes'[k].context = c \cup {Own} /\ processes'[k].expected = run.history
          /\ Of(k, run.history)
      BY <1>0, <2>2, Told DEF ToldFacts, Separate
    <3> QED
      BY <1>1, <1>3, <2>1, <2>2, <3>1 DEF Of
  <2>3. CASE k # Here
    <3>1. processes'[k] = processes[k]
      BY <1>1, <2>3, Told DEF ToldFacts
    <3> QED
      BY <1>1, <2>1, <3>1 DEF Of
  <2> QED
    BY <2>2, <2>3
<1>6. \A i \in DOMAIN turns' : Of(turns[i].session, turns[i].past.history)'
  BY <1>0, <1>1 DEF Separate, Of
<1>7. Of(Here, run.history)'
  <2>1. Here' = Here /\ run'.history = run.history /\ Of(Here, run.history)
    BY <1>0, Told DEF ToldFacts, Separate
  <2> QED
    BY <1>1, <2>1 DEF Of
<1>8. Separate'
  BY <1>2, <1>4, <1>5, <1>6, <1>7 DEF Separate
<1>9. Accepted'
  <2>1. \A u : Done(u) => Done(u)'
    BY <1>1 DEF Done
  <2>2. run'.history = run.history /\ Own' = Own /\ run.turn # 0 /\ run'.step = "asked"
    BY Told DEF ToldFacts
  <2> QED
    BY <1>0, <1>1, <2>1, <2>2 DEF Accepted
<1> QED
  BY <1>8, <1>9

LEMMA ToldRemembers ==
  ASSUME SessionInv, NEW n, NEW c, MayTell(n, c), Tell(n, c),
         UNCHANGED <<messages, turns, queue, sessions>>
  PROVE  Remembers' /\ Asked'
<1>0. Types /\ Arrival /\ OneTurn /\ Separate /\ Remembers /\ Asked
  BY DEF SessionInv
<1>1. /\ sessions' = sessions /\ turns' = turns /\ messages' = messages
      /\ DOMAIN transcripts = 1 .. Len(transcripts) /\ Len(transcripts) \in Nat
      /\ n \in Nat \ {0}
  BY <1>0, Typed DEF MayTell
<1>2. PICK k : k = Here
  OBVIOUS
<1>3. /\ k \in DOMAIN sessions /\ Here' = k /\ run.turn # 0 /\ Own' = Own
      /\ processes'[k].native = n /\ processes'[k].context = c \cup {Own}
      /\ processes'[k].expected = run.history
      /\ \A j \in DOMAIN sessions : j # k => processes'[j] = processes[j]
      /\ transcripts'[n] = c \cup {Own}
      /\ \A m \in DOMAIN transcripts : m # n => transcripts'[m] = transcripts[m]
  <2>1. /\ Here \in DOMAIN sessions /\ Here' = Here /\ run.turn # 0 /\ Own' = Own
        /\ processes'[Here].native = n /\ processes'[Here].context = c \cup {Own}
        /\ processes'[Here].expected = run.history
        /\ \A j \in DOMAIN sessions : j # Here => processes'[j] = processes[j]
        /\ transcripts'[n] = c \cup {Own}
        /\ \A m \in DOMAIN transcripts : m # n => transcripts'[m] = transcripts[m]
    <3>1. ToldFacts(n, c)
      BY Told
    <3> QED
      BY <3>1 DEF ToldFacts
  <2> QED
    BY <1>2, <2>1
<1>4. /\ run.history \subseteq c
      /\ n = sessions[k].native => sessions[k].context \subseteq c /\ Usable(k, n)
      /\ sessions[k].native # 0 /\ sessions[k].context = run.history =>
           n = sessions[k].native \/ transcripts[sessions[k].native] = {}
      /\ \A j \in DOMAIN turns : turns[j].session = k /\ turns[j].past.native = n =>
           turns[j].past.history \subseteq c
      /\ n = Len(transcripts) + 1 \/ Named(k, n)
  BY <1>2 DEF MayTell, Remembered
<1>5. sessions[k].native \in 0 .. Len(transcripts)
  BY <1>3, NamesKnown
<1>6. sessions[k].native # 0 /\ sessions[k].native # n =>
        transcripts'[sessions[k].native] = transcripts[sessions[k].native]
  BY <1>1, <1>3, <1>5
\* Other sessions name other native sessions.
<1>7. ASSUME NEW j \in DOMAIN sessions, j # k, NEW m \in 0 .. Len(transcripts), Named(j, m)
      PROVE  m # n /\ (m # 0 => transcripts'[m] = transcripts[m])
  <2>1. m = 0 \/ ~Named(k, m)
    BY <1>0, <1>1, <1>3, <1>7 DEF Separate
  <2>2. m # n
    BY <1>1, <1>4, <2>1
  <2> QED
    BY <1>1, <1>3, <2>2
<1>8. ASSUME NEW j \in DOMAIN sessions, j # k, NEW m \in 0 .. Len(transcripts), Named(j, m), NEW h
      PROVE  (Knows(j, m, h) => Knows(j, m, h)') /\ (Agrees(j, m, h) => Agrees(j, m, h)')
  <2>1. m # n /\ (m # 0 => transcripts'[m] = transcripts[m]) /\ processes'[j] = processes[j]
    BY <1>3, <1>7, <1>8
  <2>2. Knows(j, m, h) => Knows(j, m, h)'
    BY <2>1 DEF Knows
  <2>3. sessions[j].native # 0 => transcripts'[sessions[j].native] = transcripts[sessions[j].native]
    <3>1. sessions[j].native \in 0 .. Len(transcripts) /\ Named(j, sessions[j].native)
      BY NamesKnown DEF Named
    <3> QED
      BY <1>7, <1>8, <3>1
  <2>4. sessions[j].native # 0 => (Usable(j, sessions[j].native) <=> Usable(j, sessions[j].native)')
    BY <1>1, <2>1, <2>3 DEF Usable
  <2> QED
    BY <1>1, <2>2, <2>4 DEF Agrees
\* A native session of this one that cannot be used is not told the message.
<1>9. ~Usable(k, sessions[k].native) /\ sessions[k].native # 0 => ~Usable(k, sessions[k].native)'
  BY <1>1, <1>3, <1>4, <1>6 DEF Usable
<1>10. Agrees(k, n, run.history)'
  <2>1. PICK h : h = run.history
    OBVIOUS
  <2>2. sessions[k].native # 0 /\ sessions[k].context = h /\ n # sessions[k].native =>
          ~Usable(k, sessions[k].native)'
    BY <1>1, <1>3, <1>4, <1>6, <2>1 DEF Usable
  <2>3. run'.history = h
    BY <2>1, Told DEF ToldFacts
  <2> QED
    BY <1>1, <2>2, <2>3 DEF Agrees
<1>11. ASSUME NEW j \in DOMAIN sessions'
      PROVE  /\ Knows(j, sessions[j].native, sessions[j].context)'
             /\ Knows(j, processes[j].native, processes[j].expected)'
             /\ Agrees(j, processes[j].native, processes[j].expected)'
             /\ processes'[j].native # 0 =>
                  transcripts'[processes'[j].native] \in {{}, processes'[j].context}
             /\ processes'[j].native = 0 => processes'[j] = NoProcess
  <2>0. j \in DOMAIN sessions /\ Knows(j, sessions[j].native, sessions[j].context)
    BY <1>0, <1>1 DEF Remembers
  <2>1. CASE j = k
    <3>1. Knows(j, sessions[j].native, sessions[j].context)'
      BY <1>1, <1>3, <1>4, <1>6, <2>0, <2>1 DEF Knows
    <3>2. Knows(j, processes[j].native, processes[j].expected)'
      BY <1>3, <1>4, <2>1 DEF Knows
    <3>3. Agrees(j, processes[j].native, processes[j].expected)'
      <4>1. run'.history = run.history
        <5>1. ToldFacts(n, c)
          BY Told
        <5> QED
          BY <5>1 DEF ToldFacts
      <4> QED
        BY <1>3, <1>10, <2>1, <4>1 DEF Agrees
    <3> QED
      BY <1>1, <1>3, <2>1, <3>1, <3>2, <3>3
  <2>2. CASE j # k
    <3>1. PICK s, h, m, g : /\ s = sessions[j].native /\ h = sessions[j].context
                            /\ m = processes[j].native /\ g = processes[j].expected
      OBVIOUS
    <3>2. s \in 0 .. Len(transcripts) /\ m \in 0 .. Len(transcripts) /\ Named(j, s) /\ Named(j, m)
      BY <2>0, <3>1, NamesKnown DEF Named
    <3>3. Knows(j, s, h) /\ Knows(j, m, g) /\ Agrees(j, m, g)
      BY <1>0, <2>0, <3>1 DEF Remembers
    <3>4. Knows(j, s, h)' /\ Knows(j, m, g)' /\ Agrees(j, m, g)'
      BY <1>8, <2>0, <2>2, <3>2, <3>3
    <3>5. processes'[j] = processes[j]
      BY <1>3, <2>0, <2>2
    <3>6. /\ Knows(j, sessions[j].native, sessions[j].context)'
          /\ Knows(j, processes[j].native, processes[j].expected)'
          /\ Agrees(j, processes[j].native, processes[j].expected)'
      BY <1>1, <3>1, <3>4, <3>5 DEF Knows, Agrees, Usable
    <3>7. /\ m # 0 => transcripts[m] \in {{}, processes[j].context}
          /\ m = 0 => processes[j] = NoProcess
      BY <1>0, <2>0, <3>1 DEF Remembers
    <3>8. m # 0 => transcripts'[m] = transcripts[m]
      BY <1>7, <2>0, <2>2, <3>2
    <3> QED
      BY <3>1, <3>5, <3>6, <3>7, <3>8
  <2> QED
    BY <2>1, <2>2
<1>12. ASSUME NEW i \in DOMAIN turns', turns'[i].session # 0
      PROVE  /\ Knows(turns[i].session, turns[i].past.native, turns[i].past.history)'
             /\ Agrees(turns[i].session, turns[i].past.native, turns[i].past.history)'
  <2>1. PICK j, m, h : j = turns[i].session /\ m = turns[i].past.native /\ h = turns[i].past.history
    OBVIOUS
  <2>2. j \in DOMAIN sessions
    BY <1>0, <1>1, <1>12, <2>1, Typed DEF Types
  <2>3. m \in 0 .. Len(transcripts) /\ Named(j, m)
    BY <1>1, <2>1, <2>2, NamesKnown DEF Named
  <2>4. Knows(j, m, h) /\ Agrees(j, m, h)
    BY <1>0, <1>1, <1>12, <2>1 DEF Remembers
  <2>5. CASE j # k
    <3>1. Knows(j, m, h)' /\ Agrees(j, m, h)'
      BY <1>8, <2>2, <2>3, <2>4, <2>5
    <3> QED
      BY <1>1, <2>1, <3>1 DEF Knows, Agrees, Usable
  <2>6. CASE j = k
    <3>1. m = n => h \subseteq c
      BY <1>1, <1>4, <2>1, <2>6
    <3>2. m # 0 /\ m # n => transcripts'[m] = transcripts[m] /\ processes'[k].native # m
      BY <1>1, <1>3, <2>3
    <3>3. Knows(k, m, h)'
      BY <1>3, <2>4, <2>6, <3>1, <3>2 DEF Knows
    <3>4. Agrees(k, m, h)'
      BY <1>1, <1>9, <2>4, <2>6 DEF Agrees
    <3> QED
      BY <1>1, <2>1, <2>6, <3>3, <3>4 DEF Knows, Agrees, Usable
  <2> QED
    BY <2>5, <2>6
<1>13. Remembers'
  <2>1. \A i \in DOMAIN turns' : turns'[i].session # 0 =>
          (turns'[i].status \in {"pending", "running"} \/ i = run'.turn =>
            turns'[i].resume \in {0, turns'[i].past.native})
    <3>1. run'.turn = run.turn
      BY Told DEF ToldFacts
    <3> QED
      BY <1>0, <1>1, <3>1 DEF Remembers
  <2>2. \A i \in DOMAIN turns' : turns'[i].session = 0 => turns'[i] = Unbound
    BY <1>0, <1>1 DEF Remembers
  <2> QED
    BY <1>11, <1>12, <2>1, <2>2 DEF Remembers
<1>14. Asked'
  <2>1. /\ run'.step = "asked" /\ run'.turn = run.turn /\ run'.recorded = n
        /\ run'.history = run.history
           /\ run'.native = (IF Remembered THEN sessions[k].native ELSE run.attempt)
    BY <1>2, Told DEF ToldFacts
  <2>2. /\ run.attempt # 0 /\ transcripts[run.attempt] = {} /\ run.attempt \in DOMAIN transcripts
        /\ messages[run.turn].body = "text"
    <3>1. run.step = "started"
      BY DEF MayTell
    <3>2. Named(k, run.attempt) /\ run.attempt \in Nat
      BY <1>0, <1>2, <1>3 DEF Named, Types, Run
    <3>3. run.attempt # 0
      BY <1>0, <3>1 DEF Asked
    <3> QED
      BY <1>0, <1>1, <1>3, <3>1, <3>2, <3>3 DEF Asked, Separate, OneTurn
  <2>3. run'.native # 0
    BY <1>2, <2>1, <2>2 DEF Remembered
  <2>4. run'.native = n \/ ~Usable(Here, run.native)'
    <3>1. CASE Remembered
      <4>1. run'.native = sessions[k].native /\ sessions[k].native # 0
              /\ sessions[k].context = run.history
        BY <1>2, <2>1, <3>1 DEF Remembered
      <4> QED
        BY <1>1, <1>3, <1>10, <2>1, <4>1 DEF Agrees, Usable
    <3>2. CASE ~Remembered
      <4>1. run'.native = run.attempt
        BY <2>1, <3>2
      <4>2. run.attempt # n => transcripts'[run.attempt] = {} /\ processes'[k].native # run.attempt
        BY <1>3, <2>2
      <4> QED
        BY <1>3, <4>1, <4>2 DEF Usable
    <3> QED
      BY <3>1, <3>2
  <2>5. Agrees(Here, run.recorded, run.history)'
    BY <1>3, <1>10, <2>1 DEF Agrees
  <2>6. run'.history \cup {Own'} \subseteq processes'[k].context
    BY <1>3, <1>4, <2>1
  <2> QED
    BY <1>1, <1>3, <2>1, <2>2, <2>3, <2>4, <2>5, <2>6 DEF Asked
<1> QED
  BY <1>13, <1>14

LEMMA TellKeeps ==
  ASSUME SessionInv, NEW n, NEW c, MayTell(n, c), Tell(n, c),
         UNCHANGED <<messages, turns, queue, sessions>>
  PROVE  SessionInv'
<1>0. Arrival /\ OneTurn
  BY DEF SessionInv
<1>1. ToldFacts(n, c)
  BY Told
<1>2. Types' /\ run'.step = "asked" /\ run'.turn = run.turn /\ run'.rev = run.rev
  BY <1>1 DEF ToldFacts
<1>3. Arrival'
  BY <1>0 DEF Arrival
<1>4. OneTurn'
  BY <1>0, <1>2 DEF OneTurn, MayTell
<1>5. Separate' /\ Accepted' /\ Remembers' /\ Asked'
  BY ToldSeparate, ToldRemembers
<1> QED
  BY <1>2, <1>3, <1>4, <1>5 DEF SessionInv

\* What is known before the Agent of a turn that started is told.
LEMMA BeforeTold ==
  ASSUME SessionInv, run.step = "started"
  PROVE  /\ run.turn \in DOMAIN turns /\ Here \in DOMAIN sessions /\ run.turn # 0 /\ Here # 0
         /\ run.history \subseteq Turn /\ Of(Here, run.history)
         /\ \A n \in DOMAIN transcripts : transcripts[n] \subseteq Turn
         /\ processes[Here].context \subseteq Turn /\ Of(Here, processes[Here].context)
         /\ turns[run.turn].resume \in {0, turns[run.turn].past.native}
         /\ run.attempt # 0 /\ run.attempt \in Nat
         /\ \A j \in DOMAIN turns : turns[j].session = Here =>
              Knows(Here, turns[j].past.native, turns[j].past.history)
         /\ DOMAIN transcripts = 1 .. Len(transcripts) /\ Len(transcripts) \in Nat
         /\ Knows(Here, sessions[Here].native, sessions[Here].context)
         /\ Knows(Here, processes[Here].native, processes[Here].expected)
         /\ Agrees(Here, processes[Here].native, processes[Here].expected)
<1>0. Types /\ Arrival /\ OneTurn /\ Separate /\ Remembers /\ Asked
  BY DEF SessionInv
<1>1. run.turn # 0
  BY <1>0 DEF Types
<1>2. run.turn \in DOMAIN turns /\ Here \in DOMAIN sessions /\ Here # 0
  BY <1>0, <1>1, RunBound
<1>3. run.history \subseteq Turn /\ run.attempt \in Nat /\ run.attempt # 0 /\ Of(Here, run.history)
  BY <1>0, <1>1 DEF Types, Run, Asked, Separate
<1>4. processes[Here].context \subseteq Turn
  <2>1. processes[Here] \in Process
    BY <1>0, <1>2, Typed DEF Types
  <2> QED
    BY <2>1 DEF Process
<1>5. /\ DOMAIN transcripts = 1 .. Len(transcripts) /\ Len(transcripts) \in Nat
      /\ \A n \in DOMAIN transcripts : transcripts[n] \subseteq Turn
  BY <1>0, Typed
<1>6. turns[run.turn].resume \in {0, turns[run.turn].past.native}
  BY <1>0, <1>2 DEF Remembers, Here
<1>7. \A j \in DOMAIN turns : turns[j].session = Here =>
        Knows(Here, turns[j].past.native, turns[j].past.history)
  BY <1>0, <1>2 DEF Remembers
<1> QED
  BY <1>0, <1>1, <1>2, <1>3, <1>4, <1>5, <1>6, <1>7 DEF Separate, Remembers

LEMMA ExecuteKeeps ==
  ASSUME SessionInv, ExecuteDirectAgent
  PROVE  SessionInv'
<1>0. Types /\ Arrival /\ OneTurn /\ Separate /\ Remembers /\ Asked
  BY DEF SessionInv
<1>1. run.step = "started" /\ UNCHANGED <<messages, turns, queue, sessions>>
  BY DEF ExecuteDirectAgent
<1>2. PICK k : k = Here
  OBVIOUS
<1>3. /\ run.turn \in DOMAIN turns /\ k \in DOMAIN sessions /\ run.turn # 0
      /\ run.history \subseteq Turn /\ Of(k, run.history)
      /\ \A n \in DOMAIN transcripts : transcripts[n] \subseteq Turn
      /\ processes[k].context \subseteq Turn /\ Of(k, processes[k].context)
      /\ turns[run.turn].resume \in {0, turns[run.turn].past.native}
      /\ run.attempt # 0 /\ run.attempt \in Nat
      /\ DOMAIN transcripts = 1 .. Len(transcripts) /\ Len(transcripts) \in Nat
  BY <1>1, <1>2, BeforeTold
<1>4. /\ \A j \in DOMAIN turns : turns[j].session = k =>
           Knows(k, turns[j].past.native, turns[j].past.history)
      /\ Knows(k, sessions[k].native, sessions[k].context)
      /\ Knows(k, processes[k].native, processes[k].expected)
      /\ Agrees(k, processes[k].native, processes[k].expected)
  BY <1>1, <1>2, BeforeTold
<1>5. CASE KeepsProcess
  <2>1. PICK n, c : n = processes[k].native /\ c = processes[k].context
    OBVIOUS
  <2>2. Tell(n, c)
    BY <1>2, <1>5, <2>1 DEF ExecuteDirectAgent
  <2>3. n # 0 /\ processes[k].expected = run.history
    BY <1>2, <1>5, <2>1 DEF KeepsProcess
  <2>4. n \in Nat \ {0} /\ Named(k, n)
    BY <1>3, <2>1, <2>3, NamesKnown DEF Named
  <2>5. run.history \subseteq c
    BY <1>4, <2>1, <2>3 DEF Knows
  <2>6. n = sessions[k].native => sessions[k].context \subseteq c /\ Usable(k, n)
    BY <1>4, <2>1, <2>3 DEF Knows, Usable
  <2>7. sessions[k].native # 0 /\ sessions[k].context = run.history =>
          n = sessions[k].native \/ transcripts[sessions[k].native] = {}
    BY <1>4, <2>1, <2>3 DEF Agrees, Usable
  <2>8. \A j \in DOMAIN turns : turns[j].session = k /\ turns[j].past.native = n =>
          turns[j].past.history \subseteq c
    BY <1>4, <2>1, <2>3 DEF Knows
  <2>9. MayTell(n, c)
    BY <1>1, <1>2, <1>3, <2>1, <2>4, <2>5, <2>6, <2>7, <2>8 DEF MayTell, Remembered
  <2> QED
    BY <1>1, <2>2, <2>9, TellKeeps
<1>6. CASE ~KeepsProcess /\ Resumed # 0
  <2>1. PICK n : n = Resumed
    OBVIOUS
  <2>2. PICK c : c = transcripts[n]
    OBVIOUS
  <2>3. Tell(n, c) /\ c # {} /\ n # 0
    BY <1>6, <2>1, <2>2 DEF ExecuteDirectAgent, MissingTranscript, StartingContext
  <2>4. /\ \/ n = turns[run.turn].past.native /\ turns[run.turn].past.history = run.history
           \/ n = sessions[k].native /\ sessions[k].context = run.history
        /\ turns[run.turn].session = k
    BY <1>2, <1>3, <1>6, <2>1 DEF Resumed, Remembered, ExecuteDirectAgent,
      ContinuationConflicts, Here
  <2>5. n \in Nat \ {0} /\ Named(k, n) /\ n \in DOMAIN transcripts
    <3>1. n \in 0 .. Len(transcripts)
      BY <1>3, <2>4, NamesKnown
    <3> QED
      BY <1>3, <2>3, <2>4, <3>1 DEF Named
  <2>6. c \subseteq Turn /\ Of(k, c)
    BY <1>0, <1>3, <2>2, <2>5 DEF Separate
  <2>7. run.history \subseteq c
    BY <1>3, <1>4, <2>2, <2>3, <2>4 DEF Knows
  <2>8. n = sessions[k].native => sessions[k].context \subseteq c /\ Usable(k, n)
    BY <1>4, <2>2, <2>3 DEF Knows, Usable
  <2>9. sessions[k].native # 0 /\ sessions[k].context = run.history =>
          n = sessions[k].native \/ transcripts[sessions[k].native] = {}
    <3>1. Agrees(k, turns[run.turn].past.native, turns[run.turn].past.history)
      BY <1>0, <1>2, <1>3, <2>4, BeforeTold, <1>1 DEF Remembers
    <3> QED
      BY <2>3, <2>4, <3>1 DEF Agrees, Usable
  <2>10. \A j \in DOMAIN turns : turns[j].session = k /\ turns[j].past.native = n =>
          turns[j].past.history \subseteq c
    BY <1>4, <2>2, <2>3 DEF Knows
  <2>11. MayTell(n, c)
    BY <1>1, <1>2, <2>5, <2>6, <2>7, <2>8, <2>9, <2>10 DEF MayTell, Remembered
  <2> QED
    BY <1>1, <2>3, <2>11, TellKeeps
<1>7. CASE ~KeepsProcess /\ Resumed = 0
  <2>1. PICK n, c : n = run.attempt /\ c = run.history
    OBVIOUS
  <2>2. Tell(n, c)
    BY <1>7, <2>1 DEF ExecuteDirectAgent, StartingContext
  <2>3. /\ n # sessions[k].native
        /\ \A i \in DOMAIN turns : n # turns[i].past.native
    BY <1>0, <1>1, <1>2, <2>1 DEF Asked
  <2>4. ~Remembered
    BY <1>3, <1>7 DEF Resumed, Remembered
  <2>5. Named(k, n)
    BY <1>2, <1>3, <2>1 DEF Named
  <2>6. MayTell(n, c)
    BY <1>1, <1>2, <1>3, <2>1, <2>3, <2>4, <2>5 DEF MayTell
  <2> QED
    BY <1>1, <2>2, <2>6, TellKeeps
<1> QED
  BY <1>5, <1>6, <1>7

LEMMA UnavailableKeeps ==
  ASSUME SessionInv, ResumeUnavailable
  PROVE  SessionInv'
<1>0. Types /\ Arrival /\ OneTurn /\ Separate /\ Remembers
  BY DEF SessionInv
<1>1. run.step = "started" /\ UNCHANGED <<messages, turns, queue, sessions>>
  BY DEF ResumeUnavailable
<1>2. /\ run.turn \in DOMAIN turns /\ Here \in DOMAIN sessions /\ Here # 0
      /\ run.history \subseteq Turn /\ Of(Here, run.history) /\ Len(transcripts) \in Nat
  BY <1>1, BeforeTold
<1>3. PICK n, c : n = Len(transcripts) + 1 /\ c = run.history
  OBVIOUS
<1>4. Tell(n, c)
  BY <1>3 DEF ResumeUnavailable, StartingContext
<1>5. n \in Nat \ {0} /\ n \notin 0 .. Len(transcripts)
  BY <1>2, <1>3
<1>6. n # sessions[Here].native
  BY <1>2, <1>5, NamesKnown
<1>7. \A j \in DOMAIN turns : turns[j].session = Here => turns[j].past.native # n
  BY <1>2, <1>5, NamesKnown
<1>8. Remembered => transcripts[sessions[Here].native] = {}
  BY DEF ResumeUnavailable, MissingTranscript, Resumed
<1>9. MayTell(n, c)
  BY <1>1, <1>2, <1>3, <1>5, <1>6, <1>7, <1>8 DEF MayTell
<1> QED
  BY <1>1, <1>4, <1>9, TellKeeps

LEMMA ReplyKeeps ==
  ASSUME SessionInv, Reply
  PROVE  SessionInv'
<1>0. Types /\ Arrival /\ OneTurn /\ Accepted /\ Separate /\ Remembers /\ Asked
  BY DEF SessionInv
<1>1. /\ run.step = "asked" /\ UNCHANGED <<messages, turns, queue, sessions, transcripts>>
      /\ run \in Run /\ run.turn # 0
  BY <1>0 DEF Reply, Types
<1>2. PICK k, e : k = Here /\ e = run.history \cup {Own}
  OBVIOUS
<1>3. run.turn \in DOMAIN turns /\ k \in DOMAIN sessions /\ k # 0 /\ Own \in Turn
  BY <1>0, <1>1, <1>2, RunBound
<1>4. /\ messages[run.turn].body = "text" /\ run.recorded # 0 /\ run.native # 0
      /\ processes[k].native = run.recorded /\ e \subseteq processes[k].context
      /\ Agrees(k, run.recorded, run.history)
      /\ run.native = run.recorded \/ ~Usable(k, run.native)
  BY <1>0, <1>1, <1>2 DEF OneTurn, Asked
<1>5. /\ run' \in Run /\ run'.step = "replied" /\ run'.turn = run.turn /\ run'.rev = run.rev
      /\ run'.history = run.history /\ run'.attempt = run.attempt /\ run'.native = run.native
      /\ run'.recorded = run.recorded
  BY <1>1 DEF Reply, Run, Steps
<1>6. /\ processes[k] \in Process /\ processes \in Seq(Process) /\ k \in DOMAIN processes
      /\ Len(processes) = Len(sessions)
  BY <1>0, <1>3, Typed DEF Types
<1>7. PICK p : p = [processes[k] EXCEPT !.expected = e]
  OBVIOUS
<1>8. /\ p \in Process /\ p.native = processes[k].native /\ p.context = processes[k].context
      /\ p.expected = e
  <2>1. e \in SUBSET Turn
    BY <1>1, <1>2, <1>3 DEF Run
  <2> QED
    BY <1>6, <1>7, <2>1 DEF Process
<1>9. processes' = [processes EXCEPT ![k] = p]
  BY <1>2, <1>7 DEF Reply
<1>10. /\ processes' \in Seq(Process) /\ Len(processes') = Len(sessions)
       /\ \A j \in DOMAIN processes : processes'[j] = IF j = k THEN p ELSE processes[j]
       /\ DOMAIN processes = DOMAIN sessions
  BY <1>0, <1>6, <1>8, <1>9, Replaced, Typed
<1>11. \A j \in DOMAIN sessions : 
         processes'[j].native = processes[j].native /\ processes'[j].context = processes[j].context
  BY <1>8, <1>10
<1>12. Here' = k /\ Own' = Own
  BY <1>1, <1>2, <1>5 DEF Here, Own
<1>13. Types'
  BY <1>0, <1>1, <1>3, <1>5, <1>10 DEF Types
<1>14. Arrival' /\ OneTurn'
  <2>1. Arrival'
    BY <1>0, <1>1 DEF Arrival
  <2>2. OneTurn'
    BY <1>0, <1>1, <1>5 DEF OneTurn
  <2> QED
    BY <2>1, <2>2
<1>15. Accepted'
  <2>1. \A u : Done(u) => Done(u)'
    BY <1>1 DEF Done
  <2> QED
    BY <1>0, <1>1, <1>5, <1>12, <2>1 DEF Accepted
<1>16. Separate'
  <2>1. \A j \in DOMAIN sessions, n \in Nat : Named(j, n)' <=> Named(j, n)
    BY <1>1, <1>2, <1>5, <1>11, <1>12 DEF Named
  <2>2. Of(k, e) /\ Of(k, run.history)
    <3>1. Of(k, run.history)
      BY <1>0, <1>1, <1>2 DEF Separate
    <3> QED
      BY <1>2, <1>3, <3>1 DEF Of, Own, Here
  <2>3. ASSUME NEW j \in DOMAIN sessions
        PROVE  Of(j, sessions[j].context)' /\ Of(j, processes[j].context)'
               /\ Of(j, processes[j].expected)'
    <3>1. Of(j, sessions[j].context) /\ Of(j, processes[j].context) /\ Of(j, processes[j].expected)
      BY <1>0, <2>3 DEF Separate
    <3>2. processes'[j].expected = processes[j].expected \/ (j = k /\ processes'[j].expected = e)
      BY <1>8, <1>10, <2>3
    <3>3. /\ sessions'[j].context = sessions[j].context /\ turns' = turns
          /\ processes'[j].context = processes[j].context
      BY <1>1, <1>11, <2>3
    <3> QED
      BY <2>2, <3>1, <3>2, <3>3 DEF Of
  <2>4. \A i \in DOMAIN turns : Of(turns[i].session, turns[i].past.history)'
    BY <1>0, <1>1 DEF Separate, Of
  <2>5. Of(Here, run.history)'
    BY <1>1, <1>5, <1>12, <2>2 DEF Of
  <2>6. ASSUME NEW j \in DOMAIN sessions, NEW n \in DOMAIN transcripts, Named(j, n)'
        PROVE  Of(j, transcripts[n])'
    <3>1. n \in Nat
      BY <1>0, Typed
    <3>2. Of(j, transcripts[n])
      BY <1>0, <2>1, <2>6, <3>1 DEF Separate
    <3> QED
      BY <1>1, <3>2 DEF Of
  <2> QED
    BY <1>0, <1>1, <2>1, <2>3, <2>4, <2>5, <2>6 DEF Separate
<1>17. Remembers'
  <2>1. \A j \in DOMAIN sessions : \A n, h : Knows(j, n, h) => Knows(j, n, h)'
    BY <1>1, <1>11 DEF Knows
  <2>2. \A j \in DOMAIN sessions : \A n, h : Agrees(j, n, h) => Agrees(j, n, h)'
    BY <1>1, <1>11 DEF Agrees, Usable
  <2>3. ASSUME NEW j \in DOMAIN sessions
        PROVE  /\ Knows(j, sessions[j].native, sessions[j].context)'
               /\ Knows(j, processes[j].native, processes[j].expected)'
               /\ Agrees(j, processes[j].native, processes[j].expected)'
               /\ processes'[j].native # 0 =>
                    transcripts'[processes'[j].native] \in {{}, processes'[j].context}
               /\ processes'[j].native = 0 => processes'[j] = NoProcess
    <3>1. PICK s, h, m, g : /\ s = sessions[j].native /\ h = sessions[j].context
                            /\ m = processes[j].native /\ g = processes[j].expected
      OBVIOUS
    <3>2. /\ Knows(j, s, h) /\ Knows(j, m, g) /\ Agrees(j, m, g)
          /\ m # 0 => transcripts[m] \in {{}, processes[j].context}
          /\ m = 0 => processes[j] = NoProcess
      BY <1>0, <2>3, <3>1 DEF Remembers
    <3>3. Knows(j, s, h)' /\ Knows(j, m, g)' /\ Agrees(j, m, g)'
      BY <2>1, <2>2, <2>3, <3>2
    <3>4. Knows(j, sessions[j].native, sessions[j].context)'
      BY <1>1, <3>1, <3>3 DEF Knows
    <3>5. CASE j # k
      <4>1. processes'[j] = processes[j]
        BY <1>10, <2>3, <3>5
      <4> QED
        BY <1>1, <3>1, <3>2, <3>3, <3>4, <4>1 DEF Knows, Agrees, Usable
    <3>6. CASE j = k
      <4>1. processes'[j].native = m /\ processes'[j].expected = e /\ m # 0 /\ m = run.recorded
            /\ processes'[j].context = processes[j].context
        BY <1>4, <1>8, <1>10, <1>3, <3>1, <3>6
      <4>2. Own \notin sessions[j].context
        BY <1>0, <1>1, <2>3 DEF Accepted
      <4>3. Agrees(j, processes[j].native, processes[j].expected)'
        <5>1. sessions'[j].context # processes'[j].expected
          BY <1>1, <1>2, <4>1, <4>2
        <5> QED
          BY <5>1 DEF Agrees
      <4>4. e \subseteq processes[j].context
        BY <1>4, <3>6
      <4>5. Knows(j, processes[j].native, processes[j].expected)'
        BY <1>1, <3>2, <4>1, <4>4 DEF Knows
      <4> QED
        BY <1>1, <3>2, <3>4, <4>1, <4>3, <4>5
    <3> QED
      BY <3>5, <3>6
  <2>4. ASSUME NEW i \in DOMAIN turns, turns[i].session # 0
        PROVE  /\ Knows(turns[i].session, turns[i].past.native, turns[i].past.history)'
               /\ Agrees(turns[i].session, turns[i].past.native, turns[i].past.history)'
    <3>1. PICK j, m, h : j = turns[i].session /\ m = turns[i].past.native
            /\ h = turns[i].past.history
      OBVIOUS
    <3>2. j \in DOMAIN sessions
      BY <1>0, <2>4, <3>1, Typed DEF Types
    <3>3. Knows(j, m, h)' /\ Agrees(j, m, h)'
      BY <1>0, <2>1, <2>2, <2>4, <3>1, <3>2 DEF Remembers
    <3> QED
      BY <1>1, <3>1, <3>3 DEF Knows, Agrees, Usable
  <2>5. \A i \in DOMAIN turns : turns[i].session # 0 =>
          (turns[i].status \in {"pending", "running"} \/ i = run'.turn =>
             turns[i].resume \in {0, turns[i].past.native})
    BY <1>0, <1>5 DEF Remembers
  <2>6. \A i \in DOMAIN turns : turns[i].session = 0 => turns[i] = Unbound
    BY <1>0 DEF Remembers
  <2> QED
    BY <1>1, <2>3, <2>4, <2>5, <2>6 DEF Remembers
<1>18. Asked'
  <2>1. Agrees(Here, run.recorded, run.history)'
    BY <1>1, <1>3, <1>4, <1>5, <1>11, <1>12 DEF Agrees, Usable
  <2>2. run'.native = run'.recorded \/ ~Usable(Here, run.native)'
    BY <1>1, <1>3, <1>4, <1>5, <1>11, <1>12 DEF Usable
  <2>3. processes'[k].native = run.recorded /\ e \subseteq processes'[k].context
          /\ processes'[k].expected = e
    BY <1>3, <1>4, <1>8, <1>10, <1>11
  <2> QED
    BY <1>1, <1>2, <1>4, <1>5, <1>12, <2>1, <2>2, <2>3 DEF Asked
<1> QED
  BY <1>13, <1>14, <1>15, <1>16, <1>17, <1>18 DEF SessionInv

LEMMA PersistKeeps ==
  ASSUME SessionInv, PersistRuntimeDirectNativeSession
  PROVE  SessionInv'
<1>0. Types /\ Arrival /\ OneTurn /\ Accepted /\ Separate /\ Remembers /\ Asked
  BY DEF SessionInv
<1>1. /\ run.step = "accepted" /\ run' = Idle /\ run.turn # 0 /\ run \in Run
      /\ UNCHANGED <<messages, turns, queue, processes, transcripts>>
  BY <1>0 DEF PersistRuntimeDirectNativeSession, Types
<1>2. \A i \in DOMAIN turns : turns[i].status # "running"
  BY <1>0, <1>1 DEF OneTurn
<1>3. CASE ~sessions[Here].open
  <2>1. sessions' = sessions
    BY <1>3 DEF PersistRuntimeDirectNativeSession
  <2>2. /\ processes' \in Seq(Process) /\ Len(processes') = Len(processes)
        /\ turns' \in Seq(Bound) /\ Len(turns') = Len(turns)
    BY <1>0, <1>1 DEF Types
  <2> QED
    BY <1>1, <1>2, <2>1, <2>2, TurnEnds
<1>4. CASE sessions[Here].open
  <2>1. PICK k, h : k = Here /\ h = run.history \cup {Own}
    OBVIOUS
  <2>2. run.turn \in DOMAIN turns /\ k \in DOMAIN sessions /\ k # 0 /\ Own \in Turn
    BY <1>0, <1>1, <2>1, RunBound
  <2>3. /\ run.recorded # 0 /\ run.native # 0 /\ processes[k].native = run.recorded
        /\ h \subseteq processes[k].context /\ processes[k].expected = h
        /\ run.native = run.recorded \/ ~Usable(k, run.native)
    BY <1>0, <1>1, <2>1 DEF OneTurn, Asked
  <2>4. h \in SUBSET Turn /\ run.native \in Nat
    BY <1>1, <2>1, <2>2 DEF Run
  <2>5. sessions[k] \in LogicalSession /\ sessions \in Seq(LogicalSession)
    BY <1>0, <2>2 DEF Types
  <2>6. PICK s : s = [sessions[k] EXCEPT !.native = run.native, !.context = h]
    OBVIOUS
  <2>7. /\ s \in LogicalSession /\ s.open = sessions[k].open /\ s.native = run.native
        /\ s.context = h
    BY <2>4, <2>5, <2>6 DEF LogicalSession
  <2>8. sessions' = [sessions EXCEPT ![k] = s]
    BY <1>4, <2>1, <2>6 DEF PersistRuntimeDirectNativeSession
  <2>9. /\ sessions' \in Seq(LogicalSession) /\ Len(sessions') = Len(sessions)
        /\ DOMAIN sessions' = DOMAIN sessions
        /\ \A j \in DOMAIN sessions : sessions'[j] = IF j = k THEN s ELSE sessions[j]
    BY <2>2, <2>5, <2>7, <2>8, Replaced
  <2>10. Types'
    BY <1>0, <1>1, <2>9, IdleTyped DEF Types
  <2>11. Arrival'
    <3>1. \A j \in DOMAIN sessions' : sessions'[j].open <=> j = Len(sessions')
      <4>1. \A j \in DOMAIN sessions : sessions'[j].open = sessions[j].open
        BY <2>7, <2>9
      <4> QED
        BY <1>0, <2>9, <4>1 DEF Arrival
    <3> QED
      BY <1>0, <1>1, <3>1 DEF Arrival
  <2>12. OneTurn'
    BY <1>0, <1>1, <1>2, IdleTyped DEF OneTurn
  <2>13. Accepted'
    <3>1. \A u : Done(u) => Done(u)'
      BY <1>1 DEF Done
    <3>2. \A u \in h : Done(u)
      BY <1>0, <1>1, <2>1 DEF Accepted
    <3>3. \A j \in DOMAIN sessions' : \A u \in sessions'[j].context : Done(u)'
      BY <1>0, <2>7, <2>9, <3>1, <3>2 DEF Accepted
    <3>4. \A u \in run'.history : Done(u)'
      BY <1>1 DEF Idle
    <3> QED
      BY <1>0, <1>1, <3>1, <3>3, <3>4, IdleTyped DEF Accepted
  <2>14. Separate'
    <3>1. ASSUME NEW j \in DOMAIN sessions, NEW n \in Nat, Named(j, n)'
          PROVE  Named(j, n)
      <4>1. CASE n = sessions'[j].native
        <5>1. CASE j = k
          BY <1>1, <2>1, <2>7, <2>9, <4>1, <5>1 DEF Named
        <5>2. CASE j # k
          BY <2>9, <4>1, <5>2 DEF Named
        <5> QED
          BY <5>1, <5>2
      <4>2. CASE n = processes'[j].native \/ \E i \in DOMAIN turns' : turns'[i].session = j
                   /\ n = turns'[i].past.native
        BY <1>1, <4>2 DEF Named
      <4>3. run'.turn = 0
        BY <1>1, IdleTyped
      <4> QED
        BY <3>1, <4>1, <4>2, <4>3 DEF Named
    <3>2. Of(k, h)
      <4>1. Of(k, run.history)
        BY <1>0, <1>1, <2>1 DEF Separate
      <4> QED
        BY <2>1, <2>2, <4>1 DEF Of, Own, Here
    <3>3. ASSUME NEW j \in DOMAIN sessions
          PROVE  Of(j, sessions[j].context)' /\ Of(j, processes[j].context)'
                 /\ Of(j, processes[j].expected)'
      <4>1. Of(j, sessions[j].context) /\ Of(j, processes[j].context)
              /\ Of(j, processes[j].expected)
        BY <1>0, <3>3 DEF Separate
      <4>2. sessions'[j].context = sessions[j].context \/ (j = k /\ sessions'[j].context = h)
        BY <2>7, <2>9, <3>3
      <4> QED
        BY <1>1, <3>2, <4>1, <4>2 DEF Of
    <3>4. \A i \in DOMAIN turns : Of(turns[i].session, turns[i].past.history)'
      BY <1>0, <1>1 DEF Separate, Of
    <3>5. ASSUME NEW j \in DOMAIN sessions, NEW n \in DOMAIN transcripts, Named(j, n)'
          PROVE  Of(j, transcripts[n])'
      <4>1. n \in Nat
        BY <1>0, Typed
      <4>2. Of(j, transcripts[n])
        BY <1>0, <3>1, <3>5, <4>1 DEF Separate
      <4> QED
        BY <1>1, <4>2 DEF Of
    <3>6. \A j \in DOMAIN sessions, n \in Nat : Named(j, n)' => n <= Len(transcripts)
      BY <1>0, <3>1 DEF Separate
    <3>7. \A i, j \in DOMAIN sessions, n \in Nat : Named(i, n)' /\ Named(j, n)' => i = j \/ n = 0
      BY <1>0, <3>1 DEF Separate
    <3> QED
      BY <1>1, <2>9, <3>3, <3>4, <3>5, <3>6, <3>7, IdleTyped DEF Separate
  <2>15. Remembers'
    <3>1. \A j \in DOMAIN sessions : \A n, g : Knows(j, n, g) => Knows(j, n, g)'
      BY <1>1 DEF Knows
    <3>2. \A j \in DOMAIN sessions : \A n, g : j # k /\ Agrees(j, n, g) => Agrees(j, n, g)'
      BY <1>1, <2>9 DEF Agrees, Usable
    <3>3. ASSUME NEW j \in DOMAIN sessions
          PROVE  /\ Knows(j, sessions[j].native, sessions[j].context)'
                 /\ Knows(j, processes[j].native, processes[j].expected)'
                 /\ Agrees(j, processes[j].native, processes[j].expected)'
                 /\ processes'[j].native # 0 =>
                      transcripts'[processes'[j].native] \in {{}, processes'[j].context}
                 /\ processes'[j].native = 0 => processes'[j] = NoProcess
      <4>1. PICK n, c, m, g : /\ n = sessions[j].native /\ c = sessions[j].context
                              /\ m = processes[j].native /\ g = processes[j].expected
        OBVIOUS
      <4>2. /\ Knows(j, n, c) /\ Knows(j, m, g) /\ Agrees(j, m, g)
            /\ m # 0 => transcripts[m] \in {{}, processes[j].context}
            /\ m = 0 => processes[j] = NoProcess
        BY <1>0, <3>3, <4>1 DEF Remembers
      <4>3. Knows(j, m, g)'
        BY <3>1, <3>3, <4>2
      <4>4. Knows(j, processes[j].native, processes[j].expected)'
        BY <1>1, <4>1, <4>3 DEF Knows
      <4>5. CASE j # k
        <5>1. Knows(j, n, c)' /\ Agrees(j, m, g)'
          BY <3>1, <3>2, <3>3, <4>2, <4>5
        <5>2. sessions'[j] = sessions[j]
          BY <2>9, <3>3, <4>5
        <5> QED
          BY <1>1, <4>1, <4>2, <4>4, <5>1, <5>2 DEF Knows, Agrees, Usable
      <4>6. CASE j = k
        <5>1. sessions'[j].native = run.native /\ sessions'[j].context = h
          BY <2>2, <2>7, <2>9, <4>6
        <5>2. m = run.recorded /\ m # 0 /\ h \subseteq processes[j].context
              /\ (m = run.native \/ ~Usable(j, run.native))
          BY <2>3, <4>1, <4>6
        <5>3. Knows(j, sessions[j].native, sessions[j].context)'
          <6>1. processes[j].native = run.native => h \subseteq processes[j].context
            BY <5>2
          <6>2. transcripts[run.native] # {} => h \subseteq transcripts[run.native]
            BY <4>2, <5>2 DEF Usable
          <6> QED
            BY <1>1, <5>1, <6>1, <6>2 DEF Knows
        <5>4. Agrees(j, processes[j].native, processes[j].expected)'
          BY <1>1, <4>1, <5>1, <5>2 DEF Agrees, Usable
        <5> QED
          BY <1>1, <4>1, <4>2, <4>4, <5>3, <5>4
      <4> QED
        BY <4>5, <4>6
    <3>4. ASSUME NEW i \in DOMAIN turns, turns[i].session # 0
          PROVE  /\ Knows(turns[i].session, turns[i].past.native, turns[i].past.history)'
                 /\ Agrees(turns[i].session, turns[i].past.native, turns[i].past.history)'
      <4>1. PICK j, m, g : j = turns[i].session /\ m = turns[i].past.native
              /\ g = turns[i].past.history
        OBVIOUS
      <4>2. j \in DOMAIN sessions
        BY <1>0, <3>4, <4>1, Typed DEF Types
      <4>3. Knows(j, m, g) /\ Agrees(j, m, g)
        BY <1>0, <3>4, <4>1 DEF Remembers
      <4>4. Knows(j, m, g)'
        BY <3>1, <4>2, <4>3
      <4>5. Agrees(j, m, g)'
        <5>1. CASE j # k
          BY <3>2, <4>2, <4>3, <5>1
        <5>2. CASE j = k
          <6>1. Own \notin g /\ Own \in h
            BY <1>0, <1>1, <2>1, <4>1 DEF Accepted
          <6>2. sessions'[j].context = h
            BY <2>2, <2>7, <2>9, <5>2
          <6> QED
            BY <6>1, <6>2 DEF Agrees
        <5> QED
          BY <5>1, <5>2
      <4> QED
        BY <1>1, <4>1, <4>4, <4>5 DEF Knows, Agrees, Usable
    <3>5. \A i \in DOMAIN turns : turns[i].session # 0 =>
            (turns[i].status \in {"pending", "running"} \/ i = run'.turn =>
               turns[i].resume \in {0, turns[i].past.native})
      <4>1. \A i \in DOMAIN turns : i # run'.turn
        BY <1>0, <1>1, IdleTyped, Typed
      <4> QED
        BY <1>0, <4>1 DEF Remembers
    <3>6. \A i \in DOMAIN turns : turns[i].session = 0 => turns[i] = Unbound
      BY <1>0 DEF Remembers
    <3> QED
      BY <1>1, <2>9, <3>3, <3>4, <3>5, <3>6 DEF Remembers
  <2>16. Asked'
    BY <1>1, IdleTyped DEF Asked
  <2> QED
    BY <2>10, <2>11, <2>12, <2>13, <2>14, <2>15, <2>16 DEF SessionInv
<1> QED
  BY <1>3, <1>4

----------------------------------------------------------------------------
(* The invariant.                                                          *)

LEMMA SessionStarts ==
  ASSUME Init
  PROVE  SessionInv
<1>1. /\ messages = <<>> /\ turns = <<>> /\ queue = <<>> /\ run = Idle
      /\ sessions = <<>> /\ processes = <<>> /\ transcripts = <<>>
  BY DEF Init
<1>2. /\ DOMAIN turns = {} /\ DOMAIN sessions = {} /\ DOMAIN queue = {} /\ DOMAIN transcripts = {}
      /\ run.turn = 0 /\ run.step = "idle" /\ run.history = {}
  BY <1>1, IdleTyped DEF Idle
<1>3. Types
  BY <1>1, <1>2, IdleTyped DEF Types
<1>4. Arrival /\ OneTurn
  BY <1>2 DEF Arrival, OneTurn
<1>5. Accepted
  BY <1>2 DEF Accepted
<1>6. Separate /\ Remembers /\ Asked
  BY <1>2 DEF Separate, Remembers, Asked
<1> QED
  BY <1>3, <1>4, <1>5, <1>6 DEF SessionInv

LEMMA SessionKept ==
  ASSUME SessionInv, [Next]_vars
  PROVE  SessionInv'
<1>1. CASE UNCHANGED vars
  <2>1. Types'
    BY <1>1 DEF vars, SessionInv, Types
  <2>2. Arrival' /\ OneTurn'
    BY <1>1 DEF vars, SessionInv, Arrival, OneTurn
  <2>3. Accepted'
    BY <1>1 DEF vars, SessionInv, Accepted, Done, Own
  <2>4. Separate'
    BY <1>1 DEF vars, SessionInv, Separate, Named, Of, Here
  <2>5. Remembers' /\ Asked'
    BY <1>1 DEF vars, SessionInv, Remembers, Asked, Knows, Agrees, Usable, Here, Own
  <2> QED
    BY <2>1, <2>2, <2>3, <2>4, <2>5 DEF SessionInv
<1>2. ASSUME NEW body \in {"text", "clear"}, Receive(body) PROVE SessionInv'
  BY <1>2, ReceiveKeeps
<1>3. ASSUME NEW i \in DOMAIN messages, Edit(i) \/ Recall(i) \/ BindRuntimeDirectTurn(i)
             \/ QueueRevision(i)
                                   \/ CancelRecalled(i) \/ RetryTask(i) \/ ResumeRuntimeTask(i)
      PROVE  SessionInv'
  BY <1>3, EditKeeps, RecallKeeps, BindKeeps, RevisionKeeps, CancelKeeps, OperatorKeeps
<1>4. CASE StartTurn \/ ExecuteDirectAgent \/ ResumeUnavailable \/ RefuseTurn
  BY <1>4, StartKeeps, ExecuteKeeps, UnavailableKeeps, RefuseKeeps
<1>5. CASE Reply \/ ReplyFails \/ CompleteRuntimeTask
  BY <1>5, ReplyKeeps, ReplyFailsKeeps, CompleteKeeps
<1>6. CASE DeliverAnswer \/ AnswerNotDelivered \/ PersistRuntimeDirectNativeSession
  BY <1>6, AnswerKeeps, NotDeliveredKeeps, PersistKeeps
<1>7. ASSUME CrashAndRecover \/ \E n \in DOMAIN transcripts : LoseTranscript(n) PROVE SessionInv'
  BY <1>7, CrashKeeps, LoseKeeps
<1> QED
  BY <1>1, <1>2, <1>3, <1>4, <1>5, <1>6, <1>7 DEF Next

LEMMA InvRemembers ==
  ASSUME SessionInv
  PROVE  SessionIsRemembered
<1>0. Types /\ Arrival /\ OneTurn /\ Separate /\ Asked
  BY DEF SessionInv
<1>1. CASE run.step # "asked"
  BY <1>1 DEF SessionIsRemembered, NothingForgotten, NothingAcrossClear
<1>2. CASE run.step = "asked"
  <2>1. run.turn # 0
    BY <1>0, <1>2 DEF Types
  <2>2. run.turn \in DOMAIN turns /\ Here \in DOMAIN sessions /\ Here # 0
    BY <1>0, <2>1, RunBound
  <2>3. NothingForgotten
    BY <1>0, <1>2, <2>1 DEF NothingForgotten, Asked, OneTurn
  <2>4. Of(Here, processes[Here].context)
    BY <1>0, <2>2 DEF Separate
  <2>5. ASSUME NEW u \in processes[Here].context,
               NEW j \in u[1] + 1 .. run.turn - 1, messages[j].body = "clear", turns[j].session # 0
        PROVE  FALSE
    <3>1. u[1] \in DOMAIN turns /\ turns[u[1]].session = Here
      BY <2>4 DEF Of
    <3>2. /\ DOMAIN turns = 1 .. Len(messages) /\ Len(messages) \in Nat /\ u[1] \in Nat
          /\ run.turn \in 1 .. Len(messages)
      BY <1>0, <2>2, <3>1, Typed
    <3>3. j \in DOMAIN turns /\ u[1] < j /\ j < run.turn
      BY <3>2
    <3>4. turns[u[1]].session < turns[j].session /\ turns[j].session <= turns[run.turn].session
      BY <1>0, <2>2, <2>5, <3>1, <3>3 DEF Arrival, Here
    <3>5. turns[j].session \in Nat /\ Here \in Nat /\ turns[run.turn].session = Here
      <4>1. turns[j] \in Bound /\ turns[run.turn] \in Bound
        BY <2>2, <3>3, TurnFacts
      <4> QED
        BY <4>1 DEF Bound, Here
    <3> QED
      BY <3>1, <3>4, <3>5
  <2>6. NothingAcrossClear
    BY <2>5 DEF NothingAcrossClear
  <2> QED
    BY <2>3, <2>6 DEF SessionIsRemembered
<1> QED
  BY <1>1, <1>2

\* The Agent that is asked knows every accepted turn of its conversation, and none
\* from before a `/clear`, for any number of messages, edits, recalls, failures,
\* crashes, lost transcripts, retries and continuations.
THEOREM SessionsRemember == Spec => []SessionIsRemembered
<1>1. Init => SessionInv
  BY SessionStarts
<1>2. SessionInv /\ [Next]_vars => SessionInv'
  BY SessionKept
<1>3. SessionInv => SessionIsRemembered
  BY InvRemembers
<1> QED
  BY <1>1, <1>2, <1>3, PTL DEF Spec

----------------------------------------------------------------------------
(* Types, with the bounds.                                                 *)

\* A message is edited once for an interference at most.
Counted ==
  /\ events \in 0 .. MaxEvents
  /\ \A i \in DOMAIN messages : messages[i].rev \in 1 .. events + 1

LEMMA CountedKept ==
  ASSUME MaxEvents \in Nat, SessionInv, Counted, [Next]_vars
  PROVE  Counted'
<1>1. events \in Nat /\ events <= MaxEvents
  BY DEF Counted
<1>2. messages \in Seq(Message) /\ \A i \in DOMAIN messages : messages[i] \in Message
  BY DEF SessionInv, Types
<1>3. CASE UNCHANGED messages /\ events' \in {events, events + 1} /\ events' <= MaxEvents
  BY <1>1, <1>3 DEF Counted
<1>4. ASSUME NEW body \in {"text", "clear"}, Receive(body) PROVE Counted'
  <2>1. PICK m : m = [body |-> body, rev |-> 1, available |-> TRUE]
    OBVIOUS
  <2>2. messages' = Append(messages, m) /\ m.rev = 1 /\ events' = events
    BY <1>4, <2>1 DEF Receive
  <2>3. DOMAIN messages' = 1 .. Len(messages) + 1 /\ Len(messages) \in Nat
        /\ DOMAIN messages = 1 .. Len(messages)
    BY <1>2, <2>2
  <2>4. \A i \in DOMAIN messages' : messages'[i] = IF i \in DOMAIN messages THEN messages[i] ELSE m
    BY <1>2, <2>2, <2>3
  <2> QED
    BY <1>1, <2>2, <2>4 DEF Counted
<1>5. ASSUME NEW i \in DOMAIN messages, Edit(i) PROVE Counted'
  <2>1. messages' = [messages EXCEPT ![i].rev = @ + 1] /\ events' = events + 1
          /\ events' <= MaxEvents
    BY <1>1, <1>5 DEF Edit, Occurs
  <2>2. DOMAIN messages' = DOMAIN messages
        /\ \A j \in DOMAIN messages : j # i => messages'[j] = messages[j]
    BY <2>1
  <2>3. messages'[i].rev = messages[i].rev + 1
    BY <1>2, <2>1 DEF Message
  <2> QED
    BY <1>1, <2>1, <2>2, <2>3 DEF Counted
<1>6. ASSUME NEW i \in DOMAIN messages, Recall(i) PROVE Counted'
  <2>1. messages' = [messages EXCEPT ![i].available = FALSE] /\ events' = events + 1
          /\ events' <= MaxEvents
    BY <1>1, <1>6 DEF Recall, Occurs
  <2>2. DOMAIN messages' = DOMAIN messages
        /\ \A j \in DOMAIN messages : messages'[j].rev = messages[j].rev
    BY <1>2, <2>1 DEF Message
  <2> QED
    BY <1>1, <2>1, <2>2 DEF Counted
<1>7. ASSUME NEW i \in DOMAIN messages, BindRuntimeDirectTurn(i) \/ QueueRevision(i)
                                   \/ CancelRecalled(i) \/ RetryTask(i) \/ ResumeRuntimeTask(i)
      PROVE  Counted'
  BY <1>1, <1>3, <1>7 DEF BindRuntimeDirectTurn, QueueRevision, CancelRecalled, RetryTask,
    ResumeRuntimeTask, Occurs
<1>8. CASE StartTurn \/ ExecuteDirectAgent \/ ResumeUnavailable \/ RefuseTurn
  BY <1>1, <1>3, <1>8 DEF StartTurn, ExecuteDirectAgent, ResumeUnavailable, RefuseTurn
<1>9. CASE Reply \/ ReplyFails \/ CompleteRuntimeTask
  BY <1>1, <1>3, <1>9 DEF Reply, ReplyFails, CompleteRuntimeTask, Occurs
<1>10. CASE DeliverAnswer \/ AnswerNotDelivered \/ PersistRuntimeDirectNativeSession
  BY <1>1, <1>3, <1>10 DEF DeliverAnswer, AnswerNotDelivered, PersistRuntimeDirectNativeSession,
    Occurs
<1>11. CASE CrashAndRecover
  <2>1. UNCHANGED messages /\ Occurs("crash")
    BY <1>11 DEF CrashAndRecover
  <2> QED
    BY <1>1, <1>3, <2>1 DEF Occurs
<1>13. ASSUME NEW n \in DOMAIN transcripts, LoseTranscript(n) PROVE Counted'
  BY <1>1, <1>3, <1>13 DEF LoseTranscript, Occurs
<1>12. CASE UNCHANGED vars
  BY <1>1, <1>3, <1>12 DEF vars
<1> QED
  BY <1>4, <1>5, <1>6, <1>7, <1>8, <1>9, <1>10, <1>11, <1>12, <1>13 DEF Next

LEMMA SessionTyped ==
  ASSUME MaxEvents \in Nat, SessionInv, Counted
  PROVE  TypeOK
<1>0. Types
  BY DEF SessionInv
<1>1. \A i \in DOMAIN messages :
        messages[i] \in [body : {"text", "clear"}, rev : 1 .. MaxEvents + 1, available : BOOLEAN]
  <2> SUFFICES ASSUME NEW i \in DOMAIN messages
               PROVE  messages[i] \in [body : {"text", "clear"}, rev : 1 .. MaxEvents + 1,
                      available : BOOLEAN]
    OBVIOUS
  <2>1. messages[i] \in Message
    BY <1>0 DEF Types
  <2>2. messages[i].rev \in 1 .. MaxEvents + 1
    BY DEF Counted
  <2> QED
    BY <2>1, <2>2 DEF Message
<1>2. DOMAIN turns = DOMAIN messages /\ DOMAIN processes = DOMAIN sessions
  BY <1>0, Typed
<1>3. \A i \in DOMAIN turns :
        /\ turns[i].status \in {"none", "pending", "running", "completed", "failed", "cancelled"}
        /\ turns[i].session \in 0 .. Len(sessions) /\ turns[i].rev <= messages[i].rev
  BY TurnFacts DEF Bound, Status
<1>4. \A k \in DOMAIN sessions : sessions[k].native \in 0 .. Len(transcripts)
  BY NamesKnown
<1>5. run.step \in {"idle", "started", "asked", "replied", "completed", "accepted"}
  BY <1>0 DEF Types, Run, Steps
<1> QED
  BY <1>1, <1>2, <1>3, <1>4, <1>5 DEF TypeOK, Counted

=============================================================================
