----------------------------- MODULE CasRegister -----------------------------
(***************************************************************************)
(* What a knowledge file of an Agent Workspace promises its writers: a     *)
(* register that is written by comparing and swapping.  A write takes      *)
(* effect at one point between its call and its answer, only over the      *)
(* content the writer named and only while the writer may write, and a     *)
(* writer is told "ok" only for a write that took effect.  A write may     *)
(* also fail, and then it may or may not have taken effect.                *)
(***************************************************************************)
CONSTANTS Writers, Contents, Absent, Initial

VARIABLES value, asked, state, effect, authorized

vars == <<value, asked, state, effect, authorized>>

Init ==
  /\ value = Absent
  /\ asked = [w \in Writers |-> [expected |-> Absent, content |-> Initial]]
  /\ state = [w \in Writers |-> "idle"]
  /\ effect = [w \in Writers |-> FALSE] /\ authorized = Writers

Goes(w, s) == state' = [state EXCEPT ![w] = s]

Create ==
  /\ value = Absent /\ value' = Initial
  /\ UNCHANGED <<asked, state, effect, authorized>>

Call(w) ==
  /\ state[w] \notin {"called", "applied"}
  /\ \E expected \in Contents \cup {Absent}, content \in Contents :
       asked' = [asked EXCEPT ![w] = [expected |-> expected, content |-> content]]
  /\ effect' = [effect EXCEPT ![w] = FALSE]
  /\ Goes(w, "called") /\ UNCHANGED <<value, authorized>>

Retry(w) ==
  /\ state[w] = "failed" /\ Goes(w, "called")
  /\ UNCHANGED <<value, asked, effect, authorized>>

Apply(w) ==
  /\ state[w] = "called" /\ w \in authorized /\ value = asked[w].expected
  /\ value' = asked[w].content /\ effect' = [effect EXCEPT ![w] = TRUE]
  /\ Goes(w, "applied") /\ UNCHANGED <<asked, authorized>>

Succeed(w) ==
  /\ state[w] \in {"called", "applied"} /\ effect[w]
  /\ Goes(w, "ok") /\ UNCHANGED <<value, asked, effect, authorized>>

Refuse(w) ==
  /\ state[w] = "called" /\ value # asked[w].expected
  /\ Goes(w, "conflict") /\ UNCHANGED <<value, asked, effect, authorized>>

Fail(w) ==
  /\ state[w] \in {"called", "applied"}
  /\ Goes(w, "failed") /\ UNCHANGED <<value, asked, effect, authorized>>

Revoke(w) ==
  /\ authorized' = authorized \ {w}
  /\ UNCHANGED <<value, asked, state, effect>>

Next == Create \/ \E w \in Writers :
  Call(w) \/ Retry(w) \/ Apply(w) \/ Succeed(w) \/ Refuse(w) \/ Fail(w) \/ Revoke(w)

Spec == Init /\ [][Next]_vars
=============================================================================
