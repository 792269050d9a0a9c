-------------------------- MODULE ConfirmedEffect --------------------------
(***************************************************************************)
(* What the runtime promises about an external operation an Agent proposed *)
(* and the owner decides on: nothing happens before the approval, the      *)
(* operation is attempted at most once, and what is recorded of it is      *)
(* true.  How tasks, attempts, leases, workers, edits, operators and       *)
(* restarts bring this about is the business of RuntimeTask.               *)
(***************************************************************************)
EXTENDS Integers

CONSTANT Actions

VARIABLES
  phase,  \* phase[x]: what is recorded of operation x
  calls   \* calls[x]: how often x reached the outside world

Phases == {"none", "proposed", "approved", "executing",
           "executed", "failed", "unknown", "void"}

EffectTypeOK ==
  /\ phase \in [Actions -> Phases]
  /\ calls \in [Actions -> Nat]

EffectInit ==
  /\ phase = [x \in Actions |-> "none"]
  /\ calls = [x \in Actions |-> 0]

Quiet(x) == calls'[x] = calls[x]

Propose(x) == phase[x] = "none" /\ phase'[x] = "proposed" /\ Quiet(x)
Approve(x) == phase[x] = "proposed" /\ phase'[x] = "approved" /\ Quiet(x)
\* Rejected, or overtaken by a change of the task before it began.
Withdraw(x) == phase[x] \in {"proposed", "approved"} /\ phase'[x] = "void" /\ Quiet(x)
Begin(x) == phase[x] = "approved" /\ phase'[x] = "executing" /\ Quiet(x)

\* The one call.  It may come when the outcome was already given up as unknown.
Call(x) ==
  /\ phase[x] \in {"executing", "unknown"} /\ calls[x] = 0
  /\ phase'[x] = phase[x] /\ calls'[x] = 1

Succeed(x) == phase[x] = "executing" /\ calls[x] = 1 /\ phase'[x] = "executed" /\ Quiet(x)
Fail(x) == phase[x] = "executing" /\ calls[x] = 0 /\ phase'[x] = "failed" /\ Quiet(x)
GiveUp(x) == phase[x] = "executing" /\ phase'[x] = "unknown" /\ Quiet(x)
Rest(x) == phase'[x] = phase[x] /\ Quiet(x)

EffectStep(x) ==
  \/ Propose(x) \/ Approve(x) \/ Withdraw(x) \/ Begin(x) \/ Call(x)
  \/ Succeed(x) \/ Fail(x) \/ GiveUp(x) \/ Rest(x)

\* One transaction may decide about several operations at once.
EffectNext ==
  /\ phase' \in [Actions -> Phases]
  /\ calls' \in [Actions -> Nat]
  /\ \A x \in Actions : EffectStep(x)

EffectSpec == EffectInit /\ [][EffectNext]_<<phase, calls>>

----------------------------------------------------------------------------
\* What the phases of an operation say of its calls.
Truthful ==
  \A x \in Actions :
    /\ calls[x] \in {0, 1}
    /\ phase[x] \in {"none", "proposed", "approved", "void", "failed"} => calls[x] = 0
    /\ phase[x] = "executed" => calls[x] = 1
=============================================================================
