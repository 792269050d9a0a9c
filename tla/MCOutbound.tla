----------------------------- MODULE MCOutbound -----------------------------
(***************************************************************************)
(* Small instances of AgentMessage and DraftOutbox for TLC.  The two kinds *)
(* of outbound messages share no row, so a behaviour exercises one of them *)
(* and leaves the other in its initial state.                              *)
(***************************************************************************)
EXTENDS AgentMessage, TLC

CONSTANTS Contexts, Texts, Callers, MaxRoute

VARIABLES routeVersion, sendPolicy, verified, opened, draft, caller, handed,
          kind   \* the kind of message of this behaviour

replyVars == <<routeVersion, sendPolicy, verified, opened, draft, caller, handed>>

Reply == INSTANCE DraftOutbox

ASSUME ReplyAssumption == Reply!DraftOutboxAssumption

MCInit == Init /\ Reply!Init /\ kind \in {"message", "reply"}

MCNext ==
  /\ UNCHANGED kind
  /\ \/ kind = "message" /\ Next /\ UNCHANGED replyVars
     \/ kind = "reply" /\ Reply!Next /\ UNCHANGED vars

MCSpec == MCInit /\ [][MCNext]_<<kind, vars, replyVars>> /\ Fairness

TypesOK == TypeOK /\ Reply!TypeOK
HandedOverOnce == Reply!HandedOverOnce
=============================================================================
