----------------------------- MODULE DraftOutbox -----------------------------
(***************************************************************************)
(* Reply drafts that a person dispatches (internal/core/outbox.go,         *)
(* internal/core/dispatch.go, internal/cli/outbox.go).  A draft is written *)
(* inside a request context that fixes its route and the route's version;  *)
(* `outbox dispatch` authorises one hand-over, the call to the platform is *)
(* made outside memgov and `outbox result` records what came of it.        *)
(* Several people and programs use these commands at the same time.        *)
(***************************************************************************)
EXTENDS Integers, FiniteSets

CONSTANTS
  Contexts,     \* request contexts of one route
  Texts,        \* contents of a reply
  Callers,      \* users of the outbox commands
  MaxRoute      \* bound on route versions

\* What the proofs and the runs take for granted of the constants.
DraftOutboxAssumption == MaxRoute \in Nat \ {0}

\* The input digest: one draft per context and text.
Drafts == Contexts \X Texts

VARIABLES
  routeVersion, sendPolicy, verified,  \* the route and the channel's send capability
  opened,       \* request_contexts: the route version a context was opened for, 0 if none
  draft,        \* outbox rows
  caller,       \* what a user of the commands is doing
  handed        \* how often the platform was given a draft's text

vars == <<routeVersion, sendPolicy, verified, opened, draft, caller, handed>>
routeVars == <<routeVersion, sendPolicy, verified>>

NoDraft == [state |-> "absent"]
Idle == [step |-> "idle"]
Outcomes == {"accepted", "retryable_failed", "delivery_unknown", "failed"}

TypeOK ==
  /\ routeVersion \in 1..MaxRoute
  /\ sendPolicy \in {"draft_only", "dispatch_only"}
  /\ verified \in BOOLEAN
  /\ opened \in [Contexts -> 0..MaxRoute]
  /\ draft \in [Drafts -> {NoDraft}
       \cup [state : {"draft", "sending", "stale", "cancelled"} \cup Outcomes,
             version : 1..MaxRoute, attempts : Nat]]
  /\ caller \in [Callers -> {Idle} \cup [step : {"read", "authorized"}, draft : Drafts]
       \cup [step : {"answered"}, draft : Drafts, outcome : Outcomes]]
  /\ handed \in [Drafts -> Nat]

Init ==
  /\ routeVersion = 1 /\ sendPolicy = "draft_only" /\ verified = FALSE
  /\ opened = [x \in Contexts |-> 0]
  /\ draft = [d \in Drafts |-> NoDraft]
  /\ caller = [u \in Callers |-> Idle]
  /\ handed = [d \in Drafts |-> 0]

----------------------------------------------------------------------------
OpenContext(x) ==
  /\ opened[x] = 0
  /\ opened' = [opened EXCEPT ![x] = routeVersion]
  /\ UNCHANGED <<routeVars, draft, caller, handed>>

ContextExpires(x) ==
  /\ opened[x] # 0
  /\ opened' = [opened EXCEPT ![x] = 0]
  /\ UNCHANGED <<routeVars, draft, caller, handed>>

\* Mutant: a draft takes the route's version from its context, however old.
DraftOfContext(d) ==
  /\ draft[d] = NoDraft
  /\ draft' = [draft EXCEPT ![d] = [state |-> "draft", version |-> opened[d[1]], attempts |-> 0]]
  /\ UNCHANGED <<routeVars, opened, caller, handed>>

\* A second draft of the same input finds the first.
Draft(d) ==
  /\ opened[d[1]] = routeVersion /\ draft[d] = NoDraft
  /\ draft' = [draft EXCEPT ![d] = [state |-> "draft", version |-> routeVersion, attempts |-> 0]]
  /\ UNCHANGED <<routeVars, opened, caller, handed>>

PreviewDraft(u, d) ==
  /\ caller[u] = Idle /\ draft[d] # NoDraft
  /\ caller' = [caller EXCEPT ![u] = [step |-> "read", draft |-> d]]
  /\ UNCHANGED <<routeVars, opened, draft, handed>>

Sendable(d) ==
  /\ draft[d].version = routeVersion
  /\ draft[d].state = "draft"
  /\ sendPolicy # "draft_only" /\ verified

Ends(u) == caller' = [caller EXCEPT ![u] = Idle]

\* Mutant: the state of the draft is not among the checks of a dispatch.
AuthorizeAnyState(u) ==
  /\ caller[u].step = "read"
  /\ LET d == caller[u].draft
     IN IF draft[d].version = routeVersion /\ sendPolicy # "draft_only" /\ verified
        THEN /\ draft' = [draft EXCEPT ![d].state = "sending", ![d].attempts = @ + 1]
             /\ caller' = [caller EXCEPT ![u].step = "authorized"]
        ELSE Ends(u) /\ UNCHANGED draft
  /\ UNCHANGED <<routeVars, opened, handed>>

\* The checks of the display run again, and the attempt is recorded first.
AuthorizeDispatch(u) ==
  /\ caller[u].step = "read"
  /\ LET d == caller[u].draft
     IN IF Sendable(d)
        THEN /\ draft' = [draft EXCEPT ![d].state = "sending", ![d].attempts = @ + 1]
             /\ caller' = [caller EXCEPT ![u].step = "authorized"]
        ELSE Ends(u) /\ UNCHANGED draft
  /\ UNCHANGED <<routeVars, opened, handed>>

\* The platform is called by whoever was authorised, or never.
CallPlatform(u) ==
  /\ caller[u].step = "authorized"
  /\ LET d == caller[u].draft
         Answer(times, outcomes) ==
           /\ handed' = [handed EXCEPT ![d] = @ + times]
           /\ \E o \in outcomes :
                caller' = [caller EXCEPT ![u] = [step |-> "answered", draft |-> d, outcome |-> o]]
     IN Answer(1, {"accepted", "delivery_unknown"}) \/ Answer(0, Outcomes \ {"accepted"})
  /\ UNCHANGED <<routeVars, opened, draft>>

\* Whoever has an answer records it; the others may say that they know nothing.
RecordDelivery(u, d) ==
  /\ \/ caller[u].step = "answered" /\ caller[u].draft = d
     \/ caller[u] = Idle
  /\ Ends(u)
  /\ draft[d].state = "sending" \/ caller[u] # Idle
  /\ draft' = [draft EXCEPT ![d].state =
       IF @ # "sending" THEN @
       ELSE IF caller[u] = Idle THEN "delivery_unknown" ELSE caller[u].outcome]
  /\ UNCHANGED <<routeVars, opened, handed>>

CallerGivesUp(u) ==
  /\ caller[u] # Idle /\ Ends(u)
  /\ UNCHANGED <<routeVars, opened, draft, handed>>

CancelDraft(d) ==
  /\ draft[d].state \in {"draft", "stale"}
  /\ draft' = [draft EXCEPT ![d].state = "cancelled"]
  /\ UNCHANGED <<routeVars, opened, caller, handed>>

\* Evidence decides what an unknown delivery was.
Reconcile(d) ==
  /\ draft[d].state = "delivery_unknown"
  /\ \E outcome \in {"accepted", "retryable_failed"} : draft' = [draft EXCEPT ![d].state = outcome]
  /\ UNCHANGED <<routeVars, opened, caller, handed>>

Stale == [d \in Drafts |-> IF draft[d].state = "draft" THEN [draft[d] EXCEPT !.state = "stale"]
                           ELSE draft[d]]

UpdateRoute ==
  /\ routeVersion < MaxRoute
  /\ routeVersion' = routeVersion + 1
  /\ sendPolicy' \in {"draft_only", "dispatch_only"}
  /\ draft' = Stale
  /\ UNCHANGED <<verified, opened, caller, handed>>

\* A change of the channel's identity or credentials withdraws its drafts and
\* its verified capabilities, and waits for a dispatch that is under way; a
\* probe verifies them.
ApplyChannelConfig ==
  /\ \A d \in Drafts : draft[d].state # "sending"
  /\ verified' = FALSE
  /\ draft' = Stale
  /\ UNCHANGED <<routeVersion, sendPolicy, opened, caller, handed>>

SetChannelCapabilities ==
  /\ ~verified
  /\ verified' = TRUE
  /\ UNCHANGED <<routeVersion, sendPolicy, opened, draft, caller, handed>>

Next ==
  \/ \E x \in Contexts : OpenContext(x) \/ ContextExpires(x)
  \/ \E d \in Drafts : Draft(d) \/ CancelDraft(d) \/ Reconcile(d)
  \/ \E u \in Callers :
       \/ AuthorizeDispatch(u) \/ CallPlatform(u) \/ CallerGivesUp(u)
       \/ \E d \in Drafts : PreviewDraft(u, d) \/ RecordDelivery(u, d)
  \/ UpdateRoute \/ ApplyChannelConfig \/ SetChannelCapabilities

Spec == Init /\ [][Next]_vars

----------------------------------------------------------------------------
(* Properties.                                                             *)

\* Whoever dispatches, cancels or records at the same time, the platform is
\* given a draft at most once, and a draft that a person or a change of the
\* route or the channel withdrew is never given to it (dispatch.go:196, 285).
HandedOverOnce == \A d \in Drafts :
  /\ handed[d] <= 1
  /\ draft[d].state \in {"stale", "cancelled"} =>
       handed[d] = 0 /\ \A u \in Callers : caller[u].step = "authorized" => caller[u].draft # d
=============================================================================
