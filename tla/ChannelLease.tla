---------------------------- MODULE ChannelLease ----------------------------
(***************************************************************************)
(* The lease that lets one receiver at a time consume a channel, and the   *)
(* fence every write of a receiver carries (internal/core/channel.go,      *)
(* internal/channel/collect.go, the receive loops of internal/runtime/     *)
(* service.go and internal/channel/data_source.go, the streams of          *)
(* dingtalkapp/stream.go and dws/dws.go).                                  *)
(*                                                                         *)
(* Kind "app" is a DingTalk application: several service instances compete *)
(* for one stream, the losers stand by, and the platform sends a frame     *)
(* again until it is acknowledged.  Kind "source" is a DWS data source: a  *)
(* competing receiver is an error that ends the collector, and an event    *)
(* that was not stored is left to history reads.                           *)
(*                                                                         *)
(* Times are remaining times, in ticks: lease.left is what is left of the  *)
(* lease in the store, receiver[r].left what its renewals know of it.      *)
(***************************************************************************)
EXTENDS Integers, FiniteSets

CONSTANTS
  Receivers,        \* processes that can receive the channel
  Messages, Others, \* what the platform pushes: messages, and card callbacks or malformed frames
  TTL,              \* length of a lease, in ticks
  Environment,      \* kinds of faults and interventions
  MaxEvents         \* bound on their number

ASSUME ChannelLeaseAssumption ==
  /\ Messages \cap Others = {}
  /\ TTL \in Nat \ {0} /\ MaxEvents \in Nat

VARIABLES
  kind,      \* what the channel is, an application or a data source; it never changes
  lease,     \* the row of channel_leases
  receiver,  \* what each process is doing
  pushed,    \* pushed and not acknowledged
  lost,      \* pushed to nobody, or to a receiver that could not store it
  committed, \* the fence under which each event was stored, 0 before
  events     \* how many faults and interventions there were

platformVars == <<pushed, lost>>
vars == <<kind, lease, receiver, platformVars, committed, events>>

Events == Messages \cup Others
None == "none"  \* no event
Gone == "gone"  \* a holder no living process bears

Happens(fault) == fault \in Environment /\ events < MaxEvents /\ events' = events + 1

TypeOK ==
  /\ lease \in [holder : Receivers \cup {Gone}, fence : Nat, left : 0..TTL]
  /\ receiver \in [Receivers -> [step : {"down", "standby", "acquire", "receive", "release"},
                                 fence : Nat, left : 0..TTL, event : Events \cup {None}]]
  /\ pushed \subseteq Events /\ lost \subseteq Events
  /\ committed \in [Events -> Nat]
  /\ events \in 0..MaxEvents

Kinds == {"app", "source"}

\* Nobody has received anything yet.
Idle ==
  /\ lease = [holder |-> Gone, fence |-> 0, left |-> 0]
  /\ receiver = [r \in Receivers |-> [step |-> "down", fence |-> 0, left |-> 0, event |-> None]]
  /\ pushed = {} /\ lost = {}
  /\ committed = [e \in Events |-> 0]
  /\ events = 0

Init == kind \in Kinds /\ Idle

Held == lease.left > 0

\* The receiver believes it holds the channel.
Live(r) == receiver[r].step = "receive" /\ receiver[r].left > 0

Enters(r, step) == receiver' = [receiver EXCEPT ![r].step = step]

----------------------------------------------------------------------------
(* The platform and the clock.                                             *)

\* A renewal is due every third of the lease; one that comes too late for it is
\* a fault of its own.
Tick ==
  /\ \E r \in Receivers : receiver[r].left > 0 \/ lease.left > 0
  /\ \/ (\A r \in Receivers : Live(r) => receiver[r].left > 1) /\ UNCHANGED events
     \/ (\E r \in Receivers : Live(r) /\ receiver[r].left = 1) /\ Happens("slow")
  /\ lease' = [lease EXCEPT !.left = IF @ > 0 THEN @ - 1 ELSE 0]
  /\ receiver' = [r \in Receivers |->
       [receiver[r] EXCEPT !.left = IF @ > 0 THEN @ - 1 ELSE 0]]
  /\ UNCHANGED <<kind, platformVars, committed>>

Push(e) ==
  /\ e \notin pushed /\ committed[e] = 0
  /\ pushed' = pushed \cup {e}
  /\ UNCHANGED <<kind, lease, receiver, lost, committed, events>>

\* An event of the personal stream passes by when nobody listens.
Miss(e) ==
  /\ kind = "source" /\ e \in pushed /\ \A r \in Receivers : receiver[r].step # "receive"
  /\ pushed' = pushed \ {e} /\ lost' = lost \cup {e}
  /\ UNCHANGED <<kind, lease, receiver, committed, events>>

----------------------------------------------------------------------------
(* The receive loops.                                                      *)

\* The read is only a hint: the lease may change before it is acquired.  A data
\* source does not start while the channel is held.
ReadLease(r) ==
  /\ receiver[r].step = IF kind = "app" THEN "standby" ELSE "down"
  /\ ~Held \/ (kind = "app" /\ lease.holder = r)
  /\ Enters(r, "acquire")
  /\ UNCHANGED <<kind, lease, platformVars, committed, events>>

\* Mutant: the lease is taken on the strength of the earlier read.
AcquireLeaseAsRead(r) ==
  /\ receiver[r].step = "acquire"
  /\ \/ /\ TRUE
        /\ lease' = [holder |-> r, fence |-> lease.fence + 1, left |-> TTL]
        /\ receiver' = [receiver EXCEPT ![r] = [step |-> "receive", fence |-> lease.fence + 1,
                                                left |-> TTL, event |-> None]]
     \/ /\ FALSE
        /\ Enters(r, IF kind = "app" THEN "standby" ELSE "down")
        /\ UNCHANGED lease
  /\ UNCHANGED <<kind, platformVars, committed, events>>

AcquireLease(r) ==
  /\ receiver[r].step = "acquire"
  /\ \/ /\ ~Held \/ lease.holder = r
        /\ lease' = [holder |-> r, fence |-> lease.fence + 1, left |-> TTL]
        /\ receiver' = [receiver EXCEPT ![r] = [step |-> "receive", fence |-> lease.fence + 1,
                                                left |-> TTL, event |-> None]]
     \/ /\ Held /\ lease.holder # r
        /\ Enters(r, IF kind = "app" THEN "standby" ELSE "down")
        /\ UNCHANGED lease
  /\ UNCHANGED <<kind, platformVars, committed, events>>

\* One frame at a time is written; others wait for the slot.
Deliver(r, e) ==
  /\ receiver[r].step = "receive" /\ receiver[r].event = None
  /\ e \in pushed
  /\ receiver' = [receiver EXCEPT ![r].event = e]
  /\ pushed' = IF kind = "app" THEN pushed ELSE pushed \ {e}
  /\ UNCHANGED <<kind, lease, lost, committed, events>>

\* Mutant: the fence is not compared.
CheckLeaseHeld(r) == lease.fence > 0

CheckLease(r) == lease.fence = receiver[r].fence

\* The result of an event that was stored is kept under its request key.
Cached(e) == e \in Messages /\ committed[e] # 0

\* The acknowledgement may not reach the platform, which then sends again.
Acknowledge(r, e) ==
  /\ \/ pushed' = pushed \ {e} /\ UNCHANGED events
     \/ kind = "app" /\ Happens("unacknowledged") /\ UNCHANGED pushed
  /\ receiver' = [receiver EXCEPT ![r].event = None]
  /\ UNCHANGED lost

\* Mutant: a frame that was not stored is acknowledged.
RefuseSilently(r, e) ==
  IF kind = "app"
  THEN /\ receiver' = [receiver EXCEPT ![r].event = None]
       /\ pushed' = pushed \ {e} /\ UNCHANGED lost
  ELSE /\ receiver' = [receiver EXCEPT ![r].event = None, ![r].step = "release"]
       /\ lost' = lost \cup {e} /\ UNCHANGED pushed

\* A refused frame is sent again; a refused event ends the data source's stream.
Refuse(r, e) ==
  IF kind = "app"
  THEN /\ receiver' = [receiver EXCEPT ![r].event = None]
       /\ UNCHANGED platformVars
  ELSE /\ receiver' = [receiver EXCEPT ![r].event = None, ![r].step = "release"]
       /\ lost' = lost \cup {e} /\ UNCHANGED pushed

\* The lease is checked in the transaction that stores the event.
Handle(r) ==
  /\ receiver[r].step = "receive" /\ receiver[r].event # None
  /\ LET e == receiver[r].event
     IN \/ /\ Cached(e)
           /\ Acknowledge(r, e) /\ UNCHANGED committed
        \/ /\ ~Cached(e) /\ CheckLease(r)
           /\ committed' = [committed EXCEPT ![e] = receiver[r].fence]
           /\ Acknowledge(r, e)
        \/ /\ ~Cached(e) /\ ~CheckLease(r)
           /\ Refuse(r, e) /\ UNCHANGED <<committed, events>>
        \/ /\ Happens("busy")
           /\ Refuse(r, e) /\ UNCHANGED committed
  /\ UNCHANGED <<kind, lease>>

\* Mutant: a renewal adds to what is left.
RenewLeaseAdding(r) ==
  /\ receiver[r].step = "receive" /\ receiver[r].left < TTL
  /\ \/ /\ receiver[r].left > 0 /\ CheckLease(r)
        /\ lease' = [lease EXCEPT !.left = @ + TTL]
        /\ receiver' = [receiver EXCEPT ![r].left = TTL]
     \/ /\ receiver[r].left = 0 \/ ~CheckLease(r)
        /\ Enters(r, "release")
        /\ UNCHANGED lease
  /\ UNCHANGED <<kind, platformVars, committed, events>>

\* A renewal is tried, and tried again while the store is busy, until the lease
\* the receiver knows of runs out.
RenewLease(r) ==
  /\ receiver[r].step = "receive" /\ receiver[r].left < TTL
  /\ \/ /\ receiver[r].left > 0 /\ CheckLease(r)
        /\ lease' = [lease EXCEPT !.left = TTL]
        /\ receiver' = [receiver EXCEPT ![r].left = TTL]
     \/ /\ receiver[r].left = 0 \/ ~CheckLease(r)
        /\ Enters(r, "release")
        /\ UNCHANGED lease
  /\ UNCHANGED <<kind, platformVars, committed, events>>

\* The session's age, a broken connection or a changed scope ends it.
RunReceiver(r) ==
  /\ receiver[r].step = "receive" /\ Happens("close")
  /\ Enters(r, "release")
  /\ UNCHANGED <<kind, lease, platformVars, committed>>

Returns == IF kind = "app" THEN "standby" ELSE "down"

\* What an ended session was writing is refused.  A data source names every
\* session anew, so a lease it could not give back is nobody's.
ReleaseLease(r) ==
  /\ receiver[r].step = "release"
  /\ \/ /\ CheckLease(r) /\ lease' = [lease EXCEPT !.left = 0] /\ UNCHANGED events
     \/ /\ ~CheckLease(r) /\ UNCHANGED <<lease, events>>
     \/ /\ Happens("busy")
        /\ lease' = IF kind = "source" /\ lease.holder = r
                    THEN [lease EXCEPT !.holder = Gone] ELSE lease
  /\ receiver' = [receiver EXCEPT ![r] = [step |-> Returns, fence |-> 0, left |-> 0, event |-> None]]
  /\ lost' = IF kind = "source" /\ receiver[r].event # None
             THEN lost \cup {receiver[r].event} ELSE lost
  /\ UNCHANGED <<kind, pushed, committed>>

\* A process that starts bears a new name and cannot take over what the lease
\* says of its predecessor.
Start(r) ==
  /\ kind = "app" /\ receiver[r].step = "down"
  /\ Enters(r, "standby")
  /\ UNCHANGED <<kind, lease, platformVars, committed, events>>

Crash(r) ==
  /\ receiver[r].step # "down" /\ Happens("crash")
  /\ receiver' = [receiver EXCEPT ![r] = [step |-> "down", fence |-> 0, left |-> 0, event |-> None]]
  /\ lease' = IF lease.holder = r THEN [lease EXCEPT !.holder = Gone] ELSE lease
  /\ lost' = IF kind = "source" /\ receiver[r].event # None
             THEN lost \cup {receiver[r].event} ELSE lost
  /\ UNCHANGED <<kind, pushed, committed>>

ReceiverStep(r) ==
  \/ Start(r) \/ ReadLease(r) \/ AcquireLease(r) \/ Handle(r)
  \/ RenewLease(r) \/ ReleaseLease(r)
  \/ \E e \in Events : Deliver(r, e)

Next ==
  \/ Tick
  \/ \E e \in Events : Push(e) \/ Miss(e)
  \/ \E r \in Receivers : ReceiverStep(r) \/ RunReceiver(r) \/ Crash(r)

Spec == Init /\ [][Next]_vars

\* The clock runs, the supervisor restarts what stopped, loops and renewals are
\* scheduled, and the platform sends what was not acknowledged again.
Fairness ==
  /\ WF_vars(Tick)
  /\ \A e \in Events : WF_vars(Miss(e))
  /\ \A r \in Receivers :
       /\ WF_vars(Start(r)) /\ WF_vars(ReadLease(r)) /\ WF_vars(AcquireLease(r))
       /\ WF_vars(Handle(r)) /\ WF_vars(RenewLease(r)) /\ WF_vars(ReleaseLease(r))
       /\ \A e \in Events : WF_vars(Deliver(r, e))

LiveSpec == Spec /\ Fairness

----------------------------------------------------------------------------
(* Properties.                                                             *)

\* Two processes never both believe that they hold the channel, whatever the
\* order of expiry, renewal, release, crash and takeover
\* (dingtalk-integration-design-detail.md:155).
OneReceiver == \A r, s \in Receivers : Live(r) /\ Live(s) => r = s

\* What is stored follows the fences: once a receiver stored something, nothing
\* is stored any more for one that held the lease before it (channel.go:689).
EventsFollowTheFence == [][\A e, f \in Events :
  committed'[e] # committed[e] => committed'[e] >= committed[f]]_vars

\* A message or callback the platform pushed is stored in the end, whichever
\* receiver it was handed to when; only a data source may leave it to history.
EventIsStored == \A e \in Events :
  e \in pushed ~> committed[e] # 0 \/ e \in lost
=============================================================================
