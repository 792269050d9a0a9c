----------------------------- MODULE SourceScope -----------------------------
(***************************************************************************)
(* Which conversations a data source collects and which of them an AI may  *)
(* process (internal/core/source_group_discovery.go, data_source.go,       *)
(* direct_retention.go, internal/channel/data_source.go).                  *)
(*                                                                         *)
(* Every cycle asks the platform which groups the identity is in and       *)
(* commits the answer as a receipt, which is bound to the version of the   *)
(* configuration it was asked for.  Without a fresh receipt collection may *)
(* go on for groups that were proved before; processing needs the proof    *)
(* itself.  Private conversations are admitted by what was seen of them    *)
(* after the operator enabled them.                                        *)
(***************************************************************************)
EXTENDS Integers, FiniteSets

CONSTANTS
  Groups, Directs, \* conversations
  Lifetime,        \* how long a receipt proves membership for processing
  FallbackFor,     \* how long it proves it for collection after a failure
  Configurations,  \* what the operator may configure: [ignore, direct]
  Environment,     \* kinds of faults and interventions
  MaxTime, MaxEvents

\* What the proofs and the runs take for granted of the constants.
SourceScopeAssumption ==
  /\ Groups \cap Directs = {} /\ Configurations \subseteq [ignore : SUBSET Groups, direct : BOOLEAN]
  /\ Lifetime \in Nat /\ FallbackFor \in Nat /\ Lifetime <= FallbackFor
  /\ MaxTime \in Nat /\ MaxEvents \in Nat

VARIABLES
  now,
  source,    \* the row of data_sources: status, version, routes (route_ids), ignore, direct, enabledAt
  route,     \* channel_routes of the conversations: mode and when it was changed
  contact,   \* when a private conversation was last seen, None if never
  receipt,   \* source_group_discoveries
  cycle,     \* the collector's cycle
  collects,  \* conversations the receiver is subscribed to
  verdict,   \* what the platform last answered about each group, and when
  events

vars == <<now, source, route, contact, receipt, cycle, collects, verdict, events>>

None == -1
Idle == [step |-> "idle"]
Happens(kind) == kind \in Environment /\ events < MaxEvents /\ events' = events + 1

TypeOK ==
  /\ now \in 0..MaxTime
  /\ source \in [status : {"running", "paused", "stopped"}, version : Nat,
                 routes : SUBSET (Groups \cup Directs), ignore : SUBSET Groups,
                 direct : BOOLEAN, enabledAt : None..MaxTime]
  /\ route \in [Groups \cup Directs -> [mode : {"none", "collect", "ignore"}, changed : None..MaxTime]]
  /\ contact \in [Directs -> None..MaxTime]
  /\ receipt \in [valid : BOOLEAN, version : Nat \cup {None}, groups : SUBSET Groups,
                  observed : None..MaxTime]
  /\ cycle.step \in {"idle", "ask", "refused", "subscribe"}
  /\ collects \subseteq Groups \cup Directs
  /\ \A c \in source.routes : route[c].mode # "none"

Init ==
  /\ now = 0
  /\ \E conf \in Configurations :
       source = [status |-> "running", version |-> 1, routes |-> {}, ignore |-> conf.ignore,
                 direct |-> conf.direct, enabledAt |-> IF conf.direct THEN 0 ELSE None]
  /\ route = [c \in Groups \cup Directs |-> [mode |-> "none", changed |-> None]]
  /\ contact = [c \in Directs |-> None]
  /\ receipt = [valid |-> FALSE, version |-> None, groups |-> {}, observed |-> None]
  /\ cycle = Idle
  /\ collects = {}
  /\ verdict = [g \in Groups |-> [member |-> FALSE, at |-> None]]
  /\ events = 0

Tick ==
  /\ now < MaxTime /\ now' = now + 1
  /\ UNCHANGED <<source, route, contact, receipt, cycle, collects, verdict, events>>

----------------------------------------------------------------------------
(* What the receipt proves.                                                *)

Active(c) == route[c].mode = "collect"

\* A route that was changed after the observation has to be proved again.
Proved(g) ==
  /\ g \in receipt.groups \ source.ignore
  /\ Active(g) /\ route[g].changed <= receipt.observed

ReadSourceFallbackScope ==
  IF /\ source.status = "running" /\ receipt.version = source.version
     /\ receipt.observed # None /\ now - receipt.observed <= FallbackFor
  THEN {g \in source.routes \cap Groups : Proved(g)}
  ELSE {}

ReadSourcePositiveProcessingRoutes ==
  IF source.status = "paused" \/ receipt.version # source.version THEN {}
  ELSE IF ~receipt.valid THEN ReadSourceFallbackScope
  ELSE IF now - receipt.observed > Lifetime THEN {}
  ELSE {g \in source.routes \cap Groups : Proved(g)}

\* Private conversations seen since they were enabled join the owner's scope.
ReadOwnerSourceProcessingRoutes ==
  ReadSourcePositiveProcessingRoutes \cup
  {c \in source.routes \cap Directs :
     source.direct /\ source.status # "paused" /\ Active(c) /\ contact[c] >= source.enabledAt}

----------------------------------------------------------------------------
(* A cycle: the platform is asked, its answer is committed, and what is    *)
(* collected follows.                                                      *)

RefreshGroups ==
  /\ cycle = Idle /\ source.status = "running"
  /\ cycle' = [step |-> "ask", version |-> source.version]
  /\ UNCHANGED <<now, source, route, contact, receipt, collects, verdict, events>>

\* Groups of the answer get a route, or lose it to an ignore rule.
SyncDataSourceGroupDetails(groups) ==
  LET kept == {g \in groups : route[g].mode # "ignore" /\ g \notin source.ignore}
      Mode(g) == IF g \in source.ignore THEN "ignore" ELSE "collect"
  IN /\ source' = [source EXCEPT !.routes = kept \cup {c \in @ \cap Directs : Active(c)}]
     /\ route' = [c \in Groups \cup Directs |->
          IF c \in groups /\ (route[c].mode = "none" \/ (Active(c) /\ c \in source.ignore))
          THEN [mode |-> Mode(c), changed |-> now] ELSE route[c]]

\* A partial answer adds what it proves and removes what it excludes.
ApplySourceGroupObservation(groups, complete, excluded) ==
  SyncDataSourceGroupDetails(
    IF complete THEN groups
    ELSE (groups \ excluded) \cup ((source.routes \cap Groups) \ excluded))

Judge(members, others) ==
  verdict' = [g \in Groups |-> IF g \in members THEN [member |-> TRUE, at |-> now]
                               ELSE IF g \in others THEN [member |-> FALSE, at |-> now]
                               ELSE verdict[g]]

Then(step, scope) == cycle' = [step |-> step, scope |-> scope]

\* The answer to a cycle whose configuration is still in force.
CommitObservation ==
  /\ cycle.step = "ask" /\ source.status = "running" /\ source.version = cycle.version
  /\ \E groups \in SUBSET Groups, excluded \in SUBSET Groups, complete \in BOOLEAN :
       /\ groups \cap excluded = {} /\ (complete => excluded = Groups \ groups) /\ (~complete => groups # {})
       /\ ApplySourceGroupObservation(groups, complete, excluded)
       /\ receipt' = [valid |-> TRUE, version |-> source.version, groups |-> groups, observed |-> now]
       /\ Judge(groups, excluded)
       /\ Then("subscribe", source'.routes)
  /\ UNCHANGED <<now, contact, collects, events>>

\* Mutant: a refusal leaves the groups that were proved before.
DiscoveryFailsKeepingGroups ==
  /\ cycle.step = "ask"
  /\ \/ /\ Happens("unavailable")
        /\ receipt' = [receipt EXCEPT !.valid = FALSE]
        /\ Then(IF ReadSourceFallbackScope # {} THEN "subscribe" ELSE "refused", ReadSourceFallbackScope)
        /\ UNCHANGED verdict
     \/ /\ \/ source.status # "running" /\ UNCHANGED events
           \/ source.version # cycle.version /\ UNCHANGED events
           \/ Happens("denied")
        /\ receipt' = [receipt EXCEPT !.valid = FALSE]
        /\ Judge({}, Groups)
        /\ Then("refused", {})
  /\ UNCHANGED <<now, source, route, contact, collects>>

\* The platform does not answer, or says no: the first leaves the receipt to be
\* fallen back on, the second takes its groups.
DiscoveryFails ==
  /\ cycle.step = "ask"
  /\ \/ /\ Happens("unavailable")
        /\ receipt' = [receipt EXCEPT !.valid = FALSE]
        /\ Then(IF ReadSourceFallbackScope # {} THEN "subscribe" ELSE "refused", ReadSourceFallbackScope)
        /\ UNCHANGED verdict
     \/ /\ \/ source.status # "running" /\ UNCHANGED events
           \/ source.version # cycle.version /\ UNCHANGED events
           \/ Happens("denied")
        /\ receipt' = [receipt EXCEPT !.valid = FALSE, !.groups = {}]
        /\ Judge({}, Groups)
        /\ Then("refused", {})
  /\ UNCHANGED <<now, source, route, contact, collects>>

Subscribed(direct) ==
  IF source.status # "running" THEN {}
  ELSE {c \in IF direct THEN source.routes ELSE cycle.scope : Active(c)}

\* Without admitted groups the receiver stops.  Where private conversations are
\* enabled it is started again with the scope as it is in the store.
refreshDirect ==
  /\ cycle.step \in {"subscribe", "refused"}
  /\ cycle' = Idle
  /\ \/ collects' = Subscribed(source.direct) /\ UNCHANGED events
     \/ source.direct /\ collects' = Subscribed(FALSE) /\ Happens("unavailable")
  /\ UNCHANGED <<now, source, route, contact, receipt, verdict>>

\* A session that starts receives what was proved before while it asks anew.
session ==
  /\ cycle = Idle /\ source.status = "running" /\ collects = {}
  /\ collects' = ReadSourceFallbackScope
  /\ UNCHANGED <<now, source, route, contact, receipt, cycle, verdict, events>>

\* A private message or the search for private conversations admits one.
AdmitDataSourceDirectConversation(c) ==
  /\ source.direct /\ source.status = "running" /\ route[c].mode # "ignore"
  /\ route' = IF route[c].mode = "none" THEN [route EXCEPT ![c] = [mode |-> "collect", changed |-> now]]
              ELSE route
  /\ source' = [source EXCEPT !.routes = @ \cup {c}]
  /\ contact' = [contact EXCEPT ![c] = now]
  /\ UNCHANGED <<now, receipt, cycle, collects, verdict, events>>

----------------------------------------------------------------------------
(* The operator.                                                           *)

SetDataSourceStatus(status) ==
  /\ Happens("operator")
  /\ source' = [source EXCEPT !.status = status]
  /\ collects' = IF status = "running" THEN collects ELSE {}
  /\ UNCHANGED <<now, route, contact, receipt, cycle, verdict>>

\* A stopped source is configured anew; what it proved belongs to the old version.
ConfigureDataSource(conf) ==
  /\ source.status = "stopped" /\ Happens("operator")
  /\ source' = [source EXCEPT !.version = @ + 1, !.ignore = conf.ignore, !.direct = conf.direct,
                              !.enabledAt = IF conf.direct /\ ~source.direct THEN now ELSE @]
  /\ UNCHANGED <<now, route, contact, receipt, cycle, collects, verdict>>

UpdateRoute(c, mode) ==
  /\ route[c].mode # "none" /\ Happens("operator")
  /\ route' = [route EXCEPT ![c] = [mode |-> mode, changed |-> now]]
  /\ UNCHANGED <<now, source, contact, receipt, cycle, collects, verdict>>

Next ==
  \/ Tick \/ RefreshGroups \/ CommitObservation \/ DiscoveryFails \/ refreshDirect \/ session
  \/ \E c \in Directs : AdmitDataSourceDirectConversation(c)
  \/ \E status \in {"running", "paused", "stopped"} : SetDataSourceStatus(status)
  \/ \E conf \in Configurations : ConfigureDataSource(conf)
  \/ \E c \in Groups \cup Directs, mode \in {"collect", "ignore"} : UpdateRoute(c, mode)

Spec == Init /\ [][Next]_vars

----------------------------------------------------------------------------
(* Properties.                                                             *)

\* What an AI processes of a group rests on an answer of the platform that said
\* yes, was not taken back since, and is recent enough
\* (source_group_discovery.go:85).
ProcessingIsProved == \A g \in Groups : g \in ReadOwnerSourceProcessingRoutes =>
  /\ verdict[g].member /\ g \notin source.ignore
  /\ now - verdict[g].at <= IF receipt.valid THEN Lifetime ELSE FallbackFor

\* When discovery failed, no group is collected that was not proved before
\* (runtime-user-guide.md:285).
DegradedCollectionIsProved ==
  ~receipt.valid /\ cycle = Idle => collects \cap Groups \subseteq receipt.groups
=============================================================================
