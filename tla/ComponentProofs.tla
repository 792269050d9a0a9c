-------------------------- MODULE ComponentProofs --------------------------
(***************************************************************************)
(* What holds of the components of MCComponents, for every value of their  *)
(* constants.                                                              *)
(*                                                                         *)
(* Each component has an inductive invariant: ScopeInv (every group a      *)
(* receipt names was answered yes), ConfigInv (what runs follows from the  *)
(* last manifest and the receipts), StoreInv (the file or an archived copy *)
(* holds everything answered), RetentionInv (a text that is gone is quoted *)
(* nowhere).  Workspaces and deliveries have theirs in AgentResultProofs,  *)
(* imports in HistoryCoverageProofs and direct sessions in                 *)
(* DirectSessionProofs; the lemmas whose names begin with Same show that   *)
(* MCComponents speaks about the same actions.                             *)
(***************************************************************************)
EXTENDS MCComponents, AgentResultProofs

----------------------------------------------------------------------------
(* Data sources.                                                           *)
Conversations == Groups \cup Directs
Times == Scope!None..MaxScopeTime

\* What the cycle goes on with, and what was answered, have their types; a group
\* the receipt names was answered yes when the receipt was written or later.
ScopeInv ==
  /\ Scope!TypeOK
  /\ cycle.step = "subscribe" => cycle.scope \subseteq Conversations
  /\ cycle.step = "refused" => cycle.scope = {}
  /\ verdict \in [Groups -> [member : BOOLEAN, at : Times]]
  /\ \A g \in receipt.groups : verdict[g].member /\ verdict[g].at >= receipt.observed

Sources == [status : {"running", "paused", "stopped"}, version : Nat,
            routes : SUBSET Conversations, ignore : SUBSET Groups,
            direct : BOOLEAN, enabledAt : Times]
Routes == [Conversations -> [mode : {"none", "collect", "ignore"}, changed : Times]]

LEMMA ScopeTimes == MaxScopeTime \in Nat /\ Scope!None \in Times
  /\ \A t \in 0..MaxScopeTime : t \in Times
BY ComponentsAssumption DEF Scope!SourceScopeAssumption, Times, Scope!None

LEMMA ScopeStart == Scope!Init => ScopeInv
<1> SUFFICES ASSUME Scope!Init PROVE ScopeInv
  OBVIOUS
<1>1. 0 \in 0..MaxScopeTime
  BY ScopeTimes
<1> QED
  BY <1>1, ComponentsAssumption, ScopeTimes
     DEF Scope!Init, ScopeInv, Scope!TypeOK, Scope!SourceScopeAssumption, Scope!Idle, Conversations,
     Times

LEMMA FallbackScope == Scope!TypeOK => Scope!ReadSourceFallbackScope \subseteq Groups
BY DEF Scope!ReadSourceFallbackScope

LEMMA ScopeCommits == ScopeInv /\ Scope!CommitObservation => ScopeInv'
<1> SUFFICES ASSUME ScopeInv, Scope!CommitObservation PROVE ScopeInv'
  OBVIOUS
<1>0. source \in Sources /\ route \in Routes /\ now \in 0..MaxScopeTime /\ now \in Times
        /\ MaxScopeTime \in Nat
  BY ScopeTimes DEF ScopeInv, Scope!TypeOK, Sources, Routes, Conversations, Times
<1>1. PICK groups \in SUBSET Groups, excluded \in SUBSET Groups, complete \in BOOLEAN :
        /\ Scope!ApplySourceGroupObservation(groups, complete, excluded)
        /\ receipt' = [valid |-> TRUE, version |-> source.version, groups |-> groups,
           observed |-> now]
        /\ Scope!Judge(groups, excluded)
        /\ Scope!Then("subscribe", source'.routes)
  BY DEF Scope!CommitObservation
<1>2. PICK G \in SUBSET Groups : Scope!SyncDataSourceGroupDetails(G)
  BY <1>1 DEF Scope!ApplySourceGroupObservation
<1>3. /\ source' = [source EXCEPT !.routes = {g \in G : route[g].mode # "ignore"
         /\ g \notin source.ignore}
                                             \cup {c \in source.routes \cap Directs : Scope!Active(c)}]
      /\ route' = [c \in Conversations |->
           IF c \in G /\ (route[c].mode = "none" \/ (Scope!Active(c) /\ c \in source.ignore))
           THEN [mode |-> IF c \in source.ignore THEN "ignore" ELSE "collect", changed |-> now]
             ELSE route[c]]
  BY <1>2 DEF Scope!SyncDataSourceGroupDetails, Conversations
<1>4. source' \in Sources
  BY <1>0, <1>3 DEF Sources, Conversations
<1>5. route' \in Routes
  BY <1>0, <1>3 DEF Routes
<1>6. \A c \in source'.routes : route'[c].mode # "none"
  BY <1>0, <1>3 DEF Sources, Routes, Conversations, Scope!Active
<1>7. verdict' \in [Groups -> [member : BOOLEAN, at : Times]]
      /\ \A g \in groups : verdict'[g].member /\ verdict'[g].at = now
  BY <1>0, <1>1 DEF Scope!Judge, ScopeInv
<1>8. UNCHANGED <<now, contact, collects, scopeEvents>>
        /\ cycle' = [step |-> "subscribe", scope |-> source'.routes]
  BY <1>1 DEF Scope!CommitObservation, Scope!Then
<1>9. receipt' \in [valid : BOOLEAN, version : Nat \cup {Scope!None}, groups : SUBSET Groups,
        observed : Times]
      /\ receipt'.groups = groups /\ receipt'.observed = now
  BY <1>0, <1>1 DEF Sources
<1>10. Scope!TypeOK'
  BY <1>0, <1>4, <1>5, <1>6, <1>8, <1>9
     DEF ScopeInv, Scope!TypeOK, Sources, Routes, Conversations, Times
<1>11. cycle'.step = "subscribe" /\ cycle'.scope \subseteq Conversations
  BY <1>4, <1>8 DEF Sources
<1>12. \A g \in receipt'.groups : verdict'[g].member /\ verdict'[g].at >= receipt'.observed
  BY <1>0, <1>7, <1>9
<1> QED
  BY <1>7, <1>10, <1>11, <1>12 DEF ScopeInv

LEMMA ScopeFails == ScopeInv /\ Scope!DiscoveryFails => ScopeInv'
<1> SUFFICES ASSUME ScopeInv, Scope!DiscoveryFails PROVE ScopeInv'
  OBVIOUS
<1>0. now \in Times /\ MaxScopeTime \in Nat /\ UNCHANGED <<now, source, route, contact, collects>>
  BY ScopeTimes DEF ScopeInv, Scope!TypeOK, Scope!DiscoveryFails
<1>1. CASE /\ receipt' = [receipt EXCEPT !.valid = FALSE] /\ verdict' = verdict
           /\ Scope!Then(IF Scope!ReadSourceFallbackScope # {} THEN "subscribe" ELSE "refused",
              Scope!ReadSourceFallbackScope)
  <2>1. Scope!ReadSourceFallbackScope \subseteq Conversations
    BY FallbackScope DEF ScopeInv, Conversations
  <2>2. cycle'.step \in {"subscribe", "refused"} /\ cycle'.scope \subseteq Conversations
        /\ (cycle'.step = "refused" => cycle'.scope = {})
    BY <1>1, <2>1 DEF Scope!Then
  <2> QED
    BY <1>0, <1>1, <2>2 DEF ScopeInv, Scope!TypeOK
<1>2. CASE /\ receipt' = [receipt EXCEPT !.valid = FALSE, !.groups = {}]
           /\ Scope!Judge({}, Groups) /\ Scope!Then("refused", {})
  <2>1. verdict' \in [Groups -> [member : BOOLEAN, at : Times]]
    BY <1>0, <1>2 DEF Scope!Judge, ScopeInv
  <2>2. cycle'.step = "refused" /\ cycle'.scope = {}
    BY <1>2 DEF Scope!Then
  <2> QED
    BY <1>0, <1>2, <2>1, <2>2 DEF ScopeInv, Scope!TypeOK
<1> QED
  BY <1>1, <1>2 DEF Scope!DiscoveryFails

LEMMA ScopeStep == ScopeInv /\ [Scope!Next]_(Scope!vars) => ScopeInv'
<1> SUFFICES ASSUME ScopeInv, [Scope!Next]_(Scope!vars) PROVE ScopeInv'
  OBVIOUS
<1>0. /\ source \in Sources /\ route \in Routes /\ now \in 0..MaxScopeTime /\ now \in Times
         /\ MaxScopeTime \in Nat
      /\ contact \in [Directs -> Times] /\ Scope!None = -1
  BY ScopeTimes DEF ScopeInv, Scope!TypeOK, Sources, Routes, Conversations, Times, Scope!None
<1>1. CASE Scope!Tick
  BY <1>0, <1>1 DEF Scope!Tick, ScopeInv, Scope!TypeOK
<1>2. CASE Scope!RefreshGroups
  BY <1>2 DEF Scope!RefreshGroups, ScopeInv, Scope!TypeOK
<1>3. CASE Scope!refreshDirect
  <2>1. cycle' = Scope!Idle /\ UNCHANGED <<now, source, route, contact, receipt, verdict>>
    BY <1>3 DEF Scope!refreshDirect
  <2>2. \A d \in BOOLEAN : Scope!Subscribed(d) \subseteq Conversations
    BY <1>0, <1>3 DEF Scope!refreshDirect, Scope!Subscribed, ScopeInv, Sources
  <2>3. collects' \subseteq Conversations
    BY <1>0, <1>3, <2>2 DEF Scope!refreshDirect, Sources
  <2> QED
    BY <2>1, <2>3 DEF ScopeInv, Scope!TypeOK, Scope!Idle, Conversations
<1>4. CASE Scope!session
  BY <1>4, FallbackScope DEF Scope!session, ScopeInv, Scope!TypeOK
<1>5. ASSUME NEW c \in Directs, Scope!AdmitDataSourceDirectConversation(c) PROVE ScopeInv'
  <2>1. source' = [source EXCEPT !.routes = source.routes \cup {c}]
        /\ contact' = [contact EXCEPT ![c] = now]
        /\ route' = (IF route[c].mode = "none"
           THEN [route EXCEPT ![c] = [mode |-> "collect", changed |-> now]]
                     ELSE route)
        /\ UNCHANGED <<now, receipt, cycle, collects, verdict, scopeEvents>>
    BY <1>5 DEF Scope!AdmitDataSourceDirectConversation
  <2>2. source' \in Sources /\ source'.routes = source.routes \cup {c}
    BY <1>0, <2>1 DEF Sources, Conversations
  <2>3. route' \in Routes /\ route'[c].mode # "none" /\ \A d \in Conversations : d # c
          => route'[d] = route[d]
    BY <1>0, <2>1 DEF Routes, Conversations
  <2>4. contact' \in [Directs -> Times]
    BY <1>0, <2>1
  <2> QED
    BY <1>0, <2>1, <2>2, <2>3, <2>4
       DEF ScopeInv, Scope!TypeOK, Sources, Routes, Conversations, Times
<1>6. ASSUME NEW s \in {"running", "paused", "stopped"}, Scope!SetDataSourceStatus(s) PROVE ScopeInv'
  <2>1. source' \in Sources /\ source'.routes = source.routes
    BY <1>0, <1>6 DEF Scope!SetDataSourceStatus, Sources
  <2>2. collects' \subseteq Conversations
    BY <1>6 DEF Scope!SetDataSourceStatus, ScopeInv, Scope!TypeOK, Conversations
  <2> QED
    BY <1>6, <2>1, <2>2
       DEF Scope!SetDataSourceStatus, ScopeInv, Scope!TypeOK, Sources, Conversations, Times
<1>7. ASSUME NEW conf \in Configurations, Scope!ConfigureDataSource(conf) PROVE ScopeInv'
  <2>1. conf.ignore \subseteq Groups /\ conf.direct \in BOOLEAN
    BY ComponentsAssumption DEF Scope!SourceScopeAssumption
  <2>2. source' \in Sources /\ source'.routes = source.routes
    <3>1. PICK e \in Times : source' = [source EXCEPT !.version = source.version + 1,
            !.ignore = conf.ignore,
                                                      !.direct = conf.direct, !.enabledAt = e]
      <4>1. source.enabledAt \in Times
        BY <1>0 DEF Sources
      <4> QED
        BY <1>0, <1>7, <4>1 DEF Scope!ConfigureDataSource
    <3>2. conf.direct = TRUE \/ conf.direct = FALSE
      BY <2>1
    <3>3. source.version + 1 \in Nat
      BY <1>0 DEF Sources
    <3> QED
      BY <1>0, <2>1, <3>1, <3>2, <3>3 DEF Sources
  <2> QED
    BY <1>7, <2>2
       DEF Scope!ConfigureDataSource, ScopeInv, Scope!TypeOK, Sources, Conversations, Times
<1>8. ASSUME NEW c \in Conversations, NEW mode \in {"collect", "ignore"}, Scope!UpdateRoute(c, mode)
      PROVE ScopeInv'
  <2>1. route' \in Routes /\ \A d \in Conversations : route'[d].mode = "none"
          => route[d].mode = "none"
    BY <1>0, <1>8 DEF Scope!UpdateRoute, Routes
  <2> QED
    BY <1>8, <2>1 DEF Scope!UpdateRoute, ScopeInv, Scope!TypeOK, Routes, Conversations, Times
<1>9. CASE UNCHANGED Scope!vars
  BY <1>9 DEF Scope!vars, ScopeInv, Scope!TypeOK
<1> QED
  BY <1>1, <1>2, <1>3, <1>4, <1>5, <1>6, <1>7, <1>8, <1>9, ScopeCommits, ScopeFails
     DEF Scope!Next, Conversations

LEMMA ScopeProves == ScopeInv => Scope!ProcessingIsProved
<1> SUFFICES ASSUME ScopeInv, NEW g \in Groups, g \in Scope!ReadOwnerSourceProcessingRoutes
             PROVE  /\ verdict[g].member /\ g \notin source.ignore
                    /\ now - verdict[g].at <= IF receipt.valid THEN Lifetime ELSE FallbackFor
  BY DEF Scope!ProcessingIsProved
<1>1. g \in Scope!ReadSourcePositiveProcessingRoutes
  BY ComponentsAssumption DEF Scope!ReadOwnerSourceProcessingRoutes, Scope!SourceScopeAssumption
<1>2. g \in receipt.groups /\ g \notin source.ignore
  BY <1>1 DEF Scope!ReadSourcePositiveProcessingRoutes, Scope!ReadSourceFallbackScope, Scope!Proved
<1>3. verdict[g].member /\ verdict[g].at >= receipt.observed /\ verdict[g].at \in Int
      /\ receipt.observed \in Int /\ now \in Int
  BY <1>2, ComponentsAssumption
     DEF ScopeInv, Scope!TypeOK, Times, Scope!None, Scope!SourceScopeAssumption
<1>5. Lifetime \in Int /\ FallbackFor \in Int
  BY ComponentsAssumption DEF Scope!SourceScopeAssumption
<1>4. now - receipt.observed <= IF receipt.valid THEN Lifetime ELSE FallbackFor
  <2>1. CASE receipt.valid
    BY <1>1, <1>3, <1>5, <2>1 DEF Scope!ReadSourcePositiveProcessingRoutes
  <2>2. CASE ~receipt.valid
    BY <1>1, <2>2 DEF Scope!ReadSourcePositiveProcessingRoutes, Scope!ReadSourceFallbackScope
  <2> QED
    BY <2>1, <2>2
<1> QED
  BY <1>2, <1>3, <1>4, <1>5

----------------------------------------------------------------------------
(* Configuration.                                                          *)
Manifests == [declaration : Config!Declarations, manages : SUBSET {"source", "runtime"},
              sourceAs : [enabled : BOOLEAN, ignore : SUBSET Groups, version : Nat],
              runtimeAs : [policy : Policies \cup {"none"}, batch : 0..2]]

SourceRows == [exists : BOOLEAN, enabled : BOOLEAN, ignore : SUBSET Groups, version : Nat,
               status : {"stopped", "running"}, routes : SUBSET Groups,
               receipt : [groups : SUBSET Groups, at : Nat], fresh : BOOLEAN]
RuntimeRows == [exists : BOOLEAN, policy : Policies \cup {"none"}, batch : 0..2,
                routes : SUBSET Groups, status : {"stopped", "running"}]

ConfigTypes ==
  /\ declaration \in Config!Declarations
  /\ applied \in Seq(Manifests) /\ Len(applied) <= MaxVersions
  /\ declared \in SourceRows /\ runtime \in RuntimeRows
  /\ lease \in BOOLEAN /\ alive \in BOOLEAN
  /\ touched \subseteq {"source", "runtime"}
  /\ configEvents \in Nat

\* A fresh receipt belongs to the configuration in force, an application that
\* does not exist does nothing.
FreshRows ==
  /\ declared.status = "running" => declared.exists /\ declared.enabled
  /\ declared.fresh
     => declared.exists /\ declared.enabled /\ declared.routes \cap declared.ignore = {}
  /\ declared.receipt.at <= configEvents
  /\ ~runtime.exists => runtime = Config!NoRuntime /\ ~alive

\* A declared source is managed with the ignore rules declared for it.
Declared == Config!Latest.declaration.source = "on" =>
  "source" \in Config!Latest.manages
    /\ Config!Latest.sourceAs.ignore = Config!Latest.declaration.ignore

\* An application that waits for admitted groups has none and is stopped.
Deferred ==
  /\ "late" \notin ConfigFaults
  /\ Config!Latest.declaration.app = "on" /\ "runtime" \in Config!Latest.manages
  /\ Config!Latest.runtimeAs.policy # Config!Latest.declaration.policy
  => runtime.status = "stopped" /\ runtime.routes = {}

\* RunsAsApplied, for an application that runs or may be started.
Settled ==
  /\ "late" \notin ConfigFaults
  /\ Config!Latest.declaration.app = "on" /\ touched = {}
     /\ (runtime.status = "running" \/ runtime.routes # {})
  => /\ runtime.policy = Config!Latest.declaration.policy
     /\ runtime.routes \cap Config!Latest.declaration.ignore = {}

\* As long as the receipt is the one the plan saw, the operator has seen what it admits.
Reviewed ==
  plan # Config!NoPlan =>
    /\ plan.digest.receipt \in [groups : SUBSET Groups, at : Nat]
       /\ plan.digest.receipt.at <= configEvents
    /\ plan.digest.receipt = declared.receipt /\ declared.fresh =>
         declared.routes \cap declared.receipt.groups \subseteq plan.admitted

ConfigInv == ConfigTypes /\ FreshRows /\ Declared /\ Deferred /\ Settled
  /\ Config!Drift \subseteq touched /\ Reviewed

----------------------------------------------------------------------------
LEMMA NothingApplied ==
  /\ Config!Nothing.declaration \in Config!Declarations /\ Config!Nothing.manages = {}
  /\ Config!Nothing.declaration.source = "none" /\ Config!Nothing.declaration.app = "none"
<1>1. (CHOOSE p \in Policies : TRUE) \in Policies
  BY ComponentsAssumption DEF Config!ConfigApplyAssumption
<1> QED
  BY <1>1 DEF Config!Nothing, Config!Declarations

LEMMA LatestTyped ==
  ConfigTypes => /\ Config!Latest.declaration \in Config!Declarations /\ Config!Latest.manages \subseteq {"source", "runtime"}
                 /\ applied # << >> => Config!Latest \in Manifests
<1> SUFFICES ASSUME ConfigTypes PROVE /\ Config!Latest.declaration \in Config!Declarations
                                      /\ Config!Latest.manages \subseteq {"source", "runtime"}
                                      /\ applied # << >> => Config!Latest \in Manifests
  OBVIOUS
<1>1. CASE applied = << >>
  BY <1>1, NothingApplied DEF Config!Latest
<1>2. CASE applied # << >>
  <2>1. applied[Len(applied)] \in Manifests
    BY <1>2 DEF ConfigTypes
  <2> QED
    BY <1>2, <2>1 DEF Config!Latest, Manifests
<1> QED
  BY <1>1, <1>2

LEMMA ConfigStart == Config!Init => ConfigInv
<1> SUFFICES ASSUME Config!Init PROVE ConfigInv
  OBVIOUS
<1>1. (CHOOSE p \in Policies : TRUE) \in Policies /\ MaxVersions \in Nat
  BY ComponentsAssumption DEF Config!ConfigApplyAssumption
<1>2. declaration \in Config!Declarations
  BY <1>1 DEF Config!Init, Config!Declarations
<1>3. ConfigTypes
  <2>1. declared \in SourceRows /\ runtime \in RuntimeRows
    BY DEF Config!Init, SourceRows, RuntimeRows, Config!NoSource, Config!NoRuntime
  <2>2. applied \in Seq(Manifests) /\ Len(applied) = 0
    BY DEF Config!Init
  <2>3. lease = FALSE /\ alive = FALSE /\ touched = {} /\ configEvents = 0
    BY DEF Config!Init
  <2>4. lease \in BOOLEAN /\ alive \in BOOLEAN
    BY <2>3
  <2>5. Len(applied) <= MaxVersions /\ configEvents \in Nat
    BY <1>1, <2>2, <2>3
  <2> QED
    BY <1>2, <2>1, <2>2, <2>3, <2>4, <2>5 DEF ConfigTypes
<1>4. Config!Latest = Config!Nothing
  BY DEF Config!Init, Config!Latest
<1> QED
  BY <1>3, <1>4, NothingApplied
     DEF Config!Init, ConfigInv, FreshRows, Declared, Deferred, Settled, Config!Drift,
         Config!Manages, Reviewed,
     Config!NoPlan, Config!NoSource, Config!NoRuntime

\* What depends on the last manifest stays as it is while that manifest does.
LEMMA SameLatest == UNCHANGED applied => UNCHANGED Config!Latest
BY DEF Config!Latest

----------------------------------------------------------------------------
(* The application of a plan.                                              *)

LEMMA SourceApplied ==
  ASSUME ConfigTypes, FreshRows
  PROVE  /\ Config!AppliedSource \in SourceRows
         /\ Config!AppliedSource.status = declared.status
            /\ Config!AppliedSource.receipt = declared.receipt
         /\ Config!AppliedSource.routes = declared.routes
         /\ Config!AppliedSource # declared =>
              /\ ~Config!AppliedSource.fresh /\ Config!Admitted(Config!AppliedSource) = {}
                 /\ Config!SourceChanged /\ declaration.source # "none"
              /\ Config!AppliedSource.ignore = declaration.ignore /\ Config!AppliedSource.exists
         /\ Config!AppliedSource = declared =>
              ~Config!SourceChanged \/ declaration.source = "none"
                \/ (declaration.source = "off" /\ ~declared.exists)
<1>1. CASE ~Config!SourceChanged \/ declaration.source = "none"
             \/ (declaration.source = "off" /\ ~declared.exists)
  BY <1>1 DEF Config!AppliedSource, ConfigTypes
<1>2. CASE ~(~Config!SourceChanged \/ declaration.source = "none"
             \/ (declaration.source = "off" /\ ~declared.exists))
  <2>1. PICK e \in BOOLEAN : e = (declaration.source = "on")
    OBVIOUS
  <2>2. Config!AppliedSource = [declared EXCEPT !.exists = TRUE, !.enabled = e,
          !.ignore = declaration.ignore,
                                                !.version = declared.version + 1, !.fresh = FALSE]
    BY <1>2, <2>1 DEF Config!AppliedSource
  <2>3. declared \in SourceRows /\ declaration.ignore \in SUBSET Groups
    BY DEF ConfigTypes, Config!Declarations
  <2>4. Config!AppliedSource \in SourceRows
          /\ Config!AppliedSource.version = declared.version + 1
             /\ Config!AppliedSource.fresh = FALSE
        /\ Config!AppliedSource.status = declared.status
           /\ Config!AppliedSource.receipt = declared.receipt
        /\ Config!AppliedSource.routes = declared.routes
           /\ Config!AppliedSource.ignore = declaration.ignore /\ Config!AppliedSource.exists = TRUE
    <3>1. e = TRUE \/ e = FALSE
      BY <2>1
    <3>2. declared.version + 1 \in Nat
      BY <2>3 DEF SourceRows
    <3> QED
      BY <2>2, <2>3, <3>1, <3>2 DEF SourceRows
  <2>5. declared.version \in Nat /\ declared.version + 1 # declared.version
    BY <2>3 DEF SourceRows
  <2> QED
    BY <1>2, <2>4, <2>5 DEF Config!Admitted
<1> QED
  BY <1>1, <1>2

LEMMA RuntimeApplied ==
  /\ Config!Defers
     => Config!AppliedRuntime = IF runtime.exists THEN [runtime EXCEPT !.routes = {}] ELSE runtime
  /\ Config!Configures /\ ~Config!Defers =>
       Config!AppliedRuntime = [exists |-> TRUE, policy |-> declaration.policy,
         batch |-> declaration.batch,
                                routes |-> Config!Admitted(Config!AppliedSource),
                                status |-> runtime.status]
  /\ ~Config!Configures
     => Config!AppliedRuntime = IF Config!Stops THEN [runtime EXCEPT !.status = "stopped"]
       ELSE runtime
  /\ Config!Stops => declaration.app # "on"
<1>1. (Config!Defers => Config!Configures) /\ (Config!Stops => declaration.app # "on")
        /\ (Config!Configures => declaration.app = "on")
  BY DEF Config!Defers, Config!Configures, Config!Stops
<1>2. CASE Config!Defers
  BY <1>1, <1>2 DEF Config!AppliedRuntime
<1>3. CASE Config!Configures /\ ~Config!Defers
  BY <1>1, <1>3 DEF Config!AppliedRuntime
<1>4. CASE ~Config!Configures /\ Config!Stops
  BY <1>1, <1>4 DEF Config!AppliedRuntime
<1>5. CASE ~Config!Configures /\ ~Config!Stops
  BY <1>1, <1>5 DEF Config!AppliedRuntime
<1> QED
  BY <1>1, <1>2, <1>3, <1>4, <1>5

LEMMA AdmittedFresh ==
  ASSUME ConfigTypes, FreshRows
  PROVE  /\ Config!Admitted(declared) \subseteq declared.routes \cap declared.receipt.groups
         /\ Config!Admitted(declared) \subseteq Groups
         /\ Config!Admitted(declared) # {} => declared.fresh
         /\ declared.fresh
            => Config!Admitted(declared) = declared.routes \cap declared.receipt.groups
         /\ Config!Admitted(declared) \cap declared.ignore = {}
BY DEF Config!Admitted, ConfigTypes, FreshRows, SourceRows

LEMMA ApplyKeeps ==
  ASSUME ConfigInv, Config!Apply
  PROVE  /\ ConfigInv'
         /\ Config!Latest'.declaration = plan.digest.declaration
         /\ runtime'.routes \subseteq plan.admitted \cup runtime.routes
<1>0. ConfigTypes /\ FreshRows /\ Declared /\ Deferred /\ Settled /\ Reviewed
      /\ Config!Drift = {} /\ Config!Unmanaged = {}
      /\ ~Config!SourceRefuses /\ ~Config!RuntimeRefuses /\ plan # Config!NoPlan
         /\ plan.digest = Config!Digest
  BY DEF ConfigInv, Config!Apply, Config!ApplyFails, Config!Ready
<1>1. declared' = Config!AppliedSource /\ runtime' = Config!AppliedRuntime /\ touched' = {}
      /\ applied' = (IF Config!Manifest = Config!Latest THEN applied
         ELSE Append(applied, Config!Manifest)) /\ Len(applied) < MaxVersions
      /\ UNCHANGED <<declaration, lease, alive, plan, edits, configEvents>>
  BY DEF Config!Apply
<1>a. declared' \in SourceRows
  BY <1>0, <1>1, SourceApplied
<1>b. Config!Admitted(Config!AppliedSource) \subseteq Groups
      /\ Config!Admitted(Config!AppliedSource) \cap Config!AppliedSource.ignore = {}
      /\ (Config!Admitted(Config!AppliedSource) # {}
         => Config!AppliedSource = declared /\ declared.fresh)
  BY <1>0, SourceApplied, AdmittedFresh
<1>c. declaration.policy \in Policies /\ declaration.batch \in 0..2
      /\ declaration.app \in {"none", "off", "on"}
      /\ (declaration.app = "on" => declaration.source = "on")
  BY <1>0 DEF ConfigTypes, Config!Declarations
<1>2. runtime' \in RuntimeRows
  <2>1. runtime \in RuntimeRows
    BY <1>0 DEF ConfigTypes
  <2>2. CASE Config!Configures /\ ~Config!Defers
    <3>1. runtime' = [exists |-> TRUE, policy |-> declaration.policy, batch |-> declaration.batch,
                      routes |-> Config!Admitted(Config!AppliedSource), status |-> runtime.status]
      BY <1>1, <2>2, RuntimeApplied
    <3>2. runtime.status \in {"stopped", "running"}
          /\ Config!Admitted(Config!AppliedSource) \in SUBSET Groups
          /\ declaration.policy \in Policies \cup {"none"} /\ declaration.batch \in 0..2
      BY <1>b, <1>c, <2>1 DEF RuntimeRows
    <3> QED
      BY <3>1, <3>2 DEF RuntimeRows
  <2>3. CASE ~(Config!Configures /\ ~Config!Defers)
    <3>1. runtime' = runtime \/ runtime' = [runtime EXCEPT !.routes = {}]
            \/ runtime' = [runtime EXCEPT !.status = "stopped"]
      BY <1>1, <2>3, RuntimeApplied
    <3> QED
      BY <2>1, <3>1 DEF RuntimeRows
  <2> QED
    BY <2>2, <2>3
<1>3. Config!Manifest \in Manifests
  <2>1. Config!SourceSnapshot(Config!AppliedSource) \in [enabled : BOOLEAN,
          ignore : SUBSET Groups, version : Nat]
    BY <1>1, <1>a DEF Config!SourceSnapshot, SourceRows
  <2>2. Config!RuntimeSnapshot(Config!AppliedRuntime) \in [policy : Policies \cup {"none"},
          batch : 0..2]
    BY <1>1, <1>2 DEF Config!RuntimeSnapshot, RuntimeRows
  <2> QED
    BY <1>0, <2>1, <2>2 DEF Config!Manifest, Manifests, ConfigTypes
<1>4. Config!Latest' = Config!Manifest /\ applied' \in Seq(Manifests)
        /\ Len(applied') <= MaxVersions
  <2>1. CASE Config!Manifest = Config!Latest
    BY <1>0, <1>1, <2>1 DEF Config!Latest, ConfigTypes
  <2>2. CASE Config!Manifest # Config!Latest
    <3>1. applied' = Append(applied, Config!Manifest) /\ applied \in Seq(Manifests)
      BY <1>0, <1>1, <2>2 DEF ConfigTypes
    <3>2. applied' \in Seq(Manifests) /\ Len(applied') = Len(applied) + 1
          /\ applied'[Len(applied')] = Config!Manifest
          /\ applied' # << >>
      BY <1>3, <3>1
    <3>3. MaxVersions \in Nat /\ Len(applied) \in Nat
      BY <3>1, ComponentsAssumption DEF Config!ConfigApplyAssumption
    <3> QED
      BY <1>1, <3>2, <3>3 DEF Config!Latest
  <2> QED
    BY <2>1, <2>2
<1>5. ConfigTypes'
  BY <1>0, <1>1, <1>2, <1>4, <1>a DEF ConfigTypes
<1>6. Config!Latest'.declaration = declaration
        /\ Config!Latest'.declaration = plan.digest.declaration
  BY <1>0, <1>4 DEF Config!Manifest, Config!Digest
<1>7. Config!Before = Config!Latest.declaration /\ Config!Before \in Config!Declarations
  BY <1>0, LatestTyped DEF Config!Before
\* A source that is declared, and whose declaration did not change, is there as it was applied.
<1>8. ASSUME ~Config!SourceChanged, declaration.source = "on"
      PROVE  Config!AppliedSource = declared /\ declared.exists
             /\ "source" \in Config!Latest.manages
             /\ declared.ignore = declaration.ignore /\ Config!Before.source = "on"
  <2>1. Config!Before.source = "on" /\ Config!Before.ignore = declaration.ignore
    BY <1>8 DEF Config!SourceChanged, Config!DeclaredSource
  <2>2. "source" \in Config!Latest.manages /\ Config!Latest.sourceAs.ignore = declaration.ignore
    BY <1>0, <1>7, <2>1 DEF Declared
  <2>3. declared.exists /\ Config!Latest.sourceAs = Config!SourceSnapshot(declared)
    BY <1>0, <2>2 DEF Config!Drift, Config!Manages
  <2>4. declared.ignore = declaration.ignore
    BY <2>2, <2>3 DEF Config!SourceSnapshot
  <2> QED
    BY <1>0, <1>8, <2>1, <2>2, <2>3, <2>4, SourceApplied DEF Config!AppliedSource
<1>9. declaration.source = "on"
        => Config!AppliedSource.exists /\ Config!AppliedSource.ignore = declaration.ignore
  BY <1>0, <1>8, SourceApplied
<1>10. Declared'
  BY <1>4, <1>6, <1>9 DEF Declared, Config!Manifest, Config!SourceSnapshot
<1>11. Config!Drift' \subseteq touched'
  BY <1>1, <1>4 DEF Config!Drift, Config!Manages, Config!Manifest
<1>12. FreshRows'
  <2>1. declared'.fresh => Config!AppliedSource = declared
    BY <1>0, <1>1, SourceApplied
  <2>2. ~runtime'.exists => runtime' = Config!NoRuntime
    <3>1. ~runtime.exists => runtime = Config!NoRuntime
      BY <1>0 DEF FreshRows
    <3>2. runtime.exists => Config!AppliedRuntime.exists
      BY <1>0, RuntimeApplied DEF ConfigTypes, RuntimeRows
    <3>3. ASSUME ~runtime.exists, ~Config!AppliedRuntime.exists
          PROVE Config!AppliedRuntime = Config!NoRuntime
      <4>1. [Config!NoRuntime EXCEPT !.status = "stopped"] = Config!NoRuntime
        BY DEF Config!NoRuntime
      <4> QED
        BY <3>1, <3>3, <4>1, RuntimeApplied
    <3> QED
      BY <1>1, <3>2, <3>3
  <2>3. declared'.receipt = declared.receipt /\ configEvents' = configEvents
    BY <1>0, <1>1, SourceApplied
  <2>4. declared'.status = "running" => Config!AppliedSource = declared
    BY <1>0, <1>1, SourceApplied DEF Config!SourceRefuses, FreshRows
  <2>5. ~runtime'.exists => ~alive'
    <3>1. runtime.exists => runtime'.exists
      BY <1>0, <1>1, RuntimeApplied DEF ConfigTypes, RuntimeRows
    <3> QED
      BY <1>0, <1>1, <3>1 DEF FreshRows
  <2> QED
    BY <1>0, <1>1, <2>1, <2>2, <2>3, <2>4, <2>5 DEF FreshRows
\* The application after the apply, as far as it is declared on.
<1>13. ASSUME declaration.app = "on", "late" \notin ConfigFaults
       PROVE  /\ runtime'.status = "running" \/ runtime'.routes # {} =>
                   runtime'.policy = declaration.policy
                     /\ runtime'.routes \cap declaration.ignore = {}
              /\ runtime'.exists /\ runtime'.policy # declaration.policy
                 => runtime'.status = "stopped" /\ runtime'.routes = {}
  <2>1. runtime \in RuntimeRows /\ (~runtime.exists => runtime = Config!NoRuntime)
    BY <1>0 DEF ConfigTypes, FreshRows
  <2>2. CASE Config!Defers
    <3>1. runtime.exists => runtime.status = "stopped" /\ runtime' = [runtime EXCEPT !.routes = {}]
      BY <1>0, <1>1, <2>1, <2>2, RuntimeApplied DEF Config!RuntimeRefuses, RuntimeRows
    <3>2. ~runtime.exists => runtime' = Config!NoRuntime
      BY <1>1, <2>1, <2>2, RuntimeApplied
    <3> QED
      BY <2>1, <3>1, <3>2 DEF RuntimeRows, Config!NoRuntime
  <2>3. CASE Config!Configures /\ ~Config!Defers
    <3>1. runtime' = [exists |-> TRUE, policy |-> declaration.policy, batch |-> declaration.batch,
                      routes |-> Config!Admitted(Config!AppliedSource), status |-> runtime.status]
      BY <1>1, <2>3, RuntimeApplied
    <3>2. runtime'.routes \cap declaration.ignore = {}
      BY <1>9, <1>b, <1>c, <1>13, <3>1
    <3> QED
      BY <3>1, <3>2
  <2>4. CASE ~Config!Configures
    <3>1. runtime' = runtime
      BY <1>1, <1>13, <2>4, RuntimeApplied
    <3>2. ~Config!AppAction /\ ~Config!SourceConfigured /\ ~Config!AgentChanged
      BY <1>13, <2>4 DEF Config!Configures
    <3>3. Config!AppliedSource = declared /\ ~Config!SourceChanged /\ declaration.source = "on"
      BY <1>0, <1>c, <1>13, <3>2, SourceApplied DEF Config!SourceConfigured
    <3>4. declared.exists /\ declared.ignore = declaration.ignore
      BY <1>8, <3>3
    <3>5. Config!Before.policy = declaration.policy /\ ~Config!AppChanged
            /\ Config!Before.app = "on"
      BY <1>13, <3>2
         DEF Config!AgentChanged, Config!AppAction, Config!AppChanged, Config!DeclaredApp
    <3>6. CASE ~runtime.exists
      BY <2>1, <3>1, <3>6 DEF Config!NoRuntime
    <3>7. CASE runtime.exists
      <4>1. "runtime" \in Config!Latest.manages
        BY <1>0, <1>13, <3>7 DEF Config!Unmanaged, Config!Manages
      <4>2. Config!Latest.runtimeAs = Config!RuntimeSnapshot(runtime)
        BY <1>0, <4>1 DEF Config!Drift, Config!Manages
      <4>3. runtime.policy # declaration.policy => runtime.status = "stopped" /\ runtime.routes = {}
        BY <1>0, <1>7, <1>13, <3>5, <4>1, <4>2 DEF Deferred, Config!RuntimeSnapshot
      <4>4. Config!Admitted(declared) = runtime.routes
        BY <1>13, <3>2, <3>4, <3>5, <3>7 DEF Config!AppAction
      <4>5. runtime.routes \cap declaration.ignore = {}
        BY <1>0, <3>4, <4>4, AdmittedFresh
      <4>6. runtime.status = "running" \/ runtime.status = "stopped"
        BY <2>1 DEF RuntimeRows
      <4> QED
        BY <3>1, <4>3, <4>5, <4>6
    <3> QED
      BY <3>6, <3>7
  <2> QED
    BY <2>2, <2>3, <2>4
<1>14. Settled' /\ Deferred'
  <2>1. "runtime" \in Config!Latest'.manages
          => runtime'.exists /\ Config!Latest'.runtimeAs.policy = runtime'.policy
    BY <1>1, <1>4 DEF Config!Manifest, Config!RuntimeSnapshot
  <2> QED
    BY <1>6, <1>13, <2>1 DEF Settled, Deferred
<1>15. Reviewed'
  <2>1. declared'.receipt = declared.receipt /\ declared'.routes = declared.routes
          /\ (declared'.fresh => declared.fresh)
    BY <1>0, <1>1, SourceApplied
  <2> QED
    BY <1>0, <1>1, <2>1 DEF Reviewed
<1>16. runtime'.routes \subseteq plan.admitted \cup runtime.routes
  <2>1. Config!Admitted(Config!AppliedSource) \subseteq plan.admitted
    <3>1. CASE Config!Admitted(Config!AppliedSource) # {}
      <4>1. Config!AppliedSource = declared /\ declared.fresh
        BY <1>b, <3>1
      <4>2. plan.digest.receipt = declared.receipt
        BY <1>0 DEF Config!Digest
      <4> QED
        BY <1>0, <4>1, <4>2, AdmittedFresh DEF Reviewed
    <3> QED
      BY <3>1
  <2>2. runtime \in RuntimeRows
    BY <1>0 DEF ConfigTypes
  <2> QED
    BY <1>1, <2>1, <2>2, RuntimeApplied DEF RuntimeRows
<1> QED
  BY <1>5, <1>6, <1>10, <1>11, <1>12, <1>14, <1>15, <1>16 DEF ConfigInv
----------------------------------------------------------------------------
(* The other steps.                                                        *)

LEMMA ConfigStep ==
  ASSUME ConfigInv, [Config!Next]_(Config!vars)
  PROVE  /\ ConfigInv'
         /\ applied' # applied => /\ Config!Latest'.declaration = plan.digest.declaration
                                 /\ runtime'.routes \subseteq plan.admitted \cup runtime.routes
<1>0. ConfigTypes /\ FreshRows /\ Declared /\ Deferred /\ Settled /\ Reviewed
      /\ Config!Drift \subseteq touched
      /\ declared \in SourceRows /\ runtime \in RuntimeRows /\ configEvents \in Nat
  BY DEF ConfigInv, ConfigTypes
<1>a. UNCHANGED applied => UNCHANGED Config!Latest
  BY DEF Config!Latest
<1>1. CASE Config!Apply
  BY <1>1, ApplyKeeps
\* Nothing but the declaration, the lease and the process changes.
<1>2. ASSUME UNCHANGED <<applied, declared, runtime, plan, touched, configEvents>>,
             declaration' \in Config!Declarations, lease' \in BOOLEAN, alive' \in BOOLEAN,
             alive' => alive
      PROVE  ConfigInv' /\ applied' = applied
  BY <1>0, <1>2, <1>a
     DEF ConfigInv, ConfigTypes, FreshRows, Declared, Deferred, Settled, Config!Drift,
         Config!Manages, Reviewed
<1>3. ASSUME NEW d \in Config!Declarations, Config!Edit(d) PROVE ConfigInv' /\ applied' = applied
  BY <1>0, <1>2, <1>3 DEF Config!Edit, ConfigTypes
<1>4. CASE Config!AcquireLease \/ Config!ReleaseLease \/ Config!Leave \/ UNCHANGED Config!vars
  <2>1. UNCHANGED <<applied, declared, runtime, plan, touched, configEvents, declaration>>
        /\ lease' \in {lease, TRUE, FALSE} /\ alive' \in {alive, FALSE}
    BY <1>4 DEF Config!AcquireLease, Config!ReleaseLease, Config!Leave, Config!vars
  <2>2. lease' \in BOOLEAN /\ alive' \in BOOLEAN /\ (alive' => alive)
    <3>1. lease \in BOOLEAN /\ alive \in BOOLEAN
      BY <1>0 DEF ConfigTypes
    <3>2. alive' = alive \/ alive' = FALSE
      BY <2>1
    <3>3. lease' = lease \/ lease' = TRUE \/ lease' = FALSE
      BY <2>1
    <3>4. alive' \in BOOLEAN
      BY <3>1, <3>2
    <3>5. lease' \in BOOLEAN
      BY <3>1, <3>3
    <3>6. alive' => alive
      BY <3>1, <3>2
    <3> QED
      BY <3>4, <3>5, <3>6
  <2> QED
    BY <1>0, <1>2, <2>1, <2>2 DEF ConfigTypes
<1>5. CASE Config!Plan
  <2>1. plan' = [digest |-> Config!Digest, admitted |-> Config!Admitted(declared)]
        /\ UNCHANGED <<declaration, applied, declared, lease, runtime, alive, touched, edits,
           configEvents>>
    BY <1>5 DEF Config!Plan
  <2>2. plan'.digest.receipt = declared.receipt /\ plan'.admitted = Config!Admitted(declared)
    BY <2>1 DEF Config!Digest
  <2>3. Reviewed'
    BY <1>0, <2>1, <2>2, AdmittedFresh DEF Reviewed, FreshRows, SourceRows
  <2> QED
    BY <1>0, <1>a, <2>1, <2>3
       DEF ConfigInv, ConfigTypes, FreshRows, Declared, Deferred, Settled, Config!Drift,
           Config!Manages
\* The source keeps its configuration and its receipt.
<1>6. ASSUME declared' \in SourceRows, declared'.exists = declared.exists,
             Config!SourceSnapshot(declared') = Config!SourceSnapshot(declared),
             UNCHANGED <<declaration, applied, lease, runtime, alive, touched>>,
             configEvents' \in Nat, FreshRows', Reviewed'
      PROVE  ConfigInv' /\ applied' = applied
  BY <1>0, <1>6, <1>a
     DEF ConfigInv, ConfigTypes, Declared, Deferred, Settled, Config!Drift, Config!Manages,
         Config!SourceSnapshot
<1>7. CASE Config!StartSource \/ Config!StopSource
  <2>1. declared' \in SourceRows /\ declared'.exists = declared.exists
        /\ declared'.receipt = declared.receipt
        /\ declared'.fresh = declared.fresh /\ declared'.routes = declared.routes
           /\ declared'.ignore = declared.ignore
        /\ declared'.enabled = declared.enabled /\ declared'.version = declared.version
    BY <1>0, <1>7 DEF Config!StartSource, Config!StopSource, SourceRows
  <2>2. UNCHANGED <<declaration, applied, lease, runtime, alive, plan, touched, edits,
          configEvents>>
    BY <1>7 DEF Config!StartSource, Config!StopSource
  <2>3. declared'.status = "running" => declared.exists /\ declared.enabled
    BY <1>0, <1>7 DEF Config!StartSource, Config!StopSource, SourceRows
  <2> QED
    BY <1>0, <1>6, <2>1, <2>2, <2>3 DEF FreshRows, Reviewed, Config!SourceSnapshot
<1>8. ASSUME NEW G \in SUBSET Groups, Config!Discover(G) PROVE ConfigInv' /\ applied' = applied
  <2>1. declared' = [declared EXCEPT !.routes = G \ declared.ignore, !.fresh = TRUE,
                                     !.receipt = [groups |-> G \ declared.ignore,
                                       at |-> configEvents + 1]]
        /\ configEvents' = configEvents + 1 /\ declared.status = "running"
        /\ UNCHANGED <<declaration, applied, lease, runtime, alive, plan, touched, edits>>
    BY <1>8 DEF Config!Discover
  <2>2. declared' \in SourceRows /\ declared'.exists = declared.exists
        /\ declared'.enabled = declared.enabled
        /\ declared'.version = declared.version /\ declared'.ignore = declared.ignore
        /\ declared'.receipt.at = configEvents + 1 /\ declared'.routes = G \ declared.ignore
    <3>1. [groups |-> G \ declared.ignore, at |-> configEvents + 1] \in [groups : SUBSET Groups,
            at : Nat]
      BY <1>0
    <3>2. PICK x : x = [groups |-> G \ declared.ignore, at |-> configEvents + 1]
      OBVIOUS
    <3> QED
      BY <1>0, <2>1, <3>1, <3>2 DEF SourceRows
  <2>3. Reviewed'
    BY <1>0, <2>1, <2>2 DEF Reviewed
  <2>4. FreshRows'
    <3>1. declared.exists /\ declared.enabled
      BY <1>0, <2>1 DEF FreshRows
    <3> QED
      BY <1>0, <2>1, <2>2, <3>1 DEF FreshRows
  <2> QED
    BY <1>0, <1>6, <2>1, <2>2, <2>3, <2>4 DEF Config!SourceSnapshot
<1>9. CASE Config!Expire
  <2>1. declared' = [declared EXCEPT !.fresh = FALSE] /\ configEvents' = configEvents + 1
        /\ UNCHANGED <<declaration, applied, lease, runtime, alive, plan, touched, edits>>
    BY <1>9 DEF Config!Expire
  <2>2. declared' \in SourceRows /\ declared'.exists = declared.exists
        /\ declared'.enabled = declared.enabled
        /\ declared'.version = declared.version /\ declared'.ignore = declared.ignore
        /\ declared'.receipt = declared.receipt /\ declared'.fresh = FALSE
           /\ declared.receipt.at \in Nat
    BY <1>0, <2>1 DEF SourceRows
  <2>3. Reviewed'
    BY <1>0, <2>1, <2>2 DEF Reviewed
  <2> QED
    BY <1>0, <1>6, <2>1, <2>2, <2>3 DEF FreshRows, Config!SourceSnapshot
<1>10. CASE Config!StartRuntime \/ Config!StopRuntime
  <2>1. runtime' \in RuntimeRows /\ runtime'.exists = runtime.exists
        /\ runtime'.policy = runtime.policy
        /\ runtime'.batch = runtime.batch /\ runtime'.routes = runtime.routes
        /\ (runtime'.status = "running" => runtime.routes # {})
    BY <1>0, <1>10 DEF Config!StartRuntime, Config!StopRuntime, RuntimeRows
  <2>2. UNCHANGED <<declaration, applied, declared, lease, plan, touched, edits, configEvents>>
          /\ alive' \in BOOLEAN
    BY <1>0, <1>10 DEF Config!StartRuntime, Config!StopRuntime, ConfigTypes
  <2>3. runtime.routes = {} => runtime'.status = "stopped"
    BY <2>1 DEF RuntimeRows
  <2>4. runtime.exists
    BY <1>0, <1>10 DEF Config!StartRuntime, Config!StopRuntime, FreshRows, Config!NoRuntime
  <2> QED
    BY <1>0, <1>a, <2>1, <2>2, <2>3, <2>4
       DEF ConfigInv, ConfigTypes, FreshRows, Declared, Deferred, Settled, Config!Drift,
         Config!Manages,
       Reviewed, Config!RuntimeSnapshot
<1>11. CASE Config!SyncScope
  <2>1. runtime' = [runtime EXCEPT !.routes = Config!Admitted(declared)] /\ alive
        /\ ("late" \notin ConfigFaults => runtime.status = "running")
        /\ UNCHANGED <<declaration, applied, declared, lease, alive, plan, touched, edits,
           configEvents>>
    BY <1>11 DEF Config!SyncScope
  <2>2. runtime' \in RuntimeRows /\ runtime'.exists = runtime.exists
        /\ runtime'.policy = runtime.policy
        /\ runtime'.batch = runtime.batch /\ runtime'.routes = Config!Admitted(declared)
           /\ runtime'.status = runtime.status
    BY <1>0, <2>1, AdmittedFresh DEF RuntimeRows
  <2>3. runtime.exists
    BY <1>0, <2>1 DEF FreshRows, Config!NoRuntime
  <2>4. Settled'
    <3> SUFFICES ASSUME Config!Latest.declaration.app = "on", touched = {}, "late" \notin ConfigFaults
                 PROVE  runtime.policy = Config!Latest.declaration.policy
                        /\ Config!Admitted(declared) \cap Config!Latest.declaration.ignore = {}
      BY <1>a, <2>1, <2>2 DEF Settled
    <3>1. Config!Latest.declaration.source = "on"
      BY <1>0, LatestTyped DEF Config!Declarations
    <3>2. "source" \in Config!Latest.manages
            /\ Config!Latest.sourceAs.ignore = Config!Latest.declaration.ignore
      BY <1>0, <3>1 DEF Declared
    <3>3. Config!Latest.sourceAs = Config!SourceSnapshot(declared)
      BY <1>0, <3>2 DEF Config!Drift, Config!Manages
    <3>4. declared.ignore = Config!Latest.declaration.ignore
      BY <3>2, <3>3 DEF Config!SourceSnapshot
    <3> QED
      BY <1>0, <2>1, <3>4, AdmittedFresh DEF Settled
  <2>5. Deferred'
    BY <1>0, <1>a, <2>1 DEF Deferred
  <2> QED
    BY <1>0, <1>a, <2>1, <2>2, <2>3, <2>4, <2>5
       DEF ConfigInv, ConfigTypes, FreshRows, Declared, Config!Drift, Config!Manages, Reviewed,
       Config!RuntimeSnapshot
<1>12. ASSUME NEW p \in Policies, Config!ConfigureRuntime(p) PROVE ConfigInv' /\ applied' = applied
  <2>1. runtime' = [runtime EXCEPT !.policy = p] /\ touched' = touched \cup {"runtime"}
        /\ runtime.exists
        /\ configEvents' = configEvents + 1
           /\ UNCHANGED <<declaration, applied, declared, lease, alive, plan, edits>>
    BY <1>12 DEF Config!ConfigureRuntime
  <2>2. runtime' \in RuntimeRows /\ runtime'.exists = runtime.exists
        /\ runtime'.routes = runtime.routes /\ runtime'.status = runtime.status
    BY <1>0, <2>1 DEF RuntimeRows
  <2>3. FreshRows' /\ Reviewed'
    BY <1>0, <2>1, <2>2 DEF FreshRows, Reviewed, SourceRows
  <2>4. Declared' /\ Deferred' /\ Settled'
    BY <1>0, <1>a, <2>1, <2>2 DEF Declared, Deferred, Settled
  <2>5. Config!Drift' \subseteq Config!Drift \cup {"runtime"}
    BY <1>a, <2>1 DEF Config!Drift, Config!Manages
  <2>6. ConfigTypes'
    BY <1>0, <2>1, <2>2 DEF ConfigTypes
  <2> QED
    BY <1>0, <2>1, <2>3, <2>4, <2>5, <2>6 DEF ConfigInv
<1>13. ASSUME NEW I \in SUBSET Groups, Config!ConfigureDataSource(I)
       PROVE ConfigInv' /\ applied' = applied
  <2>1. declared' = [declared EXCEPT !.exists = TRUE, !.enabled = TRUE, !.ignore = I,
                                     !.version = declared.version + 1, !.fresh = FALSE]
        /\ touched' = touched \cup {"source"}
        /\ configEvents' = configEvents + 1
           /\ UNCHANGED <<declaration, applied, lease, runtime, alive, plan, edits>>
    BY <1>13 DEF Config!ConfigureDataSource
  <2>2. declared' \in SourceRows /\ declared'.fresh = FALSE /\ declared'.receipt = declared.receipt
        /\ declared.receipt.at \in Nat /\ declared'.status = declared.status
        /\ declared'.exists = TRUE /\ declared'.enabled = TRUE
    <3>1. declared.version + 1 \in Nat
      BY <1>0 DEF SourceRows
    <3> QED
      BY <1>0, <2>1, <3>1 DEF SourceRows
  <2>3. FreshRows' /\ Reviewed'
    BY <1>0, <2>1, <2>2 DEF FreshRows, Reviewed
  <2>4. Declared' /\ Deferred' /\ Settled'
    BY <1>0, <1>a, <2>1, <2>2 DEF Declared, Deferred, Settled
  <2>5. Config!Drift' \subseteq Config!Drift \cup {"source"}
    BY <1>a, <2>1 DEF Config!Drift, Config!Manages
  <2>6. ConfigTypes'
    BY <1>0, <2>1, <2>2 DEF ConfigTypes
  <2> QED
    BY <1>0, <2>1, <2>3, <2>4, <2>5, <2>6 DEF ConfigInv
<1> QED
  BY <1>1, <1>3, <1>4, <1>5, <1>7, <1>8, <1>9, <1>10, <1>11, <1>12, <1>13 DEF Config!Next

----------------------------------------------------------------------------
(* The database file.                                                      *)
Sound(data) == data \in Database!Databases /\ data.results \subseteq data.writes

\* What a process does; a copy and what is staged from it are whole databases.
Doing(p) ==
  \/ process[p] = Database!Closed
  \/ process[p].step \in {"outdated", "archive", "migrate"}
  \/ process[p].step = "open" /\ process[p].file = generation
  \/ process[p].step = "restore" /\ process[p].key \in RestoreKeys
     /\ Sound(process[p].copy) /\ process[p].copy.schema = Database!Knows(p)
  \/ process[p].step = "swap" /\ process[p].key \in RestoreKeys
     /\ Sound(process[p].staged) /\ process[p].staged.schema = Database!Knows(p)

StoreTypes ==
  /\ Sound(db) /\ \A copy \in backups : Sound(copy)
  /\ generation \in Nat /\ databaseFailures \in 0..MaxDatabaseFailures
  /\ process = [p \in Database!Processes |-> process[p]] /\ \A p \in Database!Processes : Doing(p)
  /\ answered \subseteq WriteKeys /\ upgraded \subseteq WriteKeys /\ replaced \subseteq RestoreKeys

\* Maintenance is alone, and the file it works on is of the schema it expects.
MaintenanceAlone == \A p \in Database!Processes :
  /\ Database!Exclusive(p) => Database!MayMaintain(p)
  /\ process[p].step \in {"archive", "migrate"} => db.schema = 1 /\ Database!Knows(p) = 2
  /\ process[p].step \in {"restore", "swap"} => db.schema = Database!Knows(p)

Archived(keys) == \E copy \in backups : copy.schema = 1 /\ keys \subseteq copy.writes

Kept ==
  /\ answered \subseteq db.writes
  /\ db.schema = 2 => Archived(upgraded)
  /\ \A p \in Database!Processes : process[p].step = "migrate" => Archived(answered)

StoreInv == StoreTypes /\ MaintenanceAlone /\ Kept

LEMMA StoreStart == Database!Init => StoreInv
<1> SUFFICES ASSUME Database!Init PROVE StoreInv
  OBVIOUS
<1>1. \A removed \in SUBSET RemovedSources : Sound([Database!Empty EXCEPT !.tombstones = removed])
        /\ [Database!Empty EXCEPT !.tombstones = removed].schema = 1
  BY DEF Sound, Database!Databases, Database!Empty
<1>2. Sound([Database!Empty EXCEPT !.schema = 2])
  BY DEF Sound, Database!Databases, Database!Empty
<1>3. Sound(db) /\ db.schema = 1 /\ (\A copy \in backups : Sound(copy))
  BY <1>1, <1>2 DEF Database!Init
<1>4. process = [p \in Database!Processes |-> Database!Closed] /\ generation = 0
      /\ databaseFailures = 0 /\ answered = {}
      /\ upgraded = {} /\ replaced = {}
  BY DEF Database!Init
<1> QED
  BY <1>3, <1>4, ComponentsAssumption
     DEF StoreInv, StoreTypes, Doing, MaintenanceAlone, Kept, Database!Exclusive, Database!Closed,
     Database!StoreAssumption

\* A process that goes to a state without a lock disturbs nobody.
LEMMA Unlocks ==
  ASSUME StoreInv, NEW p \in Database!Processes, NEW state, Database!Becomes(p, state),
         state = Database!Closed \/ state.step = "outdated",
         db' = db, generation' = generation, backups' = backups, answered' \subseteq db.writes,
         answered' \subseteq WriteKeys, upgraded' = upgraded, replaced' = replaced,
         databaseFailures' \in 0..MaxDatabaseFailures,
         answered' = answered
  PROVE  StoreInv'
<1>1. process' = [process EXCEPT ![p] = state] /\ process'[p] = state
      /\ \A q \in Database!Processes : q # p => process'[q] = process[q]
  BY DEF Database!Becomes, StoreInv, StoreTypes
<1>2. process'[p].step \in {"closed", "outdated"}
  BY <1>1 DEF Database!Closed
<1>3. StoreTypes'
  BY <1>1 DEF StoreInv, StoreTypes, Doing, Sound, Database!Knows
<1>4. MaintenanceAlone'
  BY <1>1, <1>2
     DEF StoreInv, MaintenanceAlone, Database!Exclusive, Database!Shared, Database!MayMaintain,
         Database!Knows
<1>5. Kept'
  BY <1>1, <1>2 DEF StoreInv, Kept, Archived
<1> QED
  BY <1>3, <1>4, <1>5 DEF StoreInv

LEMMA StoreStep == StoreInv /\ [Database!Next]_(Database!vars) => StoreInv'
<1> SUFFICES ASSUME StoreInv, [Database!Next]_(Database!vars) PROVE StoreInv'
  OBVIOUS
<1>0. StoreTypes /\ MaintenanceAlone /\ Kept /\ MaxDatabaseFailures \in Nat
  BY ComponentsAssumption DEF StoreInv, Database!StoreAssumption
<1>a. ASSUME NEW p \in Database!Processes, NEW state, Database!Becomes(p, state)
      PROVE  /\ process' = [q \in Database!Processes |-> process'[q]] /\ process'[p] = state
             /\ \A q \in Database!Processes : q # p => process'[q] = process[q]
  BY <1>0, <1>a DEF Database!Becomes, StoreTypes
<1>1. ASSUME NEW p \in Database!Processes, Database!Open(p) PROVE StoreInv'
  <2>1. /\ Database!Becomes(p, [step |-> "open", file |-> generation]) /\ Database!MayShare
        /\ UNCHANGED <<db, generation, backups, answered, upgraded, replaced, databaseFailures>>
    BY <1>1 DEF Database!Open
  <2>2. StoreTypes'
    BY <1>0, <1>a, <2>1 DEF StoreTypes, Doing, Sound, Database!Knows
  <2>3. MaintenanceAlone' /\ Kept'
    BY <1>0, <1>a, <2>1
       DEF MaintenanceAlone, Kept, Archived, Database!MayShare, Database!MayMaintain,
           Database!Exclusive, Database!Shared, Database!Knows
  <2> QED
    BY <2>2, <2>3 DEF StoreInv
<1>2. ASSUME NEW p \in Database!Processes, Database!Close(p) \/ Database!Crash(p) PROVE StoreInv'
  <2>1. databaseFailures' \in 0..MaxDatabaseFailures
    BY <1>0, <1>2 DEF Database!Close, Database!Crash, StoreTypes
  <2> QED
    BY <1>0, <1>2, <2>1, Unlocks DEF Database!Close, Database!Crash, StoreTypes, Kept
<1>3. ASSUME NEW p \in Database!Processes, NEW key \in WriteKeys, Database!Mutate(p, key) PROVE StoreInv'
  <2>1. process[p].step = "open" /\ process[p].file = generation
    BY <1>0, <1>3 DEF Database!Mutate, StoreTypes, Doing, Database!Closed
  <2>2. /\ Sound(db') /\ db'.schema = db.schema /\ db.writes \subseteq db'.writes
           /\ key \in db'.writes
    <3>1. ASSUME NEW d, Sound(d)
          PROVE  /\ Sound([d EXCEPT !.writes = @ \cup {key}, !.results = @ \cup {key}])
                 /\ [d EXCEPT !.writes = @ \cup {key}, !.results = @ \cup {key}].schema = d.schema
                 /\ [d EXCEPT !.writes = @ \cup {key}, !.results = @
                    \cup {key}].writes = d.writes \cup {key}
      BY <3>1 DEF Sound, Database!Databases
    <3>2. Sound(db)
      BY <1>0 DEF StoreTypes
    <3>3. CASE key \in db.results
      BY <1>3, <3>2, <3>3 DEF Database!Mutate, Sound
    <3>4. CASE key \notin db.results
      <4>1. db' = [db EXCEPT !.writes = @ \cup {key}, !.results = @ \cup {key}]
        BY <1>3, <2>1, <3>4 DEF Database!Mutate, Database!Current
      <4> QED
        BY <3>1, <3>2, <4>1
    <3> QED
      BY <3>3, <3>4
  <2>3. UNCHANGED <<generation, backups, upgraded, replaced>>
        /\ answered' \in {answered, answered \cup {key}}
        /\ databaseFailures' \in 0..MaxDatabaseFailures
    BY <1>0, <1>3 DEF Database!Mutate, StoreTypes
  <2>4. process' = process \/ Database!Becomes(p, Database!Closed)
    BY <1>3 DEF Database!Mutate
  <2>5. \A q \in Database!Processes : process'[q] = process[q] \/ process'[q] = Database!Closed
    BY <1>a, <2>4
  <2>6. process' = [q \in Database!Processes |-> process'[q]]
    BY <1>0, <1>a, <2>4 DEF StoreTypes
  <2>7. StoreTypes'
    BY <1>0, <2>2, <2>3, <2>5, <2>6 DEF StoreTypes, Doing, Sound, Database!Knows
  <2>8. MaintenanceAlone'
    BY <1>0, <2>2, <2>5
       DEF MaintenanceAlone, Database!Exclusive, Database!Shared, Database!MayMaintain,
           Database!Knows, Database!Closed
  <2>9. \A q \in Database!Processes : process[q].step # "migrate"
    BY <1>0, <2>1 DEF MaintenanceAlone, Database!Exclusive, Database!Shared, Database!MayMaintain
  <2>10. Kept'
    BY <1>0, <2>2, <2>3, <2>5, <2>9 DEF Kept, Archived, Database!Closed
  <2> QED
    BY <2>7, <2>8, <2>10 DEF StoreInv
<1>4. ASSUME NEW p \in Database!Processes, Database!CreateBackup(p) PROVE StoreInv'
  <2>1. backups' = backups \cup {db}
        /\ UNCHANGED <<db, generation, process, answered, upgraded, replaced, databaseFailures>>
    BY <1>4 DEF Database!CreateBackup
  <2>2. StoreTypes' /\ MaintenanceAlone'
    BY <1>0, <2>1
       DEF StoreTypes, MaintenanceAlone, Doing, Sound, Database!Exclusive, Database!Shared,
           Database!MayMaintain
  <2>3. Kept'
    BY <1>0, <2>1 DEF Kept, Archived
  <2> QED
    BY <2>2, <2>3 DEF StoreInv
<1>5. ASSUME NEW p \in Database!Processes, Database!PrepareServiceDatabase(p) PROVE StoreInv'
  <2>1. [step |-> "outdated"].step = "outdated"
    OBVIOUS
  <2> QED
    BY <1>0, <1>5, <2>1, Unlocks DEF Database!PrepareServiceDatabase, StoreTypes, Kept
<1>6. ASSUME NEW p \in Database!Processes, Database!OpenMaintenance(p) PROVE StoreInv'
  <2>1. CASE db.schema < Database!Knows(p)
    <3>1. /\ Database!Becomes(p, [step |-> "archive"]) /\ Database!MayMaintain(p)
          /\ UNCHANGED <<db, generation, backups, answered, upgraded, replaced, databaseFailures>>
      BY <1>6, <2>1 DEF Database!OpenMaintenance
    <3>2. db.schema = 1 /\ Database!Knows(p) = 2
      BY <1>0, <2>1 DEF StoreTypes, Sound, Database!Databases, Database!Knows
    <3>3. StoreTypes'
      BY <1>0, <1>a, <3>1 DEF StoreTypes, Doing, Sound, Database!Knows
    <3>4. MaintenanceAlone' /\ Kept'
      BY <1>0, <1>a, <3>1, <3>2
         DEF MaintenanceAlone, Kept, Archived, Database!MayMaintain, Database!Exclusive,
         Database!Shared, Database!Knows
    <3> QED
      BY <3>3, <3>4 DEF StoreInv
  <2>2. CASE ~(db.schema < Database!Knows(p))
    BY <1>0, <1>6, <2>2, Unlocks DEF Database!OpenMaintenance, StoreTypes, Kept
  <2> QED
    BY <2>1, <2>2
<1>7. ASSUME NEW p \in Database!Processes, Database!ArchiveSchema(p) PROVE StoreInv'
  <2>1. /\ Database!Becomes(p, [step |-> "migrate"]) /\ process[p].step = "archive"
           /\ backups' = backups \cup {db}
        /\ UNCHANGED <<db, generation, answered, upgraded, replaced, databaseFailures>>
    BY <1>7 DEF Database!ArchiveSchema
  <2>2. StoreTypes'
    BY <1>0, <1>a, <2>1 DEF StoreTypes, Doing, Sound, Database!Knows
  <2>3. MaintenanceAlone'
    BY <1>0, <1>a, <2>1
       DEF MaintenanceAlone, Database!MayMaintain, Database!Exclusive, Database!Shared,
           Database!Knows
  <2>4. db.schema = 1
    BY <1>0, <2>1 DEF MaintenanceAlone
  <2>5. Kept'
    BY <1>0, <1>a, <2>1, <2>4 DEF Kept, Archived
  <2> QED
    BY <2>2, <2>3, <2>5 DEF StoreInv
<1>8. ASSUME NEW p \in Database!Processes, Database!UpgradeSchema(p) PROVE StoreInv'
  <2>1. /\ Database!Becomes(p, Database!Closed) /\ process[p].step = "migrate"
           /\ upgraded' = answered
        /\ db' = [db EXCEPT !.schema = Database!Knows(p)]
        /\ UNCHANGED <<generation, backups, answered, replaced, databaseFailures>>
    BY <1>8 DEF Database!UpgradeSchema
  <2>2. Database!Knows(p) = 2 /\ \A q \in Database!Processes \ {p} : ~Database!Exclusive(q)
          /\ ~Database!Shared(q)
    BY <1>0, <2>1 DEF MaintenanceAlone, Database!MayMaintain, Database!Exclusive
  <2>3. Sound(db') /\ db'.schema = 2 /\ db'.writes = db.writes
    BY <1>0, <2>1, <2>2 DEF StoreTypes, Sound, Database!Databases
  <2>4. StoreTypes'
    BY <1>0, <1>a, <2>1, <2>3 DEF StoreTypes, Doing, Sound, Database!Knows
  <2>5. MaintenanceAlone'
    BY <1>0, <1>a, <2>1, <2>2
       DEF MaintenanceAlone, Database!MayMaintain, Database!Exclusive, Database!Shared,
           Database!Knows, Database!Closed
  <2>6. Kept'
    BY <1>0, <1>a, <2>1, <2>2, <2>3 DEF Kept, Archived, Database!Closed, Database!Exclusive
  <2> QED
    BY <2>4, <2>5, <2>6 DEF StoreInv
<1>9. ASSUME NEW p \in Database!Processes, NEW copy \in backups, NEW key \in RestoreKeys,
             Database!RestoreBackup(p, copy, key)
      PROVE  StoreInv'
  <2>1. CASE key \in db.restores
    BY <1>0, <1>9, <2>1, Unlocks DEF Database!RestoreBackup, StoreTypes, Kept
  <2>2. CASE key \notin db.restores
    <3>1. /\ Database!Becomes(p, [step |-> "restore", copy |-> copy, key |-> key])
             /\ Database!MayMaintain(p)
          /\ copy.schema = Database!Knows(p) /\ db.schema = Database!Knows(p)
          /\ UNCHANGED <<db, generation, backups, answered, upgraded, replaced, databaseFailures>>
      BY <1>9, <2>2 DEF Database!RestoreBackup
    <3>2. Sound(copy)
      BY <1>0 DEF StoreTypes
    <3>3. StoreTypes'
      BY <1>0, <1>a, <3>1, <3>2 DEF StoreTypes, Doing, Sound, Database!Knows
    <3>4. MaintenanceAlone' /\ Kept'
      BY <1>0, <1>a, <3>1
         DEF MaintenanceAlone, Kept, Archived, Database!MayMaintain, Database!Exclusive,
             Database!Shared, Database!Knows
    <3> QED
      BY <3>3, <3>4 DEF StoreInv
  <2> QED
    BY <2>1, <2>2
<1>10. ASSUME NEW p \in Database!Processes, Database!StageRestore(p) PROVE StoreInv'
  <2>1. process[p].step = "restore" /\ Sound(process[p].copy)
        /\ process[p].copy.schema = Database!Knows(p)
        /\ process[p].key \in RestoreKeys
    BY <1>0, <1>10 DEF Database!StageRestore, StoreTypes, Doing, Database!Closed
  <2>2. PICK staged : staged = [process[p].copy EXCEPT
           !.results = {}, !.restores = {process[p].key},
             !.tombstones = Database!EnforceTombstones(process[p].copy)]
    OBVIOUS
  <2>3. Sound(staged) /\ staged.schema = Database!Knows(p)
    <3>1. ASSUME NEW d, Sound(d), NEW k \in RestoreKeys, NEW t \in SUBSET RemovedSources
          PROVE  /\ Sound([d EXCEPT !.results = {}, !.restores = {k}, !.tombstones = t])
                 /\ [d EXCEPT !.results = {}, !.restores = {k}, !.tombstones = t].schema = d.schema
      BY <3>1 DEF Sound, Database!Databases
    <3>2. Database!EnforceTombstones(process[p].copy) \in SUBSET RemovedSources
      BY <1>0, <2>1 DEF Database!EnforceTombstones, StoreTypes, Sound, Database!Databases
    <3> QED
      BY <2>1, <2>2, <3>1, <3>2
  <2>4. /\ Database!Becomes(p, [step |-> "swap", staged |-> staged, key |-> process[p].key])
        /\ UNCHANGED <<db, generation, backups, answered, upgraded, replaced, databaseFailures>>
    BY <1>10, <2>2 DEF Database!StageRestore
  <2>5. StoreTypes'
    BY <1>0, <1>a, <2>1, <2>3, <2>4 DEF StoreTypes, Doing, Sound, Database!Knows
  <2>6. MaintenanceAlone' /\ Kept'
    BY <1>0, <1>a, <2>1, <2>4
       DEF MaintenanceAlone, Kept, Archived, Database!MayMaintain, Database!Exclusive,
           Database!Shared, Database!Knows
  <2> QED
    BY <2>5, <2>6 DEF StoreInv
<1>11. ASSUME NEW p \in Database!Processes, Database!SwapDatabase(p) PROVE StoreInv'
  <2>1. process[p].step = "swap" /\ Sound(process[p].staged)
        /\ process[p].staged.schema = Database!Knows(p)
        /\ process[p].key \in RestoreKeys
    BY <1>0, <1>11 DEF Database!SwapDatabase, StoreTypes, Doing, Database!Closed
  <2>2. /\ Database!Becomes(p, Database!Closed) /\ db' = process[p].staged
           /\ generation' = generation + 1
        /\ answered' = answered \cap process[p].staged.writes
           /\ replaced' = replaced \cup {process[p].key}
        /\ UNCHANGED <<backups, upgraded, databaseFailures>>
    BY <1>11 DEF Database!SwapDatabase
  <2>3. db.schema = Database!Knows(p)
          /\ \A q \in Database!Processes \ {p} : ~Database!Exclusive(q) /\ ~Database!Shared(q)
    BY <1>0, <2>1 DEF MaintenanceAlone, Database!MayMaintain, Database!Exclusive
  <2>4. StoreTypes'
    BY <1>0, <1>a, <2>1, <2>2, <2>3 DEF StoreTypes, Doing, Sound, Database!Knows, Database!Shared
  <2>5. MaintenanceAlone' /\ Kept'
    BY <1>0, <1>a, <2>1, <2>2, <2>3
       DEF MaintenanceAlone, Kept, Archived, Database!MayMaintain, Database!Exclusive,
           Database!Shared, Database!Closed
  <2> QED
    BY <2>4, <2>5 DEF StoreInv
<1>12. CASE UNCHANGED Database!vars
  BY <1>0, <1>12
     DEF Database!vars, StoreInv, StoreTypes, Doing, Sound, MaintenanceAlone, Kept, Archived,
         Database!MayMaintain,
     Database!Exclusive, Database!Shared
<1> QED
  BY <1>1, <1>2, <1>3, <1>4, <1>5, <1>6, <1>7, <1>8, <1>9, <1>10, <1>11, <1>12 DEF Database!Next

----------------------------------------------------------------------------
(* Retention of raw text.                                                  *)
\* A message that is shown has its text; a copy of a message that lost its text
\* is in no task made from it.
RetentionInv ==
  /\ Texts!TypeOK
  /\ \A m \in Messages : availability[m] = "available" => m \in raw
  /\ \A t \in Tasks : \A m \in links[t] \ raw : \A p \in Texts!Places : m \notin stored[t][p]

\* A cleanup leaves nothing of what it expires.
Expires ==
  \A m \in Messages :
    availability[m] = "available" /\ availability'[m] = "expired" =>
      m \notin raw' /\ \A t \in Tasks : \A p \in Texts!Places : m \notin stored'[t][p]

LEMMA RetentionStart == Texts!Init => RetentionInv
BY DEF Texts!Init, RetentionInv, Texts!TypeOK, Texts!Places

LEMMA RetentionStep == RetentionInv /\ [Texts!Next]_(Texts!vars)
  => RetentionInv' /\ (Expires \/ UNCHANGED Texts!vars)
<1> SUFFICES ASSUME RetentionInv,
                    [Texts!Next]_(Texts!vars) PROVE RetentionInv' /\ (Expires \/ UNCHANGED Texts!vars)
  OBVIOUS
<1>1. ASSUME NEW m \in Messages,
             Texts!Intake(m) \/ Texts!EditArrives(m) \/ Texts!Recall(m) \/ Texts!Age(m)
      PROVE  RetentionInv' /\ Expires
  BY <1>1
     DEF Texts!Intake, Texts!EditArrives, Texts!Recall, Texts!Age, RetentionInv, Texts!TypeOK,
         Expires
<1>2. ASSUME NEW t \in Tasks, NEW read \in SUBSET Texts!Usable, NEW cited \in SUBSET read,
             Texts!StartTask(t, cited, read)
      PROVE  RetentionInv' /\ Expires
  <2>1. read \subseteq Messages
    BY DEF Texts!Usable
  <2>2. \A p \in Texts!Places : stored[t][p] = {}
    BY <1>2 DEF Texts!StartTask
  <2> QED
    BY <1>2, <2>1, <2>2 DEF Texts!StartTask, RetentionInv, Texts!TypeOK, Expires
<1>3. ASSUME NEW t \in Tasks, Texts!FinishTask(t) PROVE RetentionInv' /\ Expires
  <2>1. stored' = [stored EXCEPT ![t] = [p \in Texts!Places |-> IF p = "cached"
          THEN stored[t][p] ELSE context[t]]]
        /\ links[t] \subseteq raw
    BY <1>3 DEF Texts!FinishTask, Texts!Usable, RetentionInv
  <2>2. [p \in Texts!Places |-> IF p = "cached" THEN stored[t][p]
          ELSE context[t]] \in [Texts!Places -> SUBSET Messages]
    BY DEF RetentionInv, Texts!TypeOK
  <2>3. stored' \in [Tasks -> [Texts!Places -> SUBSET Messages]]
    BY <2>1, <2>2 DEF RetentionInv, Texts!TypeOK
  <2>4. \A u \in Tasks : u # t => stored'[u] = stored[u]
    BY <2>1 DEF RetentionInv, Texts!TypeOK
  <2> QED
    BY <1>3, <2>1, <2>3, <2>4 DEF Texts!FinishTask, RetentionInv, Texts!TypeOK, Expires
<1>4. ASSUME NEW t \in Tasks, Texts!FailTask(t) PROVE RetentionInv' /\ Expires
  BY <1>4 DEF Texts!FailTask, RetentionInv, Texts!TypeOK, Expires
<1>5. ASSUME NEW t \in Tasks, Texts!AnswerCommand(t) PROVE RetentionInv' /\ Expires
  <2>1. stored' = [stored EXCEPT ![t] = [stored[t] EXCEPT !["cached"] = Texts!ShownTask(t)]]
    BY <1>5 DEF Texts!AnswerCommand
  <2>2. Texts!ShownTask(t) \subseteq stored[t]["result"] \cup stored[t]["summary"]
    BY DEF Texts!ShownTask
  <2>3. [stored[t] EXCEPT !["cached"] = Texts!ShownTask(t)] \in [Texts!Places -> SUBSET Messages]
    BY <2>2 DEF RetentionInv, Texts!TypeOK, Texts!Places
  <2>4. \A p \in Texts!Places : stored'[t][p] \subseteq stored[t][p] \cup stored[t]["result"]
          \cup stored[t]["summary"]
    BY <2>1, <2>2 DEF RetentionInv, Texts!TypeOK, Texts!Places
  <2>5. stored' \in [Tasks -> [Texts!Places -> SUBSET Messages]]
        /\ \A u \in Tasks : u # t => stored'[u] = stored[u]
    BY <2>1, <2>3 DEF RetentionInv, Texts!TypeOK
  <2>6. {"result", "summary"} \subseteq Texts!Places
    BY DEF Texts!Places
  <2> QED
    BY <1>5, <2>4, <2>5, <2>6 DEF Texts!AnswerCommand, RetentionInv, Texts!TypeOK, Expires
<1>6. ASSUME NEW taken \in SUBSET Texts!Eligible, Texts!ApplyDataSourceRetention(taken)
      PROVE RetentionInv' /\ Expires
  <2>1. taken \subseteq Messages
    BY DEF Texts!Eligible, RetentionInv, Texts!TypeOK
  <2>2. \A t \in Tasks : \A p \in Texts!Places :
          stored'[t][p] \subseteq stored[t][p] \ taken
    BY <1>6 DEF Texts!ApplyDataSourceRetention, Texts!Redacted
  <2>3. stored' \in [Tasks -> [Texts!Places -> SUBSET Messages]]
    <3>1. \A t \in Tasks : \A p \in Texts!Places : stored[t][p] \subseteq Messages
      BY DEF RetentionInv, Texts!TypeOK
    <3> QED
      BY <1>6, <3>1 DEF Texts!ApplyDataSourceRetention, Texts!Redacted
  <2> QED
    BY <1>6, <2>1, <2>2, <2>3
       DEF Texts!ApplyDataSourceRetention, RetentionInv, Texts!TypeOK, Expires
<1>7. CASE UNCHANGED Texts!vars
  BY <1>7 DEF Texts!vars, RetentionInv, Texts!TypeOK
<1> QED
  BY <1>1, <1>2, <1>3, <1>4, <1>5, <1>6, <1>7 DEF Texts!Next

LEMMA NothingShown ==
  RetentionInv => \A t \in Tasks : \A m \in links[t] : Texts!Withheld(m)
    => m \notin Texts!ShownTask(t) \cup Texts!ShownCached(t)
<1> SUFFICES ASSUME RetentionInv, NEW t \in Tasks, NEW m \in links[t], Texts!Withheld(m)
             PROVE  m \notin Texts!ShownTask(t) \cup Texts!ShownCached(t)
  OBVIOUS
<1>1. m \in raw \/ (m \notin stored[t]["summary"] /\ m \notin stored[t]["cached"])
  BY DEF RetentionInv, Texts!Places
<1>2. m \in {n \in links[t] : Texts!Withheld(n)}
  OBVIOUS
<1> QED
  BY <1>1, <1>2 DEF Texts!ShownTask, Texts!ShownCached

----------------------------------------------------------------------------
(* Theorems.                                                               *)

\* A step of the whole is a step of each component, or leaves it alone.
LEMMA ComponentSteps ==
  [MCNext]_all => /\ [Delivery!Next]_(Delivery!vars) /\ [Imported!Next]_(Imported!vars)
                  /\ [Scope!Next]_(Scope!vars) /\ [Config!Next]_(Config!vars)
                  /\ [Database!Next]_(Database!vars) /\ [Texts!Next]_(Texts!vars)
                  /\ [Next]_vars
<1> SUFFICES ASSUME [MCNext]_all
             PROVE  /\ [Delivery!Next]_(Delivery!vars) /\ [Imported!Next]_(Imported!vars)
                    /\ [Scope!Next]_(Scope!vars) /\ [Config!Next]_(Config!vars)
                    /\ [Database!Next]_(Database!vars) /\ [Texts!Next]_(Texts!vars)
                    /\ [Next]_vars
  OBVIOUS
<1>1. Delivery!Next \/ UNCHANGED deliveryVars
  BY DEF MCNext, all
<1>2. Imported!Next \/ UNCHANGED importVars
  BY DEF MCNext, all
<1>3. Scope!Next \/ UNCHANGED scopeVars
  BY DEF MCNext, all
<1>4. Config!Next \/ UNCHANGED configVars
  BY DEF MCNext, all
<1>5. Database!Next \/ UNCHANGED databaseVars
  BY DEF MCNext, all
<1>6. Texts!Next \/ UNCHANGED textVars
  BY DEF MCNext, all
<1>7. Next \/ UNCHANGED workspaceVars
  BY DEF MCNext, all
<1> QED
  BY <1>1, <1>2, <1>3, <1>4, <1>5, <1>6, <1>7
     DEF deliveryVars, importVars, scopeVars, configVars, databaseVars, textVars, workspaceVars,
         vars, fileVars, storeVars,
         Delivery!vars, Delivery!rowVars, Delivery!world, Delivery!taskVars, Imported!vars,
         Imported!sourceVars, Imported!coverageVars, Imported!importVars, Scope!vars, Config!vars,
         Database!vars, Texts!vars

\* The console never claims more or less of a delivery than happened, and a
\* content is sent once (runtime.go, BeginDelivery and FinishDelivery), for any
\* tasks, versions, queue and faults.
THEOREM RowsAreTruthful == MCSpec => []RowsTellTheTruth
<1>1. MCInit => DeliveryInv
  BY DeliveryStart DEF MCInit
<1>2. DeliveryInv /\ [MCNext]_all => DeliveryInv'
  BY ComponentSteps, DeliveryStep
<1>3. DeliveryInv => RowsTellTheTruth
  BY DEF DeliveryInv, Truth, RowsTellTheTruth, Delivery!RowsTellTheTruth
<1> QED
  BY <1>1, <1>2, <1>3, PTL DEF MCSpec

\* The outcome of a delivery is never rewritten: not by a late answer, the
\* recovery or a change of policy (runtime.go, FinishDelivery).
THEOREM OutcomesAreFinal == MCSpec => OutcomeIsFinal
<1>1. MCInit => DeliveryInv
  BY DeliveryStart DEF MCInit
<1>2. DeliveryInv /\ [MCNext]_all =>
      /\ DeliveryInv'
      /\ [\A k \in Delivery!Keys : row[k] \in Delivery!Final => row'[k] = row[k]]_row
  BY ComponentSteps, DeliveryStep
<1> QED
  BY <1>1, <1>2, PTL DEF MCSpec, OutcomeIsFinal, Delivery!OutcomeIsFinal

\* What a runtime may process was proved by the source's own receipt and is
\* neither ignored nor switched off (source_group_discovery.go,
\* ReadSourcePositiveProcessingRoutes), for any groups, lifetimes and refusals.
THEOREM ProcessingIsAlwaysProved == MCSpec => []ProcessingIsProved
<1>1. MCInit => ScopeInv
  BY ScopeStart DEF MCInit
<1>2. ScopeInv /\ [MCNext]_all => ScopeInv'
  BY ComponentSteps, ScopeStep
<1>3. ScopeInv => ProcessingIsProved
  BY ScopeProves DEF ProcessingIsProved
<1> QED
  BY <1>1, <1>2, <1>3, PTL DEF MCSpec

LEMMA ConfigAlways == MCSpec => []ConfigInv
<1>1. MCInit => ConfigInv
  BY ConfigStart DEF MCInit
<1>2. ConfigInv /\ [MCNext]_all => ConfigInv'
  BY ComponentSteps, ConfigStep
<1> QED
  BY <1>1, <1>2, PTL DEF MCSpec

\* An accepted apply commits the declaration that was planned and admits no
\* group the operator was not shown (dual_apply.go), whatever happens between.
THEOREM ReviewedIsApplied == MCSpec => AppliesWhatWasReviewed
<1>1. ConfigInv /\ [MCNext]_all =>
      [applied' # applied =>
        /\ Config!Latest'.declaration = plan.digest.declaration
        /\ runtime'.routes \subseteq plan.admitted \cup runtime.routes]_(Config!vars)
  BY ComponentSteps, ConfigStep
<1> QED
  BY <1>1, ConfigAlways, PTL DEF MCSpec, AppliesWhatWasReviewed, Config!AppliesWhatWasReviewed

\* What runs is what was applied and nothing but a change by hand is drift, as
\* long as a pass of the runtime that was stopped meanwhile does not write its
\* scope any more (service.go:519).
THEOREM AppliedIsRunning ==
  ASSUME "late" \notin ConfigFaults PROVE MCSpec => []RunsAsApplied
<1>1. ConfigInv => RunsAsApplied
  BY DEF ConfigInv, Settled, RunsAsApplied, Config!RunsAsApplied
<1> QED
  BY <1>1, ConfigAlways, PTL

\* Every write somebody was told of can be found in the file, or in the archived
\* copy of the schema before the upgrade (backup.go), through upgrades, restores
\* and crashes of any number of processes.
THEOREM AnsweredWritesAreKept == MCSpec => []AnsweredIsKept
<1>1. MCInit => StoreInv
  BY StoreStart DEF MCInit
<1>2. StoreInv /\ [MCNext]_all => StoreInv'
  BY ComponentSteps, StoreStep
<1>3. StoreInv => AnsweredIsKept
  <2> SUFFICES ASSUME StoreInv, NEW p \in NewBinaries, db.schema = Database!Knows(p)
               PROVE  db.schema = 2
    BY DEF StoreInv, Kept, Archived, AnsweredIsKept, Database!AnsweredIsKept
  <2> QED
    BY ComponentsAssumption DEF Database!Knows, Database!StoreAssumption
<1> QED
  BY <1>1, <1>2, <1>3, PTL DEF MCSpec

\* A cleanup leaves no copy of a text it expires, and no task shows it any more
\* (direct_retention.go:456), for any messages, tasks and size of a batch.
THEOREM ExpiredIsCleaned == MCSpec => CleanedEverywhere
<1>1. MCInit => RetentionInv
  BY RetentionStart DEF MCInit
<1>2. RetentionInv /\ [MCNext]_all => RetentionInv'
  BY ComponentSteps, RetentionStep
<1>3. RetentionInv /\ [MCNext]_all =>
      [\A m \in Messages :
          availability[m] = "available" /\ availability'[m] = "expired" =>
            m \notin raw'
              /\ \A t \in Tasks : \A p \in Texts!Places : m \notin stored'[t][p]]_(Texts!vars)
  BY ComponentSteps, RetentionStep DEF Expires
<1> QED
  BY <1>1, <1>2, <1>3, NothingShown, PTL DEF MCSpec, CleanedEverywhere, Texts!CleanedEverywhere

\* While a task is at its first version, whatever goroutine delivers and
\* whatever fails: no answer is under way once the mark that says the task is
\* completed was shown (service.go, deliverStage and executeClaimed).
THEOREM AnswersComeFirst == MCSpec => []AnswerBeforeMark
<1>1. MCInit => DeliveryInv /\ OrderInv
  BY DeliveryStart, OrderStart DEF MCInit
<1>2. DeliveryInv /\ OrderInv /\ [MCNext]_all => DeliveryInv' /\ OrderInv'
  BY ComponentSteps, DeliveryStep, OrderStep
<1>3. DeliveryInv /\ OrderInv => AnswerBeforeMark
  <2> SUFFICES ASSUME DeliveryInv, OrderInv, NEW k \in Delivery!Keys,
                      k[2] = 1, k[3] = "completion", sent[k] > 0,
                      NEW a \in Delivery!Actors, call[a] # Delivery!NoCall,
                      call[a].key = <<k[1], k[2], "result">>
               PROVE  FALSE
    BY DEF AnswerBeforeMark, Delivery!AnswerBeforeMark
  <2>1. PICK t \in Tasks : t = k[1] /\ k = First(t, "completion")
    BY DEF Delivery!Keys, First
  <2>2. call[a].step # "none"
    BY DEF DeliveryInv, ScriptTypes, Delivery!Calls
  <2>3. Calling(a, First(t, "result"))
    BY <2>1, <2>2 DEF Calling, First
  <2>4. sent[k] = 0
    BY <2>1, <2>3 DEF OrderInv, Announced
  <2> QED
    BY <2>4
<1> QED
  BY <1>1, <1>2, <1>3, PTL DEF MCSpec

----------------------------------------------------------------------------
(* History imports.                                                        *)

Reads == INSTANCE HistoryCoverageProofs WITH
  Retention <- RetentionTime, Workers <- Importers, MaxFailures <- MaxImportFailures,
  Environment <- ImportFaults, MaxTime <- MaxImportTime, MaxEvents <- MaxImportEvents,
  now <- clock, stored <- storedRange, events <- importEvents

LEMMA SameInit == Imported!Init => Reads!Init
BY DEF Imported!Idle, Reads!Idle, Imported!Init, Reads!Init, Imported!NoImport, Reads!NoImport,
       Imported!None, Reads!None, Imported!Nothing, Reads!Nothing, Imported!covered,
       Reads!covered, Imported!gaps, Reads!gaps

LEMMA SameAssumption == Reads!HistoryCoverageAssumption
BY ComponentsAssumption DEF Imported!HistoryCoverageAssumption, Reads!HistoryCoverageAssumption

LEMMA SameNext == [Imported!Next]_(Imported!vars) => [Reads!Next]_(Reads!vars)
<1>1. Imported!Tick => Reads!Tick
  BY DEF Imported!Tick, Reads!Tick, Imported!coverageVars, Reads!coverageVars,
         Imported!importVars, Reads!importVars
<1>2. Imported!reconcileRoute => Reads!reconcileRoute
  BY DEF Imported!Cardinality, Reads!Cardinality, Imported!Continuable, Reads!Continuable,
         Imported!Cursor, Reads!Cursor, Imported!First, Reads!First, Imported!Happens,
         Reads!Happens, Imported!Idle, Reads!Idle, Imported!Listed, Reads!Listed, Imported!Max,
         Reads!Max, Imported!Min, Reads!Min, Imported!Minimum, Reads!Minimum,
         Imported!NextWindow, Reads!NextWindow, Imported!NoCursor, Reads!NoCursor,
         Imported!None, Reads!None, Imported!Page, Reads!Page, Imported!ReadFails,
         Reads!ReadFails, Imported!ReadPartially, Reads!ReadPartially, Imported!ReadWindow,
         Reads!ReadWindow, Imported!Readable, Reads!Readable, Imported!ReconcileWindow,
         Reads!ReconcileWindow, Imported!Rest, Reads!Rest, Imported!Ticks, Reads!Ticks,
         Imported!TooOld, Reads!TooOld, Imported!coverageVars, Reads!coverageVars,
         Imported!covered, Reads!covered, Imported!gaps, Reads!gaps, Imported!importVars,
         Reads!importVars, Imported!reconcileRoute, Reads!reconcileRoute, Imported!sent,
         Reads!sent, Imported!sourceVars, Reads!sourceVars
<1>3. Imported!Intake => Reads!Intake
  BY DEF Imported!Happens, Reads!Happens, Imported!Intake, Reads!Intake, Imported!Min,
         Reads!Min, Imported!Minimum, Reads!Minimum, Imported!Ticks, Reads!Ticks,
         Imported!coverageVars, Reads!coverageVars, Imported!importVars, Reads!importVars,
         Imported!sourceVars, Reads!sourceVars
<1>4. Imported!recordCoverage => Reads!recordCoverage
  BY DEF Imported!Gap, Reads!Gap, Imported!Idle, Reads!Idle, Imported!NoCursor, Reads!NoCursor,
         Imported!None, Reads!None, Imported!RecordCoverage, Reads!RecordCoverage,
         Imported!RecordOnce, Reads!RecordOnce, Imported!Resolved, Reads!Resolved,
         Imported!Seconds, Reads!Seconds, Imported!Unresolved, Reads!Unresolved,
         Imported!coverageVars, Reads!coverageVars, Imported!covered, Reads!covered,
         Imported!gaps, Reads!gaps, Imported!importVars, Reads!importVars,
         Imported!recordCoverage, Reads!recordCoverage, Imported!sourceVars, Reads!sourceVars
<1>5. Imported!SetDataSourceStatus => Reads!SetDataSourceStatus
  BY DEF Imported!Happens, Reads!Happens, Imported!SetDataSourceStatus,
         Reads!SetDataSourceStatus, Imported!coverageVars, Reads!coverageVars,
         Imported!importVars, Reads!importVars
<1>6. Imported!Crash => Reads!Crash
  BY DEF Imported!Crash, Reads!Crash, Imported!Happens, Reads!Happens, Imported!Idle,
         Reads!Idle, Imported!coverageVars, Reads!coverageVars, Imported!sourceVars,
         Reads!sourceVars
<1>7. ASSUME NEW start, NEW end, Imported!PullByOperator(start, end)
      PROVE  Reads!PullByOperator(start, end)
  BY <1>7 DEF Imported!Cardinality, Reads!Cardinality, Imported!Cursor, Reads!Cursor,
         Imported!First, Reads!First, Imported!Happens, Reads!Happens, Imported!Idle,
         Reads!Idle, Imported!Listed, Reads!Listed, Imported!Min, Reads!Min, Imported!NoCursor,
         Reads!NoCursor, Imported!None, Reads!None, Imported!Page, Reads!Page,
         Imported!PullByOperator, Reads!PullByOperator, Imported!ReadWindow, Reads!ReadWindow,
         Imported!Rest, Reads!Rest, Imported!Seconds, Reads!Seconds, Imported!Ticks,
         Reads!Ticks, Imported!coverageVars, Reads!coverageVars, Imported!importVars,
         Reads!importVars, Imported!sent, Reads!sent, Imported!sourceVars, Reads!sourceVars
<1>8. ASSUME NEW i, Imported!CreateHistoryImport(i)
      PROVE  Reads!CreateHistoryImport(i)
  BY <1>8 DEF Imported!CreateHistoryImport, Reads!CreateHistoryImport, Imported!NoImport,
         Reads!NoImport, Imported!None, Reads!None, Imported!Seconds, Reads!Seconds,
         Imported!coverageVars, Reads!coverageVars, Imported!sourceVars, Reads!sourceVars
<1>9. ASSUME NEW i, Imported!CancelHistoryImport(i)
      PROVE  Reads!CancelHistoryImport(i)
  BY <1>9 DEF Imported!CancelHistoryImport, Reads!CancelHistoryImport, Imported!Happens,
         Reads!Happens, Imported!None, Reads!None, Imported!coverageVars, Reads!coverageVars,
         Imported!sourceVars, Reads!sourceVars
<1>10. ASSUME NEW i, Imported!RetryHistoryImport(i)
      PROVE  Reads!RetryHistoryImport(i)
  BY <1>10 DEF Imported!None, Reads!None, Imported!RetryHistoryImport, Reads!RetryHistoryImport,
         Imported!coverageVars, Reads!coverageVars, Imported!sourceVars, Reads!sourceVars
<1>11. ASSUME NEW w, NEW i, Imported!ClaimHistoryImport(w, i)
      PROVE  Reads!ClaimHistoryImport(w, i)
  BY <1>11 DEF Imported!Active, Reads!Active, Imported!Cardinality, Reads!Cardinality,
         Imported!ClaimHistoryImport, Reads!ClaimHistoryImport, Imported!Claimable,
         Reads!Claimable, Imported!Happens, Reads!Happens, Imported!Idle, Reads!Idle,
         Imported!Listed, Reads!Listed, Imported!Min, Reads!Min, Imported!None, Reads!None,
         Imported!Page, Reads!Page, Imported!Rest, Reads!Rest, Imported!Ticks, Reads!Ticks,
         Imported!coverageVars, Reads!coverageVars, Imported!sent, Reads!sent,
         Imported!sourceVars, Reads!sourceVars
<1>12. ASSUME NEW w, Imported!FinishHistoryImport(w)
      PROVE  Reads!FinishHistoryImport(w)
  BY <1>12 DEF Imported!Active, Reads!Active, Imported!Completed, Reads!Completed,
         Imported!Cursor, Reads!Cursor, Imported!FinishHistoryImport, Reads!FinishHistoryImport,
         Imported!Gap, Reads!Gap, Imported!Idle, Reads!Idle, Imported!ImportCovers,
         Reads!ImportCovers, Imported!ImportCursor, Reads!ImportCursor, Imported!NoCursor,
         Reads!NoCursor, Imported!None, Reads!None, Imported!RecordCoverage,
         Reads!RecordCoverage, Imported!Resolved, Reads!Resolved, Imported!Ticks, Reads!Ticks,
         Imported!Unresolved, Reads!Unresolved, Imported!checkHistoryClaim,
         Reads!checkHistoryClaim, Imported!coverageVars, Reads!coverageVars, Imported!covered,
         Reads!covered, Imported!gaps, Reads!gaps, Imported!sourceVars, Reads!sourceVars
<1>13. ASSUME NEW w, Imported!FailHistoryImport(w)
      PROVE  Reads!FailHistoryImport(w)
  BY <1>13 DEF Imported!Active, Reads!Active, Imported!FailHistoryImport,
         Reads!FailHistoryImport, Imported!Happens, Reads!Happens, Imported!Idle, Reads!Idle,
         Imported!None, Reads!None, Imported!checkHistoryClaim, Reads!checkHistoryClaim,
         Imported!coverageVars, Reads!coverageVars, Imported!sourceVars, Reads!sourceVars
<1>14. Imported!Seconds(clock) = Reads!Seconds(clock)
  BY DEF Imported!Seconds, Reads!Seconds
<1>15. UNCHANGED Imported!vars => UNCHANGED Reads!vars
  BY DEF Imported!coverageVars, Reads!coverageVars, Imported!importVars, Reads!importVars,
         Imported!sourceVars, Reads!sourceVars, Imported!vars, Reads!vars
<1>16. Imported!Next => Reads!Next
  BY <1>1, <1>2, <1>3, <1>4, <1>5, <1>6, <1>7, <1>8, <1>9, <1>10, <1>11, <1>12, <1>13, <1>14
     DEF Imported!Next, Reads!Next
<1> QED
  BY <1>15, <1>16

\* A completed import left out no message of its range, is final, and a cursor
\* never goes back (history_import.go:199), for any imports, workers and faults.
THEOREM ImportsAreComplete == MCSpec => ImportIsComplete
<1>1. MCInit => Reads!Init
  BY SameInit DEF MCInit
<1>2. [MCNext]_all => [Reads!Next]_(Reads!vars)
  BY ComponentSteps, SameNext
<1>3. Reads!Spec => Reads!ImportIsComplete
  BY SameAssumption, Reads!ImportsAreComplete
<1>4. (\A i \in Imports : import[i].status = "completed" =>
         \A t \in Reads!sent : Reads!Ticks(import[i].start) <= t
           /\ t < Reads!Ticks(import[i].end) =>
           t \in storedRange)
      => (\A i \in Imports : import[i].status = "completed" =>
            \A t \in Imported!sent :
              Imported!Ticks(import[i].start) <= t /\ t < Imported!Ticks(import[i].end) =>
                t \in storedRange)
  BY DEF Reads!sent, Imported!sent, Reads!Ticks, Imported!Ticks
<1>5. [\A i \in Imports :
          /\ import[i].status = "completed" => import'[i] = import[i]
          /\ import[i].status = "cancelled" => import'[i].status \in {"cancelled", "queued"}
          /\ import[i].status = "running" /\ import'[i].status = "queued"
             /\ import'[i].cursor # Reads!None
                => import'[i].cursor >= import[i].cursor]_(Reads!vars)
      => [\A i \in Imports :
            /\ import[i].status = "completed" => import'[i] = import[i]
            /\ import[i].status = "cancelled" => import'[i].status \in {"cancelled", "queued"}
            /\ import[i].status = "running" /\ import'[i].status = "queued"
               /\ import'[i].cursor # Imported!None
                 => import'[i].cursor >= import[i].cursor]_(Imported!vars)
  BY DEF Reads!None, Imported!None, Reads!vars, Imported!vars, Reads!sourceVars,
         Imported!sourceVars, Reads!coverageVars, Imported!coverageVars, Reads!importVars,
         Imported!importVars
<1> QED
  BY <1>1, <1>2, <1>3, <1>4, <1>5, PTL
     DEF MCSpec, Reads!Spec, ImportIsComplete, Imported!ImportIsComplete, Reads!ImportIsComplete

----------------------------------------------------------------------------
(* Direct sessions: the steps under either bound are steps under both.     *)
Talk == INSTANCE DirectSessionProofs WITH
  Environment <- Interferences, MaxMessages <- 3, MaxEvents <- 2

LEMMA TalkStarts == Session!Init => Talk!Init
BY DEF Session!Init, Talk!Init, Session!Idle, Talk!Idle

LEMMA SameRemove ==
  ASSUME NEW s, NEW e
  PROVE  Session!RemoveFirst(s, e) = Talk!RemoveFirst(s, e)
         /\ Retried!RemoveFirst(s, e) = Talk!RemoveFirst(s, e)
BY DEF Session!RemoveFirst, Talk!RemoveFirst, Session!RemoveAt, Talk!RemoveAt,
       Session!SelectInSeq, Talk!SelectInSeq, Session!Min, Talk!Min,
       Retried!RemoveFirst, Retried!RemoveAt, Retried!SelectInSeq, Retried!Min

LEMMA SameTurns ==
  ASSUME events \in Nat, [Session!Next]_(Session!vars)
  PROVE  [Talk!Next]_(Talk!vars)
<1>0. events \in Nat
  OBVIOUS
<1>1. ASSUME NEW body, Session!Receive(body) PROVE Talk!Receive(body)
  BY <1>1 DEF Session!Receive, Talk!Receive, Session!Unbound, Talk!Unbound
<1>2. ASSUME NEW i, Session!Edit(i) PROVE Talk!Edit(i)
  BY <1>2, <1>0 DEF Session!Edit, Talk!Edit, Session!Occurs, Talk!Occurs
<1>3. ASSUME NEW i, Session!Recall(i) PROVE Talk!Recall(i)
  BY <1>3, <1>0 DEF Session!Occurs, Talk!Occurs, Session!Recall, Talk!Recall
<1>4. ASSUME NEW i, Session!BindRuntimeDirectTurn(i) PROVE Talk!BindRuntimeDirectTurn(i)
  BY <1>4 DEF Session!BindRuntimeDirectTurn, Talk!BindRuntimeDirectTurn, Session!Joined,
       Talk!Joined, Session!NoProcess, Talk!NoProcess, Session!Unbound, Talk!Unbound
<1>5. ASSUME NEW i, Session!QueueRevision(i) PROVE Talk!QueueRevision(i)
  BY <1>5, SameRemove DEF Session!QueueRevision, Talk!QueueRevision
<1>6. ASSUME NEW i, Session!CancelRecalled(i) PROVE Talk!CancelRecalled(i)
  BY <1>6, SameRemove DEF Session!CancelRecalled, Talk!CancelRecalled
<1>7. ASSUME NEW i, Session!RetryTask(i) PROVE Talk!RetryTask(i)
  BY <1>7, <1>0 DEF Session!Occurs, Talk!Occurs, Session!RetryTask, Talk!RetryTask
<1>8. ASSUME NEW i, Session!ResumeRuntimeTask(i) PROVE Talk!ResumeRuntimeTask(i)
  BY <1>8, <1>0 DEF Session!Available, Talk!Available, Session!Current, Talk!Current,
       Session!Occurs, Talk!Occurs, Session!ResumeRuntimeTask, Talk!ResumeRuntimeTask,
       Session!RuntimeDirectTurnCurrent, Talk!RuntimeDirectTurnCurrent
<1>9. Session!StartTurn => Talk!StartTurn
  BY DEF Session!Available, Talk!Available, Session!Idle, Talk!Idle, Session!NoProcess,
       Talk!NoProcess, Session!RuntimeDirectHistory, Talk!RuntimeDirectHistory,
       Session!StartTurn, Talk!StartTurn
<1>10. Session!ExecuteDirectAgent => Talk!ExecuteDirectAgent
  BY DEF Session!ContinuationConflicts, Talk!ContinuationConflicts, Session!ExecuteDirectAgent,
       Talk!ExecuteDirectAgent, Session!Here, Talk!Here, Session!KeepsProcess,
       Talk!KeepsProcess, Session!MissingTranscript, Talk!MissingTranscript, Session!Own,
       Talk!Own, Session!Remembered, Talk!Remembered, Session!Resumed, Talk!Resumed,
       Session!RuntimeDirectTurnCurrent, Talk!RuntimeDirectTurnCurrent, Session!StartingContext,
       Talk!StartingContext, Session!Tell, Talk!Tell
<1>11. Session!ResumeUnavailable => Talk!ResumeUnavailable
  BY DEF Session!Here, Talk!Here, Session!KeepsProcess, Talk!KeepsProcess,
       Session!MissingTranscript, Talk!MissingTranscript, Session!Own, Talk!Own,
       Session!Remembered, Talk!Remembered, Session!ResumeUnavailable, Talk!ResumeUnavailable,
       Session!Resumed, Talk!Resumed, Session!RuntimeDirectTurnCurrent,
       Talk!RuntimeDirectTurnCurrent, Session!StartingContext, Talk!StartingContext,
       Session!Tell, Talk!Tell
<1>12. Session!RefuseTurn => Talk!RefuseTurn
  BY DEF Session!ContinuationConflicts, Talk!ContinuationConflicts, Session!FailTurn,
       Talk!FailTurn, Session!Here, Talk!Here, Session!Idle, Talk!Idle, Session!NoProcess,
       Talk!NoProcess, Session!RefuseTurn, Talk!RefuseTurn, Session!RuntimeDirectTurnCurrent,
       Talk!RuntimeDirectTurnCurrent
<1>13. Session!Reply => Talk!Reply
  BY DEF Session!Here, Talk!Here, Session!Own, Talk!Own, Session!Reply, Talk!Reply
<1>14. Session!ReplyFails => Talk!ReplyFails
  BY <1>0 DEF Session!FailTurn, Talk!FailTurn, Session!Here, Talk!Here, Session!Idle, Talk!Idle,
       Session!NoProcess, Talk!NoProcess, Session!Occurs, Talk!Occurs, Session!ReplyFails,
       Talk!ReplyFails
<1>15. Session!CompleteRuntimeTask => Talk!CompleteRuntimeTask
  BY DEF Session!Available, Talk!Available, Session!CompleteRuntimeTask,
       Talk!CompleteRuntimeTask, Session!Current, Talk!Current, Session!FailTurn, Talk!FailTurn,
       Session!Here, Talk!Here, Session!Idle, Talk!Idle, Session!NoProcess, Talk!NoProcess,
       Session!RuntimeDirectTurnCurrent, Talk!RuntimeDirectTurnCurrent
<1>16. Session!DeliverAnswer => Talk!DeliverAnswer
  BY DEF Session!Available, Talk!Available, Session!Current, Talk!Current,
       Session!DeliverAnswer, Talk!DeliverAnswer, Session!Idle, Talk!Idle,
       Session!RuntimeDirectTurnCurrent, Talk!RuntimeDirectTurnCurrent
<1>17. Session!AnswerNotDelivered => Talk!AnswerNotDelivered
  BY <1>0 DEF Session!AnswerNotDelivered, Talk!AnswerNotDelivered, Session!Available,
       Talk!Available, Session!Current, Talk!Current, Session!Here, Talk!Here, Session!Idle,
       Talk!Idle, Session!NoProcess, Talk!NoProcess, Session!Occurs, Talk!Occurs,
       Session!RuntimeDirectTurnCurrent, Talk!RuntimeDirectTurnCurrent
<1>18. Session!PersistRuntimeDirectNativeSession => Talk!PersistRuntimeDirectNativeSession
  BY DEF Session!Here, Talk!Here, Session!Idle, Talk!Idle, Session!Own, Talk!Own,
       Session!PersistRuntimeDirectNativeSession, Talk!PersistRuntimeDirectNativeSession
<1>19. Session!CrashAndRecover => Talk!CrashAndRecover
  <2>1. Session!Occurs("crash") => Talk!Occurs("crash")
    BY <1>0 DEF Session!Occurs, Talk!Occurs
  <2>2. Session!Idle = Talk!Idle /\ Session!NoProcess = Talk!NoProcess
    BY DEF Session!Idle, Talk!Idle, Session!NoProcess, Talk!NoProcess
  <2> QED
    BY <2>1, <2>2 DEF Session!CrashAndRecover, Talk!CrashAndRecover
<1>20. ASSUME NEW n, Session!LoseTranscript(n) PROVE Talk!LoseTranscript(n)
  BY <1>20, <1>0 DEF Session!LoseTranscript, Talk!LoseTranscript, Session!Occurs, Talk!Occurs
<1>21. UNCHANGED Session!vars => UNCHANGED Talk!vars
  BY DEF Session!vars, Talk!vars
<1> QED
  BY <1>1, <1>2, <1>3, <1>4, <1>5, <1>6, <1>7, <1>8, <1>9, <1>10, <1>11, <1>12, <1>13, <1>14,
       <1>15, <1>16, <1>17, <1>18, <1>19, <1>20, <1>21 DEF Session!Next, Talk!Next

LEMMA SameRetries ==
  ASSUME events \in Nat, [Retried!Next]_(Retried!vars)
  PROVE  [Talk!Next]_(Talk!vars)
<1>0. events \in Nat
  OBVIOUS
<1>1. ASSUME NEW body, Retried!Receive(body) PROVE Talk!Receive(body)
  BY <1>1 DEF Retried!Receive, Talk!Receive, Retried!Unbound, Talk!Unbound
<1>2. ASSUME NEW i, Retried!Edit(i) PROVE Talk!Edit(i)
  BY <1>2, <1>0 DEF Retried!Edit, Talk!Edit, Retried!Occurs, Talk!Occurs
<1>3. ASSUME NEW i, Retried!Recall(i) PROVE Talk!Recall(i)
  BY <1>3, <1>0 DEF Retried!Occurs, Talk!Occurs, Retried!Recall, Talk!Recall
<1>4. ASSUME NEW i, Retried!BindRuntimeDirectTurn(i) PROVE Talk!BindRuntimeDirectTurn(i)
  BY <1>4 DEF Retried!BindRuntimeDirectTurn, Talk!BindRuntimeDirectTurn, Retried!Joined,
       Talk!Joined, Retried!NoProcess, Talk!NoProcess, Retried!Unbound, Talk!Unbound
<1>5. ASSUME NEW i, Retried!QueueRevision(i) PROVE Talk!QueueRevision(i)
  BY <1>5, SameRemove DEF Retried!QueueRevision, Talk!QueueRevision
<1>6. ASSUME NEW i, Retried!CancelRecalled(i) PROVE Talk!CancelRecalled(i)
  BY <1>6, SameRemove DEF Retried!CancelRecalled, Talk!CancelRecalled
<1>7. ASSUME NEW i, Retried!RetryTask(i) PROVE Talk!RetryTask(i)
  BY <1>7, <1>0 DEF Retried!Occurs, Talk!Occurs, Retried!RetryTask, Talk!RetryTask
<1>8. ASSUME NEW i, Retried!ResumeRuntimeTask(i) PROVE Talk!ResumeRuntimeTask(i)
  BY <1>8, <1>0 DEF Retried!Available, Talk!Available, Retried!Current, Talk!Current,
       Retried!Occurs, Talk!Occurs, Retried!ResumeRuntimeTask, Talk!ResumeRuntimeTask,
       Retried!RuntimeDirectTurnCurrent, Talk!RuntimeDirectTurnCurrent
<1>9. Retried!StartTurn => Talk!StartTurn
  BY DEF Retried!Available, Talk!Available, Retried!Idle, Talk!Idle, Retried!NoProcess,
       Talk!NoProcess, Retried!RuntimeDirectHistory, Talk!RuntimeDirectHistory,
       Retried!StartTurn, Talk!StartTurn
<1>10. Retried!ExecuteDirectAgent => Talk!ExecuteDirectAgent
  BY DEF Retried!ContinuationConflicts, Talk!ContinuationConflicts, Retried!ExecuteDirectAgent,
       Talk!ExecuteDirectAgent, Retried!Here, Talk!Here, Retried!KeepsProcess,
       Talk!KeepsProcess, Retried!MissingTranscript, Talk!MissingTranscript, Retried!Own,
       Talk!Own, Retried!Remembered, Talk!Remembered, Retried!Resumed, Talk!Resumed,
       Retried!RuntimeDirectTurnCurrent, Talk!RuntimeDirectTurnCurrent, Retried!StartingContext,
       Talk!StartingContext, Retried!Tell, Talk!Tell
<1>11. Retried!ResumeUnavailable => Talk!ResumeUnavailable
  BY DEF Retried!Here, Talk!Here, Retried!KeepsProcess, Talk!KeepsProcess,
       Retried!MissingTranscript, Talk!MissingTranscript, Retried!Own, Talk!Own,
       Retried!Remembered, Talk!Remembered, Retried!ResumeUnavailable, Talk!ResumeUnavailable,
       Retried!Resumed, Talk!Resumed, Retried!RuntimeDirectTurnCurrent,
       Talk!RuntimeDirectTurnCurrent, Retried!StartingContext, Talk!StartingContext,
       Retried!Tell, Talk!Tell
<1>12. Retried!RefuseTurn => Talk!RefuseTurn
  BY DEF Retried!ContinuationConflicts, Talk!ContinuationConflicts, Retried!FailTurn,
       Talk!FailTurn, Retried!Here, Talk!Here, Retried!Idle, Talk!Idle, Retried!NoProcess,
       Talk!NoProcess, Retried!RefuseTurn, Talk!RefuseTurn, Retried!RuntimeDirectTurnCurrent,
       Talk!RuntimeDirectTurnCurrent
<1>13. Retried!Reply => Talk!Reply
  BY DEF Retried!Here, Talk!Here, Retried!Own, Talk!Own, Retried!Reply, Talk!Reply
<1>14. Retried!ReplyFails => Talk!ReplyFails
  BY <1>0 DEF Retried!FailTurn, Talk!FailTurn, Retried!Here, Talk!Here, Retried!Idle, Talk!Idle,
       Retried!NoProcess, Talk!NoProcess, Retried!Occurs, Talk!Occurs, Retried!ReplyFails,
       Talk!ReplyFails
<1>15. Retried!CompleteRuntimeTask => Talk!CompleteRuntimeTask
  BY DEF Retried!Available, Talk!Available, Retried!CompleteRuntimeTask,
       Talk!CompleteRuntimeTask, Retried!Current, Talk!Current, Retried!FailTurn, Talk!FailTurn,
       Retried!Here, Talk!Here, Retried!Idle, Talk!Idle, Retried!NoProcess, Talk!NoProcess,
       Retried!RuntimeDirectTurnCurrent, Talk!RuntimeDirectTurnCurrent
<1>16. Retried!DeliverAnswer => Talk!DeliverAnswer
  BY DEF Retried!Available, Talk!Available, Retried!Current, Talk!Current,
       Retried!DeliverAnswer, Talk!DeliverAnswer, Retried!Idle, Talk!Idle,
       Retried!RuntimeDirectTurnCurrent, Talk!RuntimeDirectTurnCurrent
<1>17. Retried!AnswerNotDelivered => Talk!AnswerNotDelivered
  BY <1>0 DEF Retried!AnswerNotDelivered, Talk!AnswerNotDelivered, Retried!Available,
       Talk!Available, Retried!Current, Talk!Current, Retried!Here, Talk!Here, Retried!Idle,
       Talk!Idle, Retried!NoProcess, Talk!NoProcess, Retried!Occurs, Talk!Occurs,
       Retried!RuntimeDirectTurnCurrent, Talk!RuntimeDirectTurnCurrent
<1>18. Retried!PersistRuntimeDirectNativeSession => Talk!PersistRuntimeDirectNativeSession
  BY DEF Retried!Here, Talk!Here, Retried!Idle, Talk!Idle, Retried!Own, Talk!Own,
       Retried!PersistRuntimeDirectNativeSession, Talk!PersistRuntimeDirectNativeSession
<1>19. Retried!CrashAndRecover => Talk!CrashAndRecover
  <2>1. Retried!Occurs("crash") => Talk!Occurs("crash")
    BY <1>0 DEF Retried!Occurs, Talk!Occurs
  <2>2. Retried!Idle = Talk!Idle /\ Retried!NoProcess = Talk!NoProcess
    BY DEF Retried!Idle, Talk!Idle, Retried!NoProcess, Talk!NoProcess
  <2> QED
    BY <2>1, <2>2 DEF Retried!CrashAndRecover, Talk!CrashAndRecover
<1>20. ASSUME NEW n, Retried!LoseTranscript(n) PROVE Talk!LoseTranscript(n)
  BY <1>20, <1>0 DEF Retried!LoseTranscript, Talk!LoseTranscript, Retried!Occurs, Talk!Occurs
<1>21. UNCHANGED Retried!vars => UNCHANGED Talk!vars
  BY DEF Retried!vars, Talk!vars
<1> QED
  BY <1>1, <1>2, <1>3, <1>4, <1>5, <1>6, <1>7, <1>8, <1>9, <1>10, <1>11, <1>12, <1>13, <1>14,
       <1>15, <1>16, <1>17, <1>18, <1>19, <1>20, <1>21 DEF Retried!Next, Talk!Next

\* The bounds of the two kinds of conversation.
Bounded == events \in Nat /\ (kind = "session" => events <= 1)
TalkInv == Talk!SessionInv /\ Talk!Counted /\ Bounded

LEMMA TalkStart == MCInit => TalkInv
<1> SUFFICES ASSUME MCInit PROVE TalkInv
  OBVIOUS
<1>1. Talk!Init
  BY TalkStarts DEF MCInit
<1>2. Talk!SessionInv
  BY <1>1, Talk!SessionStarts
<1>3. events = 0 /\ messages = << >>
  BY <1>1 DEF Talk!Init
<1> QED
  BY <1>2, <1>3 DEF TalkInv, Talk!Counted, Bounded

LEMMA TalkStep == TalkInv /\ [MCNext]_all => TalkInv'
<1> SUFFICES ASSUME TalkInv, [MCNext]_all PROVE TalkInv'
  OBVIOUS
<1>1. events \in Nat /\ (kind = "session" => events <= 1) /\ kind' = kind
  BY DEF TalkInv, Bounded, MCNext, all
<1>2. \/ kind = "session" /\ Session!Next
      \/ kind # "session" /\ Retried!Next
      \/ UNCHANGED sessionVars
  BY DEF MCNext, all
<1>3. UNCHANGED sessionVars => UNCHANGED Talk!vars /\ UNCHANGED Session!vars /\ events' = events
  BY DEF sessionVars, Talk!vars, Session!vars
<1>4. [Talk!Next]_(Talk!vars)
  BY <1>1, <1>2, <1>3, SameTurns, SameRetries
<1>5. Talk!SessionInv'
  BY <1>4, Talk!SessionKept DEF TalkInv
<1>6. Talk!Counted'
  BY <1>4, Talk!CountedKept DEF TalkInv
<1>7. kind = "session" => events' <= 1
  <2>1. CASE UNCHANGED sessionVars
    BY <1>1, <1>3, <2>1
  <2>2. ASSUME Session!Next PROVE events' <= 1 \/ events' = events
    <3>1. CASE UNCHANGED events
      BY <3>1
    <3>2. CASE events' = events + 1 /\ events < 1
      BY <1>1, <3>2
    <3>3. ASSUME NEW i,
                 \/ Session!Edit(i) \/ Session!Recall(i) \/ Session!RetryTask(i)
                 \/ Session!ResumeRuntimeTask(i) \/ Session!LoseTranscript(i)
          PROVE  events' = events + 1 /\ events < 1
      BY <3>3 DEF Session!Edit, Session!Recall, Session!RetryTask, Session!ResumeRuntimeTask,
        Session!LoseTranscript, Session!Occurs
    <3>4. ASSUME NEW i,
                 \/ Session!Receive(i) \/ Session!BindRuntimeDirectTurn(i)
                 \/ Session!QueueRevision(i) \/ Session!CancelRecalled(i)
          PROVE  UNCHANGED events
      BY <3>4 DEF Session!Receive, Session!BindRuntimeDirectTurn, Session!QueueRevision,
        Session!CancelRecalled
    <3>5. CASE \/ Session!StartTurn \/ Session!ExecuteDirectAgent \/ Session!ResumeUnavailable
               \/ Session!RefuseTurn \/ Session!Reply \/ Session!CompleteRuntimeTask
               \/ Session!DeliverAnswer \/ Session!PersistRuntimeDirectNativeSession
      BY <3>5 DEF Session!StartTurn, Session!ExecuteDirectAgent, Session!ResumeUnavailable,
        Session!RefuseTurn, Session!Reply, Session!CompleteRuntimeTask, Session!DeliverAnswer,
        Session!PersistRuntimeDirectNativeSession
    <3>6. CASE Session!ReplyFails \/ Session!AnswerNotDelivered
      BY <1>1, <3>6 DEF Session!ReplyFails, Session!AnswerNotDelivered, Session!Occurs
    <3>7. CASE Session!CrashAndRecover
      <4>1. Session!Occurs("crash")
        BY <3>7 DEF Session!CrashAndRecover
      <4> QED
        BY <1>1, <4>1 DEF Session!Occurs
    <3> QED
      BY <2>2, <3>1, <3>2, <3>3, <3>4, <3>5, <3>6, <3>7 DEF Session!Next
  <2> QED
    BY <1>1, <1>2, <2>1, <2>2
<1>8. events' \in Nat
  BY <1>6 DEF Talk!Counted
<1> QED
  BY <1>1, <1>5, <1>6, <1>7, <1>8 DEF TalkInv, Bounded

\* An Agent that is asked in a direct conversation knows every accepted turn of
\* it and none from before a `/clear` (direct_agent.go), for either bound.
THEOREM SessionsAreRemembered == MCSpec => []SessionIsRemembered
<1>1. TalkInv => SessionIsRemembered
  <2>1. Talk!SessionInv => Talk!SessionIsRemembered
    BY Talk!InvRemembers
  <2> QED
    BY <2>1 DEF TalkInv, SessionIsRemembered, Session!SessionIsRemembered,
      Talk!SessionIsRemembered, Session!NothingForgotten, Talk!NothingForgotten,
      Session!NothingAcrossClear, Talk!NothingAcrossClear, Session!Here, Talk!Here
<1> QED
  BY <1>1, TalkStart, TalkStep, PTL DEF MCSpec
----------------------------------------------------------------------------
(* The types of all components.                                            *)
LEMMA DeliveryTyped == DeliveryInv => Delivery!TypeOK
BY DEF DeliveryInv, ScriptTypes, TaskTypes, RowTypes, Scripts, Items, Delivery!TypeOK

LEMMA ImportTyped == Reads!TypeOK => Imported!TypeOK
BY DEF Reads!TypeOK, Imported!TypeOK, Reads!sent, Imported!sent, Reads!Ticks, Imported!Ticks,
       Reads!covered, Imported!covered, Reads!gaps, Imported!gaps, Reads!NoImport,
       Imported!NoImport, Reads!None, Imported!None

LEMMA ConfigTyped == ConfigInv => Config!TypeOK
<1> SUFFICES ASSUME ConfigInv PROVE Config!TypeOK
  OBVIOUS
<1>1. applied \in Seq(Manifests) /\ Len(applied) <= MaxVersions
  BY DEF ConfigInv, ConfigTypes
<1>2. DOMAIN applied = 1 .. Len(applied)
  BY <1>1
<1> QED
  BY <1>1, <1>2 DEF ConfigInv, ConfigTypes, SourceRows, RuntimeRows, Config!TypeOK

LEMMA StoreTyped == StoreInv => Database!TypeOK
<1> SUFFICES ASSUME StoreInv PROVE Database!TypeOK
  OBVIOUS
<1>1. \A p \in Database!Processes : process[p].step \in
        {"closed", "open", "outdated", "archive", "migrate", "restore", "swap"}
  BY DEF StoreInv, StoreTypes, Doing, Database!Closed
<1> QED
  BY <1>1 DEF StoreInv, StoreTypes, Sound, Database!TypeOK

LEMMA WorkspaceTyped == WorkspaceInv => TypeOK
BY DEF WorkspaceInv, WorkspaceTypes, RecordTypes, HistoryInv, Numbered, TypeOK

LEMMA TalkTyped ==
  TalkInv => (kind = "session" => Session!TypeOK) /\ (kind = "retried" => Retried!TypeOK)
<1> SUFFICES ASSUME TalkInv
             PROVE  (kind = "session" => Session!TypeOK) /\ (kind = "retried" => Retried!TypeOK)
  OBVIOUS
<1>1. Talk!TypeOK
  BY Talk!SessionTyped DEF TalkInv
<1>2. Retried!TypeOK
  BY <1>1 DEF Talk!TypeOK, Retried!TypeOK
<1>3. ASSUME kind = "session" PROVE Session!TypeOK
  <2>1. events \in 0 .. 1
    BY <1>3 DEF TalkInv, Bounded
  <2>2. \A i \in DOMAIN messages : messages[i].rev \in 1 .. 2
    BY <2>1 DEF TalkInv, Talk!Counted
  <2>3. \A i \in DOMAIN messages :
          messages[i] \in [body : {"text", "clear"}, rev : 1 .. 1 + 1, available : BOOLEAN]
    <3> SUFFICES ASSUME NEW i \in DOMAIN messages
                 PROVE  messages[i] \in
                          [body : {"text", "clear"}, rev : 1 .. 1 + 1, available : BOOLEAN]
      OBVIOUS
    <3>1. messages[i] \in [body : {"text", "clear"}, rev : 1 .. 2 + 1, available : BOOLEAN]
      BY <1>1 DEF Talk!TypeOK
    <3>2. messages[i].rev \in 1 .. 1 + 1
      BY <2>2
    <3> QED
      BY <3>1, <3>2
  <2> QED
    BY <1>1, <2>1, <2>3 DEF Talk!TypeOK, Session!TypeOK
<1> QED
  BY <1>2, <1>3

\* Every component keeps its state well-formed: a row names a key, a gap has its
\* bounds in order, a configured route a mode, a database its results among its
\* writes; for any value of the constants.
THEOREM ComponentsTyped == MCSpec => []TypesOK
<1>1. MCInit => /\ DeliveryInv /\ ScopeInv /\ ConfigInv /\ WorkspaceInv /\ StoreInv
                /\ TalkInv /\ RetentionInv
  BY DeliveryStart, ScopeStart, ConfigStart, WorkspaceStart, StoreStart, TalkStart,
     RetentionStart DEF MCInit
<1>2. DeliveryInv /\ [MCNext]_all => DeliveryInv'
  BY ComponentSteps, DeliveryStep
<1>3. ScopeInv /\ [MCNext]_all => ScopeInv'
  BY ComponentSteps, ScopeStep
<1>4. ConfigInv /\ [MCNext]_all => ConfigInv'
  BY ComponentSteps, ConfigStep
<1>5. WorkspaceInv /\ [MCNext]_all => WorkspaceInv'
  BY ComponentSteps, WorkspaceStep
<1>6. StoreInv /\ [MCNext]_all => StoreInv'
  BY ComponentSteps, StoreStep
<1>7. RetentionInv /\ [MCNext]_all => RetentionInv'
  BY ComponentSteps, RetentionStep
<1>8. MCInit => Reads!Init
  BY SameInit DEF MCInit
<1>9. [MCNext]_all => [Reads!Next]_(Reads!vars)
  BY ComponentSteps, SameNext
<1>10. Reads!Spec => []Reads!TypeOK
  BY SameAssumption, Reads!HistoryTypes
<1>11. (DeliveryInv /\ ScopeInv /\ ConfigInv /\ WorkspaceInv /\ StoreInv /\ TalkInv
        /\ RetentionInv /\ Reads!TypeOK) => TypesOK
  <2>1. (ScopeInv => Scope!TypeOK) /\ (RetentionInv => Texts!TypeOK)
    BY DEF ScopeInv, RetentionInv
  <2>2. SUFFICES ASSUME DeliveryInv, ScopeInv, ConfigInv, WorkspaceInv, StoreInv, TalkInv,
                        RetentionInv, Reads!TypeOK
                 PROVE  TypesOK
    OBVIOUS
  <2>3. Delivery!TypeOK /\ Imported!TypeOK /\ Scope!TypeOK /\ Config!TypeOK
    BY <2>1, <2>2, DeliveryTyped, ImportTyped, ConfigTyped
  <2>4. TypeOK /\ Database!TypeOK /\ Texts!TypeOK
    BY <2>1, <2>2, WorkspaceTyped, StoreTyped
  <2>5. (kind = "session" => Session!TypeOK) /\ (kind = "retried" => Retried!TypeOK)
    BY <2>2, TalkTyped
  <2> QED
    BY <2>3, <2>4, <2>5 DEF TypesOK
<1> QED
  BY <1>1, <1>2, <1>3, <1>4, <1>5, <1>6, <1>7, <1>8, <1>9, <1>10, <1>11, TalkStep, PTL
     DEF MCSpec, Reads!Spec

=============================================================================
