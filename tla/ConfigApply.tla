---------------------------- MODULE ConfigApply ----------------------------
(***************************************************************************)
(* `config plan` and `config apply-runtime`: one declared data source and  *)
(* the proactive application that reads it.  The operator edits the YAML   *)
(* declaration, asks for a plan, and applies the plan by its digest; the   *)
(* apply plans again inside its write transaction and refuses a digest     *)
(* that has changed.  In between the source discovers groups, evidence     *)
(* ages, modules are started and stopped, and objects are changed by hand. *)
(*                                                                         *)
(* Abstractions: a declaration is its contents (the other channels, bots   *)
(* and agents of a declaration are left out); an agent's policy is a model *)
(* value; the authorisation flags of apply-runtime are always given, so    *)
(* boundary and expansion blockers never stop it; presets, capabilities    *)
(* and owner identities are verified throughout.                           *)
(***************************************************************************)
EXTENDS Naturals, Sequences, FiniteSets

CONSTANTS
    Groups,        \* groups the source may discover
    Policies,      \* agent policies a declaration may name
    Environment,   \* which outside events happen, see below
    MaxEdits,      \* bound on edits of the declaration
    MaxVersions,   \* bound on applied declarations
    MaxEvents      \* bound on discoveries, losses of evidence and hand changes

\* What the proofs and the runs take for granted of the constants.
ConfigApplyAssumption ==
    /\ Policies # {} /\ Environment \subseteq {"expire", "manual", "late", "receiving"}
    /\ MaxEdits \in Nat /\ MaxVersions \in Nat /\ MaxEvents \in Nat

VARIABLES
    file,      \* the declaration in the YAML file
    applied,   \* applied_configs: declaration and managed snapshots, by version
    source,    \* the data_sources row with its discovery receipt
    lease,     \* the source's receiver holds the channel lease
    runtime,   \* the runtime_configs row of the proactive application
    process,   \* a process of that runtime is alive
    plan,      \* the plan the operator has reviewed
    touched,   \* objects changed by hand since the last apply
    edits, events

vars == <<file, applied, source, lease, runtime, process, plan, touched, edits, events>>

Declarations ==
    {d \in [source: {"none", "off", "on"}, ignore: SUBSET Groups,
            app: {"none", "off", "on"}, policy: Policies, batch: 1 .. 2] :
        /\ d.app = "on" => d.source = "on"
        /\ d.source = "none" => d.ignore = {}}

NoSource == [exists |-> FALSE, enabled |-> FALSE, ignore |-> {}, version |-> 0,
             status |-> "stopped", routes |-> {}, receipt |-> [groups |-> {}, at |-> 0], fresh |-> FALSE]
NoRuntime == [exists |-> FALSE, policy |-> "none", batch |-> 0, routes |-> {}, status |-> "stopped"]
NoPlan == [digest |-> "none"]

\* The declared parts as plan objects compare them.
DeclaredSource(d) == [kind |-> d.source, ignore |-> d.ignore]
DeclaredApp(d) == [kind |-> d.app, batch |-> d.batch]

\* What a manifest keeps of an object: the settings a declaration owns.  A
\* source's includes its version, a runtime's neither its scope nor its status.
SourceSnapshot(s) == [enabled |-> s.enabled, ignore |-> s.ignore, version |-> s.version]
RuntimeSnapshot(r) == [policy |-> r.policy, batch |-> r.batch]

Nothing == [declaration |-> [source |-> "none", ignore |-> {}, app |-> "none",
                             policy |-> CHOOSE p \in Policies : TRUE, batch |-> 1],
            manages |-> {}, sourceAs |-> SourceSnapshot(NoSource), runtimeAs |-> RuntimeSnapshot(NoRuntime)]
Latest == IF applied = <<>> THEN Nothing ELSE applied[Len(applied)]
Manages(o) == o \in Latest.manages

\* Groups the application may process: positively proved by a receipt of the
\* source's current version that has not aged.
Admitted(s) ==
    IF s.exists /\ s.enabled /\ s.status # "paused" /\ s.fresh THEN s.routes \cap s.receipt.groups ELSE {}

Before == Latest.declaration
SourceChanged == DeclaredSource(Before) # DeclaredSource(file)
AppChanged == DeclaredApp(Before) # DeclaredApp(file)
AgentChanged == Before.policy # file.policy \/ applied = <<>>
SchedulingOnly == Before.app = file.app /\ Before.app # "none"

\* The order of the sets below is that of the plan's checks.
Drift ==
    {o \in {"source", "runtime"} : Manages(o) /\
        CASE o = "source"  -> ~source.exists \/ Latest.sourceAs # SourceSnapshot(source)
          [] o = "runtime" -> ~runtime.exists \/ Latest.runtimeAs # RuntimeSnapshot(runtime)}
RunningObjects ==
    {o \in {"source", "runtime"} : Manages(o) /\
        CASE o = "source"  -> source.status # "stopped" /\ SourceChanged
          [] o = "runtime" -> runtime.status # "stopped" /\ (AppChanged \/ file.app = "none") /\ ~SchedulingOnly}
Unmanaged ==
    {o \in {"source", "runtime"} : ~Manages(o) /\
        CASE o = "source"  -> source.exists /\ "none" # file.source
          [] o = "runtime" -> runtime.exists /\ "none" # file.app}
Dependents ==
    {o \in {"source", "agent"} : runtime.exists /\ runtime.status # "stopped" /\
        CASE o = "source" -> SourceChanged /\ source.exists
          [] o = "agent"  -> AgentChanged}
ScopeRunning ==
    /\ file.app = "on" /\ source.exists /\ runtime.exists
    /\ Admitted(source) # runtime.routes /\ runtime.status # "stopped"
Blockers == [drift |-> Drift, running |-> RunningObjects, unmanaged |-> Unmanaged,
             dependents |-> Dependents, scope |-> ScopeRunning]
Ready == Drift \cup RunningObjects \cup Unmanaged \cup Dependents = {} /\ ~ScopeRunning

\* The plan refreshes an unchanged application whose admitted scope moved, and
\* creates one whose creation was deferred.
AppAction ==
    \/ AppChanged
    \/ /\ file.app = "on" /\ source.exists
       /\ Admitted(source) # IF runtime.exists THEN runtime.routes ELSE {}

\* Mutant: discovery is left out of the plan's digest.
DigestWithoutScope == [declaration |-> file, version |-> Len(applied),
           source |-> [row |-> SourceSnapshot(source), exists |-> source.exists, status |-> source.status],
           
           runtime |-> runtime, blockers |-> Blockers]

\* Everything the digest of a plan covers.  The age of a receipt is not part
\* of it, nor is the runtime's own scope except through its version.
Digest == [declaration |-> file, version |-> Len(applied),
           source |-> [row |-> SourceSnapshot(source), exists |-> source.exists, status |-> source.status],
           scope |-> source.routes, receipt |-> source.receipt,
           runtime |-> runtime, blockers |-> Blockers]

Init ==
    /\ file = [source |-> "on", ignore |-> {}, app |-> "on", policy |-> CHOOSE p \in Policies : TRUE, batch |-> 1]
    /\ applied = <<>> /\ source = NoSource /\ runtime = NoRuntime
    /\ lease = FALSE /\ process = FALSE
    /\ plan = NoPlan /\ touched = {} /\ edits = 0 /\ events = 0

\* The operator changes one thing in the declaration.
Edit(d) ==
    /\ edits < MaxEdits /\ d # file
    /\ Cardinality({f \in DOMAIN d : d[f] # file[f]}) = 1
    /\ file' = d /\ edits' = edits + 1
    /\ UNCHANGED <<applied, source, lease, runtime, process, plan, touched, events>>

\* `config plan` reads one snapshot.
Plan ==
    /\ plan' = [digest |-> Digest, admitted |-> Admitted(source)]
    /\ plan' # plan
    /\ UNCHANGED <<file, applied, source, lease, runtime, process, touched, edits, events>>

\* The data source after apply: untouched when its declaration is unchanged or
\* gone from the file, reconfigured (which needs it stopped) otherwise.  A new
\* version makes the receipt of the old one unusable.
AppliedSource ==
    IF ~SourceChanged \/ file.source = "none" \/ (file.source = "off" /\ ~source.exists)
    THEN source
    ELSE [source EXCEPT !.exists = TRUE, !.enabled = file.source = "on", !.ignore = file.ignore,
                        !.version = @ + 1, !.fresh = FALSE]
SourceRefuses == AppliedSource # source /\ source.exists /\ source.status # "stopped"
SourceConfigured == AppliedSource # source

\* Whether apply configures the application at all.
Configures == file.app = "on" /\ (AppAction \/ SourceConfigured \/ AgentChanged)
Defers == Configures /\ Admitted(AppliedSource) = {}
\* An application left out of the file or switched off is stopped.
Stops == file.app # "on" /\ Manages("runtime") /\ (AppChanged \/ file.app = "none")

\* Mutant: a deferred apply leaves the old scope in place.
AppliedRuntimeKeepingScope ==
    CASE Defers     -> runtime
      [] Configures /\ ~Defers ->
             [exists |-> TRUE, policy |-> file.policy, batch |-> file.batch,
              routes |-> Admitted(AppliedSource), status |-> runtime.status]
      [] Stops      -> [runtime EXCEPT !.status = "stopped"]
      [] OTHER      -> runtime

\* The application after apply.  Without admitted groups an existing runtime
\* keeps its settings and loses its scope; otherwise it gets both.
AppliedRuntime ==
    CASE Defers     -> IF runtime.exists THEN [runtime EXCEPT !.routes = {}] ELSE runtime
      [] Configures /\ ~Defers ->
             [exists |-> TRUE, policy |-> file.policy, batch |-> file.batch,
              routes |-> Admitted(AppliedSource), status |-> runtime.status]
      [] Stops      -> [runtime EXCEPT !.status = "stopped"]
      [] OTHER      -> runtime

RuntimeRefuses ==
    \/ Defers /\ runtime.exists /\ runtime.status # "stopped"
    \/ /\ Configures /\ ~Defers /\ runtime.status = "running"
       /\ (runtime.policy # file.policy \/ runtime.routes # Admitted(AppliedSource))
    \* a new runtime is bound to its source, which needs the channel lease free
    \/ Configures /\ ~Defers /\ ~runtime.exists /\ lease

\* The manifest: declared sources that exist, and the application if it runs or
\* was managed before.  A source that left the declaration leaves it too.
Manifest ==
    [declaration |-> file,
     manages |-> {o \in {"source", "runtime"} :
         CASE o = "source"  -> AppliedSource.exists /\ file.source # "none"
           [] o = "runtime" -> AppliedRuntime.exists /\ (file.app = "on" \/ Manages("runtime"))},
     sourceAs |-> SourceSnapshot(AppliedSource), runtimeAs |-> RuntimeSnapshot(AppliedRuntime)]

ApplyFails == ~Ready \/ SourceRefuses \/ RuntimeRefuses

\* `config apply-runtime --plan-digest --expected-version`.
Apply ==
    /\ plan # NoPlan /\ plan.digest = Digest /\ ~ApplyFails
    /\ Len(applied) < MaxVersions
    /\ source' = AppliedSource /\ runtime' = AppliedRuntime
    /\ applied' = IF Manifest = Latest THEN applied ELSE Append(applied, Manifest)
    /\ touched' = {}
    /\ UNCHANGED <<file, lease, process, plan, edits, events>>

\* `data-source start`, or the service launching every enabled source.
StartSource ==
    /\ source.exists /\ source.enabled /\ source.status # "running"
    /\ source' = [source EXCEPT !.status = "running"]
    /\ UNCHANGED <<file, applied, lease, runtime, process, plan, touched, edits, events>>
StopSource ==
    /\ source.status = "running" /\ source' = [source EXCEPT !.status = "stopped"]
    /\ UNCHANGED <<file, applied, lease, runtime, process, plan, touched, edits, events>>
\* The receiver of a running source takes the channel lease, and lets it go
\* (or dies and lets it expire).
AcquireLease ==
    /\ "receiving" \in Environment /\ source.status = "running" /\ ~lease /\ lease' = TRUE
    /\ UNCHANGED <<file, applied, source, runtime, process, plan, touched, edits, events>>
ReleaseLease ==
    /\ lease /\ lease' = FALSE
    /\ UNCHANGED <<file, applied, source, runtime, process, plan, touched, edits, events>>

\* A discovery proves a set of groups; ignored ones stay out of the scope.
Discover(G) ==
    /\ events < MaxEvents /\ events' = events + 1
    /\ source.status = "running"
    /\ source' = [source EXCEPT !.routes = G \ source.ignore, !.fresh = TRUE,
                                !.receipt = [groups |-> G \ source.ignore, at |-> events + 1]]
    /\ UNCHANGED <<file, applied, lease, runtime, process, plan, touched, edits>>
\* The receipt ages past its lifetime: nothing is written.
Expire ==
    /\ "expire" \in Environment /\ events < MaxEvents /\ events' = events + 1
    /\ source.fresh /\ source' = [source EXCEPT !.fresh = FALSE]
    /\ UNCHANGED <<file, applied, lease, runtime, process, plan, touched, edits>>

\* `runtime start`: refused without admitted routes.
StartRuntime ==
    /\ runtime.exists /\ runtime.status # "running" /\ runtime.routes # {} /\ ~process
    /\ runtime' = [runtime EXCEPT !.status = "running"] /\ process' = TRUE
    /\ UNCHANGED <<file, applied, source, lease, plan, touched, edits, events>>
StopRuntime ==
    /\ runtime.status = "running" /\ runtime' = [runtime EXCEPT !.status = "stopped"]
    /\ UNCHANGED <<file, applied, source, lease, process, plan, touched, edits, events>>
\* The process sees that it was stopped.
Leave ==
    /\ process /\ runtime.status = "stopped" /\ process' = FALSE
    /\ UNCHANGED <<file, applied, source, lease, runtime, plan, touched, edits, events>>
\* Each pass of a live process replaces the scope by what is admitted now.  The
\* status was read at the start of the pass ("late": it may have changed since).
SyncScope ==
    /\ process /\ (runtime.status = "running" \/ "late" \in Environment)
    /\ runtime' = [runtime EXCEPT !.routes = Admitted(source)] /\ runtime' # runtime
    /\ UNCHANGED <<file, applied, source, lease, process, plan, touched, edits, events>>

\* `runtime configure` and `data-source configure` by hand.
ConfigureRuntime(p) ==
    /\ "manual" \in Environment /\ events < MaxEvents /\ events' = events + 1
    /\ runtime.exists /\ runtime.status # "running" /\ runtime.policy # p
    /\ runtime' = [runtime EXCEPT !.policy = p] /\ touched' = touched \cup {"runtime"}
    /\ UNCHANGED <<file, applied, source, lease, process, plan, edits>>
ConfigureDataSource(I) ==
    /\ "manual" \in Environment /\ events < MaxEvents /\ events' = events + 1
    /\ source.status = "stopped"
    /\ source' = [source EXCEPT !.exists = TRUE, !.enabled = TRUE, !.ignore = I,
                                !.version = @ + 1, !.fresh = FALSE]
    /\ touched' = touched \cup {"source"}
    /\ UNCHANGED <<file, applied, lease, runtime, process, plan, edits>>

Next ==
    \/ \E d \in Declarations : Edit(d)
    \/ Plan \/ Apply
    \/ StartSource \/ StopSource \/ AcquireLease \/ ReleaseLease
    \/ \E G \in SUBSET Groups : Discover(G)
    \/ Expire
    \/ StartRuntime \/ StopRuntime \/ Leave \/ SyncScope
    \/ \E p \in Policies : ConfigureRuntime(p)
    \/ \E I \in SUBSET Groups : ConfigureDataSource(I)

Spec == Init /\ [][Next]_vars

----------------------------------------------------------------------------
\* Types of the variables.
TypeOK ==
    /\ file \in Declarations
    /\ DOMAIN applied = 1 .. Len(applied) /\ Len(applied) <= MaxVersions
    /\ source.routes \subseteq Groups /\ source.status \in {"stopped", "running"}
    /\ runtime.routes \subseteq Groups /\ runtime.policy \in Policies \cup {"none"}
    /\ {lease, process} \subseteq BOOLEAN /\ touched \subseteq {"source", "runtime"}

\* What runs is what was applied: unless somebody configured it by hand, a
\* running application works under the agent policy of the last applied
\* declaration and never on a group which that declaration ignores, through
\* deferred, repeated and refreshed applies and scope syncs in between.  And
\* nothing but a manual change blocks the next plan with drift: after any of
\* these steps the manifest still describes what it manages.
RunsAsApplied ==
    /\ runtime.status = "running" /\ Latest.declaration.app = "on" /\ touched = {} =>
        /\ runtime.policy = Latest.declaration.policy
        /\ runtime.routes \cap Latest.declaration.ignore = {}
    /\ Drift \subseteq touched

\* Nothing wider than what the operator reviewed: whatever happened between
\* plan and apply, an apply that is accepted commits the declaration that was
\* planned and gives the application no group it was not shown as admitted.
AppliesWhatWasReviewed ==
    [][applied' # applied =>
        /\ Latest'.declaration = plan.digest.declaration
        /\ runtime'.routes \subseteq plan.admitted \cup runtime.routes]_vars

\* A source that the last applied declaration does not have is not collected
\* by the service: what left the declaration is off.
RemovedSourceIsOff ==
    applied # <<>> /\ touched = {} /\ Latest.declaration.source # "on" => source.status # "running"

\* A plan that reports no blocker can be applied as long as nothing changes.
ReadyPlanApplies == Ready => ~ApplyFails
=============================================================================
