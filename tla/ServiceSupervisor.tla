--------------------------- MODULE ServiceSupervisor ---------------------------
(***************************************************************************)
(* The unified service of one data directory (internal/service): one       *)
(* process holds process.lock, publishes its ID and supervises a module    *)
(* for every enabled source and agent.  Each tick it obeys a stop request  *)
(* of its own ID and reconciles its modules with the applied               *)
(* configuration and the control status of the database, which the         *)
(* operator and the modules both write.                                    *)
(***************************************************************************)
EXTENDS Integers, FiniteSets, Functions

CONSTANTS
  Processes, \* processes that may run the service, one after another
  Agents,    \* modules whose ending writes "stopped" (runtimes)
  Sources,   \* modules whose ending leaves the control status alone
  Faults,    \* of "crash", "signal", "error", "denied", "logger"
  Commands,  \* of "pause", "resume", "stop", "apply", "disable", "stop service"
  MaxGenerations, MaxCommands, MaxFaults

\* What the proofs and the runs take for granted of the constants.
ServiceAssumption ==
  /\ Agents \cap Sources = {}
  /\ MaxGenerations \in Nat /\ MaxCommands \in Nat /\ MaxFaults \in Nat

VARIABLES
  process,   \* [step, id] of each process
  published, \* the ID in status.json, 0 before the first
  request,   \* the ID in stop.request
  caller,    \* [step, target] of `service stop`
  entries,   \* the supervisor's entry of each module it knows
  workers,   \* the goroutines that run modules
  status,    \* the control status of each module
  paused,    \* modules that ran when the operator paused them, until another command
  config,    \* the applied version and the modules it enables
  generations, commands, faults

vars == <<process, published, request, caller, entries, workers, status, paused, config,
          generations, commands, faults>>
database == <<status, paused, config>>
files    == <<published, request, caller>>
counters == <<generations, commands, faults>>

Modules == Agents \cup Sources
Holder == {p \in Processes : process[p].step # "down"}     \* of process.lock
Down == [step |-> "down", id |-> 0]
NewEntry(epoch) ==
  [epoch |-> epoch, active |-> FALSE, stopping |-> FALSE, completed |-> FALSE,
   blocked |-> FALSE, waiting |-> FALSE]
Worker(m, epoch) == [module |-> m, epoch |-> epoch, step |-> "launched",
                     cancelled |-> FALSE, result |-> "none"]

TypeOK ==
  /\ \A p \in Processes :
       process[p] \in [step : {"down", "locked", "up", "ending"}, id : 0..MaxGenerations]
  /\ {published, request, caller.target} \subseteq 0..MaxGenerations
  /\ caller.step \in {"none", "read", "waits", "done"}
  /\ DOMAIN entries \subseteq Modules
  /\ \A w \in workers : w.module \in Modules /\ w.step \in {"launched", "runs", "ended"}
  /\ \A m \in Modules : status[m] \in {"configured", "running", "paused", "stopped", "degraded"}
  /\ config.enabled \subseteq Modules /\ paused \subseteq Modules
  /\ Cardinality(Holder) <= 1

Init ==
  /\ process = [p \in Processes |-> Down]
  /\ published = 0 /\ request = 0 /\ caller = [step |-> "none", target |-> 0]
  /\ entries = << >> /\ workers = {}
  /\ status = [m \in Modules |-> "configured"] /\ paused = {}
  /\ config = [version |-> 1, enabled |-> Modules]
  /\ generations = 0 /\ commands = 0 /\ faults = 0

Fault(kind) == kind \in Faults /\ faults < MaxFaults /\ faults' = faults + 1
Command(kind) == kind \in Commands /\ commands < MaxCommands /\ commands' = commands + 1

(***************************************************************************)
(* The process: the lock, then the published observation, then modules.    *)
(***************************************************************************)
Acquire(p) ==
  /\ process[p].step = "down" /\ Holder = {} /\ generations < MaxGenerations
  /\ generations' = generations + 1
  /\ process' = [process EXCEPT ![p] = [step |-> "locked", id |-> generations + 1]]
  /\ UNCHANGED <<files, entries, workers, database, commands, faults>>

Publish(p) ==
  /\ process[p].step = "locked" /\ published # process[p].id
  /\ published' = process[p].id
  /\ UNCHANGED <<process, request, caller, entries, workers, database, counters>>

\* The modules a configuration wants, and those it wants now.
Changed == {m \in DOMAIN entries : m \notin config.enabled
                                    \/ entries[m].epoch # config.version}
Cancelled(w, which) == IF w.module \in which THEN [w EXCEPT !.cancelled = TRUE] ELSE w

\* Mutant: the entry of a changed module is forgotten while its worker still runs.
KeptInactive == [m \in DOMAIN entries \ Changed |-> entries[m]]

\* What a module's entry is after the changed and disabled ones were let go.
Kept == [m \in {k \in DOMAIN entries : k \notin Changed \/ entries[k].active} |->
           [entries[m] EXCEPT !.stopping = entries[m].stopping \/ m \in Changed]]

\* Mutant: a module that ended without an error is never launched again.
MayLaunchOnce(m) ==
  /\ m \in config.enabled /\ status[m] # "paused"
  /\ m \in DOMAIN Kept =>
       ~(Kept[m].active \/ Kept[m].blocked \/ Kept[m].waiting \/ Kept[m].completed)

MayLaunch(m) ==
  /\ m \in config.enabled /\ status[m] # "paused"
  /\ m \in DOMAIN Kept =>
       /\ ~(Kept[m].active \/ Kept[m].blocked \/ Kept[m].waiting)
       /\ Kept[m].completed => status[m] = "running"

reconcile ==
  LET launched == {m \in Modules : MayLaunch(m)}
      known    == DOMAIN Kept \cup config.enabled
      entry(m) == IF m \in DOMAIN Kept THEN Kept[m] ELSE NewEntry(config.version)
  IN /\ entries' = [m \in known |->
                      IF m \in launched
                      THEN [entry(m) EXCEPT !.active = TRUE, !.stopping = FALSE, !.completed = FALSE]
                      ELSE entry(m)]
     /\ workers' = {Cancelled(w, Changed) : w \in workers}
                   \cup {Worker(m, entry(m).epoch) : m \in launched}

\* One turn of the supervisor's loop; the first one comes after the checks.
Tick(p) ==
  /\ \/ process[p].step = "locked" /\ published = process[p].id
     \/ process[p].step = "up"
  /\ IF request = process[p].id
     THEN /\ process' = [process EXCEPT ![p].step = "ending"]
          /\ workers' = {Cancelled(w, Modules) : w \in workers} /\ UNCHANGED entries
     ELSE process' = [process EXCEPT ![p].step = "up"] /\ reconcile
  /\ UNCHANGED <<files, database, counters>>

\* The entry of a module whose worker ended with this result.
Taken(entry, result) ==
  [entry EXCEPT !.active = FALSE,
                !.completed = @ \/ result = "nil",
                !.waiting = result # "nil",
                !.blocked = @ \/ result = "denied"]

Result(p, w) ==
  /\ process[p].step = "up" /\ w \in workers /\ w.step = "ended"
  /\ workers' = workers \ {w}
  /\ entries' =
       IF w.module \notin DOMAIN entries THEN entries
       ELSE IF entries[w.module].stopping THEN Restrict(entries, DOMAIN entries \ {w.module})
       ELSE [entries EXCEPT ![w.module] = Taken(@, w.result)]
  /\ UNCHANGED <<process, files, database, counters>>

RetryDue(m) ==
  /\ m \in DOMAIN entries /\ entries[m].waiting
  /\ entries' = [entries EXCEPT ![m].waiting = FALSE]
  /\ UNCHANGED <<process, files, workers, database, counters>>

\* A signal, an unreadable database, a new executable or a restart from the console.
Terminate(p) ==
  /\ process[p].step \in {"locked", "up"} /\ Fault("signal")
  /\ process' = [process EXCEPT ![p].step = "ending"]
  /\ workers' = {Cancelled(w, Modules) : w \in workers}
  /\ UNCHANGED <<files, entries, database, generations, commands>>

\* The deferred half of Run: every module has ended before the lock is free.
Release(p) ==
  /\ process[p].step = "ending" /\ \A w \in workers : w.step = "ended"
  /\ published' = process[p].id
  /\ process' = [process EXCEPT ![p] = Down] /\ workers' = {} /\ entries' = << >>
  /\ UNCHANGED <<request, caller, database, counters>>

Crash(p) ==
  /\ process[p].step # "down" /\ Fault("crash")
  /\ process' = [process EXCEPT ![p] = Down] /\ workers' = {} /\ entries' = << >>
  /\ UNCHANGED <<files, database, generations, commands>>

(***************************************************************************)
(* Modules, in their goroutines                                            *)
(***************************************************************************)
Step(w, to) == workers' = (workers \ {w}) \cup {to}
Ended(w, result) == [w EXCEPT !.step = "ended", !.result = result]
SetStatus(m, value) == status' = [status EXCEPT ![m] = value]

\* runtime.start and data-source.start; under an ended context nothing is written.
Begin(w) ==
  /\ w.step = "launched"
  /\ IF w.cancelled THEN Step(w, Ended(w, "error")) /\ UNCHANGED status
                    ELSE Step(w, [w EXCEPT !.step = "runs"]) /\ SetStatus(w.module, "running")
  /\ UNCHANGED <<process, files, entries, paused, config, counters>>

Stopped(w) ==
  /\ w.step = "runs" /\ ~w.cancelled /\ status[w.module] = "stopped"
  /\ Step(w, Ended(w, "nil"))
  /\ UNCHANGED <<process, files, entries, database, counters>>

stop(w) ==
  /\ w.step = "runs" /\ w.cancelled
  /\ Step(w, Ended(w, "nil"))
  /\ IF w.module \in Agents THEN SetStatus(w.module, "stopped") ELSE UNCHANGED status
  /\ UNCHANGED <<process, files, entries, paused, config, counters>>

Fails(w) ==
  /\ w.step # "ended"
  /\ \E kind \in {"error", "denied"} : Fault(kind) /\ Step(w, Ended(w, kind))
  /\ UNCHANGED <<process, files, entries, database, generations, commands>>

emit(w) ==
  /\ w.step = "runs" /\ w.module \in Agents /\ ~w.cancelled /\ Fault("logger")
  /\ SetStatus(w.module, "degraded")
  /\ UNCHANGED <<process, files, entries, workers, paused, config, generations, commands>>

(***************************************************************************)
(* The operator                                                            *)
(***************************************************************************)
Control(m, kind, to) ==
  /\ Command(kind) /\ SetStatus(m, to)
  /\ paused' = IF kind = "pause" /\ \E w \in workers : w.module = m /\ w.step = "runs"
               THEN paused \cup {m} ELSE paused \ {m}
  /\ UNCHANGED <<process, files, entries, workers, config, generations, faults>>

Apply ==
  /\ Command("apply") /\ config' = [config EXCEPT !.version = @ + 1]
  /\ UNCHANGED <<process, files, entries, workers, status, paused, generations, faults>>

Disable(m) ==
  /\ Command("disable") /\ m \in config.enabled
  /\ config' = [version |-> config.version + 1, enabled |-> config.enabled \ {m}]
  /\ UNCHANGED <<process, files, entries, workers, status, paused, generations, faults>>

\* `service stop`: the ID of the observation while the lock is held ...
StopRead ==
  /\ caller.step = "none" /\ Command("stop service")
  /\ Holder # {} /\ published # 0
  /\ caller' = [step |-> "read", target |-> published]
  /\ UNCHANGED <<process, published, request, entries, workers, database, generations, faults>>

\* ... is written as the request ...
StopRequest ==
  /\ caller.step = "read"
  /\ request' = caller.target /\ caller' = [caller EXCEPT !.step = "waits"]
  /\ UNCHANGED <<process, published, entries, workers, database, counters>>

\* ... and the caller waits for a free lock or another ID.
Gone == Holder = {} \/ published # caller.target

StopWait ==
  /\ caller.step = "waits" /\ Gone
  /\ caller' = [caller EXCEPT !.step = "done"]
  /\ UNCHANGED <<process, published, request, entries, workers, database, counters>>

Next ==
  \/ \E p \in Processes :
       \/ Acquire(p) \/ Publish(p) \/ Tick(p) \/ Terminate(p) \/ Release(p) \/ Crash(p)
       \/ \E w \in workers : Result(p, w)
  \/ \E m \in Modules :
       \/ RetryDue(m) \/ Disable(m)
       \/ \E c \in {<<"pause", "paused">>, <<"resume", "running">>, <<"stop", "stopped">>} :
            Control(m, c[1], c[2])
  \/ \E w \in workers : Begin(w) \/ Stopped(w) \/ stop(w) \/ Fails(w) \/ emit(w)
  \/ Apply \/ StopRead \/ StopRequest \/ StopWait

Spec == Init /\ [][Next]_vars

\* The loop, its goroutines and the service manager (KeepAlive) go on.
Fairness ==
  /\ WF_vars(\E p \in Processes : Acquire(p) \/ Publish(p) \/ Release(p))
  /\ \A p \in Processes : WF_vars(Tick(p))
  /\ \A m \in Modules : WF_vars(RetryDue(m))
  /\ \A m \in Modules :
       WF_vars(\E w \in {v \in workers : v.module = m} :
                 Begin(w) \/ Stopped(w) \/ stop(w) \/ \E p \in Processes : Result(p, w))

LiveSpec == Spec /\ Fairness

(***************************************************************************)
(* Properties                                                              *)
(***************************************************************************)
\* A module never runs twice, whatever configurations, restarts and failures
\* follow one another: the next worker waits until the old one has ended.
OneWorkerPerModule == \A v, w \in workers : v.module = w.module => v = w

\* When `service stop` reports success the generation it named is gone.
StopEndsTheGeneration ==
  caller.step = "done" => \A p \in Holder : process[p].id # caller.target

OneServiceAtATime == OneWorkerPerModule /\ StopEndsTheGeneration

\* An enabled module that is neither paused nor stopped for good nor blocked
\* comes to run under the current configuration, and no older worker stays.
Wanted(m) ==
  /\ \E p \in Processes : process[p].step = "up"
  /\ m \in config.enabled /\ status[m] \notin {"paused", "stopped"}
  /\ m \in DOMAIN entries => ~entries[m].blocked
Runs(m) == \E w \in workers : /\ w.module = m /\ w.step = "runs" /\ ~w.cancelled
                              /\ w.epoch = config.version

WantedModuleRuns == \A m \in Modules : <>[]Wanted(m) => <>[]Runs(m)

\* A running module the operator paused stays paused until the operator says otherwise.
PauseIsKept == \A m \in paused : status[m] \in {"paused", "degraded"}
=============================================================================
