------------------------------ MODULE MCChannels ------------------------------
(***************************************************************************)
(* Four small systems in one state graph: receivers of an application      *)
(* channel, receivers of a data source, the history reads of one           *)
(* conversation, and the service with its modules.  They share no state,   *)
(* so each behaviour exercises one of them, chosen in MCInit.              *)
(***************************************************************************)
EXTENDS ChannelLease, Sequences, TLC

CONSTANTS
  Fraction, Span, Overlap, Retention, PageSize, MaxFailures,
  Interruptions, MaxInterruptions, MaxTime,
  Processes, Agents, Sources, Faults, Commands, MaxGenerations, MaxCommands, MaxFaults

VARIABLES
  now, stored, expired, coverage, recorded, pull, running, import, worker,
  interruptions,
  process, published, request, caller, entries, workers, status, paused, config,
  generations, commands, faults

History == INSTANCE HistoryCoverage WITH
  Imports <- {}, Workers <- {}, HistoryDays <- 1, LeaseTime <- 1,
  Enabled <- 0, Environment <- Interruptions, MaxEvents <- MaxInterruptions,
  events <- interruptions
Service == INSTANCE ServiceSupervisor

ASSUME ChannelsAssumption ==
  /\ History!HistoryCoverageAssumption /\ Service!ServiceAssumption

leaseVars == <<lease, receiver, pushed, lost, committed>>
historyVars == <<now, stored, expired, coverage, recorded, pull, running, import, worker,
                 interruptions>>
serviceVars == <<process, published, request, caller, entries, workers, status, paused,
                 config, generations, commands, faults>>
all == <<kind, leaseVars, events, historyVars, serviceVars>>

MCInit ==
  /\ kind \in {"app", "source", "history", "service"}
  /\ Idle /\ History!Init /\ Service!Init

\* A step of one system leaves the others alone.
Receiving(action) == action /\ UNCHANGED <<kind, historyVars, serviceVars>>
Reading(action)   == action /\ UNCHANGED <<kind, leaseVars, events, serviceVars>>
Serving(action)   == action /\ UNCHANGED <<kind, leaseVars, events, historyVars>>

MCNext ==
  \/ kind \in Kinds /\ Receiving(Next)
  \/ kind = "history" /\ Reading(History!Next)
  \/ kind = "service" /\ Serving(Service!Next)

\* The fairness of the three modules, each for its own behaviours.
MCFairness ==
  /\ WF_all(kind = "app" /\ Receiving(Tick))
  /\ \A r \in Receivers :
       /\ WF_all(kind = "app" /\ Receiving(Start(r)))
       /\ WF_all(kind = "app" /\ Receiving(ReadLease(r)))
       /\ WF_all(kind = "app" /\ Receiving(AcquireLease(r)))
       /\ WF_all(kind = "app" /\ Receiving(Handle(r)))
       /\ WF_all(kind = "app" /\ Receiving(RenewLease(r)))
       /\ WF_all(kind = "app" /\ Receiving(ReleaseLease(r)))
       /\ \A e \in Events : WF_all(kind = "app" /\ Receiving(Deliver(r, e)))
  /\ WF_all(kind = "history" /\ Reading(History!reconcileRoute))
  /\ WF_all(kind = "history" /\ Reading(History!Intake))
  /\ WF_all(kind = "history" /\ Reading(History!recordCoverage))
  /\ WF_all(/\ kind = "service"
             /\ Serving(\E p \in Processes :
                          Service!Acquire(p) \/ Service!Publish(p) \/ Service!Release(p)))
  /\ \A p \in Processes : WF_all(kind = "service" /\ Serving(Service!Tick(p)))
  /\ \A m \in Agents \cup Sources :
       /\ WF_all(kind = "service" /\ Serving(Service!RetryDue(m)))
       /\ WF_all(/\ kind = "service"
                  /\ Serving(\E w \in {v \in workers : v.module = m} :
                       \/ Service!Begin(w) \/ Service!Stopped(w) \/ Service!stop(w)
                       \/ \E p \in Processes : Service!Result(p, w)))

MCSpec == MCInit /\ [][MCNext]_all /\ MCFairness

TypesOK ==
  /\ kind \in Kinds => TypeOK
  /\ kind = "history" => History!TypeOK
  /\ kind = "service" => Service!TypeOK

\* EventIsStored for applications: what a data source misses is left to its history.
FrameIsStored == \A e \in Events :
  kind = "app" /\ e \in pushed ~> committed[e] # 0
CoveredIsStored == History!CoveredIsStored
CutWindowCloses == History!CutWindowCloses
OneServiceAtATime == Service!OneServiceAtATime
WantedModuleRuns == Service!WantedModuleRuns
=============================================================================
