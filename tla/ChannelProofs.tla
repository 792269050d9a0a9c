---------------------------- MODULE ChannelProofs ----------------------------
(***************************************************************************)
(* What holds of the receiving side as a whole, for every value of the     *)
(* constants MCChannels leaves open: its receivers, its history reads and  *)
(* its service.                                                            *)
(*                                                                         *)
(* A step of MCChannels is a step of one component and leaves the others   *)
(* alone, so that a theorem about a component carries over once the        *)
(* component's actions are seen to be the ones its proof module speaks     *)
(* about: that is what the lemmas whose names begin with Same establish,   *)
(* action by action.  The service has no proof module of its own, and its  *)
(* inductive invariant, ServiceInv, is proved here.                        *)
(***************************************************************************)
EXTENDS MCChannels, FiniteSetTheorems, TLAPS

\* The reads of history, with the values MCChannels gives them.
Reads == INSTANCE HistoryCoverageProofs WITH
  Imports <- {}, Workers <- {}, HistoryDays <- 1, LeaseTime <- 1,
  Enabled <- 0, Environment <- Interruptions, MaxEvents <- MaxInterruptions,
  events <- interruptions

LEMMA SameInit == History!Init => Reads!Init
BY DEF History!Init, Reads!Init, History!sourceVars, Reads!sourceVars, History!coverageVars,
       Reads!coverageVars, History!importVars, Reads!importVars, History!vars, Reads!vars,
       History!None, Reads!None, History!Idle, Reads!Idle, History!NoImport, Reads!NoImport,
       History!Seconds, Reads!Seconds, History!Ticks, Reads!Ticks, History!sent, Reads!sent,
       History!Happens, Reads!Happens, History!NoCursor, Reads!NoCursor, History!Nothing,
       Reads!Nothing, History!gaps, Reads!gaps, History!covered, Reads!covered, History!Listed,
       Reads!Listed, History!Page, Reads!Page, History!Rest, Reads!Rest, History!Unresolved,
       Reads!Unresolved, History!Gap, Reads!Gap, History!Resolved, Reads!Resolved,
       History!RecordCoverage, Reads!RecordCoverage, History!RecordOnce, Reads!RecordOnce,
       History!NextWindow, Reads!NextWindow, History!Continuable, Reads!Continuable,
       History!Minimum, Reads!Minimum, History!TooOld, Reads!TooOld, History!ReconcileWindow,
       Reads!ReconcileWindow, History!Cursor, Reads!Cursor, History!Readable, Reads!Readable,
       History!First, Reads!First, History!ReadWindow, Reads!ReadWindow, History!ReadPartially,
       Reads!ReadPartially, History!ReadFails, Reads!ReadFails, History!PullByOperator,
       Reads!PullByOperator, History!CreateHistoryImport, Reads!CreateHistoryImport, History!Active,
       Reads!Active, History!Claimable, Reads!Claimable, History!ClaimHistoryImport,
       Reads!ClaimHistoryImport, History!checkHistoryClaim, Reads!checkHistoryClaim,
       History!ImportCursor, Reads!ImportCursor, History!Completed, Reads!Completed,
       History!ImportCovers, Reads!ImportCovers, History!FinishHistoryImport,
       Reads!FinishHistoryImport, History!FailHistoryImport, Reads!FailHistoryImport,
       History!CancelHistoryImport, Reads!CancelHistoryImport, History!RetryHistoryImport,
       Reads!RetryHistoryImport

LEMMA SameNext == [History!Next]_(History!vars) => [Reads!Next]_(Reads!vars)
<1>1. History!Tick => Reads!Tick
  BY DEF History!Tick, Reads!Tick, History!coverageVars, Reads!coverageVars, History!importVars,
         Reads!importVars
<1>2. History!reconcileRoute => Reads!reconcileRoute
  BY DEF History!Cardinality, Reads!Cardinality, History!Continuable, Reads!Continuable,
         History!Cursor, Reads!Cursor, History!First, Reads!First, History!Happens,
         Reads!Happens, History!Idle, Reads!Idle, History!Listed, Reads!Listed, History!Max,
         Reads!Max, History!Min, Reads!Min, History!Minimum, Reads!Minimum, History!NextWindow,
         Reads!NextWindow, History!NoCursor, Reads!NoCursor, History!None, Reads!None,
         History!Page, Reads!Page, History!ReadFails, Reads!ReadFails, History!ReadPartially,
         Reads!ReadPartially, History!ReadWindow, Reads!ReadWindow, History!Readable,
         Reads!Readable, History!ReconcileWindow, Reads!ReconcileWindow, History!Rest,
         Reads!Rest, History!Ticks, Reads!Ticks, History!TooOld, Reads!TooOld,
         History!coverageVars, Reads!coverageVars, History!covered, Reads!covered, History!gaps,
         Reads!gaps, History!importVars, Reads!importVars, History!reconcileRoute,
         Reads!reconcileRoute, History!sent, Reads!sent, History!sourceVars, Reads!sourceVars
<1>3. History!Intake => Reads!Intake
  BY DEF History!Happens, Reads!Happens, History!Intake, Reads!Intake, History!Min, Reads!Min,
         History!Minimum, Reads!Minimum, History!Ticks, Reads!Ticks, History!coverageVars,
         Reads!coverageVars, History!importVars, Reads!importVars, History!sourceVars,
         Reads!sourceVars
<1>4. History!recordCoverage => Reads!recordCoverage
  BY DEF History!Gap, Reads!Gap, History!Idle, Reads!Idle, History!NoCursor, Reads!NoCursor,
         History!None, Reads!None, History!RecordCoverage, Reads!RecordCoverage,
         History!RecordOnce, Reads!RecordOnce, History!Resolved, Reads!Resolved,
         History!Seconds, Reads!Seconds, History!Unresolved, Reads!Unresolved,
         History!coverageVars, Reads!coverageVars, History!covered, Reads!covered, History!gaps,
         Reads!gaps, History!importVars, Reads!importVars, History!recordCoverage,
         Reads!recordCoverage, History!sourceVars, Reads!sourceVars
<1>5. History!SetDataSourceStatus => Reads!SetDataSourceStatus
  BY DEF History!Happens, Reads!Happens, History!SetDataSourceStatus, Reads!SetDataSourceStatus,
         History!coverageVars, Reads!coverageVars, History!importVars, Reads!importVars
<1>6. History!Crash => Reads!Crash
  BY DEF History!Crash, Reads!Crash, History!Happens, Reads!Happens, History!Idle, Reads!Idle,
         History!coverageVars, Reads!coverageVars, History!sourceVars, Reads!sourceVars
<1>7. ASSUME NEW start, NEW end, History!PullByOperator(start, end)
      PROVE Reads!PullByOperator(start, end)
  BY <1>7 DEF History!Cardinality, Reads!Cardinality, History!Cursor, Reads!Cursor, History!First,
         Reads!First, History!Happens, Reads!Happens, History!Idle, Reads!Idle, History!Listed,
         Reads!Listed, History!Min, Reads!Min, History!NoCursor, Reads!NoCursor, History!None,
         Reads!None, History!Page, Reads!Page, History!PullByOperator, Reads!PullByOperator,
         History!ReadWindow, Reads!ReadWindow, History!Rest, Reads!Rest, History!Seconds,
         Reads!Seconds, History!Ticks, Reads!Ticks, History!coverageVars, Reads!coverageVars,
         History!importVars, Reads!importVars, History!sent, Reads!sent, History!sourceVars,
         Reads!sourceVars
<1>8. History!Seconds(now) = Reads!Seconds(now)
  BY DEF History!Seconds, Reads!Seconds
<1>9. UNCHANGED History!vars => UNCHANGED Reads!vars
  BY DEF History!vars, Reads!vars, History!sourceVars, Reads!sourceVars, History!coverageVars,
         Reads!coverageVars, History!importVars, Reads!importVars
<1>10. History!Next => Reads!Next
  BY <1>1, <1>2, <1>3, <1>4, <1>5, <1>6, <1>7, <1>8 DEF History!Next, Reads!Next
<1> QED
  BY <1>9, <1>10

LEMMA SameCovered == Reads!CoveredIsStored => CoveredIsStored
BY DEF CoveredIsStored, History!CoveredIsStored, Reads!CoveredIsStored, History!sourceVars,
       Reads!sourceVars, History!coverageVars, Reads!coverageVars, History!importVars,
       Reads!importVars, History!vars, Reads!vars, History!None, Reads!None, History!Idle,
       Reads!Idle, History!NoImport, Reads!NoImport, History!Seconds, Reads!Seconds, History!Ticks,
       Reads!Ticks, History!sent, Reads!sent, History!Happens, Reads!Happens, History!NoCursor,
       Reads!NoCursor, History!Nothing, Reads!Nothing, History!gaps, Reads!gaps, History!covered,
       Reads!covered, History!Listed, Reads!Listed, History!Page, Reads!Page, History!Rest,
       Reads!Rest, History!Unresolved, Reads!Unresolved, History!Gap, Reads!Gap, History!Resolved,
       Reads!Resolved, History!RecordCoverage, Reads!RecordCoverage, History!RecordOnce,
       Reads!RecordOnce, History!NextWindow, Reads!NextWindow, History!Continuable,
       Reads!Continuable, History!Minimum, Reads!Minimum, History!TooOld, Reads!TooOld,
       History!ReconcileWindow, Reads!ReconcileWindow, History!Cursor, Reads!Cursor,
       History!Readable, Reads!Readable, History!First, Reads!First, History!ReadWindow,
       Reads!ReadWindow, History!ReadPartially, Reads!ReadPartially, History!ReadFails,
       Reads!ReadFails, History!PullByOperator, Reads!PullByOperator, History!CreateHistoryImport,
       Reads!CreateHistoryImport, History!Active, Reads!Active, History!Claimable, Reads!Claimable,
       History!ClaimHistoryImport, Reads!ClaimHistoryImport, History!checkHistoryClaim,
       Reads!checkHistoryClaim, History!ImportCursor, Reads!ImportCursor, History!Completed,
       Reads!Completed, History!ImportCovers, Reads!ImportCovers, History!FinishHistoryImport,
       Reads!FinishHistoryImport, History!FailHistoryImport, Reads!FailHistoryImport,
       History!CancelHistoryImport, Reads!CancelHistoryImport, History!RetryHistoryImport,
       Reads!RetryHistoryImport

LEMMA SameTypes == Reads!TypeOK => History!TypeOK
BY DEF History!NoImport, Reads!NoImport, History!TypeOK, Reads!TypeOK, History!covered,
       Reads!covered, History!gaps, Reads!gaps, History!sent, Reads!sent

LEMMA SameAssumption == Reads!HistoryCoverageAssumption
BY ChannelsAssumption DEF History!HistoryCoverageAssumption, Reads!HistoryCoverageAssumption

LEMMA ReadingStep == [MCNext]_all => [History!Next]_(History!vars)
BY DEF MCNext, all, Receiving, Reading, Serving, historyVars, History!vars, History!sourceVars,
       History!coverageVars, History!importVars

----------------------------------------------------------------------------
(* Receivers of applications and of data sources.                          *)

\* A receiver that acquired the lease and has not ended its session.
InSession(r) == receiver[r].step \in {"receive", "release"}

FencesBounded ==
  /\ \A r \in Receivers : receiver[r].fence <= lease.fence
  /\ \A e \in Events : committed[e] <= lease.fence

FenceNamesHolder == \A r \in Receivers :
  InSession(r) /\ receiver[r].fence = lease.fence => lease.holder = r

BeliefIsSafe == \A r \in Receivers :
  Live(r) => receiver[r].fence = lease.fence /\ receiver[r].left <= lease.left

LeaseInv == FencesBounded /\ FenceNamesHolder /\ BeliefIsSafe

ReceiverInv == TypeOK /\ LeaseInv

LEMMA ReceiverStart == Idle => ReceiverInv
<1> SUFFICES ASSUME Idle PROVE ReceiverInv
  OBVIOUS
<1>1. TypeOK
  BY ChannelLeaseAssumption DEF Idle, TypeOK
<1>2. LeaseInv
  BY DEF Idle, LeaseInv, FencesBounded, FenceNamesHolder, BeliefIsSafe, InSession, Live
<1> QED
  BY <1>1, <1>2 DEF ReceiverInv

\* A step that leaves the row alone, and a receiver's session unless it ends it.
LEMMA QuietStep ==
  ASSUME ReceiverInv, UNCHANGED lease,
         \A r \in Receivers :
           \/ /\ receiver'[r].fence = receiver[r].fence /\ receiver'[r].left = receiver[r].left
              /\ receiver'[r].step = receiver[r].step
           \/ /\ receiver'[r].step \notin {"receive"}
              /\ receiver'[r].fence = receiver[r].fence
              /\ receiver'[r].step = "release" => receiver[r].step = "receive"
           \/ receiver'[r].step = "down" /\ receiver'[r].fence = 0,
         \A e \in Events : committed'[e] \in {committed[e], lease.fence}
  PROVE  LeaseInv'
<1> USE DEF ReceiverInv, LeaseInv
<1>1. lease.fence \in Nat
  BY DEF TypeOK
<1>2. FencesBounded'
  BY <1>1 DEF FencesBounded
<1>3. FenceNamesHolder'
  BY DEF FenceNamesHolder, InSession
<1>4. BeliefIsSafe'
  BY DEF BeliefIsSafe, Live
<1> QED
  BY <1>2, <1>3, <1>4

\* Time runs for the row and for what each receiver knows of it.
LEMMA TickStep == ReceiverInv /\ Tick => ReceiverInv'
<1> SUFFICES ASSUME ReceiverInv, Tick PROVE ReceiverInv'
  OBVIOUS
<1> USE DEF ReceiverInv, LeaseInv
<1>1. /\ lease' = [lease EXCEPT !.left = IF @ > 0 THEN @ - 1 ELSE 0]
      /\ receiver' = [r \in Receivers |->
           [receiver[r] EXCEPT !.left = IF @ > 0 THEN @ - 1 ELSE 0]]
      /\ UNCHANGED <<platformVars, committed>>
  BY DEF Tick
<1>2. events' \in 0..MaxEvents
  BY ChannelLeaseAssumption DEF Tick, Happens, TypeOK
<1>3. lease'.holder = lease.holder /\ lease'.fence = lease.fence
      /\ lease'.left = IF lease.left > 0 THEN lease.left - 1 ELSE 0
  BY <1>1 DEF TypeOK
<1>4. ASSUME NEW r \in Receivers
      PROVE  /\ receiver'[r].step = receiver[r].step /\ receiver'[r].fence = receiver[r].fence
             /\ receiver'[r].event = receiver[r].event
             /\ receiver'[r].left = IF receiver[r].left > 0 THEN receiver[r].left - 1 ELSE 0
  BY <1>1 DEF TypeOK
<1>5. TypeOK'
  <2>1. lease' \in [holder : Receivers \cup {Gone}, fence : Nat, left : 0..TTL]
    BY <1>1, ChannelLeaseAssumption DEF TypeOK
  <2>2. receiver' \in [Receivers -> [step : {"down", "standby", "acquire", "receive", "release"},
                                     fence : Nat, left : 0..TTL, event : Events \cup {None}]]
    <3>1. ASSUME NEW r \in Receivers
          PROVE  [receiver[r] EXCEPT !.left = IF @ > 0 THEN @ - 1 ELSE 0]
                   \in [step : {"down", "standby", "acquire", "receive", "release"},
                        fence : Nat, left : 0..TTL, event : Events \cup {None}]
      <4>1. receiver[r].left \in 0..TTL /\ TTL \in Nat
        BY ChannelLeaseAssumption DEF TypeOK
      <4>2. (IF receiver[r].left > 0 THEN receiver[r].left - 1 ELSE 0) \in 0..TTL
        BY <4>1
      <4> QED
        BY <4>2 DEF TypeOK
    <3> QED
      BY <1>1, <3>1
  <2> QED
    BY <1>1, <1>2, <2>1, <2>2 DEF TypeOK, platformVars
<1>6. FencesBounded'
  BY <1>1, <1>3, <1>4 DEF FencesBounded
<1>7. FenceNamesHolder'
  BY <1>3, <1>4 DEF FenceNamesHolder, InSession
<1>8. BeliefIsSafe'
  <2> SUFFICES ASSUME NEW r \in Receivers, Live(r)'
               PROVE  receiver'[r].fence = lease'.fence /\ receiver'[r].left <= lease'.left
    BY DEF BeliefIsSafe
  <2>1. receiver[r].left \in 0..TTL /\ lease.left \in 0..TTL /\ TTL \in Nat
    BY ChannelLeaseAssumption DEF TypeOK
  <2>2. Live(r)
    BY <1>4, <2>1 DEF Live
  <2> QED
    BY <1>3, <1>4, <2>1, <2>2 DEF BeliefIsSafe
<1> QED
  BY <1>5, <1>6, <1>7, <1>8

\* A lease is taken when nobody can believe to hold it any more.
LEMMA AcquireStep ==
  ASSUME ReceiverInv, NEW r \in Receivers, AcquireLease(r)
  PROVE  ReceiverInv'
<1> USE DEF ReceiverInv, LeaseInv
<1>1. CASE /\ Held /\ lease.holder # r
           /\ Enters(r, IF kind = "app" THEN "standby" ELSE "down")
           /\ UNCHANGED lease
  <2>1. TypeOK'
    BY <1>1 DEF TypeOK, AcquireLease, Enters, platformVars
  <2>2. LeaseInv'
    BY <1>1, QuietStep DEF TypeOK, AcquireLease, Enters
  <2> QED
    BY <2>1, <2>2
<1>2. CASE /\ ~Held \/ lease.holder = r
           /\ lease' = [holder |-> r, fence |-> lease.fence + 1, left |-> TTL]
           /\ receiver' = [receiver EXCEPT ![r] = [step |-> "receive", fence |-> lease.fence + 1,
                                                   left |-> TTL, event |-> None]]
  <2>1. receiver[r].step = "acquire" /\ UNCHANGED <<platformVars, committed, events>>
    BY DEF AcquireLease
  <2>2. TypeOK'
    BY <1>2, <2>1, ChannelLeaseAssumption DEF TypeOK, platformVars
  <2>3. lease.fence \in Nat /\ \A s \in Receivers : receiver[s].fence \in Nat
    BY DEF TypeOK
  <2>4. \A s \in Receivers \ {r} : receiver'[s] = receiver[s]
    BY <1>2 DEF TypeOK
  <2>5. receiver'[r] = [step |-> "receive", fence |-> lease.fence + 1, left |-> TTL, event |-> None]
    BY <1>2 DEF TypeOK
  <2>6. \A s \in Receivers \ {r} : receiver'[s].fence < lease'.fence
    BY <1>2, <2>3, <2>4 DEF FencesBounded
  <2>7. FencesBounded'
    <3>1. \A s \in Receivers : receiver'[s].fence <= lease'.fence
      BY <1>2, <2>3, <2>4, <2>5 DEF FencesBounded
    <3>2. \A e \in Events : committed'[e] <= lease'.fence
      BY <1>2, <2>1, <2>3 DEF FencesBounded, TypeOK
    <3> QED
      BY <3>1, <3>2 DEF FencesBounded
  <2>8. FenceNamesHolder'
    BY <1>2, <2>3, <2>4, <2>6 DEF FenceNamesHolder, TypeOK
  <2>9. ASSUME NEW s \in Receivers, s # r PROVE ~Live(s)'
    <3>1. ~Live(s)
      BY <1>2, <2>1, <2>9, ChannelLeaseAssumption
         DEF TypeOK, BeliefIsSafe, FenceNamesHolder, InSession, Live, Held
    <3> QED
      BY <2>4, <2>9, <3>1 DEF Live
  <2>10. BeliefIsSafe'
    BY <1>2, <2>5, <2>9, ChannelLeaseAssumption DEF BeliefIsSafe
  <2> QED
    BY <2>2, <2>7, <2>8, <2>10
<1> QED
  BY <1>1, <1>2 DEF AcquireLease

\* A renewal is made by the holder only.
LEMMA RenewStep ==
  ASSUME ReceiverInv, NEW r \in Receivers, RenewLease(r)
  PROVE  ReceiverInv'
<1> USE DEF ReceiverInv, LeaseInv
<1>0. /\ receiver[r].step = "receive" /\ UNCHANGED <<platformVars, committed, events>>
  BY DEF RenewLease
<1>1. CASE Enters(r, "release") /\ UNCHANGED lease
  <2>1. TypeOK'
    BY <1>0, <1>1 DEF TypeOK, Enters, platformVars
  <2>2. LeaseInv'
    BY <1>0, <1>1, QuietStep DEF TypeOK, Enters
  <2> QED
    BY <2>1, <2>2
<1>2. CASE /\ receiver[r].left > 0 /\ CheckLease(r)
           /\ lease' = [lease EXCEPT !.left = TTL]
           /\ receiver' = [receiver EXCEPT ![r].left = TTL]
  <2>1. TypeOK'
    <3>1. TTL \in 0..TTL
      BY ChannelLeaseAssumption
    <3>2. lease' \in [holder : Receivers \cup {Gone}, fence : Nat, left : 0..TTL]
      BY <1>2, <3>1 DEF TypeOK
    <3>3. receiver' \in [Receivers -> [step : {"down", "standby", "acquire", "receive", "release"},
                                       fence : Nat, left : 0..TTL, event : Events \cup {None}]]
      BY <1>2, <3>1 DEF TypeOK
    <3> QED
      BY <1>0, <3>2, <3>3 DEF TypeOK, platformVars
  <2>2. \A s \in Receivers : /\ receiver'[s].step = receiver[s].step
                             /\ receiver'[s].fence = receiver[s].fence
                             /\ receiver'[s].left = IF s = r THEN TTL ELSE receiver[s].left
    BY <1>2 DEF TypeOK
  <2>3. lease'.holder = lease.holder /\ lease'.fence = lease.fence /\ lease'.left = TTL
    BY <1>2 DEF TypeOK
  <2>4. FencesBounded' /\ FenceNamesHolder'
    BY <1>0, <2>2, <2>3 DEF FencesBounded, FenceNamesHolder, InSession
  <2>5. BeliefIsSafe'
    BY <1>0, <1>2, <2>2, <2>3, ChannelLeaseAssumption DEF BeliefIsSafe, Live, TypeOK, CheckLease
  <2> QED
    BY <2>1, <2>4, <2>5
<1> QED
  BY <1>1, <1>2 DEF RenewLease

\* A session ends, and with it what its receiver believed.
LEMMA ReleaseStep ==
  ASSUME ReceiverInv, NEW r \in Receivers, ReleaseLease(r) \/ Crash(r)
  PROVE  ReceiverInv'
<1> USE DEF ReceiverInv, LeaseInv
<1>1. PICK after \in {"standby", "down"} :
        receiver' = [receiver EXCEPT ![r] = [step |-> after, fence |-> 0, left |-> 0, event |-> None]]
  BY DEF ReleaseLease, Crash, Returns
<1>2. \/ UNCHANGED lease
      \/ lease' = [lease EXCEPT !.holder = Gone] /\ lease.holder = r
      \/ lease' = [lease EXCEPT !.left = 0] /\ receiver[r].step = "release" /\ CheckLease(r)
  BY DEF ReleaseLease, Crash
<1>3. UNCHANGED <<pushed, committed>> /\ events' \in 0..MaxEvents
  BY ChannelLeaseAssumption DEF ReleaseLease, Crash, Happens, TypeOK
<1>4. lost' \subseteq Events
  BY DEF ReleaseLease, Crash, TypeOK
<1>5. TypeOK'
  BY <1>1, <1>2, <1>3, <1>4, ChannelLeaseAssumption DEF TypeOK
<1>6. \A s \in Receivers \ {r} : receiver'[s] = receiver[s]
  BY <1>1 DEF TypeOK
<1>7. receiver'[r].step = after /\ receiver'[r].fence = 0
  BY <1>1 DEF TypeOK
<1>8. lease'.fence = lease.fence /\ lease.fence \in Nat
  BY <1>2 DEF TypeOK
<1>9. FencesBounded'
  BY <1>3, <1>6, <1>7, <1>8 DEF FencesBounded
<1>10. FenceNamesHolder'
  BY <1>2, <1>6, <1>7, <1>8 DEF FenceNamesHolder, InSession, TypeOK
<1>11. BeliefIsSafe'
  <2> SUFFICES ASSUME NEW s \in Receivers, Live(s)'
               PROVE  receiver'[s].fence = lease'.fence /\ receiver'[s].left <= lease'.left
    BY DEF BeliefIsSafe
  <2>1. s # r /\ Live(s)
    BY <1>6, <1>7 DEF Live
  <2>2. receiver[s].fence = lease.fence /\ receiver[s].left <= lease.left
    BY <2>1 DEF BeliefIsSafe
  <2>3. lease'.left = lease.left
    BY <1>2, <2>1, <2>2 DEF FenceNamesHolder, InSession, Live, CheckLease, TypeOK
  <2> QED
    BY <1>6, <1>8, <2>1, <2>2, <2>3
<1> QED
  BY <1>5, <1>9, <1>10, <1>11

\* Events are stored under the fence of the row, or not at all.
LEMMA HandleStep ==
  ASSUME ReceiverInv, NEW r \in Receivers, Handle(r)
  PROVE  /\ ReceiverInv'
         /\ \A e \in Events : committed'[e] \in {committed[e], lease.fence}
<1> USE DEF ReceiverInv
<1>0. /\ receiver[r].step = "receive" /\ receiver[r].event \in Events /\ UNCHANGED lease
  BY DEF Handle, TypeOK
<1>1. /\ committed' \in [Events -> Nat]
      /\ \A e \in Events : committed'[e] \in {committed[e], lease.fence}
  BY <1>0 DEF Handle, TypeOK, CheckLease
<1>2. \/ receiver' = [receiver EXCEPT ![r].event = None]
      \/ receiver' = [receiver EXCEPT ![r].event = None, ![r].step = "release"]
  BY DEF Handle, Acknowledge, Refuse
<1>3. pushed' \subseteq Events /\ lost' \subseteq Events
  BY <1>0 DEF Handle, Acknowledge, Refuse, TypeOK, platformVars
<1>4. events' \in 0..MaxEvents
  BY ChannelLeaseAssumption DEF Handle, Acknowledge, Happens, TypeOK
<1>5. TypeOK'
  BY <1>0, <1>1, <1>2, <1>3, <1>4 DEF TypeOK
<1>6. LeaseInv'
  BY <1>0, <1>1, <1>2, QuietStep DEF TypeOK
<1> QED
  BY <1>1, <1>5, <1>6

\* Everything else leaves the row and the sessions as they are.
LEMMA OtherStep ==
  ASSUME ReceiverInv, NEW r \in Receivers,
         ReadLease(r) \/ Start(r) \/ RunReceiver(r) \/ \E e \in Events : Deliver(r, e)
  PROVE  ReceiverInv'
<1> USE DEF ReceiverInv
<1>1. UNCHANGED <<lease, lost, committed>> /\ pushed' \subseteq Events /\ events' \in 0..MaxEvents
  BY ChannelLeaseAssumption
     DEF ReadLease, Start, RunReceiver, Deliver, Happens, TypeOK, platformVars
<1>2. \/ Enters(r, "acquire")
      \/ Enters(r, "standby")
      \/ Enters(r, "release") /\ receiver[r].step = "receive"
      \/ \E e \in Events : receiver' = [receiver EXCEPT ![r].event = e]
  BY DEF ReadLease, Start, RunReceiver, Deliver
<1>3. TypeOK'
  BY <1>1, <1>2 DEF TypeOK, Enters
<1>4. LeaseInv'
  BY <1>1, <1>2, QuietStep DEF TypeOK, Enters
<1> QED
  BY <1>3, <1>4

LEMMA PlatformStep ==
  ASSUME ReceiverInv, (\E e \in Events : Push(e) \/ Miss(e)) \/ UNCHANGED vars
  PROVE  ReceiverInv' /\ UNCHANGED committed
<1> USE DEF ReceiverInv
<1>1. UNCHANGED <<lease, receiver, committed, events>>
  BY DEF Push, Miss, vars
<1>2. pushed' \subseteq Events /\ lost' \subseteq Events
  BY DEF Push, Miss, vars, platformVars, TypeOK
<1>3. TypeOK' /\ LeaseInv'
  BY <1>1, <1>2, QuietStep DEF TypeOK
<1> QED
  BY <1>1, <1>3

LEMMA ReceiverKeeps == ReceiverInv /\ [Next]_vars => ReceiverInv'
<1> SUFFICES ASSUME ReceiverInv, [Next]_vars PROVE ReceiverInv'
  OBVIOUS
<1> QED
  BY TickStep, AcquireStep, RenewStep, ReleaseStep, HandleStep, OtherStep, PlatformStep
     DEF Next, ReceiverStep

LEMMA ReceiverAlways == Spec => []ReceiverInv
  BY ReceiverStart, ReceiverKeeps, PTL DEF Spec, Init

\* Every variable keeps its type, for any number of receivers and events.
THEOREM TypeCorrect == Spec => []TypeOK
<1>1. ReceiverInv => TypeOK
  BY DEF ReceiverInv
<1> QED
  BY <1>1, ReceiverAlways, PTL

\* Two processes never both believe that they hold the channel: the lease of
\* channel.go is exclusive although each receiver goes by what it last read.
THEOREM Exclusive == Spec => []OneReceiver
<1>1. ReceiverInv => OneReceiver
  BY DEF ReceiverInv, LeaseInv, OneReceiver, FenceNamesHolder, BeliefIsSafe, InSession, Live
<1> QED
  BY <1>1, ReceiverAlways, PTL

\* Once a receiver stored an event, nothing is stored for an earlier holder.
THEOREM FencedEvents == Spec => EventsFollowTheFence
<1> DEFINE Follows == \A e, f \in Events :
      committed'[e] # committed[e] => committed'[e] >= committed[f]
<1>1. ReceiverInv /\ [Next]_vars => [Follows]_vars
  <2> SUFFICES ASSUME ReceiverInv, [Next]_vars, NEW e \in Events, NEW f \in Events,
                      committed'[e] # committed[e]
               PROVE  committed'[e] >= committed[f]
    OBVIOUS
  <2>1. committed[f] <= lease.fence /\ committed[f] \in Nat /\ lease.fence \in Nat
    BY DEF ReceiverInv, LeaseInv, FencesBounded, TypeOK
  <2>2. PICK r \in Receivers : Handle(r)
    BY PlatformStep DEF Next, ReceiverStep, Tick, Start, ReadLease, AcquireLease, RenewLease,
       ReleaseLease, Deliver, RunReceiver, Crash
  <2>3. committed'[e] = lease.fence
    BY <2>2, HandleStep
  <2> QED
    BY <2>1, <2>3
<1> QED
  BY <1>1, ReceiverAlways, PTL DEF Spec, EventsFollowTheFence

LEMMA LeaseStart == MCInit => ReceiverInv
BY ReceiverStart DEF MCInit

LEMMA LeaseStep == ReceiverInv /\ [MCNext]_all => ReceiverInv'
<1>1. [MCNext]_all => [Next]_vars
  BY DEF MCNext, all, Receiving, Reading, Serving, leaseVars, vars, platformVars
<1> QED
  BY <1>1, ReceiverKeeps

----------------------------------------------------------------------------
(* The service and its modules.                                            *)

Entry == [epoch : Nat, active : BOOLEAN, stopping : BOOLEAN, completed : BOOLEAN,
          blocked : BOOLEAN, waiting : BOOLEAN]
WorkerRecord == [module : Service!Modules, epoch : Nat, step : {"launched", "runs", "ended"},
                 cancelled : BOOLEAN, result : {"none", "nil", "error", "denied"}]
Statuses == {"configured", "running", "paused", "stopped", "degraded"}

ServiceTypes ==
  /\ process \in [Processes -> [step : {"down", "locked", "up", "ending"}, id : 0..MaxGenerations]]
  /\ published \in 0..MaxGenerations /\ request \in 0..MaxGenerations
  /\ caller \in [step : {"none", "read", "waits", "done"}, target : 0..MaxGenerations]
  /\ DOMAIN entries \subseteq Service!Modules /\ entries \in [DOMAIN entries -> Entry]
  /\ workers \subseteq WorkerRecord
  /\ status \in [Service!Modules -> Statuses]
  /\ config \in [version : Nat, enabled : SUBSET Service!Modules]
  /\ paused \subseteq Service!Modules
  /\ generations \in 0..MaxGenerations

\* One process holds the lock, and it is the youngest one.
Locked == \A p \in Service!Holder : process[p].id = generations /\ \A q \in Service!Holder : p = q

\* A worker's entry is there and active until its result has been taken.
Watched == \A w \in workers : w.module \in DOMAIN entries /\ entries[w.module].active

\* An observation never goes back to an earlier generation.
Observed ==
  /\ published <= generations
  /\ caller.step # "none" => caller.target <= published

ServiceInv ==
  /\ ServiceTypes /\ Locked /\ Watched /\ Observed
  /\ Service!OneWorkerPerModule /\ Service!StopEndsTheGeneration

LEMMA InitService == Service!Init => ServiceInv
<1> SUFFICES ASSUME Service!Init PROVE ServiceInv
  OBVIOUS
<1>1. Service!Holder = {}
  BY DEF Service!Init, Service!Holder, Service!Down
<1>2. entries = << >> /\ DOMAIN << >> = {} /\ << >> \in [{} -> Entry]
  BY DEF Service!Init
<1>3. ServiceTypes
  BY ChannelsAssumption, <1>2
     DEF Service!Init, ServiceTypes, Service!Down, Service!ServiceAssumption, Statuses
<1> QED
  BY ChannelsAssumption, <1>1, <1>3
     DEF Service!Init, ServiceInv, Locked, Watched, Observed, Service!OneWorkerPerModule,
     Service!StopEndsTheGeneration, Service!ServiceAssumption

\* Cancelling workers changes neither whose they are nor how many there are.
LEMMA CancelKeeps ==
  ASSUME ServiceTypes, NEW which \in SUBSET Service!Modules
  PROVE  /\ {Service!Cancelled(w, which) : w \in workers} \subseteq WorkerRecord
         /\ \A w \in workers : Service!Cancelled(w, which).module = w.module
<1>1. ASSUME NEW w \in WorkerRecord
      PROVE  [w EXCEPT !.cancelled = TRUE] \in WorkerRecord
             /\ [w EXCEPT !.cancelled = TRUE].module = w.module
  BY DEF WorkerRecord
<1> QED
  BY <1>1 DEF ServiceTypes, Service!Cancelled

\* The map of entries after the supervisor let changed modules go.
LEMMA KeptEntries ==
  ASSUME ServiceTypes
  PROVE  /\ Service!Kept \in [DOMAIN Service!Kept -> Entry] /\ DOMAIN Service!Kept \subseteq DOMAIN entries
         /\ \A m \in DOMAIN entries : entries[m].active => m \in DOMAIN Service!Kept
         /\ \A m \in DOMAIN Service!Kept : Service!Kept[m].active = entries[m].active
<1>1. Service!Changed \subseteq DOMAIN entries
  BY DEF Service!Changed
<1>2. DOMAIN Service!Kept = {k \in DOMAIN entries : k \notin Service!Changed \/ entries[k].active}
  BY DEF Service!Kept
<1>3. ASSUME NEW m \in DOMAIN Service!Kept
      PROVE  Service!Kept[m] \in Entry /\ Service!Kept[m].active = entries[m].active
  <2>1. Service!Kept[m] = [entries[m] EXCEPT !.stopping = entries[m].stopping \/ m \in Service!Changed]
    BY <1>2 DEF Service!Kept
  <2>2. entries[m] \in Entry
    BY <1>2 DEF ServiceTypes
  <2>3. ASSUME NEW r \in Entry, NEW v \in BOOLEAN
        PROVE  [r EXCEPT !.stopping = v] \in Entry /\ [r EXCEPT !.stopping = v].active = r.active
    BY DEF Entry
  <2>4. (entries[m].stopping \/ m \in Service!Changed) \in BOOLEAN
    OBVIOUS
  <2> QED
    BY <2>1, <2>2, <2>3, <2>4
<1>4. Service!Kept \in [DOMAIN Service!Kept -> Entry]
  BY <1>3 DEF Service!Kept
<1> QED
  BY <1>2, <1>3, <1>4

LEMMA ReconcileKeeps ==
  ASSUME ServiceInv, Service!reconcile
  PROVE  /\ DOMAIN entries' \subseteq Service!Modules /\ entries' \in [DOMAIN entries' -> Entry]
         /\ workers' \subseteq WorkerRecord
         /\ Watched' /\ Service!OneWorkerPerModule'
<1> DEFINE launched == {m \in Service!Modules : Service!MayLaunch(m)}
           known == DOMAIN Service!Kept \cup config.enabled
           entry(m) == IF m \in DOMAIN Service!Kept THEN Service!Kept[m] ELSE Service!NewEntry(config.version)
<1>0. ServiceTypes /\ Watched /\ Service!OneWorkerPerModule
  BY DEF ServiceInv
<1>1. /\ entries' = [m \in known |->
                       IF m \in launched
                       THEN [entry(m) EXCEPT !.active = TRUE, !.stopping = FALSE, !.completed = FALSE]
                       ELSE entry(m)]
      /\ workers' = {Service!Cancelled(w, Service!Changed) : w \in workers}
                    \cup {Service!Worker(m, entry(m).epoch) : m \in launched}
  BY DEF Service!reconcile
<1>2. launched \subseteq known /\ known \subseteq Service!Modules
  BY <1>0, KeptEntries DEF Service!MayLaunch, ServiceTypes
<1>3. ASSUME NEW m \in known PROVE entry(m) \in Entry
  BY <1>0, <1>3, KeptEntries DEF ServiceTypes, Service!NewEntry, Entry
<1>4. ASSUME NEW r \in Entry
      PROVE  /\ [r EXCEPT !.active = TRUE, !.stopping = FALSE, !.completed = FALSE] \in Entry
             /\ [r EXCEPT !.active = TRUE, !.stopping = FALSE, !.completed = FALSE].active = TRUE
  BY DEF Entry
<1>5. DOMAIN entries' = known
  BY <1>1
<1>6. entries' \in [known -> Entry]
  <2>1. ASSUME NEW m \in known
        PROVE  (IF m \in launched
                THEN [entry(m) EXCEPT !.active = TRUE, !.stopping = FALSE, !.completed = FALSE]
                ELSE entry(m)) \in Entry
    <3>1. entry(m) \in Entry
      BY <1>3
    <3> HIDE DEF entry
    <3> QED
      BY <3>1, <1>4
  <2> HIDE DEF entry, known, launched
  <2> QED
    BY <1>1, <2>1
<1>7. Service!Changed \in SUBSET Service!Modules
  BY <1>0 DEF Service!Changed, ServiceTypes
<1>8. ASSUME NEW w \in workers' PROVE
        \/ \E v \in workers : w = Service!Cancelled(v, Service!Changed) /\ w.module = v.module
        \/ \E m \in launched : w = Service!Worker(m, entry(m).epoch) /\ w.module = m
  <2>1. CASE \E v \in workers : w = Service!Cancelled(v, Service!Changed)
    BY <1>0, <1>7, <2>1, CancelKeeps
  <2>2. CASE \E m \in launched : w = Service!Worker(m, entry(m).epoch)
    <3>1. PICK m \in launched : w = Service!Worker(m, entry(m).epoch)
      BY <2>2
    <3>2. w.module = m
      BY <3>1 DEF Service!Worker
    <3> QED
      BY <3>1, <3>2
  <2> HIDE DEF entry, launched
  <2> QED
    BY <1>1, <2>1, <2>2
<1>9. \A v \in workers : v.module \in known \ launched /\ Service!Kept[v.module].active
                         /\ v.module \in DOMAIN Service!Kept
  BY <1>0, KeptEntries DEF Watched, Service!MayLaunch
<1>10. workers' \subseteq WorkerRecord
  <2>1. ASSUME NEW m \in launched PROVE Service!Worker(m, entry(m).epoch) \in WorkerRecord
    <3>1. entry(m) \in Entry /\ m \in Service!Modules
      BY <1>2, <1>3
    <3> HIDE DEF entry
    <3>2. entry(m).epoch \in Nat
      BY <3>1 DEF Entry
    <3> QED
      BY <3>1, <3>2 DEF Service!Worker, WorkerRecord
  <2>2. {Service!Cancelled(w, Service!Changed) : w \in workers} \subseteq WorkerRecord
    BY <1>0, <1>7, CancelKeeps
  <2> HIDE DEF entry, launched
  <2> QED
    BY <1>1, <2>1, <2>2
<1>11. Watched'
  <2> SUFFICES ASSUME NEW w \in workers' PROVE w.module \in known /\ entries'[w.module].active
    BY <1>5 DEF Watched
  <2>1. CASE \E v \in workers : w = Service!Cancelled(v, Service!Changed) /\ w.module = v.module
    <3>1. PICK v \in workers : w.module = v.module
      BY <2>1
    <3>2. w.module \in known \ launched /\ Service!Kept[w.module].active /\ w.module \in DOMAIN Service!Kept
      BY <1>9, <3>1
    <3>3. entries'[w.module] = Service!Kept[w.module]
      BY <1>1, <3>2
    <3> QED
      BY <3>2, <3>3
  <2>2. CASE \E m \in launched : w = Service!Worker(m, entry(m).epoch) /\ w.module = m
    <3>1. PICK m \in launched : w.module = m
      BY <2>2
    <3>2. entry(m) \in Entry /\ m \in known
      BY <1>2, <1>3
    <3>3. entries'[m] = [entry(m) EXCEPT !.active = TRUE, !.stopping = FALSE, !.completed = FALSE]
      BY <1>1, <3>2
    <3> HIDE DEF entry, launched, known
    <3>4. entries'[m].active = TRUE
      BY <1>4, <3>2, <3>3
    <3> QED
      BY <3>1, <3>2, <3>4
  <2> HIDE DEF entry, launched, known
  <2> QED
    BY <1>8, <2>1, <2>2
<1>12. Service!OneWorkerPerModule'
  <2> HIDE DEF entry, launched, known
  <2> SUFFICES ASSUME NEW v \in workers', NEW w \in workers', v.module = w.module PROVE v = w
    BY DEF Service!OneWorkerPerModule
  <2> QED
    BY <1>0, <1>8, <1>9 DEF Service!OneWorkerPerModule
<1> HIDE DEF entry, launched, known
<1> QED
  BY <1>2, <1>5, <1>6, <1>10, <1>11, <1>12

\* Holding the lock changes only with Acquire, Release and Crash.
LEMMA SameHolder ==
  ASSUME Locked, Observed, Service!StopEndsTheGeneration, ServiceTypes,
         UNCHANGED <<published, caller, generations>>,
         \A p \in Processes : process'[p].id = process[p].id
                           /\ (process'[p].step = "down" <=> process[p].step = "down")
  PROVE  Locked' /\ Observed' /\ Service!StopEndsTheGeneration'
<1>1. Service!Holder' = Service!Holder
  BY DEF Service!Holder
<1> QED
  BY <1>1 DEF Locked, Observed, Service!StopEndsTheGeneration, Service!Holder

\* One worker is replaced by a later state of itself.
LEMMA StepKeeps ==
  ASSUME ServiceInv, NEW w \in workers, NEW to \in WorkerRecord, to.module = w.module,
         Service!Step(w, to), UNCHANGED entries
  PROVE  workers' \subseteq WorkerRecord /\ Watched' /\ Service!OneWorkerPerModule'
BY DEF ServiceInv, ServiceTypes, Service!Step, Watched, Service!OneWorkerPerModule

LEMMA CancelAllKeeps ==
  ASSUME ServiceInv, workers' = {Service!Cancelled(w, Service!Modules) : w \in workers},
         UNCHANGED entries
  PROVE  workers' \subseteq WorkerRecord /\ Watched' /\ Service!OneWorkerPerModule'
BY CancelKeeps DEF ServiceInv, ServiceTypes, Watched, Service!OneWorkerPerModule

LEMMA NextService == ServiceInv /\ [Service!Next]_(Service!vars) => ServiceInv'
<1> SUFFICES ASSUME ServiceInv, [Service!Next]_(Service!vars) PROVE ServiceInv'
  OBVIOUS
<1>0. ServiceTypes /\ Locked /\ Watched /\ Observed /\ Service!OneWorkerPerModule /\ Service!StopEndsTheGeneration
  BY DEF ServiceInv
<1>a. MaxGenerations \in Nat
  BY ChannelsAssumption DEF Service!ServiceAssumption
<1>b. \A w \in workers : w \in WorkerRecord
  BY <1>0 DEF ServiceTypes
<1>1. ASSUME NEW p \in Processes, Service!Acquire(p) PROVE ServiceInv'
  <2>1. process' = [process EXCEPT ![p] = [step |-> "locked", id |-> generations + 1]]
        /\ generations' = generations + 1 /\ generations < MaxGenerations /\ Service!Holder = {}
        /\ UNCHANGED <<published, request, caller, entries, workers, status, paused, config>>
    BY <1>1 DEF Service!Acquire, Service!files, Service!database
  <2>2. generations' \in 0..MaxGenerations /\ generations + 1 \in 0..MaxGenerations
    BY <1>0, <1>a, <2>1 DEF ServiceTypes
  <2>3. ServiceTypes'
    BY <1>0, <2>1, <2>2 DEF ServiceTypes
  <2>4. \A q \in Processes : q # p => process'[q] = process[q] /\ process[q].step = "down"
    BY <1>0, <2>1 DEF ServiceTypes, Service!Holder
  <2>5. process'[p].id = generations + 1
    BY <1>0, <2>1 DEF ServiceTypes
  <2>6. Service!Holder' \subseteq {p}
    BY <2>4 DEF Service!Holder
  <2>7. Locked' /\ Service!StopEndsTheGeneration' /\ Observed'
    BY <1>0, <1>a, <2>1, <2>5, <2>6
       DEF Locked, Service!StopEndsTheGeneration, Observed, ServiceTypes
  <2>8. Watched' /\ Service!OneWorkerPerModule'
    BY <1>0, <2>1 DEF Watched, Service!OneWorkerPerModule
  <2> QED
    BY <2>3, <2>7, <2>8 DEF ServiceInv
<1>2. ASSUME NEW p \in Processes, Service!Publish(p) PROVE ServiceInv'
  <2>1. published' = process[p].id /\ p \in Service!Holder
        /\ UNCHANGED <<process, request, caller, entries, workers, status, paused, config, generations>>
    BY <1>2 DEF Service!Publish, Service!database, Service!counters, Service!Holder
  <2>2. published' = generations
    BY <1>0, <2>1 DEF Locked
  <2>3. ServiceTypes'
    BY <1>0, <2>1, <2>2 DEF ServiceTypes
  <2>4. Locked' /\ Service!StopEndsTheGeneration' /\ Watched' /\ Service!OneWorkerPerModule'
    BY <1>0, <2>1
       DEF Locked, Service!StopEndsTheGeneration, Watched, Service!OneWorkerPerModule,
           Service!Holder
  <2>5. Observed'
    BY <1>0, <1>a, <2>1, <2>2 DEF Observed, ServiceTypes
  <2> QED
    BY <2>3, <2>4, <2>5 DEF ServiceInv
<1>3. ASSUME NEW p \in Processes, Service!Tick(p) PROVE ServiceInv'
  <2>1. UNCHANGED <<published, request, caller, status, paused, config, generations>>
    BY <1>3 DEF Service!Tick, Service!files, Service!database, Service!counters
  <2>2. process[p].step \in {"locked", "up"}
    BY <1>3 DEF Service!Tick
  <2>3. \E s \in {"up", "ending"} : process' = [process EXCEPT ![p].step = s]
    BY <1>3 DEF Service!Tick
  <2>4. /\ \A q \in Processes : process'[q].id = process[q].id
                            /\ (process'[q].step = "down" <=> process[q].step = "down")
        /\ process' \in [Processes -> [step : {"down", "locked", "up", "ending"}, id : 0..MaxGenerations]]
    BY <1>0, <2>2, <2>3 DEF ServiceTypes
  <2>5. Locked' /\ Observed' /\ Service!StopEndsTheGeneration'
    BY <1>0, <2>1, <2>4, SameHolder
  <2>6. /\ DOMAIN entries' \subseteq Service!Modules /\ entries' \in [DOMAIN entries' -> Entry]
        /\ workers' \subseteq WorkerRecord /\ Watched' /\ Service!OneWorkerPerModule'
    <3>1. CASE Service!reconcile
      BY <3>1, ReconcileKeeps
    <3>2. CASE workers' = {Service!Cancelled(w, Service!Modules) : w \in workers} /\ UNCHANGED entries
      BY <1>0, <3>2, CancelAllKeeps DEF ServiceTypes
    <3> QED
      BY <1>3, <3>1, <3>2 DEF Service!Tick
  <2>7. ServiceTypes'
    BY <1>0, <2>1, <2>4, <2>6 DEF ServiceTypes
  <2> QED
    BY <2>5, <2>6, <2>7 DEF ServiceInv
<1>4. ASSUME NEW p \in Processes, NEW w \in workers, Service!Result(p, w) PROVE ServiceInv'
  <2>1. workers' = workers \ {w}
        /\ UNCHANGED <<process, published, request, caller, status, paused, config, generations>>
    BY <1>4 DEF Service!Result, Service!files, Service!database, Service!counters
  <2>2. w.module \in DOMAIN entries /\ w.module \in Service!Modules /\ DOMAIN entries \subseteq Service!Modules
    BY <1>0, <1>b DEF Watched, ServiceTypes
  <2>3. \A v \in workers' : v.module # w.module
    BY <2>1, <1>0 DEF Service!OneWorkerPerModule
  <2>4. /\ DOMAIN entries' \subseteq DOMAIN entries /\ entries' \in [DOMAIN entries' -> Entry]
        /\ \A m \in DOMAIN entries : m # w.module => m \in DOMAIN entries' /\ entries'[m] = entries[m]
    <3>1. CASE entries[w.module].stopping
      <4>1. entries' = [m \in DOMAIN entries \ {w.module} |-> entries[m]]
        BY <1>4, <2>2, <3>1 DEF Service!Result, Service!Restrict
      <4> QED
        BY <1>0, <4>1 DEF ServiceTypes
    <3>2. CASE ~entries[w.module].stopping
      <4>1. entries' = [entries EXCEPT ![w.module] = Service!Taken(@, w.result)]
        BY <1>4, <2>2, <3>2 DEF Service!Result
      <4>2. ASSUME NEW r \in Entry, NEW x PROVE Service!Taken(r, x) \in Entry
        BY DEF Entry, Service!Taken
      <4>3. Service!Taken(entries[w.module], w.result) \in Entry
        BY <1>0, <2>2, <4>2 DEF ServiceTypes
      <4> QED
        BY <1>0, <2>2, <4>1, <4>3 DEF ServiceTypes
    <3> QED
      BY <3>1, <3>2
  <2>5. ServiceTypes'
    BY <1>0, <2>1, <2>2, <2>4 DEF ServiceTypes
  <2>6. Watched' /\ Service!OneWorkerPerModule'
    BY <1>0, <2>1, <2>3, <2>4 DEF Watched, Service!OneWorkerPerModule
  <2>7. Locked' /\ Observed' /\ Service!StopEndsTheGeneration'
    BY <1>0, <2>1, SameHolder
  <2> QED
    BY <2>5, <2>6, <2>7 DEF ServiceInv
<1>5. ASSUME NEW m \in Service!Modules, Service!RetryDue(m) PROVE ServiceInv'
  <2>1. m \in DOMAIN entries /\ entries' = [entries EXCEPT ![m] = [entries[m] EXCEPT !.waiting = FALSE]]
        /\ UNCHANGED <<process, published, request, caller, workers, status, paused, config, generations>>
    BY <1>5 DEF Service!RetryDue, Service!files, Service!database, Service!counters
  <2>2. ASSUME NEW r \in Entry PROVE [r EXCEPT !.waiting = FALSE] \in Entry
                                     /\ [r EXCEPT !.waiting = FALSE].active = r.active
    BY DEF Entry
  <2>3. DOMAIN entries' = DOMAIN entries /\ entries[m] \in Entry
    BY <1>0, <2>1 DEF ServiceTypes
  <2>4. \A k \in DOMAIN entries : entries'[k] \in Entry /\ entries'[k].active = entries[k].active
    BY <1>0, <2>1, <2>2, <2>3 DEF ServiceTypes
  <2>5. ServiceTypes'
    BY <1>0, <2>1, <2>3, <2>4 DEF ServiceTypes
  <2>6. Watched' /\ Service!OneWorkerPerModule'
    BY <1>0, <2>1, <2>3, <2>4 DEF Watched, Service!OneWorkerPerModule
  <2>7. Locked' /\ Observed' /\ Service!StopEndsTheGeneration'
    BY <1>0, <2>1, SameHolder
  <2> QED
    BY <2>5, <2>6, <2>7 DEF ServiceInv
<1>6. ASSUME NEW p \in Processes, Service!Terminate(p) PROVE ServiceInv'
  <2>1. process' = [process EXCEPT ![p].step = "ending"] /\ process[p].step \in {"locked", "up"}
        /\ workers' = {Service!Cancelled(w, Service!Modules) : w \in workers}
        /\ UNCHANGED <<published, request, caller, entries, status, paused, config, generations>>
    BY <1>6 DEF Service!Terminate, Service!files, Service!database
  <2>2. /\ \A q \in Processes : process'[q].id = process[q].id
                            /\ (process'[q].step = "down" <=> process[q].step = "down")
        /\ process' \in [Processes -> [step : {"down", "locked", "up", "ending"}, id : 0..MaxGenerations]]
    BY <1>0, <2>1 DEF ServiceTypes
  <2>3. Locked' /\ Observed' /\ Service!StopEndsTheGeneration'
    BY <1>0, <2>1, <2>2, SameHolder
  <2>4. workers' \subseteq WorkerRecord /\ Watched' /\ Service!OneWorkerPerModule'
    BY <2>1, CancelAllKeeps
  <2>5. ServiceTypes'
    BY <1>0, <2>1, <2>2, <2>4 DEF ServiceTypes
  <2> QED
    BY <2>3, <2>4, <2>5 DEF ServiceInv
<1>7. ASSUME NEW p \in Processes, Service!Release(p) \/ Service!Crash(p) PROVE ServiceInv'
  <2>1. /\ process' = [process EXCEPT ![p] = Service!Down] /\ workers' = {} /\ entries' = << >> /\ p \in Service!Holder
        /\ UNCHANGED <<request, caller, status, paused, config, generations>>
        /\ published' \in {published, process[p].id}
    BY <1>7
       DEF Service!Release, Service!Crash, Service!files, Service!database, Service!counters,
           Service!Holder
  <2>2. DOMAIN << >> = {} /\ << >> \in [{} -> Entry]
    OBVIOUS
  <2>3. published' \in 0..MaxGenerations /\ published <= published' /\ published' <= generations
    BY <1>0, <1>a, <2>1 DEF Locked, Observed, ServiceTypes
  <2>4. process' \in [Processes -> [step : {"down", "locked", "up", "ending"}, id : 0..MaxGenerations]]
    BY <1>0, <1>a, <2>1 DEF ServiceTypes, Service!Down
  <2>5. ServiceTypes'
    BY <1>0, <2>1, <2>2, <2>3, <2>4 DEF ServiceTypes
  <2>6. Service!Holder' = {}
    BY <1>0, <2>1, <2>4 DEF Locked, Service!Holder, Service!Down, ServiceTypes
  <2> QED
    BY <1>0, <1>a, <2>1, <2>3, <2>5, <2>6
       DEF ServiceInv, Locked, Observed, Service!StopEndsTheGeneration, Watched,
       Service!OneWorkerPerModule, ServiceTypes
<1>8. ASSUME NEW w \in workers,
             Service!Begin(w) \/ Service!Stopped(w) \/ Service!stop(w) \/ Service!Fails(w) \/ Service!emit(w)
      PROVE  ServiceInv'
  <2>1. UNCHANGED <<process, published, request, caller, entries, paused, config, generations>>
    BY <1>8
       DEF Service!Begin, Service!Stopped, Service!stop, Service!Fails, Service!emit, Service!files,
           Service!database, Service!counters
  <2>2. w \in WorkerRecord /\ w.module \in Service!Modules
    BY <1>b DEF WorkerRecord
  <2>3. status' \in [Service!Modules -> Statuses]
    <3>1. ASSUME NEW v \in Statuses
          PROVE [status EXCEPT ![w.module] = v] \in [Service!Modules -> Statuses]
      BY <1>0, <2>2 DEF ServiceTypes
    <3> QED
      BY <1>0, <1>8, <3>1
         DEF Service!Begin, Service!Stopped, Service!stop, Service!Fails, Service!emit,
             Service!SetStatus, Service!database, ServiceTypes, Statuses
  <2>4. ASSUME NEW r \in {"nil", "error", "denied"}
        PROVE  Service!Ended(w, r) \in WorkerRecord /\ Service!Ended(w, r).module = w.module
    BY <2>2 DEF Service!Ended, WorkerRecord
  <2>5. [w EXCEPT !.step = "runs"] \in WorkerRecord /\ [w EXCEPT !.step = "runs"].module = w.module
    BY <2>2 DEF WorkerRecord
  <2>6. workers' \subseteq WorkerRecord /\ Watched' /\ Service!OneWorkerPerModule'
    <3>1. CASE UNCHANGED workers
      BY <1>0, <2>1, <3>1 DEF ServiceTypes, Watched, Service!OneWorkerPerModule
    <3>2. CASE \E to \in WorkerRecord : to.module = w.module /\ Service!Step(w, to)
      BY <2>1, <3>2, StepKeeps
    <3> QED
      BY <1>8, <2>4, <2>5, <3>1, <3>2
         DEF Service!Begin, Service!Stopped, Service!stop, Service!Fails, Service!emit
  <2>7. Locked' /\ Observed' /\ Service!StopEndsTheGeneration'
    BY <1>0, <2>1, SameHolder
  <2>8. ServiceTypes'
    BY <1>0, <2>1, <2>3, <2>6 DEF ServiceTypes
  <2> QED
    BY <2>6, <2>7, <2>8 DEF ServiceInv
<1>9. ASSUME NEW m \in Service!Modules, NEW k, NEW v \in {"paused", "running", "stopped"},
             Service!Control(m, k, v)
      PROVE  ServiceInv'
  <2>1. /\ UNCHANGED <<process, published, request, caller, entries, workers, config, generations>>
        /\ status' = [status EXCEPT ![m] = v]
        /\ paused' \subseteq Service!Modules
    BY <1>0, <1>9 DEF Service!Control, Service!files, Service!SetStatus, ServiceTypes
  <2>2. ServiceTypes'
    BY <1>0, <2>1 DEF ServiceTypes, Statuses
  <2>3. Locked' /\ Observed' /\ Service!StopEndsTheGeneration'
    BY <1>0, <2>1, SameHolder
  <2> QED
    BY <1>0, <2>1, <2>2, <2>3 DEF ServiceInv, Watched, Service!OneWorkerPerModule
<1>10. ASSUME Service!Apply \/ \E m \in Service!Modules : Service!Disable(m) PROVE ServiceInv'
  <2>1. UNCHANGED <<process, published, request, caller, entries, workers, status, paused, generations>>
    BY <1>10 DEF Service!Apply, Service!Disable, Service!files
  <2>2. config' \in [version : Nat, enabled : SUBSET Service!Modules]
    <3>1. config \in [version : Nat, enabled : SUBSET Service!Modules]
      BY <1>0 DEF ServiceTypes
    <3> QED
      BY <1>10, <3>1 DEF Service!Apply, Service!Disable
  <2>3. ServiceTypes'
    BY <1>0, <2>1, <2>2 DEF ServiceTypes
  <2>4. Locked' /\ Observed' /\ Service!StopEndsTheGeneration'
    BY <1>0, <2>1, SameHolder
  <2> QED
    BY <1>0, <2>1, <2>3, <2>4 DEF ServiceInv, Watched, Service!OneWorkerPerModule
<1>11. ASSUME Service!StopRead \/ Service!StopRequest \/ Service!StopWait PROVE ServiceInv'
  <2>1. UNCHANGED <<process, published, entries, workers, status, paused, config, generations>>
    BY <1>11
       DEF Service!StopRead, Service!StopRequest, Service!StopWait, Service!database,
           Service!counters
  <2>2. caller' \in [step : {"none", "read", "waits", "done"}, target : 0..MaxGenerations]
        /\ request' \in 0..MaxGenerations
    <3>1. ASSUME NEW c \in [step : {"none", "read", "waits", "done"}, target : 0..MaxGenerations]
          PROVE  [c EXCEPT !.step = "waits"] \in [step : {"none", "read", "waits", "done"}, target : 0..MaxGenerations]
                 /\ [c EXCEPT !.step = "done"] \in [step : {"none", "read", "waits", "done"}, target : 0..MaxGenerations]
                 /\ c.target \in 0..MaxGenerations
      OBVIOUS
    <3>2. caller \in [step : {"none", "read", "waits", "done"}, target : 0..MaxGenerations]
          /\ request \in 0..MaxGenerations /\ published \in 0..MaxGenerations
      BY <1>0 DEF ServiceTypes
    <3>3. CASE Service!StopRead
      BY <3>2, <3>3 DEF Service!StopRead
    <3>4. CASE Service!StopRequest
      <4>1. request' = caller.target /\ caller' = [caller EXCEPT !.step = "waits"]
        BY <3>4 DEF Service!StopRequest
      <4> QED
        BY <3>1, <3>2, <4>1
    <3>5. CASE Service!StopWait
      <4>1. request' = request /\ caller' = [caller EXCEPT !.step = "done"]
        BY <3>5 DEF Service!StopWait
      <4> QED
        BY <3>1, <3>2, <4>1
    <3> QED
      BY <1>11, <3>3, <3>4, <3>5
  <2>3. ServiceTypes'
    BY <1>0, <2>1, <2>2 DEF ServiceTypes
  <2>4. Locked' /\ Watched' /\ Service!OneWorkerPerModule'
    BY <1>0, <2>1 DEF Locked, Watched, Service!OneWorkerPerModule, Service!Holder
  <2>5. Observed' /\ Service!StopEndsTheGeneration'
    <3>1. CASE Service!StopRead
      <4>1. caller' = [step |-> "read", target |-> published]
        BY <3>1 DEF Service!StopRead
      <4>2. published \in Nat
        BY <1>0, <1>a DEF ServiceTypes
      <4> QED
        BY <1>0, <2>1, <4>1, <4>2 DEF Observed, Service!StopEndsTheGeneration
    <3>2. CASE Service!StopRequest
      <4>1. caller'.step = "waits" /\ caller'.target = caller.target
        BY <1>0, <3>2 DEF Service!StopRequest, ServiceTypes
      <4> QED
        BY <1>0, <2>1, <3>2, <4>1 DEF Service!StopRequest, Observed, Service!StopEndsTheGeneration
    <3>3. CASE Service!StopWait
      <4>1. caller'.step = "done" /\ caller'.target = caller.target /\ caller.step = "waits"
        BY <1>0, <3>3 DEF Service!StopWait, ServiceTypes
      <4>2. Service!Holder' = Service!Holder /\ Service!Holder \subseteq Processes
        BY <2>1 DEF Service!Holder
      <4>3. \A p \in Service!Holder : process[p].id # caller.target
        BY <1>0, <3>3, <4>1 DEF Service!StopWait, Service!Gone, Locked, Observed, ServiceTypes
      <4> QED
        BY <1>0, <2>1, <4>1, <4>2, <4>3 DEF Observed, Service!StopEndsTheGeneration
    <3> QED
      BY <1>11, <3>1, <3>2, <3>3
  <2> QED
    BY <2>3, <2>4, <2>5 DEF ServiceInv
<1>12. ASSUME UNCHANGED Service!vars PROVE ServiceInv'
  BY <1>0, <1>12
     DEF Service!vars, ServiceInv, ServiceTypes, Locked, Watched, Observed,
         Service!OneWorkerPerModule,
     Service!StopEndsTheGeneration, Service!Holder
<1> QED
  BY <1>1, <1>2, <1>3, <1>4, <1>5, <1>6, <1>7, <1>8, <1>9, <1>10, <1>11, <1>12 DEF Service!Next

LEMMA ServiceStart == MCInit => ServiceInv
BY InitService DEF MCInit

LEMMA ServiceStep == ServiceInv /\ [MCNext]_all => ServiceInv'
<1>1. [MCNext]_all => [Service!Next]_(Service!vars)
  BY DEF MCNext, all, Receiving, Reading, Serving, serviceVars, Service!vars
<1> QED
  BY <1>1, NextService

LEMMA ServiceTyped == ServiceInv => Service!TypeOK
<1> SUFFICES ASSUME ServiceInv PROVE Service!TypeOK
  OBVIOUS
<1>1. Cardinality({}) = 0 /\ \A x : Cardinality({x}) = 1
  BY FS_EmptySet, FS_Singleton
<1>2. Cardinality(Service!Holder) <= 1
  <2>1. CASE Service!Holder = {}
    BY <1>1, <2>1
  <2>2. CASE Service!Holder # {}
    <3>1. PICK p \in Service!Holder : Service!Holder = {p}
      BY <2>2 DEF ServiceInv, Locked
    <3>2. Cardinality({p}) = 1
      BY <1>1
    <3> QED
      BY <3>1, <3>2
  <2> QED
    BY <2>1, <2>2
<1> QED
  BY <1>2
     DEF Service!TypeOK, ServiceInv, ServiceTypes, Statuses, WorkerRecord, Cardinality,
         Service!Cardinality

----------------------------------------------------------------------------
(* Theorems.                                                               *)

\* Two processes of the service never hold its lock together, whatever crashes,
\* ends and starts again in between (instance.go, Acquire).
THEOREM OneService == MCSpec => []OneServiceAtATime
<1>1. ServiceInv => OneServiceAtATime
  BY DEF ServiceInv, OneServiceAtATime, Service!OneServiceAtATime
<1> QED
  BY <1>1, ServiceStart, ServiceStep, PTL DEF MCSpec

\* Receivers, reads and supervisor keep the types of their state.
THEOREM TypesCorrect == MCSpec => []TypesOK
<1>1. MCSpec => [](ReceiverInv /\ ServiceInv)
  BY LeaseStart, LeaseStep, ServiceStart, ServiceStep, PTL DEF MCSpec
<1>2. MCSpec => []Reads!TypeOK
  <2>1. MCInit => Reads!Init
    BY SameInit DEF MCInit
  <2>2. [MCNext]_all => [Reads!Next]_(Reads!vars)
    BY ReadingStep, SameNext
  <2>3. Reads!Spec => []Reads!TypeOK
    BY SameAssumption, Reads!HistoryTypes
  <2> QED
    BY <2>1, <2>2, <2>3, PTL DEF MCSpec, Reads!Spec
<1>3. ReceiverInv /\ ServiceInv /\ Reads!TypeOK => TypesOK
  BY SameTypes, ServiceTyped DEF ReceiverInv, TypesOK
<1> QED
  BY <1>1, <1>2, <1>3, PTL

\* What the coverage of a source calls read has been stored or has expired, through
\* partial pages, repeated windows, a source that is switched off and crashes, as
\* long as no event is refused as busy between the reading of a page and its record.
THEOREM CoverageIsKept ==
  ASSUME "busy" \notin Interruptions PROVE MCSpec => []CoveredIsStored
<1>1. MCInit => Reads!Init
  BY SameInit DEF MCInit
<1>2. [MCNext]_all => [Reads!Next]_(Reads!vars)
  BY ReadingStep, SameNext
<1>3. Reads!Spec => []Reads!CoveredIsStored
  BY SameAssumption, Reads!CoverageIsKept
<1> QED
  BY <1>1, <1>2, <1>3, SameCovered, PTL DEF MCSpec, Reads!Spec
=============================================================================
