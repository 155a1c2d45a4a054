---------------------------- MODULE StreamProofs ----------------------------
(***************************************************************************)
(* Type correctness of the stream supervision and the absence of double    *)
(* subscriptions, for any number of exchanges, any watchdog limits and any *)
(* number of refreshes.  Inductive: a stream _ws_tasks has lost is one of  *)
(* a connector already replaced, and a replaced connector is closed.       *)
(***************************************************************************)
EXTENDS StreamSupervisor, TLAPS

LostStreamsAreReplaced == \A e \in Exchanges : \A s \in orphans[e] : s.on = "replaced"

SupInv == TypeOK /\ LostStreamsAreReplaced

(* The watchdog's record between two awaits is well formed.                *)
LEMMA WatchdogType ==
  ASSUME NEW pc \in {"sleep", "check", "closing", "connecting", "ended"}, NEW todo \in SUBSET Exchanges,
         NEW at \in SUBSET Exchanges, NEW lag \in 0 .. MaxLag
  PROVE  Watchdog(pc, todo, at, lag) \in WatchdogRecords
BY DEF Watchdog, WatchdogRecords

LEMMA WatchdogFields ==
  ASSUME TypeOK
  PROVE  /\ watchdog.todo \in SUBSET Exchanges /\ watchdog.at \in SUBSET Exchanges
         /\ watchdog.lag \in 0 .. MaxLag /\ 0 \in 0 .. MaxLag
         /\ NewStream \in Streams /\ MaxAge \in Nat
BY SupervisorAssumption DEF TypeOK, WatchdogRecords, NewStream, Streams, MaxAge

(* A stream keeps to the connector it was given.                           *)
LEMMA StreamKeepsConnector ==
  ASSUME NEW e \in Exchanges, NEW s \in Streams, NEW s2 \in Streams, NEW marks \in BOOLEAN,
         StreamStep(e, s, s2, marks)
  PROVE  s2.on = s.on
BY DEF StreamStep, Streams

LEMMA MarkType ==
  ASSUME TypeOK, NEW e \in Exchanges, NEW marks \in BOOLEAN, Mark(e, marks)
  PROVE  age' \in [Exchanges -> 0 .. MaxAge]
<1>1. 0 \in 0 .. MaxAge
  BY WatchdogFields
<1>2. QED
  BY <1>1 DEF TypeOK, Mark

LEMMA StreamSteps ==
  ASSUME SupInv, NEW e \in Exchanges, StreamRuns(e) \/ OrphanRuns(e)
  PROVE  SupInv'
<1>1. CASE StreamRuns(e)
  <2>1. age' \in [Exchanges -> 0 .. MaxAge] /\ stream' \in [Exchanges -> Streams]
    BY <1>1, MarkType DEF StreamRuns, SupInv, TypeOK
  <2>2. QED
    BY <1>1, <2>1 DEF StreamRuns, SupInv, TypeOK, LostStreamsAreReplaced
<1>2. CASE OrphanRuns(e)
  <2>1. PICK s \in orphans[e], s2 \in Streams, marks \in BOOLEAN :
          /\ StreamStep(e, s, s2, marks)
          /\ orphans' = [orphans EXCEPT ![e] =
               (@ \ {s}) \cup ({s2} \ {x \in Streams : x.pc = "done"})]
          /\ Mark(e, marks)
    BY <1>2 DEF OrphanRuns
  <2>2. s2.on = "replaced"
    BY <2>1, StreamKeepsConnector DEF SupInv, TypeOK, LostStreamsAreReplaced
  <2>3. age' \in [Exchanges -> 0 .. MaxAge]
    BY <2>1, MarkType DEF SupInv
  <2>4. orphans' \in [Exchanges -> SUBSET Streams]
    BY <2>1 DEF SupInv, TypeOK
  <2>5. LostStreamsAreReplaced'
    BY <2>1, <2>2 DEF SupInv, TypeOK, LostStreamsAreReplaced
  <2>6. QED
    BY <1>2, <2>3, <2>4, <2>5 DEF OrphanRuns, SupInv, TypeOK
<1>3. QED
  BY <1>1, <1>2

LEMMA EnvironmentSteps ==
  ASSUME SupInv, NEW e \in Exchanges, PriceTick(e) \/ Wedge(e) \/ Die(e)
  PROVE  SupInv'
<1>1. CASE PriceTick(e)
  <2>1. age' \in [Exchanges -> 0 .. MaxAge]
    BY <1>1, WatchdogFields DEF PriceTick, SupInv, TypeOK
  <2>2. QED
    BY <1>1, <2>1 DEF PriceTick, SupInv, TypeOK, LostStreamsAreReplaced
<1>2. CASE Wedge(e)
  BY <1>2 DEF Wedge, SupInv, TypeOK, LostStreamsAreReplaced
<1>3. CASE Die(e)
  <2>1. stream' \in [Exchanges -> Streams]
    BY <1>3 DEF Die, SupInv, TypeOK, Streams
  <2>2. QED
    BY <1>3, <2>1 DEF Die, SupInv, TypeOK, LostStreamsAreReplaced
<1>4. QED
  BY <1>1, <1>2, <1>3

LEMMA RefreshStep ==
  ASSUME SupInv, NEW withSymbols \in SUBSET Exchanges, RefreshSymbols(withSymbols)
  PROVE  SupInv'
<1>1. stream' \in [Exchanges -> Streams]
  BY WatchdogFields DEF RefreshSymbols, SupInv
<1>2. refreshes' \in 0 .. MaxRefreshes
  BY SupervisorAssumption DEF RefreshSymbols, SupInv, TypeOK
<1> DEFINE b == (watchdog.pc \in {"closing", "connecting"})
<1>3. [watchdog EXCEPT !.swapped = b] \in WatchdogRecords
  <2>1. b \in BOOLEAN
    OBVIOUS
  <2> HIDE DEF b
  <2>2. QED
    BY <2>1 DEF SupInv, TypeOK, WatchdogRecords
<1>4. QED
  BY <1>1, <1>2, <1>3 DEF RefreshSymbols, Swapped, SupInv, TypeOK, LostStreamsAreReplaced

LEMMA CheckSteps ==
  ASSUME SupInv, NEW e \in Exchanges, Check(e) PROVE SupInv'
<1>1. LookOn(e) \in WatchdogRecords
  BY WatchdogType, WatchdogFields DEF LookOn, SupInv
<1>2. CASE FindHealthy(e)
  <2>1. restarts' \in [Exchanges -> 0 .. RebuildAfter]
    BY <1>2, SupervisorAssumption DEF FindHealthy, SupInv, TypeOK
  <2>2. QED
    BY <1>1, <1>2, <2>1 DEF FindHealthy, SupInv, TypeOK, LostStreamsAreReplaced
<1>3. CASE Restart(e)
  <2>1. restarts' \in [Exchanges -> 0 .. RebuildAfter]
    BY <1>3, SupervisorAssumption DEF Restart, SupInv, TypeOK
  <2>2. stream' \in [Exchanges -> Streams]
    BY <1>3, WatchdogFields DEF Restart, SupInv, TypeOK
  <2>3. QED
    BY <1>1, <1>3, <2>1, <2>2 DEF Restart, SupInv, TypeOK, LostStreamsAreReplaced
<1>4. CASE BeginRebuild(e)
  <2>1. restarts' \in [Exchanges -> 0 .. RebuildAfter]
    BY <1>4, SupervisorAssumption DEF BeginRebuild, SupInv, TypeOK
  <2>2. watchdog' \in WatchdogRecords
    BY <1>4, WatchdogType, WatchdogFields DEF BeginRebuild, SupInv
  <2>3. QED
    BY <1>4, <2>1, <2>2 DEF BeginRebuild, SupInv, TypeOK, LostStreamsAreReplaced
<1>5. QED
  BY <1>2, <1>3, <1>4 DEF Check

LEMMA RebuildSteps ==
  ASSUME SupInv, NEW e \in Exchanges, Rebuild(e) PROVE SupInv'
<1>1. LookOn(e) \in WatchdogRecords
  BY WatchdogType, WatchdogFields DEF LookOn, SupInv
<1>2. CASE FailToConnect(e)
  BY <1>1, <1>2 DEF FailToConnect, SupInv, TypeOK, LostStreamsAreReplaced
<1>3. CASE Reconnect(e)
  <2>1. restarts' \in [Exchanges -> 0 .. RebuildAfter] /\ stream' \in [Exchanges -> Streams]
    BY <1>3, SupervisorAssumption, WatchdogFields DEF Reconnect, SupInv, TypeOK
  <2>2. \A S \in SUBSET Streams : Replaced(S) \in SUBSET Streams /\ \A s \in Replaced(S) : s.on = "replaced"
    BY DEF Replaced, Streams
  <2>3. orphans[e] \cup {s \in {stream[e]} : watchdog.swapped /\ s.pc # "done"} \in SUBSET Streams
    BY DEF SupInv, TypeOK
  <2> DEFINE lost == Replaced(orphans[e] \cup {s \in {stream[e]} : watchdog.swapped /\ s.pc # "done"})
  <2>4. lost \in SUBSET Streams /\ \A s \in lost : s.on = "replaced"
    BY <2>2, <2>3
  <2>5. orphans' = [orphans EXCEPT ![e] = lost]
    BY <1>3 DEF Reconnect
  <2> HIDE DEF lost
  <2>6. orphans' \in [Exchanges -> SUBSET Streams] /\ LostStreamsAreReplaced'
    BY <2>4, <2>5 DEF SupInv, TypeOK, LostStreamsAreReplaced
  <2>7. QED
    BY <1>1, <1>3, <2>1, <2>6 DEF Reconnect, SupInv, TypeOK
<1>4. CASE StartConnecting(e)
  <2>1. [watchdog EXCEPT !.pc = "connecting"] \in WatchdogRecords
    BY DEF SupInv, TypeOK, WatchdogRecords
  <2>2. QED
    BY <1>4, <2>1 DEF StartConnecting, SupInv, TypeOK, LostStreamsAreReplaced
<1>5. QED
  BY <1>2, <1>3, <1>4 DEF Rebuild

LEMMA LifecycleSteps ==
  ASSUME SupInv, EndRound \/ BeginStop \/ Stopping PROVE SupInv'
<1>1. CASE EndRound
  <2>1. watchdog' \in WatchdogRecords
    BY <1>1, WatchdogType, WatchdogFields DEF EndRound, SupInv
  <2>2. QED
    BY <1>1, <2>1 DEF EndRound, SupInv, TypeOK, LostStreamsAreReplaced
<1>2. CASE BeginStop
  BY <1>2 DEF BeginStop, SupInv, TypeOK, LostStreamsAreReplaced
<1>3. CASE CancelTasks
  <2>1. watchdog' \in WatchdogRecords
    BY <1>3, WatchdogType, WatchdogFields DEF CancelTasks, SupInv
  <2>2. stream' \in [Exchanges -> Streams]
    <3>1. \A e \in Exchanges : [stream[e] EXCEPT !.pc = "done"] \in Streams
      BY DEF SupInv, TypeOK, Streams
    <3>2. QED
      BY <1>3, <3>1 DEF CancelTasks
  <2>3. abandoned' \subseteq Exchanges
    BY <1>3, WatchdogFields DEF CancelTasks, SupInv, TypeOK
  <2>4. QED
    BY <1>3, <2>1, <2>2, <2>3 DEF CancelTasks, SupInv, TypeOK, LostStreamsAreReplaced
<1>4. ASSUME NEW e \in Exchanges, CloseConnector(e) PROVE SupInv'
  BY <1>4 DEF CloseConnector, SupInv, TypeOK, LostStreamsAreReplaced
<1>5. QED
  BY <1>1, <1>2, <1>3, <1>4 DEF Stopping

LEMMA ClockStep == ASSUME SupInv, Clock PROVE SupInv'
<1>1. age' \in [Exchanges -> 0 .. MaxAge]
  BY WatchdogFields DEF Clock, SupInv, TypeOK
<1>2. \A s \in Streams : Woken(s) \in Streams /\ Woken(s).on = s.on
  BY DEF Woken, Streams
<1>3. /\ stream' \in [Exchanges -> Streams] /\ orphans' \in [Exchanges -> SUBSET Streams]
      /\ LostStreamsAreReplaced'
  BY <1>2 DEF Clock, SupInv, TypeOK, LostStreamsAreReplaced
<1>4. watchdog' \in WatchdogRecords
  <2>1. CASE watchdog.pc = "sleep"
    BY <2>1, WatchdogType, WatchdogFields DEF Clock, SupInv
  <2>2. CASE watchdog.pc \in {"closing", "connecting"}
    BY <2>2, SupervisorAssumption DEF Clock, SupInv, TypeOK, WatchdogRecords
  <2>3. CASE watchdog.pc \notin {"sleep", "closing", "connecting"}
    BY <2>3 DEF Clock, SupInv, TypeOK
  <2>4. QED
    BY <2>1, <2>2, <2>3
<1>5. QED
  BY <1>1, <1>3, <1>4 DEF Clock, SupInv, TypeOK

(* However the watchdog, the refresh, the streams and stop() interleave,   *)
(* only the registered stream watches an open connector (_stream_watchdog, *)
(* _symbols_refresh_loop, _price_stream and stop of engine.py).            *)
THEOREM NoDoubleSubscription == Spec => [](TypeOK /\ OneLiveStream)
<1>1. Init => SupInv
  <2> SUFFICES ASSUME Init PROVE SupInv
    OBVIOUS
  <2>1. Watchdog("sleep", {}, {}, 0) \in WatchdogRecords
    BY WatchdogType, SupervisorAssumption
  <2>2. MaxAge \in 0 .. MaxAge /\ 0 \in 0 .. RebuildAfter /\ 0 \in 0 .. MaxRefreshes
    BY SupervisorAssumption DEF MaxAge
  <2>3. NewStream \in Streams
    BY DEF NewStream, Streams
  <2>4. QED
    BY <2>1, <2>2, <2>3 DEF Init, SupInv, TypeOK, LostStreamsAreReplaced
<1>2. SupInv /\ [Next]_supVars => SupInv'
  <2> SUFFICES ASSUME SupInv, [Next]_supVars PROVE SupInv'
    OBVIOUS
  <2>1. CASE Clock
    BY <2>1, ClockStep
  <2>2. CASE EndRound \/ BeginStop \/ Stopping
    BY <2>2, LifecycleSteps
  <2>3. ASSUME NEW withSymbols \in SUBSET Exchanges, RefreshSymbols(withSymbols) PROVE SupInv'
    BY <2>3, RefreshStep
  <2>4. ASSUME NEW e \in Exchanges,
               StreamRuns(e) \/ OrphanRuns(e) \/ Check(e) \/ Rebuild(e)
        PROVE  SupInv'
    BY <2>4, StreamSteps, CheckSteps, RebuildSteps
  <2>5. ASSUME NEW e \in Exchanges, PriceTick(e) \/ Wedge(e) \/ Die(e) PROVE SupInv'
    BY <2>5, EnvironmentSteps
  <2>6. CASE UNCHANGED supVars
    BY <2>6 DEF supVars, SupInv, TypeOK, LostStreamsAreReplaced
  <2>7. QED
    BY <2>1, <2>2, <2>3, <2>4, <2>5, <2>6 DEF Next
<1>3. SupInv => TypeOK /\ OneLiveStream
  BY DEF SupInv, LostStreamsAreReplaced, OneLiveStream, Closed
<1>4. QED
  BY <1>1, <1>2, <1>3, PTL DEF Spec
=============================================================================
