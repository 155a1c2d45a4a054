-------------------------- MODULE StreamSupervisor --------------------------
(***************************************************************************)
(* The supervision of the price streams in cryptoarb/engine.py: one        *)
(* _price_stream task per exchange, the watchdog that restarts a silent or *)
(* dead one and rebuilds its connector, the symbol refresh that restarts   *)
(* them all, and stop().                                                   *)
(*                                                                         *)
(* Time goes in periods of the watchdog, 30 s.  What takes a moment of     *)
(* such a period (a stream starting, a watch on a closed connector         *)
(* returning, the watchdog's look at an exchange) is done before the clock *)
(* moves; the stream's sleeps of 5 s and 30 s last until it does.  Only    *)
(* closing a connector and connecting another takes periods, up to MaxLag. *)
(***************************************************************************)
EXTENDS Integers, FiniteSets

CONSTANTS Exchanges,     \* the connectors that start() could connect
          SilentAfter,   \* 90 s without a tick, in periods
          RebuildAfter,  \* restarts in a row before a full rebuild
          MaxLag,        \* bound on the periods a rebuild takes
          MaxRefreshes   \* bound on the symbol refreshes, hours apart in the code

ASSUME SupervisorAssumption ==
  /\ SilentAfter \in Nat /\ RebuildAfter \in Nat \ {0}
  /\ MaxLag \in Nat \ {0} /\ MaxRefreshes \in Nat

VARIABLES age,        \* periods since last_price_ts, up to MaxAge
          connector,  \* per exchange: the current connector is "open" (it works),
                      \* "sick" (its client has wedged) or "closed"
          stream,     \* the task in _ws_tasks
          abandoned,  \* the exchanges of which a connector was left open inside
                      \* connect(): neither registered nor closed
          orphans,    \* the streams still running that _ws_tasks has lost
          restarts,   \* _stream_restarts, up to RebuildAfter
          watchdog,   \* where _stream_watchdog is, and its locals
          traded,     \* the exchanges with symbols: _symbols_for is not empty
          engine,     \* "running", then "stopping" and "cancelled" by stop()
          refreshes   \* symbol refreshes so far

supVars == <<age, connector, abandoned, stream, orphans, restarts, watchdog, traded, engine,
             refreshes>>

MaxAge == SilentAfter + MaxLag + 1

(* A stream watches the current connector or one already replaced.         *)
Streams == [pc: {"begin", "idle", "watching", "pause", "done"},
            on: {"current", "replaced"}]

WatchdogRecords == [pc: {"sleep", "check", "closing", "connecting", "ended"},
                    todo: SUBSET Exchanges, at: SUBSET Exchanges, lag: 0 .. MaxLag,
                    swapped: BOOLEAN]

TypeOK ==
  /\ age \in [Exchanges -> 0 .. MaxAge]
  /\ connector \in [Exchanges -> {"open", "sick", "closed"}]
  /\ abandoned \subseteq Exchanges
  /\ stream \in [Exchanges -> Streams]
  /\ orphans \in [Exchanges -> SUBSET Streams]
  /\ restarts \in [Exchanges -> 0 .. RebuildAfter]
  /\ watchdog \in WatchdogRecords
  /\ traded \subseteq Exchanges
  /\ engine \in {"running", "stopping", "cancelled"}
  /\ refreshes \in 0 .. MaxRefreshes

NewStream == [pc |-> "begin", on |-> "current"]
Watchdog(pc, todo, at, lag) ==
  [pc |-> pc, todo |-> todo, at |-> at, lag |-> lag, swapped |-> FALSE]

-----------------------------------------------------------------------------
(* One _price_stream task                                                  *)

Closed(e, s) == s.on = "replaced" \/ connector[e] = "closed"

(* Mutant: the loop does not look at _running.                             *)
StreamStep_Forever(e, s, s2, marks) ==
  \/ /\ s.pc = "begin" /\ e \notin traded
     /\ s2 = [s EXCEPT !.pc = "idle"] /\ ~marks
  \/ /\ s.pc = "begin" /\ e \in traded
     /\ s2 = [s EXCEPT !.pc = "watching"] /\ marks
  \/ /\ s.pc = "watching" /\ Closed(e, s)
     /\ s2 = [s EXCEPT !.pc = "pause"] /\ marks

(* The steps of stream s of exchange e: its next state s2, and whether it  *)
(* sets last_price_ts.                                                     *)
StreamStep(e, s, s2, marks) ==
  \/ /\ s.pc = "begin" /\ engine # "running"                   \* while self._running
     /\ s2 = [s EXCEPT !.pc = "done"] /\ ~marks
  \/ /\ s.pc = "begin" /\ engine = "running" /\ e \notin traded
     /\ s2 = [s EXCEPT !.pc = "idle"] /\ ~marks
  \/ /\ s.pc = "begin" /\ engine = "running" /\ e \in traded
     /\ s2 = [s EXCEPT !.pc = "watching"] /\ marks
  \/ /\ s.pc = "watching" /\ Closed(e, s)                      \* watch_prices returns
     /\ \/ engine = "running" /\ s2 = [s EXCEPT !.pc = "pause"] /\ marks
        \/ engine # "running" /\ s2 = [s EXCEPT !.pc = "done"] /\ ~marks

Mark(e, marks) == age' = IF marks THEN [age EXCEPT ![e] = 0] ELSE age

StreamRuns(e) ==
  /\ \E s2 \in Streams, marks \in BOOLEAN :
       /\ StreamStep(e, stream[e], s2, marks)
       /\ stream' = [stream EXCEPT ![e] = s2]
       /\ Mark(e, marks)
  /\ UNCHANGED <<connector, abandoned, orphans, restarts, watchdog, traded, engine, refreshes>>

OrphanRuns(e) ==
  /\ \E s \in orphans[e], s2 \in Streams, marks \in BOOLEAN :
       /\ StreamStep(e, s, s2, marks)
       /\ orphans' = [orphans EXCEPT ![e] = (@ \ {s}) \cup ({s2} \ {x \in Streams : x.pc = "done"})]
       /\ Mark(e, marks)
  /\ UNCHANGED <<connector, abandoned, stream, restarts, watchdog, traded, engine, refreshes>>

(* A price arrives: _on_price_update.                                      *)
PriceTick(e) ==
  /\ stream[e] = [pc |-> "watching", on |-> "current"] /\ connector[e] = "open"
  /\ age' = [age EXCEPT ![e] = 0]
  /\ UNCHANGED <<connector, abandoned, stream, orphans, restarts, watchdog, traded, engine, refreshes>>

(* The environment: a client wedges, and gives no price any more.          *)
Wedge(e) ==
  /\ connector[e] = "open"
  /\ connector' = [connector EXCEPT ![e] = "sick"]
  /\ UNCHANGED <<age, abandoned, stream, orphans, restarts, watchdog, traded, engine, refreshes>>

(* The environment: an exception no handler of the stream covers, such as  *)
(* an error log that cannot be written.                                    *)
Die(e) ==
  /\ stream[e].pc = "watching"
  /\ stream' = [stream EXCEPT ![e].pc = "done"]
  /\ UNCHANGED <<age, connector, abandoned, orphans, restarts, watchdog, traded, engine, refreshes>>

-----------------------------------------------------------------------------
(* _symbols_refresh_loop.  fetch_symbols reads the markets its connector   *)
(* holds and never waits, so that a refresh is one step of the event loop. *)

(* The watchdog, if it is rebuilding, holds a task no longer registered.   *)
Swapped == [watchdog EXCEPT !.swapped = (watchdog.pc \in {"closing", "connecting"})]

(* Mutant: the old streams are not cancelled.                              *)
RefreshSymbols_NoCancel(withSymbols) ==
  /\ engine # "cancelled" /\ refreshes < MaxRefreshes
  /\ refreshes' = refreshes + 1
  /\ traded' = withSymbols
  /\ orphans' = [e \in Exchanges |-> orphans[e] \cup {stream[e]}]
  /\ stream' = [e \in Exchanges |-> NewStream]
  /\ watchdog' = Swapped
  /\ UNCHANGED <<age, connector, abandoned, restarts, engine>>

(* Every stream is cancelled and replaced, on the connector of the moment. *)
RefreshSymbols(withSymbols) ==
  /\ engine # "cancelled" /\ refreshes < MaxRefreshes
  /\ refreshes' = refreshes + 1
  /\ traded' = withSymbols
  /\ stream' = [e \in Exchanges |-> NewStream]
  /\ watchdog' = Swapped
  /\ UNCHANGED <<age, connector, abandoned, orphans, restarts, engine>>

-----------------------------------------------------------------------------
(* _stream_watchdog                                                        *)

(* The watchdog compares with the time its round began: lag periods ago.   *)
Silent(e) == age[e] - watchdog.lag > SilentAfter
Dead(e) == stream[e].pc = "done"

(* The round goes on with the next exchange.                               *)
LookOn(e) == Watchdog("check", watchdog.todo \ {e}, {}, watchdog.lag)

FindHealthy(e) ==
  /\ watchdog.pc = "check" /\ e \in watchdog.todo /\ ~(Silent(e) \/ Dead(e))
  /\ restarts' = [restarts EXCEPT ![e] = 0]
  /\ watchdog' = LookOn(e)
  /\ UNCHANGED <<age, connector, abandoned, stream, orphans, traded, engine, refreshes>>

Restart(e) ==
  /\ watchdog.pc = "check" /\ e \in watchdog.todo /\ (Silent(e) \/ Dead(e))
  /\ restarts[e] + 1 < RebuildAfter
  /\ restarts' = [restarts EXCEPT ![e] = @ + 1]
  /\ stream' = [stream EXCEPT ![e] = NewStream]
  /\ watchdog' = LookOn(e)
  /\ UNCHANGED <<age, connector, abandoned, orphans, traded, engine, refreshes>>

(* The old connector is closed at once, though closing it is awaited.      *)
BeginRebuild(e) ==
  /\ watchdog.pc = "check" /\ e \in watchdog.todo /\ (Silent(e) \/ Dead(e))
  /\ restarts[e] + 1 >= RebuildAfter
  /\ restarts' = [restarts EXCEPT ![e] = RebuildAfter]
  /\ connector' = [connector EXCEPT ![e] = "closed"]
  /\ watchdog' = Watchdog("closing", watchdog.todo \ {e}, {e}, watchdog.lag)
  /\ UNCHANGED <<age, abandoned, stream, orphans, traded, engine, refreshes>>

(* A new connector is made, held by a local variable while it connects.    *)
StartConnecting(e) ==
  /\ watchdog.pc = "closing" /\ watchdog.at = {e}
  /\ watchdog' = [watchdog EXCEPT !.pc = "connecting"]
  /\ UNCHANGED <<age, connector, abandoned, stream, orphans, restarts, traded, engine, refreshes>>

(* The new connector is in place.  The task read before the awaits is      *)
(* cancelled and a new one registered; if a refresh has registered another *)
(* one meanwhile, nothing refers to that one any more.                     *)
Replaced(S) == {[s EXCEPT !.on = "replaced"] : s \in S}

Reconnect(e) ==
  /\ watchdog.pc = "connecting" /\ watchdog.at = {e}
  /\ connector' = [connector EXCEPT ![e] = "open"]
  /\ restarts' = [restarts EXCEPT ![e] = 0]
  /\ orphans' = [orphans EXCEPT ![e] =
       Replaced(@ \cup {s \in {stream[e]} : watchdog.swapped /\ s.pc # "done"})]
  /\ stream' = [stream EXCEPT ![e] = NewStream]
  /\ watchdog' = LookOn(e)
  /\ UNCHANGED <<age, abandoned, traded, engine, refreshes>>

(* Mutant: no handler around the rebuild, and the watchdog ends.           *)
FailToConnect_Escapes(e) ==
  /\ watchdog.pc = "connecting" /\ watchdog.at = {e}
  /\ abandoned' = abandoned \cup {e}
  /\ watchdog' = Watchdog("ended", {}, {}, 0)
  /\ UNCHANGED <<age, connector, stream, orphans, restarts, traded, engine, refreshes>>

(* connect() raises: the exchange is left with its closed connector, its   *)
(* old task and its counter, and the new connector, which start() would    *)
(* have closed, is let go without close().                                 *)
FailToConnect(e) ==
  /\ watchdog.pc = "connecting" /\ watchdog.at = {e}
  /\ abandoned' = abandoned \cup {e}
  /\ watchdog' = LookOn(e)
  /\ UNCHANGED <<age, connector, stream, orphans, restarts, traded, engine, refreshes>>

EndRound ==
  /\ watchdog.pc = "check" /\ watchdog.todo = {}
  /\ watchdog' = Watchdog(IF engine = "running" THEN "sleep" ELSE "ended", {}, {}, 0)
  /\ UNCHANGED <<age, connector, abandoned, stream, orphans, restarts, traded, engine, refreshes>>

-----------------------------------------------------------------------------
(* stop(): _running falls, the strategies are awaited, every registered    *)
(* task is cancelled, every connector closed.                              *)

BeginStop ==
  /\ engine = "running"
  /\ engine' = "stopping"
  /\ UNCHANGED <<age, connector, abandoned, stream, orphans, restarts, watchdog, traded, refreshes>>

(* Cancelling the watchdog while it awaits connect() leaves that connector *)
(* to nobody: its handler is for Exception, which a cancellation is not.   *)
CancelTasks ==
  /\ engine = "stopping"
  /\ engine' = "cancelled"
  /\ stream' = [e \in Exchanges |-> [stream[e] EXCEPT !.pc = "done"]]
  /\ abandoned' = IF watchdog.pc = "connecting" THEN abandoned \cup watchdog.at ELSE abandoned
  /\ watchdog' = Watchdog("ended", {}, {}, 0)
  /\ UNCHANGED <<age, connector, orphans, restarts, traded, refreshes>>

CloseConnector(e) ==
  /\ engine = "cancelled" /\ connector[e] # "closed"
  /\ connector' = [connector EXCEPT ![e] = "closed"]
  /\ UNCHANGED <<age, abandoned, stream, orphans, restarts, watchdog, traded, engine, refreshes>>

-----------------------------------------------------------------------------
(* A period passes.                                                        *)

Busy(e, s) == s.pc = "begin" \/ (s.pc = "watching" /\ Closed(e, s))
Woken(s) == IF s.pc \in {"idle", "pause"} THEN [s EXCEPT !.pc = "begin"] ELSE s

Clock ==
  /\ watchdog.pc # "check" /\ watchdog.lag < MaxLag
  /\ \A e \in Exchanges : \A s \in {stream[e]} \cup orphans[e] : ~Busy(e, s)
  /\ age' = [e \in Exchanges |-> IF age[e] < MaxAge THEN age[e] + 1 ELSE MaxAge]
  /\ stream' = [e \in Exchanges |-> Woken(stream[e])]
  /\ orphans' = [e \in Exchanges |-> {Woken(s) : s \in orphans[e]}]
  /\ watchdog' = CASE watchdog.pc = "sleep" -> Watchdog("check", Exchanges, {}, 0)
                   [] watchdog.pc \in {"closing", "connecting"} -> [watchdog EXCEPT !.lag = @ + 1]
                   [] OTHER -> watchdog
  /\ UNCHANGED <<connector, abandoned, restarts, traded, engine, refreshes>>

Init ==
  /\ age = [e \in Exchanges |-> MaxAge]       \* last_price_ts has no entry
  /\ connector = [e \in Exchanges |-> "open"]
  /\ abandoned = {}                             \* start() closes those that fail
  /\ stream = [e \in Exchanges |-> NewStream]
  /\ orphans = [e \in Exchanges |-> {}]
  /\ restarts = [e \in Exchanges |-> 0]
  /\ watchdog = Watchdog("sleep", {}, {}, 0)
  /\ traded \in SUBSET Exchanges
  /\ engine = "running"
  /\ refreshes = 0

Check(e) == FindHealthy(e) \/ Restart(e) \/ BeginRebuild(e)
Rebuild(e) == StartConnecting(e) \/ Reconnect(e) \/ FailToConnect(e)
Stopping == CancelTasks \/ \E e \in Exchanges : CloseConnector(e)

Next ==
  \/ Clock \/ EndRound \/ BeginStop \/ Stopping
  \/ \E withSymbols \in SUBSET Exchanges : RefreshSymbols(withSymbols)
  \/ \E e \in Exchanges :
       \/ StreamRuns(e) \/ OrphanRuns(e) \/ Check(e) \/ Rebuild(e)
       \/ PriceTick(e) \/ Wedge(e) \/ Die(e)

Spec == Init /\ [][Next]_supVars

(* Tasks that can run do, time goes on, stop() goes through, and an        *)
(* exchange the engine connects to again and again at last answers.        *)
Fairness ==
  /\ WF_supVars(Clock) /\ WF_supVars(EndRound) /\ WF_supVars(Stopping)
  /\ \A e \in Exchanges :
       /\ WF_supVars(StreamRuns(e)) /\ WF_supVars(OrphanRuns(e))
       /\ WF_supVars(Check(e)) /\ WF_supVars(Rebuild(e)) /\ SF_supVars(Reconnect(e))

FairSpec == Spec /\ Fairness

-----------------------------------------------------------------------------
(* PROPERTIES                                                              *)

(* However restarts, rebuilds and refreshes interleave, no stream other    *)
(* than the registered one watches a connector that is open: an exchange   *)
(* is never subscribed to twice (kucoin takes 400 subscriptions a session).*)
OneLiveStream ==
  \A e \in Exchanges : \A s \in orphans[e] : Closed(e, s)

(* The connectors of an exchange that hold a session open.                 *)
StillOpen(e) ==
  {k \in {"registered", "connecting", "abandoned"} :
     CASE k = "registered" -> connector[e] # "closed"
       [] k = "connecting" -> watchdog.pc = "connecting" /\ e \in watchdog.at
       [] k = "abandoned"  -> e \in abandoned}

(* stop() ends every stream, the ones _ws_tasks has lost included, and     *)
(* leaves no connector open, registered or under construction, whatever    *)
(* the watchdog was doing, but for those a failed or cancelled connect()   *)
(* abandoned (engine.py:400-402, 237-240): these nothing closes.           *)
StopEndsStreams ==
  engine # "running" ~>
    \A e \in Exchanges :
      stream[e].pc = "done" /\ orphans[e] = {} /\ StillOpen(e) \subseteq {"abandoned"}

(* A stream whose task died runs again, though rebuilds may fail.          *)
DeadStreamRevived ==
  \A e \in Exchanges :
    (Dead(e) /\ engine = "running") ~> (~Dead(e) \/ engine # "running")
=============================================================================
