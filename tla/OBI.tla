-------------------------------- MODULE OBI --------------------------------
(***************************************************************************)
(* The OBI lead-lag service (strategies/obi_lead_lag): a process of its    *)
(* own with two WebSocket clients, the lead venue and the lag venue, that  *)
(* call one engine.  A lead book may signal and place a paper maker order  *)
(* at the lag venue; only lag books fill, expire and close it.  The trades *)
(* live in a deque of Cap entries that forgets the oldest one, whatever    *)
(* its state.                                                              *)
(*                                                                         *)
(* Prices are ticks, 0 stands for the empty side of a book, and a mid      *)
(* price is kept doubled.  fill_price is always limit_price.  An ended     *)
(* trade keeps its status only.                                            *)
(***************************************************************************)
EXTENDS Integers, Sequences, FiniteSets

CONSTANTS
  Symbols,     \* subscribed at both venues
  Moves,       \* books of the lead venue: [sym, bids, asks, mid], volumes of five levels
  Threshold,   \* obi_threshold, in percent
  Books,       \* books of the lag venue: [sym, bid, ask]
  MinLead,     \* min_lead_lag_bps, in half ticks
  TakeProfit, StopLoss, Fee,  \* tp_bps, sl_bps, maker_fee_bps, in half ticks
  Cooldown,    \* cooldown_sec
  Stale,       \* oldest lag book a signal may use (2 s)
  Timeout,     \* order_timeout_sec
  MaxHold,     \* max_hold_sec
  Cap,         \* maxlen of the deque (200)
  Epoch,       \* the time of the start
  MaxTime      \* bound on the clock

Venues == {"lead", "lag"}
Sides == {"BUY", "SELL"}

\* OrderBookDepth5.obi against the threshold
Leans(more, less) == more + less > 0 /\ 100 * (more - less) >= Threshold * (more + less)
Side(m) ==
  CASE Leans(m.bids, m.asks) -> "BUY" [] Leans(m.asks, m.bids) -> "SELL" [] OTHER -> "NONE"
Key(m) == <<m.sym, Side(m)>>
Keys == {Key(m) : m \in {n \in Moves : Side(n) # "NONE"}}
\* the longest life of a trade whose symbol is quoted at the lag venue
Window == Timeout + MaxHold + Stale

ASSUME SymbolsAssumption == IsFiniteSet(Symbols)
ASSUME MovesAssumption == Moves \subseteq [sym : Symbols, bids : Nat, asks : Nat, mid : Nat]
ASSUME BooksAssumption == Books \subseteq [sym : Symbols, bid : Nat, ask : Nat]
ASSUME TimesAssumption ==
  /\ {Cooldown, MaxHold, Cap, Epoch} \subseteq Nat \ {0}
  /\ {Stale, Timeout, MaxTime, MinLead, TakeProfit, StopLoss, Fee} \subseteq Nat
  /\ Threshold \in 1 .. 100
  /\ Epoch >= Cooldown
\* 200 trades, against 8 keys and a window of 30 s with a signal per 5 s each
ASSUME CapAssumption == Cap >= Cardinality(Keys) * ((Window - 1) \div Cooldown + 1)

VARIABLES
  clock,
  running,    \* the service, from startup_event to shutdown_event
  connected,  \* the socket of each VenueWebSocket delivers
  books,      \* _latest_books of the lag venue, with the local time of each
  cooldowns,  \* _cooldowns; 0.0 when there is no entry
  trades,     \* _trades
  count,      \* total_signals, total_filled, winning_trades, losing_trades
  quoted,     \* history: the last lag book with both sides, per symbol
  lost        \* history: live trades the deque has forgotten

feeds == <<running, connected>>
engine == <<books, cooldowns, trades, count, quoted, lost>>
vars == <<clock, feeds, engine>>

Trade(s, d, p, t) ==
  [sym |-> s, side |-> d, limit |-> p, entry |-> t, status |-> "PENDING", fill |-> 0]
Ended(t, st) ==
  [sym |-> t.sym, side |-> t.side, limit |-> 0, entry |-> 0, status |-> st, fill |-> 0]
Live(t) == t.status \in {"PENDING", "FILLED"}

Init ==
  /\ clock = Epoch
  /\ connected = [v \in Venues |-> FALSE]
  /\ running = TRUE
  /\ books = [s \in Symbols |-> [bid |-> 0, ask |-> 0, ts |-> 0]]
  /\ cooldowns = [k \in Keys |-> 0]
  /\ trades = <<>>
  /\ count = [signals |-> 0, filled |-> 0, won |-> 0, lost |-> 0]
  /\ quoted = [s \in Symbols |-> 0]
  /\ lost = {}

-----------------------------------------------------------------------------
\* The clients.  Each reconnects, 3 s after an error, until it is stopped.

Connect(v) ==
  /\ running /\ ~connected[v]
  /\ connected' = [connected EXCEPT ![v] = TRUE]
  /\ UNCHANGED <<clock, running, engine>>

Disconnect(v) ==
  /\ running /\ connected[v]
  /\ connected' = [connected EXCEPT ![v] = FALSE]
  /\ UNCHANGED <<clock, running, engine>>

\* no book arrives after stop(): both tasks are cancelled and awaited
Shutdown ==
  /\ running
  /\ running' = FALSE
  /\ connected' = [v \in Venues |-> FALSE]
  /\ UNCHANGED <<clock, engine>>

-----------------------------------------------------------------------------
\* on_depth_update with a book of the lag venue.

TwoSided(b) == b.bid > 0 /\ b.ask > 0
Mid(b) == IF TwoSided(b) THEN b.bid + b.ask ELSE 0

\* an empty side has the best price 0.0: no ask fills a BUY, no bid no SELL
Crossed(t, b) ==
  \/ t.side = "BUY" /\ b.ask <= t.limit
  \/ t.side = "SELL" /\ b.bid >= t.limit

Pnl(t, b) == IF t.side = "BUY" THEN Mid(b) - 2 * t.limit ELSE 2 * t.limit - Mid(b)

\* mutant: an order lives a unit longer
Expires_Late(t, b) == t.sym = b.sym /\ t.status = "PENDING" /\ clock - t.entry > Timeout + 1
Expires(t, b) == t.sym = b.sym /\ t.status = "PENDING" /\ clock - t.entry > Timeout
Fills(t, b) ==
  /\ t.sym = b.sym /\ t.status = "PENDING" /\ ~Expires(t, b)
  /\ Crossed(t, b)
\* mutant: the time stop waits for a price below the entry
Closes_Greedy(t, b) ==
  /\ t.sym = b.sym /\ t.status = "FILLED" /\ Mid(b) > 0
  /\ \/ Pnl(t, b) >= TakeProfit
     \/ Pnl(t, b) <= -StopLoss
     \/ clock - t.fill >= MaxHold /\ Pnl(t, b) < 0
Closes(t, b) ==
  /\ t.sym = b.sym /\ t.status = "FILLED" /\ Mid(b) > 0
  /\ \/ Pnl(t, b) >= TakeProfit
     \/ Pnl(t, b) <= -StopLoss
     \/ clock - t.fill >= MaxHold
Wins(t, b) == Closes(t, b) /\ Pnl(t, b) - 2 * Fee > 0

Filled(t) == [sym |-> t.sym, side |-> t.side, limit |-> t.limit, entry |-> t.entry,
              status |-> "FILLED", fill |-> clock]
Updated(t, b) ==
  IF Expires(t, b) THEN Ended(t, "EXPIRED")
  ELSE IF Fills(t, b) THEN Filled(t)
  ELSE IF Closes(t, b) THEN Ended(t, "CLOSED") ELSE t

LagUpdate(b) ==
  LET filled == {i \in DOMAIN trades : Fills(trades[i], b)}
      closed == {i \in DOMAIN trades : Closes(trades[i], b)}
      won == {i \in DOMAIN trades : Wins(trades[i], b)}
  IN
  /\ connected["lag"]
  /\ books' = [books EXCEPT ![b.sym] = [bid |-> b.bid, ask |-> b.ask, ts |-> clock]]
  /\ quoted' = IF TwoSided(b) THEN [quoted EXCEPT ![b.sym] = clock] ELSE quoted
  /\ trades' = [i \in DOMAIN trades |-> Updated(trades[i], b)]
  /\ count' = [signals |-> count.signals, filled |-> count.filled + Cardinality(filled),
               won |-> count.won + Cardinality(won),
               lost |-> count.lost + Cardinality(closed \ won)]
  /\ UNCHANGED <<clock, feeds, cooldowns, lost>>

-----------------------------------------------------------------------------
\* on_depth_update with a book of the lead venue.

Behind(m) ==
  LET lag == Mid(books[m.sym]) IN
  /\ m.mid > 0 /\ lag > 0
  /\ IF Side(m) = "BUY" THEN m.mid - lag >= MinLead ELSE lag - m.mid >= MinLead

\* mutants: off by one; the cooldown of the opposite side
CooledDown_Early(m) == clock - cooldowns[Key(m)] >= Cooldown - 1
CooledDown_OtherSide(m) ==
  \A d \in Sides \ {Side(m)} : <<m.sym, d>> \in Keys => clock - cooldowns[<<m.sym, d>>] >= Cooldown
CooledDown(m) == clock - cooldowns[Key(m)] >= Cooldown

\* deque(maxlen).append; what it drops while live is remembered
Pushed(t) == IF Len(trades) < Cap THEN Append(trades, t) ELSE Append(Tail(trades), t)
Forgotten ==
  IF Len(trades) < Cap \/ ~Live(Head(trades)) THEN {}
  ELSE {[trade |-> Head(trades), silent |-> clock - quoted[Head(trades).sym] > Stale]}

LeadUpdate(m) ==
  LET lag == books[m.sym]
      price == IF Side(m) = "BUY" THEN lag.bid ELSE lag.ask
  IN
  /\ connected["lead"]
  /\ Side(m) # "NONE"
  /\ CooledDown(m)
  /\ TwoSided(lag) /\ clock - lag.ts <= Stale
  /\ Behind(m)
  /\ cooldowns' = [cooldowns EXCEPT ![Key(m)] = clock]
  /\ count' = [signals |-> count.signals + 1, filled |-> count.filled,
               won |-> count.won, lost |-> count.lost]
  /\ trades' = Pushed(Trade(m.sym, Side(m), price, clock))
  /\ lost' = lost \union Forgotten
  /\ UNCHANGED <<clock, feeds, books, quoted>>

Tick ==
  /\ clock < MaxTime
  /\ clock' = clock + 1
  /\ UNCHANGED <<feeds, engine>>

Next ==
  \/ \E v \in Venues : Connect(v) \/ Disconnect(v)
  \/ Shutdown
  \/ \E b \in Books : LagUpdate(b)
  \/ \E m \in Moves : LeadUpdate(m)
  \/ Tick

Spec == Init /\ [][Next]_vars

\* The loops run, a venue connected to again and again at last stays long
\* enough to send, of each symbol, books with both sides.
Fairness ==
  /\ \A v \in Venues : WF_vars(Connect(v))
  /\ \A s \in Symbols : SF_vars(\E b \in {c \in Books : c.sym = s /\ TwoSided(c)} : LagUpdate(b))

FairSpec == Spec /\ Fairness

-----------------------------------------------------------------------------
TradeType ==
  [sym : Symbols, side : Sides, limit : Nat, entry : Nat,
   status : {"PENDING", "FILLED", "EXPIRED", "CLOSED"}, fill : Nat]

\* The types of the state; the deque never holds more than Cap trades.
TypeOK ==
  /\ clock \in Nat /\ clock >= Epoch
  /\ running \in BOOLEAN
  /\ connected \in [Venues -> BOOLEAN]
  /\ books \in [Symbols -> [bid : Nat, ask : Nat, ts : Nat]]
  /\ cooldowns \in [Keys -> Nat]
  /\ trades \in Seq(TradeType) /\ Len(trades) <= Cap
  /\ count \in [signals : Nat, filled : Nat, won : Nat, lost : Nat]
  /\ quoted \in [Symbols -> Nat]
  /\ lost \subseteq [trade : TradeType, silent : BOOLEAN]

\* However the books of the two venues interleave and the clients drop and
\* return, no order fills late, and no trade is still live once the lag venue
\* has quoted its symbol after the order's timeout and the holding limit
\* (_update_trades, 167 and 210): a trade is overdue only while the venue is
\* silent or one-sided.
LiveIsYoung ==
  \A i \in DOMAIN trades : LET t == trades[i] IN
    /\ t.status = "PENDING" => quoted[t.sym] <= t.entry + Timeout
    /\ t.status = "FILLED" => /\ t.entry <= t.fill /\ t.fill <= t.entry + Timeout
                              /\ quoted[t.sym] < t.fill + MaxHold

\* The deque (50) forgets a trade that is still pending or filled only if the
\* lag venue has stopped quoting its symbol: the cooldown bounds the signals
\* of a window, and so Cap is enough for every trade the engine still watches.
LostOnlyWhenSilent == \A l \in lost : l.silent

\* Two live trades of one symbol and side are a cooldown apart (85, 115), also
\* after the older one has filled.
LiveAreSpaced ==
  \A i, j \in DOMAIN trades :
    /\ i < j /\ Live(trades[i]) /\ Live(trades[j])
    /\ trades[i].sym = trades[j].sym /\ trades[i].side = trades[j].side
    => trades[j].entry - trades[i].entry >= Cooldown

Overdue(t) ==
  \/ t.status = "PENDING" /\ clock - t.entry > Timeout
  \/ t.status = "FILLED" /\ clock - t.fill >= MaxHold
HasOverdue(s) == \E i \in DOMAIN trades : trades[i].sym = s /\ Overdue(trades[i])

\* A trade past its time is ended at last, by a book of either client's
\* reconnection, unless the service stops.
OverdueEnds == \A s \in Symbols : HasOverdue(s) ~> (~HasOverdue(s) \/ ~running)
=============================================================================
