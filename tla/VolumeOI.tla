------------------------------ MODULE VolumeOI ------------------------------
(***************************************************************************)
(* The volume and open-interest strategy (cryptoarb/strategies/volume_oi): *)
(* a signal places a limit order on a pull-back, the order expires or      *)
(* fills, the position ends by take-profit, stop, trailing stop or time,   *)
(* and the coin rests: a cooldown after each trade, a long pause after a   *)
(* run of losses.  Two callers move the orders: every price tick, dated by *)
(* the clock, and the scanner's pass, dated by the time the pass began.    *)
(*                                                                         *)
(* Prices are offsets, in ticks, from the limit price of the coin's order. *)
(* Orders and cooldowns die with the process; the whitelist, which carries *)
(* the losses and the pause, is a file that each save rewrites in place.   *)
(* What the detector computes from the candles is an input.                *)
(***************************************************************************)
EXTENDS Integers, Sequences

CONSTANTS Coins, None,
          Offsets,       \* prices, in ticks from the limit price
          Quotes,        \* pairs of a best bid and a best ask
          TakeProfit, HardStop, TrailAct, TrailDist, Fee,  \* in ticks
          OrderTimeout, TimeStop, Cooldown, Pause,         \* time units
          LossLimit,                                       \* losses in a row
          MaxTime, MaxOrders, MaxRestarts                  \* bounds

ASSUME TicksAssumption ==
  /\ Offsets \subseteq Int /\ Quotes \subseteq Int \X Int
  /\ TakeProfit \in Nat /\ HardStop \in Nat \ {0} /\ Fee \in Nat
  /\ TrailAct \in Nat /\ TrailDist \in Nat /\ Fee < TrailAct - TrailDist
ASSUME TimesAssumption ==
  /\ {OrderTimeout, TimeStop, Cooldown, MaxTime, MaxOrders, MaxRestarts} \subseteq Nat
  /\ {Pause, LossLimit} \subseteq Nat \ {0}

VARIABLES now,               \* the clock
          passAt,            \* `now` of the scanner's pass
          orders,            \* positions, of this process and the earlier ones
          coin_to_pos,       \* _coin_to_pos: an index of orders, or 0
          cooldowns,         \* cooldowns: when the last one of a coin ends
          last_candle_minute,\* _last_candle_minute
          items,             \* losses and pause of each coin in the whitelist
          file,              \* the whitelist on disk
          boot,              \* how often the process was started again
          forgot             \* orders placed when the whitelist was last reset

memory == <<coin_to_pos, cooldowns, last_candle_minute, items>>
vars == <<now, passAt, orders, memory, file, boot, forgot>>

Live == {"PENDING_LIMIT", "OPEN"}
Exits == {"TAKE_PROFIT", "HARD_STOP", "TRAILING_STOP", "TIMESTOP"}
ASSUME NoneAssumption == None \notin Exits \cup {"EXPIRED_UNFILLED"}

Item == [losses: Nat, until: Nat]
Fresh == [c \in Coins |-> [losses |-> 0, until |-> 0]]

Order == [coin: Coins, dir: {1, -1}, status: Live \cup {"CLOSED", "LOST"},
          placed: Nat, entry: Nat, trailing: BOOLEAN, peak: Int, stop: Int,
          exitAt: Nat, won: BOOLEAN, reason: Exits \cup {"EXPIRED_UNFILLED", None},
          boot: Nat]

NewOrder(c, dir) ==
  [coin |-> c, dir |-> dir, status |-> "PENDING_LIMIT", placed |-> passAt, entry |-> 0,
   trailing |-> FALSE, peak |-> 0, stop |-> -HardStop,
   exitAt |-> 0, won |-> FALSE, reason |-> None, boot |-> boot]

Init ==
  /\ now = 0 /\ passAt = 0 /\ orders = <<>>
  /\ coin_to_pos = [c \in Coins |-> 0]
  /\ cooldowns = [c \in Coins |-> 0]
  /\ last_candle_minute = [c \in Coins |-> None]
  /\ items = Fresh /\ file = Fresh
  /\ boot = 0 /\ forgot = 0

HasActivePosition(c) ==
  coin_to_pos[c] # 0 /\ orders[coin_to_pos[c]].status \in Live

IsInCooldown(c, at) == at < cooldowns[c]

-----------------------------------------------------------------------------
(* The life of an order: VolumeOIExecutor.on_market_update                 *)

(* The best and the worst price for a side, in ticks of gain.              *)
Good(dir, high, low) == IF dir = 1 THEN high ELSE -low
Bad(dir, high, low)  == IF dir = 1 THEN low ELSE -high

Expired(o, at) == o.status = "PENDING_LIMIT" /\ at - o.placed > OrderTimeout

Touched(o, bad) == o.status = "PENDING_LIMIT" /\ bad <= 0

Fill(o, at) == [o EXCEPT !.status = "OPEN", !.entry = at, !.peak = 0, !.stop = -HardStop]

(* Mutant: activation and distance swapped.                                *)
Trail_Swapped(o, good) ==
  IF good < TrailDist THEN o
  ELSE IF good <= o.peak THEN [o EXCEPT !.trailing = TRUE]
  ELSE [o EXCEPT !.trailing = TRUE, !.peak = good, !.stop = good - TrailAct]

(* The trailing stop is drawn behind a new peak beyond the activation.     *)
Trail(o, good) ==
  IF good < TrailAct THEN o
  ELSE IF good <= o.peak THEN [o EXCEPT !.trailing = TRUE]
  ELSE [o EXCEPT !.trailing = TRUE, !.peak = good, !.stop = good - TrailDist]

(* Mutant: no time stop once the trailing stop is on.                      *)
TimeIsUp_UnlessTrailing(o, at) == at - o.entry >= TimeStop /\ ~o.trailing

TimeIsUp(o, at) == at - o.entry >= TimeStop

(* What an open position meets at these prices, in the order of the code.  *)
Verdict(o, good, bad, at) ==
  CASE good >= TakeProfit -> "TAKE_PROFIT"
    [] good < TakeProfit /\ bad <= -HardStop -> "HARD_STOP"
    [] OTHER -> IF Trail(o, good).trailing /\ bad <= Trail(o, good).stop THEN "TRAILING_STOP"
                ELSE IF TimeIsUp(o, at) THEN "TIMESTOP"
                ELSE None

ExitPrice(reason, o, market) ==
  CASE reason = "TAKE_PROFIT" -> TakeProfit
    [] reason = "HARD_STOP" -> -HardStop
    [] reason = "TRAILING_STOP" -> o.stop
    [] reason = "TIMESTOP" -> market

(* A gain net of the round trip.                                           *)
IsWin(exit) == exit > Fee

(* What is left of an order that ended: its prices are not read again.     *)
Ended(o, status, at, reason, won) ==
  [coin |-> o.coin, dir |-> 1, status |-> status, placed |-> o.placed, entry |-> o.entry,
   trailing |-> FALSE, peak |-> 0, stop |-> -HardStop,
   exitAt |-> at, won |-> won, reason |-> reason, boot |-> o.boot]

(* Mutant: a pause is forgotten with the process.                          *)
RecordTradeResult_Unsaved(c, win, at) ==
  /\ items' = [items EXCEPT ![c] =
       IF win THEN [@ EXCEPT !.losses = 0]
       ELSE [losses |-> @.losses + 1,
             until |-> IF @.losses + 1 >= LossLimit THEN at + Pause ELSE @.until]]
  /\ UNCHANGED file

(* VolumeOISelector.record_trade_result                                    *)
RecordTradeResult(c, win, at) ==
  /\ items' = [items EXCEPT ![c] =
       IF win THEN [@ EXCEPT !.losses = 0]
       ELSE [losses |-> @.losses + 1,
             until |-> IF @.losses + 1 >= LossLimit THEN at + Pause ELSE @.until]]
  /\ file' = items'

Expire(c, o, at) ==
  /\ Expired(o, at)
  /\ orders' = [orders EXCEPT ![coin_to_pos[c]] =
       Ended(o, "CLOSED", at, "EXPIRED_UNFILLED", FALSE)]
  /\ coin_to_pos' = [coin_to_pos EXCEPT ![c] = 0]
  /\ UNCHANGED <<cooldowns, items, file>>

(* Mutant: a trade that lost leaves no cooldown.                           *)
CloseAt_CoolsWinners(c, o, exit, reason, at) ==
  /\ orders' = [orders EXCEPT ![coin_to_pos[c]] =
       Ended(o, "CLOSED", at, reason, IsWin(exit))]
  /\ coin_to_pos' = [coin_to_pos EXCEPT ![c] = 0]
  /\ cooldowns' = IF IsWin(exit) THEN [cooldowns EXCEPT ![c] = at + Cooldown] ELSE cooldowns
  /\ RecordTradeResult(c, IsWin(exit), at)

CloseAt(c, o, exit, reason, at) ==
  /\ orders' = [orders EXCEPT ![coin_to_pos[c]] =
       Ended(o, "CLOSED", at, reason, IsWin(exit))]
  /\ coin_to_pos' = [coin_to_pos EXCEPT ![c] = 0]
  /\ cooldowns' = [cooldowns EXCEPT ![c] = at + Cooldown]
  /\ RecordTradeResult(c, IsWin(exit), at)

Manage(c, o, good, bad, market, at) ==
  LET reason == Verdict(o, good, bad, at)
      kept == IF reason \in {"TAKE_PROFIT", "HARD_STOP"} THEN o ELSE Trail(o, good)
  IN IF reason # None
     THEN CloseAt(c, kept, ExitPrice(reason, kept, market), reason, at)
     ELSE /\ orders' = [orders EXCEPT ![coin_to_pos[c]] = kept]
          /\ UNCHANGED <<coin_to_pos, cooldowns, items, file>>

(* An update of coin c: an old order expires, one at its limit fills and   *)
(* is managed at once, an open one is managed.                             *)
OnMarketUpdate(c, bid, ask, high, low, at) ==
  LET o == orders[coin_to_pos[c]]
      good == Good(o.dir, high, low)
      bad == Bad(o.dir, high, low)
      market == IF o.dir = 1 THEN bid ELSE -ask
  IN /\ HasActivePosition(c)
     /\ \/ Expire(c, o, at)
        \/ ~Expired(o, at) /\ Touched(o, bad) /\ Manage(c, Fill(o, at), good, bad, market, at)
        \/ o.status = "OPEN" /\ Manage(c, o, good, bad, market, at)
     /\ UNCHANGED <<now, passAt, last_candle_minute, boot, forgot>>

-----------------------------------------------------------------------------
(* The callers                                                             *)

(* on_price_tick, with the middle price of any exchange.                   *)
PriceTick(c, mid) == OnMarketUpdate(c, mid, mid, mid, mid, now)

(* check_exits, with the best bid and the best ask, perhaps crossed.       *)
CheckExits(c, bid, ask) ==
  OnMarketUpdate(c, bid, ask, IF bid > ask THEN bid ELSE ask,
                 IF bid > ask THEN ask ELSE bid, passAt)

PauseIsOver(c) == items[c].until # 0 /\ passAt >= items[c].until

(* VolumeOISelector.is_eligible, which ends a pause and saves that.        *)
Recover(c) ==
  /\ items[c].until = 0 \/ PauseIsOver(c)
  /\ items' = IF PauseIsOver(c) THEN [items EXCEPT ![c] = [losses |-> 0, until |-> 0]]
              ELSE items
  /\ file' = IF PauseIsOver(c) THEN items' ELSE file

(* Mutant: a second order of the coin in another minute.                   *)
SubmitSignal_Again(c, dir) ==
  /\ ~IsInCooldown(c, passAt)
  /\ Len(orders) < MaxOrders
  /\ orders' = Append(orders, NewOrder(c, dir))
  /\ coin_to_pos' = [coin_to_pos EXCEPT ![c] = Len(orders) + 1]

(* VolumeOIExecutor.submit_signal                                          *)
SubmitSignal(c, dir) ==
  /\ ~IsInCooldown(c, passAt) /\ ~HasActivePosition(c)
  /\ Len(orders) < MaxOrders
  /\ orders' = Append(orders, NewOrder(c, dir))
  /\ coin_to_pos' = [coin_to_pos EXCEPT ![c] = Len(orders) + 1]

(* on_scan_symbol: one order a minute at most.  The detector finds a       *)
(* signal or it does not, in which case only the pause may end.            *)
ScanSymbol(c) ==
  /\ Recover(c)
  /\ \/ /\ last_candle_minute[c] # passAt
        /\ \E dir \in {1, -1} : SubmitSignal(c, dir)
        /\ last_candle_minute' = [last_candle_minute EXCEPT ![c] = passAt]
     \/ UNCHANGED <<orders, coin_to_pos, last_candle_minute>>
  /\ UNCHANGED <<now, passAt, cooldowns, boot, forgot>>

Tick ==
  /\ now < MaxTime /\ now' = now + 1
  /\ UNCHANGED <<passAt, orders, memory, file, boot, forgot>>

(* _scan_once reads the clock once; a pass that awaits books lasts long.   *)
BeginPass ==
  /\ passAt' = now
  /\ UNCHANGED <<now, orders, memory, file, boot, forgot>>

(* The process ends and starts again, in the middle of a save or not: a    *)
(* save truncates the file first, and a file that does not parse is        *)
(* replaced with the built-in whitelist.                                   *)
Restart ==
  /\ boot < MaxRestarts /\ boot' = boot + 1
  /\ passAt' = now
  /\ orders' = [i \in DOMAIN orders |-> IF orders[i].status \in Live
                                        THEN Ended(orders[i], "LOST", 0, None, FALSE)
                                        ELSE orders[i]]
  /\ coin_to_pos' = [c \in Coins |-> 0]
  /\ cooldowns' = [c \in Coins |-> 0]
  /\ last_candle_minute' = [c \in Coins |-> None]
  /\ \/ items' = file /\ UNCHANGED <<file, forgot>>
     \/ /\ \E c \in Coins : HasActivePosition(c) \/ PauseIsOver(c)
        /\ items' = Fresh /\ file' = Fresh
        /\ forgot' = Len(orders)
  /\ UNCHANGED now

MoveOrder(c) == \/ \E mid \in Offsets : PriceTick(c, mid)
                \/ \E q \in Quotes : CheckExits(c, q[1], q[2])

Next == \/ Tick
        \/ BeginPass
        \/ Restart
        \/ \E c \in Coins : MoveOrder(c) \/ ScanSymbol(c)

Spec == Init /\ [][Next]_vars

(* Prices of a coin keep arriving from the streams, so that one of the     *)
(* finitely many recurs: which one is not said.                            *)
FairSpec ==
  Spec /\ \A c \in Coins : \E mid \in Offsets : WF_vars(PriceTick(c, mid))

-----------------------------------------------------------------------------
TypeOK ==
  /\ now \in Nat /\ passAt \in Nat /\ passAt <= now
  /\ orders \in Seq(Order)
  /\ coin_to_pos \in [Coins -> 0..Len(orders)]
  /\ cooldowns \in [Coins -> Nat]
  /\ last_candle_minute \in [Coins -> Nat \cup {None}]
  /\ items \in [Coins -> Item] /\ file \in [Coins -> Item]
  /\ boot \in Nat /\ forgot \in 0..Len(orders)

(* A live order is the one its coin is indexed by, so that a coin never    *)
(* has two and none is left that no price reaches (_coin_to_pos).          *)
ActiveIsIndexed ==
  \A i \in 1..Len(orders) :
    orders[i].status \in Live => coin_to_pos[orders[i].coin] = i

Traded(o) == o.status = "CLOSED" /\ o.reason # "EXPIRED_UNFILLED"

(* After a trade the coin gets no order within the cooldown, by the stamps *)
(* of two clocks that disagree, as long as the process lives.              *)
CooldownRespected ==
  \A i, j \in 1..Len(orders) :
    /\ i < j /\ orders[i].coin = orders[j].coin /\ orders[i].boot = orders[j].boot
    /\ Traded(orders[i])
    => orders[j].placed >= orders[i].exitAt + Cooldown

(* The losses of a coin in a row up to an order, counted since the last    *)
(* run of LossLimit and since the whitelist was last reset.                *)
Counted(c, o, losses) ==
  IF o.coin # c \/ ~Traded(o) THEN losses
  ELSE IF o.won THEN 0
  ELSE IF losses >= LossLimit THEN 1 ELSE losses + 1
Streak(c, history, from) ==
  LET streak[i \in 0..Len(history)] ==
        IF i <= from THEN 0 ELSE Counted(c, history[i], streak[i - 1])
  IN streak

(* LossLimit losses in a row are followed by a pause of the coin, also     *)
(* through restarts, and unless the file was lost in the middle of a save. *)
LossStreakPauses ==
  \A c \in Coins :
    LET streak == Streak(c, orders, forgot)
    IN \A i, j \in 1..Len(orders) :
         /\ i < j /\ orders[i].coin = c /\ orders[j].coin = c
         /\ Traded(orders[i]) /\ streak[i] = LossLimit
         => orders[j].placed >= orders[i].exitAt + Pause

(* A trailing stop ends a trade with a net gain, whatever path the price   *)
(* and the two callers took.                                               *)
TrailingWins ==
  \A i \in 1..Len(orders) : orders[i].reason = "TRAILING_STOP" => orders[i].won

(* No order fills after its timeout, whichever caller sees the price.      *)
FilledInTime ==
  \A i \in 1..Len(orders) :
    orders[i].status = "OPEN" \/ orders[i].reason \in Exits
    => orders[i].entry - orders[i].placed <= OrderTimeout

Overdue(c) ==
  /\ HasActivePosition(c)
  /\ LET o == orders[coin_to_pos[c]]
     IN Expired(o, now) \/ (o.status = "OPEN" /\ now - o.entry >= TimeStop)

(* An order past its timeout and a position past its time stop end.        *)
OverdueEnds == \A c \in Coins : Overdue(c) ~> ~HasActivePosition(c)
=============================================================================
