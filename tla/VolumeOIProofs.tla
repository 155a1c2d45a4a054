--------------------------- MODULE VolumeOIProofs ---------------------------
(***************************************************************************)
(* Machine-checked proofs about the volume and open-interest strategy, for *)
(* every value of its constants.  The inductive invariant joins the index  *)
(* (Pointed: a coin points to its last order while that is live), the      *)
(* stamps (Stamped: an order is not younger than the pass, and the         *)
(* cooldown of its coin covers each trade of this process), the stop       *)
(* (Drawn: a trailing stop lies behind a peak beyond the activation) and   *)
(* the whitelist (Reckoned: its losses are the streak of the history, and  *)
(* the pause after the last of LossLimit losses is kept).                  *)
(***************************************************************************)
EXTENDS VolumeOI, WellFoundedInduction, TLAPS

Pointed ==
  \A c \in Coins : coin_to_pos[c] # 0 =>
    /\ orders[coin_to_pos[c]].coin = c
    /\ orders[coin_to_pos[c]].status \in Live
    /\ \A j \in 1..Len(orders) : orders[j].coin = c => j <= coin_to_pos[c]

Stamped ==
  \A i \in 1..Len(orders) :
    /\ orders[i].placed <= passAt
    /\ orders[i].boot <= boot
    /\ orders[i].status \in Live => orders[i].boot = boot
    /\ Traded(orders[i]) /\ orders[i].boot = boot
         => orders[i].exitAt + Cooldown <= cooldowns[orders[i].coin]

(* What holds of the stop of a live order.                                 *)
WellDrawn(o) ==
  /\ o.trailing => o.peak >= TrailAct
  /\ o.peak >= TrailAct => o.stop >= TrailAct - TrailDist
  /\ o.status = "PENDING_LIMIT" => ~o.trailing
  /\ o.reason = None

Drawn == \A i \in 1..Len(orders) : orders[i].status \in Live => WellDrawn(orders[i])

IInv == /\ TypeOK /\ ActiveIsIndexed /\ Pointed /\ Stamped /\ Drawn
        /\ CooldownRespected /\ TrailingWins /\ FilledInTime

-----------------------------------------------------------------------------
(* The helpers on one order                                                *)

LEMMA NewOrderIs ==
  ASSUME NEW c \in Coins, NEW dir \in {1, -1}, passAt \in Nat, boot \in Nat
  PROVE  NewOrder(c, dir) \in Order
BY TicksAssumption DEF NewOrder, Order, Live, Exits

LEMMA EndedType ==
  ASSUME NEW o \in Order, NEW status \in {"CLOSED", "LOST"}, NEW at \in Nat,
         NEW reason \in Exits \cup {"EXPIRED_UNFILLED", None}, NEW won \in BOOLEAN
  PROVE  Ended(o, status, at, reason, won) \in Order
<1>1. /\ o.coin \in Coins /\ o.placed \in Nat /\ o.entry \in Nat /\ o.boot \in Nat
      /\ -HardStop \in Int
  BY TicksAssumption DEF Order
<1> QED
  BY <1>1 DEF Ended, Order

LEMMA FillIs ==
  ASSUME NEW o \in Order, NEW at \in Nat
  PROVE  /\ Fill(o, at) \in Order
         /\ Fill(o, at).coin = o.coin /\ Fill(o, at).placed = o.placed
         /\ Fill(o, at).boot = o.boot /\ Fill(o, at).entry = at
         /\ Fill(o, at).status = "OPEN" /\ Fill(o, at).reason = o.reason
         /\ Fill(o, at).trailing = o.trailing /\ Fill(o, at).peak = 0
<1> DEFINE stop == -HardStop
           filled == [o EXCEPT !.status = "OPEN", !.entry = at, !.peak = 0, !.stop = stop]
<1>1. stop \in Int
  BY TicksAssumption
<1> HIDE DEF stop
<1>2. filled \in Order
  <2> DEFINE opened == [o EXCEPT !.status = "OPEN", !.entry = at]
  <2>1. opened \in Order
    BY DEF Order, Live
  <2>2. filled = [opened EXCEPT !.peak = 0, !.stop = stop]
    OBVIOUS
  <2> HIDE DEF opened, filled
  <2>3. \A peak \in Int : [opened EXCEPT !.peak = peak, !.stop = stop] \in Order
    BY <1>1, <2>1 DEF Order
  <2>4. [opened EXCEPT !.peak = 0, !.stop = stop] \in Order
    <3>1. 0 \in Int
      OBVIOUS
    <3> QED
      BY <2>3, <3>1, Zenon
  <2> QED
    BY <2>2, <2>4
<1>3. /\ filled.coin = o.coin /\ filled.placed = o.placed /\ filled.boot = o.boot
      /\ filled.entry = at /\ filled.status = "OPEN" /\ filled.reason = o.reason
      /\ filled.trailing = o.trailing /\ filled.peak = 0
  BY DEF Order
<1>4. Fill(o, at) = filled
  BY DEF Fill, stop
<1> QED
  BY <1>2, <1>3, <1>4

LEMMA TrailIs ==
  ASSUME NEW o \in Order, NEW good \in Int, o.status = "OPEN", WellDrawn(o)
  PROVE  /\ Trail(o, good) \in Order
         /\ WellDrawn(Trail(o, good))
         /\ Trail(o, good).coin = o.coin /\ Trail(o, good).placed = o.placed
         /\ Trail(o, good).boot = o.boot /\ Trail(o, good).entry = o.entry
         /\ Trail(o, good).status = "OPEN" /\ Trail(o, good).reason = None
<1> DEFINE stop == good - TrailDist
           on == [o EXCEPT !.trailing = TRUE]
           drawn == [o EXCEPT !.trailing = TRUE, !.peak = good, !.stop = stop]
<1>1. stop \in Int /\ TrailAct \in Nat /\ TrailAct > 0 /\ TrailDist \in Nat
  BY TicksAssumption
<1>2. o.peak \in Int /\ o.stop \in Int
  BY DEF Order
<1>3. Trail(o, good) = IF good < TrailAct THEN o ELSE IF good <= o.peak THEN on ELSE drawn
  BY DEF Trail
<1>4. good >= TrailAct => stop >= TrailAct - TrailDist
  BY <1>1
<1> HIDE DEF stop
<1>5. /\ on \in Order /\ on.trailing = TRUE /\ on.peak = o.peak /\ on.stop = o.stop
      /\ on.coin = o.coin /\ on.placed = o.placed /\ on.boot = o.boot /\ on.entry = o.entry
      /\ on.status = o.status /\ on.reason = o.reason
  BY DEF Order
<1>6. /\ drawn \in Order /\ drawn.trailing = TRUE /\ drawn.peak = good /\ drawn.stop = stop
      /\ drawn.coin = o.coin /\ drawn.placed = o.placed /\ drawn.boot = o.boot
      /\ drawn.entry = o.entry /\ drawn.status = o.status /\ drawn.reason = o.reason
  BY <1>1 DEF Order
<1> HIDE DEF on, drawn
<1>7. CASE good < TrailAct
  BY <1>3, <1>7 DEF WellDrawn
<1>8. CASE ~(good < TrailAct) /\ good <= o.peak
  <2>1. Trail(o, good) = on /\ o.peak >= TrailAct
    BY <1>1, <1>2, <1>3, <1>8
  <2> QED
    BY <2>1, <1>5 DEF WellDrawn
<1>9. CASE ~(good < TrailAct) /\ ~(good <= o.peak)
  <2>1. Trail(o, good) = drawn /\ good >= TrailAct /\ stop >= TrailAct - TrailDist
    BY <1>1, <1>3, <1>4, <1>9
  <2> QED
    BY <2>1, <1>6 DEF WellDrawn
<1> QED
  BY <1>7, <1>8, <1>9

LEMMA VerdictIs ==
  ASSUME NEW o, NEW good \in Int, NEW bad \in Int, NEW at \in Nat
  PROVE  /\ Verdict(o, good, bad, at) \in Exits \cup {None}
         /\ Verdict(o, good, bad, at) = "TRAILING_STOP"
              => Trail(o, good).trailing /\ "TRAILING_STOP" # None
<1>1. TakeProfit \in Int /\ HardStop \in Int
  BY TicksAssumption
<1>2. CASE good >= TakeProfit
  <2>1. Verdict(o, good, bad, at) = "TAKE_PROFIT"
    BY <1>1, <1>2 DEF Verdict
  <2> QED
    BY <2>1 DEF Exits
<1>3. CASE good < TakeProfit /\ bad <= -HardStop
  <2>1. Verdict(o, good, bad, at) = "HARD_STOP"
    BY <1>1, <1>3 DEF Verdict
  <2> QED
    BY <2>1 DEF Exits
<1>4. CASE ~(good >= TakeProfit) /\ ~(good < TakeProfit /\ bad <= -HardStop)
  <2>1. Verdict(o, good, bad, at) =
          IF Trail(o, good).trailing /\ bad <= Trail(o, good).stop THEN "TRAILING_STOP"
          ELSE IF TimeIsUp(o, at) THEN "TIMESTOP"
          ELSE None
    BY <1>4 DEF Verdict
  <2> QED
    BY <2>1, NoneAssumption DEF Exits
<1> QED
  BY <1>1, <1>2, <1>3, <1>4

LEMMA RecordType ==
  ASSUME NEW c \in Coins, NEW win, NEW at \in Nat,
         items \in [Coins -> Item], RecordTradeResult(c, win, at)
  PROVE  items' \in [Coins -> Item] /\ file' = items'
<1> DEFINE old == items[c]
           losses == old.losses + 1
           until == IF losses >= LossLimit THEN at + Pause ELSE old.until
<1>1. old \in Item /\ old.losses \in Nat /\ old.until \in Nat
  BY DEF Item
<1>2. losses \in Nat /\ until \in Nat
  BY <1>1, TimesAssumption
<1>3. items' = [items EXCEPT ![c] =
                  IF win THEN [old EXCEPT !.losses = 0]
                  ELSE [losses |-> losses, until |-> until]]
  BY DEF RecordTradeResult
<1>4. file' = items'
  BY DEF RecordTradeResult
<1> HIDE DEF old, losses, until
<1>5. [old EXCEPT !.losses = 0] \in Item /\ [losses |-> losses, until |-> until] \in Item
  BY <1>1, <1>2 DEF Item
<1> QED
  BY <1>3, <1>4, <1>5

-----------------------------------------------------------------------------
(* What an update of coin c does, whoever calls: the order stays open, it  *)
(* expires, or it ends as a trade and starts the cooldown.                 *)
Moves(c, at, p) ==
  /\ p \in Order /\ p.coin = c
  /\ p.boot = orders[coin_to_pos[c]].boot /\ p.placed = orders[coin_to_pos[c]].placed
  /\ orders' = [orders EXCEPT ![coin_to_pos[c]] = p]

Keeps(p) == /\ p.status = "OPEN" /\ WellDrawn(p)
            /\ p.entry - p.placed <= OrderTimeout
            /\ UNCHANGED <<coin_to_pos, cooldowns, items, file>>

Expires(c, p) == /\ p.status = "CLOSED" /\ p.reason = "EXPIRED_UNFILLED"
                 /\ coin_to_pos' = [coin_to_pos EXCEPT ![c] = 0]
                 /\ UNCHANGED <<cooldowns, items, file>>

Trades(c, at, p) == /\ p.status = "CLOSED" /\ p.reason \in Exits /\ p.exitAt = at
                    /\ p.reason = "TRAILING_STOP" => p.won
                    /\ p.entry - p.placed <= OrderTimeout
                    /\ coin_to_pos' = [coin_to_pos EXCEPT ![c] = 0]
                    /\ cooldowns' = [cooldowns EXCEPT ![c] = at + Cooldown]
                    /\ items' \in [Coins -> Item] /\ file' = items'
                    /\ RecordTradeResult(c, p.won, at)

LEMMA ManageMoves ==
  ASSUME NEW c \in Coins, NEW o \in Order, NEW good \in Int, NEW bad \in Int,
         NEW market, NEW at \in Nat, items \in [Coins -> Item],
         o.status = "OPEN", WellDrawn(o), o.coin = c,
         o.boot = orders[coin_to_pos[c]].boot, o.placed = orders[coin_to_pos[c]].placed,
         o.entry - o.placed <= OrderTimeout,
         Manage(c, o, good, bad, market, at)
  PROVE  \E p : Moves(c, at, p) /\ (Keeps(p) \/ Trades(c, at, p))
<1> DEFINE reason == Verdict(o, good, bad, at)
           kept == IF reason \in {"TAKE_PROFIT", "HARD_STOP"} THEN o ELSE Trail(o, good)
           exit == ExitPrice(reason, kept, market)
           done == Ended(kept, "CLOSED", at, reason, IsWin(exit))
<1>1. /\ kept \in Order /\ WellDrawn(kept) /\ kept.status = "OPEN"
      /\ kept.coin = c /\ kept.placed = o.placed /\ kept.boot = o.boot
      /\ kept.entry = o.entry
  BY TrailIs
<1>2. /\ reason \in Exits \cup {None}
      /\ reason = "TRAILING_STOP" => Trail(o, good).trailing
  BY VerdictIs
<1>3. CASE reason = None
  <2>1. /\ orders' = [orders EXCEPT ![coin_to_pos[c]] = kept]
        /\ UNCHANGED <<coin_to_pos, cooldowns, items, file>>
    BY <1>3 DEF Manage
  <2> QED
    BY <1>1, <2>1 DEF Moves, Keeps
<1>4. CASE reason # None
  <2>1. CloseAt(c, kept, exit, reason, at)
    BY <1>4 DEF Manage
  <2>2. reason = "TRAILING_STOP" => IsWin(exit)
    <3> SUFFICES ASSUME reason = "TRAILING_STOP" PROVE IsWin(exit)
      OBVIOUS
    <3>1. kept = Trail(o, good) /\ kept.trailing
      BY <1>2
    <3>2. kept.stop >= TrailAct - TrailDist /\ kept.stop \in Int
      BY <1>1, <3>1 DEF WellDrawn, Order
    <3>3. exit = kept.stop
      BY DEF ExitPrice
    <3> HIDE DEF exit, kept
    <3> QED
      BY <3>2, <3>3, TicksAssumption DEF IsWin
  <2>3. IsWin(exit) \in BOOLEAN
    BY DEF IsWin
  <2>4. reason \in Exits
    BY <1>2, <1>4
  <2> HIDE DEF reason, kept, exit
  <2>5. done \in Order
    BY <1>1, <2>3, <2>4, EndedType
  <2>6. /\ done.status = "CLOSED" /\ done.reason = reason /\ done.exitAt = at
        /\ done.won = IsWin(exit) /\ done.coin = kept.coin /\ done.boot = kept.boot
        /\ done.placed = kept.placed /\ done.entry = kept.entry
    BY DEF Ended
  <2>7. /\ orders' = [orders EXCEPT ![coin_to_pos[c]] = done]
        /\ coin_to_pos' = [coin_to_pos EXCEPT ![c] = 0]
        /\ cooldowns' = [cooldowns EXCEPT ![c] = at + Cooldown]
        /\ RecordTradeResult(c, IsWin(exit), at)
    BY <2>1 DEF CloseAt
  <2>8. items' \in [Coins -> Item] /\ file' = items'
    BY <2>7, RecordType
  <2> HIDE DEF done
  <2>9. Moves(c, at, done)
    BY <1>1, <2>5, <2>6, <2>7 DEF Moves
  <2>10. Trades(c, at, done)
    BY <1>1, <2>2, <2>4, <2>6, <2>7, <2>8 DEF Trades
  <2> QED
    BY <2>9, <2>10
<1> QED
  BY <1>3, <1>4

LEMMA UpdateMoves ==
  ASSUME TypeOK, Pointed, Drawn, FilledInTime,
         NEW c \in Coins, NEW bid \in Int, NEW ask \in Int, NEW high \in Int, NEW low \in Int,
         NEW at \in Nat, OnMarketUpdate(c, bid, ask, high, low, at)
  PROVE  \E p : Moves(c, at, p) /\ (Keeps(p) \/ Expires(c, p) \/ Trades(c, at, p))
<1> DEFINE k == coin_to_pos[c]
           o == orders[k]
           good == Good(o.dir, high, low)
           bad == Bad(o.dir, high, low)
           market == IF o.dir = 1 THEN bid ELSE -ask
<1>1. k \in 1..Len(orders) /\ o \in Order /\ o.status \in Live /\ o.coin = c
  BY DEF OnMarketUpdate, HasActivePosition, TypeOK, Pointed
<1>2. WellDrawn(o)
  BY <1>1 DEF Drawn
<1>3. good \in Int /\ bad \in Int
  BY DEF Good, Bad
<1>4. items \in [Coins -> Item]
  BY DEF TypeOK
<1>5. \/ Expire(c, o, at)
      \/ ~Expired(o, at) /\ Touched(o, bad) /\ Manage(c, Fill(o, at), good, bad, market, at)
      \/ o.status = "OPEN" /\ Manage(c, o, good, bad, market, at)
  BY DEF OnMarketUpdate
<1>6. o.status = "OPEN" => o.entry - o.placed <= OrderTimeout
  BY <1>1 DEF FilledInTime
<1> HIDE DEF good, bad, market
<1>7. CASE Expire(c, o, at)
  <2> DEFINE done == Ended(o, "CLOSED", at, "EXPIRED_UNFILLED", FALSE)
  <2>1. /\ done \in Order /\ done.coin = c /\ done.boot = o.boot /\ done.placed = o.placed
        /\ done.status = "CLOSED" /\ done.reason = "EXPIRED_UNFILLED"
    <3>1. done \in Order
      BY <1>1, EndedType
    <3> QED
      BY <1>1, <3>1 DEF Ended
  <2>2. /\ orders' = [orders EXCEPT ![k] = done]
        /\ coin_to_pos' = [coin_to_pos EXCEPT ![c] = 0]
        /\ UNCHANGED <<cooldowns, items, file>>
    BY <1>7 DEF Expire
  <2> HIDE DEF done
  <2> QED
    BY <2>1, <2>2 DEF Moves, Expires
<1>8. CASE /\ ~Expired(o, at) /\ Touched(o, bad)
           /\ Manage(c, Fill(o, at), good, bad, market, at)
  <2> DEFINE f == Fill(o, at)
  <2>1. /\ f \in Order /\ f.coin = o.coin /\ f.placed = o.placed /\ f.boot = o.boot
        /\ f.entry = at /\ f.status = "OPEN" /\ f.reason = o.reason
        /\ f.trailing = o.trailing /\ f.peak = 0
    BY <1>1, FillIs
  <2>2. o.status = "PENDING_LIMIT" /\ ~o.trailing /\ o.reason = None
    BY <1>2, <1>8 DEF Touched, WellDrawn
  <2>3. at - o.placed <= OrderTimeout
    <3>1. o.placed \in Nat
      BY <1>1 DEF Order
    <3> QED
      BY <3>1, <1>8, <2>2, TimesAssumption DEF Expired
  <2> HIDE DEF f
  <2>4. WellDrawn(f)
    BY <2>1, <2>2, TicksAssumption DEF WellDrawn
  <2>5. Manage(c, f, good, bad, market, at)
    BY <1>8 DEF f
  <2> QED
    BY <1>1, <1>3, <1>4, <2>1, <2>3, <2>4, <2>5, ManageMoves
<1>9. CASE o.status = "OPEN" /\ Manage(c, o, good, bad, market, at)
  BY <1>1, <1>2, <1>3, <1>4, <1>6, <1>9, ManageMoves
<1> QED
  BY <1>5, <1>7, <1>8, <1>9

LEMMA MovePreserves ==
  ASSUME IInv, NEW c \in Coins, NEW at \in Nat, passAt <= at, HasActivePosition(c),
         NEW p, Moves(c, at, p), Keeps(p) \/ Expires(c, p) \/ Trades(c, at, p),
         UNCHANGED <<now, passAt, last_candle_minute, boot, forgot>>
  PROVE  IInv'
<1> DEFINE k == coin_to_pos[c]
           n == Len(orders)
           ended == coin_to_pos' = [coin_to_pos EXCEPT ![c] = 0]
<1>1. /\ n \in Nat /\ k \in 1..n /\ orders[k] \in Order /\ orders[k].status \in Live
      /\ orders[k].coin = c /\ \A j \in 1..n : orders[j].coin = c => j <= k
  BY DEF IInv, TypeOK, Pointed, HasActivePosition
<1>2. /\ p \in Order /\ p.coin = c /\ p.boot = orders[k].boot /\ p.placed = orders[k].placed
      /\ orders' = [orders EXCEPT ![k] = p]
  BY DEF Moves
<1>3. orders \in Seq(Order)
  BY DEF IInv, TypeOK
<1>4. /\ orders' \in Seq(Order) /\ Len(orders') = n
      /\ \A i \in 1..n : orders'[i] = IF i = k THEN p ELSE orders[i]
  BY <1>1, <1>2, <1>3
<1>5. \A i \in 1..n : /\ orders'[i].coin = orders[i].coin /\ orders'[i].boot = orders[i].boot
                      /\ orders'[i].placed = orders[i].placed
  BY <1>1, <1>2, <1>4
<1>6. /\ coin_to_pos \in [Coins -> 0..n] /\ cooldowns \in [Coins -> Nat]
      /\ items \in [Coins -> Item] /\ file \in [Coins -> Item]
  BY DEF IInv, TypeOK
<1>7. \A i \in 1..n : /\ orders[i] \in Order /\ orders[i].coin \in Coins
                      /\ orders[i].placed \in Nat /\ orders[i].exitAt \in Nat
  <2>1. \A i \in 1..n : orders[i] \in Order
    BY <1>3
  <2> QED
    BY <2>1 DEF Order
<1>8. TypeOK'
  <2>1. CASE Keeps(p)
    BY <1>4, <1>6, <2>1 DEF IInv, TypeOK, Keeps
  <2>2. CASE Expires(c, p)
    BY <1>1, <1>4, <1>6, <2>2 DEF IInv, TypeOK, Expires
  <2>3. CASE Trades(c, at, p)
    <3>1. at + Cooldown \in Nat
      BY TimesAssumption
    <3>2. cooldowns' \in [Coins -> Nat] /\ coin_to_pos' \in [Coins -> 0..n]
      BY <1>1, <1>6, <2>3, <3>1 DEF Trades
    <3>3. items' \in [Coins -> Item] /\ file' \in [Coins -> Item]
      BY <2>3 DEF Trades
    <3> QED
      BY <1>4, <3>2, <3>3 DEF IInv, TypeOK
  <2> QED
    BY <2>1, <2>2, <2>3
<1>9. /\ \A i \in 1..n : orders[i].status \in Live => coin_to_pos[orders[i].coin] = i
      /\ \A d \in Coins : coin_to_pos[d] # 0 =>
           /\ coin_to_pos[d] \in 1..n /\ orders[coin_to_pos[d]].coin = d
           /\ orders[coin_to_pos[d]].status \in Live
           /\ \A j \in 1..n : orders[j].coin = d => j <= coin_to_pos[d]
  BY <1>1, <1>6 DEF IInv, ActiveIsIndexed, Pointed
<1>10. ActiveIsIndexed' /\ Pointed'
  <2>1. CASE Keeps(p)
    <3>1. p.status \in Live /\ coin_to_pos' = coin_to_pos
      BY <2>1 DEF Keeps, Live
    <3>2. \A i \in 1..n : orders'[i].status \in Live <=> orders[i].status \in Live
      BY <1>1, <1>4, <3>1
    <3>3. ActiveIsIndexed'
      BY <1>4, <1>5, <1>9, <3>1, <3>2 DEF ActiveIsIndexed
    <3>4. Pointed'
      BY <1>4, <1>5, <1>9, <3>1, <3>2 DEF Pointed
    <3> QED
      BY <3>3, <3>4
  <2>2. CASE p.status = "CLOSED" /\ ended
    <3>1. p.status \notin Live
      BY <2>2 DEF Live
    <3>2. /\ \A d \in Coins : coin_to_pos'[d] = IF d = c THEN 0 ELSE coin_to_pos[d]
          /\ orders'[k].status \notin Live
      BY <1>1, <1>4, <1>6, <2>2, <3>1
    <3>3. ActiveIsIndexed'
      <4> SUFFICES ASSUME NEW i \in 1..n, orders'[i].status \in Live
                   PROVE  coin_to_pos'[orders'[i].coin] = i
        BY <1>4 DEF ActiveIsIndexed
      <4>1. i # k /\ orders'[i] = orders[i]
        BY <1>4, <3>2
      <4>2. coin_to_pos[orders[i].coin] = i /\ orders[i].coin \in Coins
        BY <1>7, <1>9, <4>1
      <4>3. orders[i].coin # c
        BY <4>1, <4>2
      <4> QED
        BY <3>2, <4>1, <4>2, <4>3
    <3>4. Pointed'
      <4> SUFFICES ASSUME NEW d \in Coins, coin_to_pos'[d] # 0
                   PROVE  /\ orders'[coin_to_pos'[d]].coin = d
                          /\ orders'[coin_to_pos'[d]].status \in Live
                          /\ \A j \in 1..n : orders'[j].coin = d => j <= coin_to_pos'[d]
        BY <1>4 DEF Pointed
      <4>1. d # c /\ coin_to_pos'[d] = coin_to_pos[d] /\ coin_to_pos[d] # 0
        BY <3>2
      <4>2. coin_to_pos[d] # k
        BY <1>1, <1>9, <4>1
      <4> QED
        BY <1>4, <1>5, <1>9, <4>1, <4>2
    <3> QED
      BY <3>3, <3>4
  <2> QED
    BY <2>1, <2>2 DEF Expires, Trades
<1>11. p.status \in Live => Keeps(p)
  BY DEF Expires, Trades, Live
<1>12. Traded(p) => Trades(c, at, p)
  BY DEF Traded, Keeps, Expires
<1>13. \A i \in 1..n : i # k /\ orders[i].coin = c => i < k
  BY <1>1
<1>14. Stamped'
  <2> SUFFICES ASSUME NEW i \in 1..n
               PROVE  /\ orders'[i].placed <= passAt
                      /\ orders'[i].boot <= boot
                      /\ orders'[i].status \in Live => orders'[i].boot = boot
                      /\ Traded(orders'[i]) /\ orders'[i].boot = boot
                           => orders'[i].exitAt + Cooldown <= cooldowns'[orders'[i].coin]
    BY <1>4 DEF Stamped
  <2>1. /\ orders[i].placed <= passAt /\ orders[i].boot <= boot
        /\ orders[i].status \in Live => orders[i].boot = boot
        /\ Traded(orders[i]) /\ orders[i].boot = boot
             => orders[i].exitAt + Cooldown <= cooldowns[orders[i].coin]
        /\ orders[k].placed <= passAt /\ orders[k].boot = boot
    BY <1>1 DEF IInv, Stamped
  <2>2. orders'[i].placed <= passAt /\ orders'[i].boot <= boot
    BY <1>5, <2>1
  <2>3. orders'[i].status \in Live => orders'[i].boot = boot
    BY <1>2, <1>4, <2>1
  <2>4. ASSUME Traded(orders'[i]), orders'[i].boot = boot
        PROVE  orders'[i].exitAt + Cooldown <= cooldowns'[orders'[i].coin]
    <3>1. CASE i = k
      <4>1. orders'[i] = p /\ Trades(c, at, p)
        BY <1>4, <1>12, <2>4, <3>1
      <4>2. p.exitAt = at /\ cooldowns'[c] = at + Cooldown
        BY <1>6, <4>1 DEF Trades
      <4> QED
        BY <1>2, <4>1, <4>2, TimesAssumption
    <3>2. CASE i # k
      <4>1. orders'[i] = orders[i]
        BY <1>4, <3>2
      <4>2. orders[i].exitAt + Cooldown <= cooldowns[orders[i].coin]
        BY <2>1, <2>4, <4>1
      <4>3. CASE Trades(c, at, p) /\ orders[i].coin = c
        <5>1. i < k
          BY <1>13, <3>2, <4>3
        <5>2. orders[k].placed >= orders[i].exitAt + Cooldown
          BY <1>1, <2>1, <2>4, <4>1, <4>3, <5>1 DEF IInv, CooldownRespected
        <5>3. cooldowns'[c] = at + Cooldown
          BY <1>6, <4>3 DEF Trades
        <5>4. passAt \in Nat /\ Cooldown \in Nat
          BY TimesAssumption DEF IInv, TypeOK
        <5> QED
          BY SMTT(30), <1>1, <1>7, <2>1, <4>1, <4>3, <5>2, <5>3, <5>4
      <4>4. CASE ~Trades(c, at, p) \/ orders[i].coin # c
        <5>1. cooldowns'[orders[i].coin] = cooldowns[orders[i].coin]
          BY <1>6, <1>7, <4>4 DEF Keeps, Expires, Trades
        <5> QED
          BY <4>1, <4>2, <5>1
      <4> QED
        BY <4>3, <4>4
    <3> QED
      BY <3>1, <3>2
  <2> QED
    BY <2>2, <2>3, <2>4
<1>15. Drawn'
  <2> SUFFICES ASSUME NEW i \in 1..n, orders'[i].status \in Live
               PROVE  WellDrawn(orders'[i])
    BY <1>4 DEF Drawn, WellDrawn
  <2>1. CASE i = k
    BY <1>4, <1>11, <2>1 DEF Keeps
  <2>2. CASE i # k
    BY <1>4, <2>2 DEF IInv, Drawn
  <2> QED
    BY <2>1, <2>2
<1>16. CooldownRespected'
  <2> SUFFICES ASSUME NEW i \in 1..n, NEW j \in 1..n, i < j,
                      orders'[i].coin = orders'[j].coin, orders'[i].boot = orders'[j].boot,
                      Traded(orders'[i])
               PROVE  orders'[j].placed >= orders'[i].exitAt + Cooldown
    BY <1>4 DEF CooldownRespected, Traded
  <2>1. i # k
    BY <1>1, <1>5
  <2>2. orders'[i] = orders[i]
    BY <1>4, <2>1
  <2> QED
    BY <1>5, <2>2 DEF IInv, CooldownRespected
<1>17. TrailingWins'
  <2> SUFFICES ASSUME NEW i \in 1..n, orders'[i].reason = "TRAILING_STOP"
               PROVE  orders'[i].won
    BY <1>4 DEF TrailingWins
  <2>1. CASE i = k
    <3>1. p.reason = "TRAILING_STOP"
      BY <1>4, <2>1
    <3>2. Trades(c, at, p)
      BY <3>1, NoneAssumption DEF Keeps, WellDrawn, Expires, Exits
    <3> QED
      BY <1>4, <2>1, <3>1, <3>2 DEF Trades
  <2>2. CASE i # k
    BY <1>4, <2>2 DEF IInv, TrailingWins
  <2> QED
    BY <2>1, <2>2
<1>18. FilledInTime'
  <2> SUFFICES ASSUME NEW i \in 1..n,
                      orders'[i].status = "OPEN" \/ orders'[i].reason \in Exits
               PROVE  orders'[i].entry - orders'[i].placed <= OrderTimeout
    BY <1>4 DEF FilledInTime
  <2>1. CASE i = k
    <3>1. ~Expires(c, p)
      BY <1>4, <2>1 DEF Expires, Exits
    <3> QED
      BY <1>4, <2>1, <3>1 DEF Keeps, Trades
  <2>2. CASE i # k
    BY <1>4, <2>2 DEF IInv, FilledInTime
  <2> QED
    BY <2>1, <2>2
<1> QED
  BY <1>8, <1>10, <1>14, <1>15, <1>16, <1>17, <1>18 DEF IInv

LEMMA SubmitPreserves ==
  ASSUME IInv, NEW c \in Coins, NEW dir \in {1, -1}, SubmitSignal(c, dir),
         items' \in [Coins -> Item], file' \in [Coins -> Item],
         last_candle_minute' \in [Coins -> Nat \cup {None}],
         UNCHANGED <<now, passAt, cooldowns, boot, forgot>>
  PROVE  IInv'
<1> DEFINE n == Len(orders)
           p == NewOrder(c, dir)
<1>1. /\ now \in Nat /\ passAt \in Nat /\ boot \in Nat /\ orders \in Seq(Order) /\ n \in Nat
      /\ coin_to_pos \in [Coins -> 0..n] /\ cooldowns \in [Coins -> Nat] /\ forgot \in 0..n
  BY DEF IInv, TypeOK
<1>2. p \in Order
  BY <1>1, NewOrderIs
<1>3. /\ p.coin = c /\ p.status = "PENDING_LIMIT" /\ p.placed = passAt /\ p.boot = boot
      /\ p.trailing = FALSE /\ p.peak = 0 /\ p.reason = None
  BY DEF NewOrder
<1>4. orders' = Append(orders, p) /\ coin_to_pos' = [coin_to_pos EXCEPT ![c] = n + 1]
  BY DEF SubmitSignal
<1> HIDE DEF p
<1>5. /\ orders' \in Seq(Order) /\ Len(orders') = n + 1 /\ orders'[n + 1] = p
      /\ \A i \in 1..n : orders'[i] = orders[i]
  BY <1>1, <1>2, <1>4
<1>6. \A i \in 1..(n + 1) : i \in 1..n \/ i = n + 1
  BY <1>1
<1>7. \A i \in 1..n : orders[i].coin \in Coins /\ i \in 1..(n + 1) /\ i < n + 1 /\ orders[i].exitAt \in Nat
  <2>1. \A i \in 1..n : orders[i] \in Order
    BY <1>1
  <2>2. \A i \in 1..n : i \in 1..(n + 1) /\ i < n + 1
    BY <1>1
  <2>3. \A i \in 1..n : orders[i].coin \in Coins /\ orders[i].exitAt \in Nat
    BY <2>1 DEF Order
  <2> QED
    BY <2>2, <2>3
<1>8. coin_to_pos[c] = 0 /\ cooldowns[c] <= passAt
  BY <1>1 DEF SubmitSignal, HasActivePosition, IsInCooldown, IInv, Pointed
<1>9. \A d \in Coins : coin_to_pos'[d] = IF d = c THEN n + 1 ELSE coin_to_pos[d]
  BY <1>1, <1>4
<1>10. TypeOK'
  <2>1. coin_to_pos' \in [Coins -> 0..(n + 1)] /\ forgot \in 0..(n + 1)
    BY <1>1, <1>4
  <2> QED
    BY <1>1, <1>5, <2>1 DEF IInv, TypeOK
<1>11. ActiveIsIndexed'
  <2> SUFFICES ASSUME NEW i \in 1..(n + 1), orders'[i].status \in Live
               PROVE  coin_to_pos'[orders'[i].coin] = i
    BY <1>5 DEF ActiveIsIndexed
  <2>1. CASE i \in 1..n
    <3>1. orders'[i] = orders[i] /\ coin_to_pos[orders[i].coin] = i /\ orders[i].coin \in Coins
      BY <1>5, <1>7, <2>1 DEF IInv, ActiveIsIndexed
    <3>2. orders[i].coin # c
      BY <1>8, <2>1, <3>1
    <3> QED
      BY <1>9, <3>1, <3>2
  <2>2. CASE i = n + 1
    BY <1>3, <1>5, <1>9, <2>2
  <2> QED
    BY <1>6, <2>1, <2>2
<1>12. Pointed'
  <2> SUFFICES ASSUME NEW d \in Coins, coin_to_pos'[d] # 0
               PROVE  /\ orders'[coin_to_pos'[d]].coin = d
                      /\ orders'[coin_to_pos'[d]].status \in Live
                      /\ \A j \in 1..(n + 1) : orders'[j].coin = d => j <= coin_to_pos'[d]
    BY <1>5 DEF Pointed
  <2>1. CASE d = c
    BY <1>1, <1>3, <1>5, <1>9, <2>1 DEF Live
  <2>2. CASE d # c
    <3>1. coin_to_pos'[d] = coin_to_pos[d] /\ coin_to_pos[d] \in 1..n
      BY <1>1, <1>9, <2>2
    <3>2. /\ orders[coin_to_pos[d]].coin = d /\ orders[coin_to_pos[d]].status \in Live
          /\ \A j \in 1..n : orders[j].coin = d => j <= coin_to_pos[d]
      BY <3>1 DEF IInv, Pointed
    <3> QED
      BY <1>3, <1>5, <1>6, <2>2, <3>1, <3>2
  <2> QED
    BY <2>1, <2>2
<1>13. Stamped'
  <2> SUFFICES ASSUME NEW i \in 1..(n + 1)
               PROVE  /\ orders'[i].placed <= passAt
                      /\ orders'[i].boot <= boot
                      /\ orders'[i].status \in Live => orders'[i].boot = boot
                      /\ Traded(orders'[i]) /\ orders'[i].boot = boot
                           => orders'[i].exitAt + Cooldown <= cooldowns[orders'[i].coin]
    BY <1>5 DEF Stamped
  <2>1. CASE i \in 1..n
    BY <1>5, <2>1 DEF IInv, Stamped
  <2>2. CASE i = n + 1
    BY <1>1, <1>3, <1>5, <2>2 DEF Traded
  <2> QED
    BY <1>6, <2>1, <2>2
<1>14. Drawn'
  <2> SUFFICES ASSUME NEW i \in 1..(n + 1), orders'[i].status \in Live
               PROVE  WellDrawn(orders'[i])
    BY <1>5 DEF Drawn, WellDrawn
  <2>1. CASE i \in 1..n
    BY <1>5, <2>1 DEF IInv, Drawn
  <2>2. CASE i = n + 1
    BY <1>3, <1>5, <2>2, TicksAssumption DEF WellDrawn
  <2> QED
    BY <1>6, <2>1, <2>2
<1>15. CooldownRespected'
  <2> SUFFICES ASSUME NEW i \in 1..(n + 1), NEW j \in 1..(n + 1), i < j,
                      orders'[i].coin = orders'[j].coin, orders'[i].boot = orders'[j].boot,
                      Traded(orders'[i])
               PROVE  orders'[j].placed >= orders'[i].exitAt + Cooldown
    BY <1>5 DEF CooldownRespected, Traded
  <2>1. i \in 1..n /\ orders'[i] = orders[i]
    BY <1>1, <1>5
  <2>2. CASE j \in 1..n
    BY <1>5, <2>1, <2>2 DEF IInv, CooldownRespected
  <2>3. CASE j = n + 1
    <3>1. orders[i].coin = c /\ orders[i].boot = boot
      BY <1>3, <1>5, <2>1, <2>3
    <3>2. orders[i].exitAt + Cooldown <= cooldowns[c]
      BY <2>1, <3>1 DEF IInv, Stamped
    <3>3. cooldowns[c] \in Nat /\ Cooldown \in Nat /\ orders[i].exitAt \in Nat
      BY <1>1, <1>7, <2>1, TimesAssumption
    <3> QED
      BY <1>1, <1>3, <1>5, <1>8, <2>1, <2>3, <3>2, <3>3
  <2> QED
    BY <1>6, <2>2, <2>3
<1>16. TrailingWins'
  <2> SUFFICES ASSUME NEW i \in 1..(n + 1), orders'[i].reason = "TRAILING_STOP"
               PROVE  orders'[i].won
    BY <1>5 DEF TrailingWins
  <2>1. i \in 1..n
    BY <1>3, <1>5, <1>6, NoneAssumption DEF Exits
  <2> QED
    BY <1>5, <2>1 DEF IInv, TrailingWins
<1>17. FilledInTime'
  <2> SUFFICES ASSUME NEW i \in 1..(n + 1),
                      orders'[i].status = "OPEN" \/ orders'[i].reason \in Exits
               PROVE  orders'[i].entry - orders'[i].placed <= OrderTimeout
    BY <1>5 DEF FilledInTime
  <2>1. i \in 1..n
    BY <1>3, <1>5, <1>6, NoneAssumption
  <2> QED
    BY <1>5, <2>1 DEF IInv, FilledInTime
<1> QED
  BY <1>10, <1>11, <1>12, <1>13, <1>14, <1>15, <1>16, <1>17 DEF IInv

(* What a scan may do to the whitelist.                                    *)
LEMMA RecoverType ==
  ASSUME TypeOK, NEW c \in Coins, Recover(c)
  PROVE  items' \in [Coins -> Item] /\ file' \in [Coins -> Item]
<1>1. [losses |-> 0, until |-> 0] \in Item
  BY DEF Item
<1> QED
  BY <1>1 DEF TypeOK, Recover

(* A step that leaves the orders, their index and the cooldowns alone, and *)
(* does not turn the pass back.                                            *)
LEMMA IdlePreserves ==
  ASSUME IInv, TypeOK', passAt' >= passAt, UNCHANGED <<orders, coin_to_pos, cooldowns, boot>>
  PROVE  IInv'
<1>1. ActiveIsIndexed' /\ Pointed'
  BY DEF IInv, ActiveIsIndexed, Pointed
<1>2. Stamped'
  <2> SUFFICES ASSUME NEW i \in 1..Len(orders)
               PROVE  orders[i].placed <= passAt'
    BY DEF IInv, Stamped, Traded
  <2>1. orders[i] \in Order /\ passAt \in Nat /\ passAt' \in Nat
    BY DEF IInv, TypeOK
  <2>2. orders[i].placed \in Nat
    BY <2>1 DEF Order
  <2> QED
    BY <2>1, <2>2 DEF IInv, Stamped
<1>3. Drawn'
  BY DEF IInv, Drawn, WellDrawn
<1>4. CooldownRespected'
  BY DEF IInv, CooldownRespected, Traded
<1>5. TrailingWins' /\ FilledInTime'
  BY DEF IInv, TrailingWins, FilledInTime
<1> QED
  BY <1>1, <1>2, <1>3, <1>4, <1>5 DEF IInv

LEMMA RestartPreserves ==
  ASSUME IInv, Restart
  PROVE  IInv'
<1> DEFINE n == Len(orders)
           lost(i) == Ended(orders[i], "LOST", 0, None, FALSE)
<1>1. /\ now \in Nat /\ passAt \in Nat /\ passAt <= now /\ boot \in Nat
      /\ orders \in Seq(Order) /\ n \in Nat /\ DOMAIN orders = 1..n /\ forgot \in 0..n
      /\ items \in [Coins -> Item] /\ file \in [Coins -> Item]
  BY DEF IInv, TypeOK
<1>2. \A i \in 1..n : orders[i] \in Order /\ orders[i].placed \in Nat /\ orders[i].boot \in Nat
  <2>1. \A i \in 1..n : orders[i] \in Order
    BY <1>1
  <2> QED
    BY <2>1 DEF Order
<1>3. \A i \in 1..n : /\ lost(i) \in Order /\ lost(i).coin = orders[i].coin
                      /\ lost(i).placed = orders[i].placed /\ lost(i).boot = orders[i].boot
                      /\ lost(i).status = "LOST" /\ lost(i).reason = None
  <2> TAKE i \in 1..n
  <2>1. lost(i) \in Order
    BY <1>2, EndedType
  <2> QED
    BY <2>1 DEF Ended
<1> HIDE DEF lost
<1>4. /\ orders' = [i \in 1..n |-> IF orders[i].status \in Live THEN lost(i) ELSE orders[i]]
      /\ now' = now /\ passAt' = now /\ boot' = boot + 1
      /\ coin_to_pos' = [c \in Coins |-> 0] /\ cooldowns' = [c \in Coins |-> 0]
      /\ last_candle_minute' = [c \in Coins |-> None]
  BY <1>1 DEF Restart, lost
<1>5. /\ orders' \in Seq(Order) /\ Len(orders') = n
      /\ \A i \in 1..n : orders'[i] = IF orders[i].status \in Live THEN lost(i) ELSE orders[i]
  BY <1>1, <1>2, <1>3, <1>4
<1>6. Fresh \in [Coins -> Item]
  BY DEF Fresh, Item
<1>7. items' \in [Coins -> Item] /\ file' \in [Coins -> Item] /\ forgot' \in 0..n
  BY <1>1, <1>6 DEF Restart
<1>8. TypeOK'
  BY <1>1, <1>4, <1>5, <1>7 DEF TypeOK
<1>9. \A i \in 1..n : /\ orders'[i].status \notin Live
                      /\ orders'[i].coin = orders[i].coin /\ orders'[i].boot = orders[i].boot
                      /\ orders'[i].placed = orders[i].placed
  BY <1>3, <1>5 DEF Live
<1>10. \A i \in 1..n : Traded(orders'[i]) \/ orders'[i].reason # None => orders'[i] = orders[i]
  BY <1>3, <1>5 DEF Traded
<1>11. ActiveIsIndexed' /\ Pointed' /\ Drawn'
  BY <1>4, <1>5, <1>9 DEF ActiveIsIndexed, Pointed, Drawn
<1>12. Stamped'
  <2> SUFFICES ASSUME NEW i \in 1..n
               PROVE  orders[i].placed <= now /\ orders[i].boot < boot + 1
    BY <1>4, <1>5, <1>9, <1>2, <1>1 DEF Stamped
  <2>1. orders[i].placed <= passAt /\ orders[i].boot <= boot
    BY DEF IInv, Stamped
  <2> QED
    BY <1>1, <1>2, <2>1
<1>13. CooldownRespected'
  BY <1>5, <1>9, <1>10 DEF IInv, CooldownRespected, Traded
<1>14. TrailingWins' /\ FilledInTime'
  <2>1. \A i \in 1..n : orders'[i].reason \in Exits => orders'[i] = orders[i]
    BY <1>10, NoneAssumption
  <2>2. TrailingWins'
    BY <1>5, <2>1 DEF IInv, TrailingWins, Exits
  <2>3. FilledInTime'
    BY <1>5, <1>9, <2>1 DEF IInv, FilledInTime, Live
  <2> QED
    BY <2>2, <2>3
<1> QED
  BY <1>8, <1>11, <1>12, <1>13, <1>14 DEF IInv

-----------------------------------------------------------------------------
LEMMA InitInvariant == Init => IInv
<1> SUFFICES ASSUME Init PROVE IInv
  OBVIOUS
<1>1. orders = <<>> /\ Len(orders) = 0 /\ \A c \in Coins : coin_to_pos[c] = 0
  BY DEF Init
<1>2. Fresh \in [Coins -> Item]
  BY DEF Fresh, Item
<1>3. TypeOK
  BY <1>1, <1>2 DEF Init, TypeOK
<1> QED
  BY <1>1, <1>3 DEF IInv, ActiveIsIndexed, Pointed, Stamped, Drawn, CooldownRespected,
                    TrailingWins, FilledInTime

LEMMA NextPreserves == IInv /\ [Next]_vars => IInv'
<1> SUFFICES ASSUME IInv, [Next]_vars PROVE IInv'
  OBVIOUS
<1> USE DEF memory
<1>1. /\ TypeOK /\ Pointed /\ Drawn /\ FilledInTime
      /\ now \in Nat /\ passAt \in Nat /\ passAt <= now
  BY DEF IInv, TypeOK
<1>2. CASE Tick
  <2>1. TypeOK' /\ passAt' >= passAt
    BY <1>1, <1>2 DEF Tick, TypeOK
  <2> QED
    BY <1>2, <2>1, IdlePreserves DEF Tick
<1>3. CASE BeginPass
  <2>1. TypeOK' /\ passAt' >= passAt
    BY <1>1, <1>3 DEF BeginPass, TypeOK
  <2> QED
    BY <1>3, <2>1, IdlePreserves DEF BeginPass
<1>4. CASE Restart
  BY <1>4, RestartPreserves
<1>5. ASSUME NEW c \in Coins, NEW mid \in Offsets, PriceTick(c, mid)
      PROVE  IInv'
  <2>1. mid \in Int /\ OnMarketUpdate(c, mid, mid, mid, mid, now)
    BY <1>5, TicksAssumption DEF PriceTick
  <2>2. \E p : Moves(c, now, p) /\ (Keeps(p) \/ Expires(c, p) \/ Trades(c, now, p))
    BY <1>1, <2>1, UpdateMoves
  <2>3. /\ HasActivePosition(c)
        /\ UNCHANGED <<now, passAt, last_candle_minute, boot, forgot>>
    BY <2>1 DEF OnMarketUpdate
  <2> QED
    BY <1>1, <2>2, <2>3, MovePreserves
<1>6. ASSUME NEW c \in Coins, NEW q \in Quotes, CheckExits(c, q[1], q[2])
      PROVE  IInv'
  <2> DEFINE high == IF q[1] > q[2] THEN q[1] ELSE q[2]
             low == IF q[1] > q[2] THEN q[2] ELSE q[1]
  <2>1. q[1] \in Int /\ q[2] \in Int
    BY TicksAssumption
  <2>2. high \in Int /\ low \in Int /\ OnMarketUpdate(c, q[1], q[2], high, low, passAt)
    BY <1>6, <2>1 DEF CheckExits
  <2> HIDE DEF high, low
  <2>3. \E p : Moves(c, passAt, p) /\ (Keeps(p) \/ Expires(c, p) \/ Trades(c, passAt, p))
    BY <1>1, <2>1, <2>2, UpdateMoves
  <2>4. /\ HasActivePosition(c)
        /\ UNCHANGED <<now, passAt, last_candle_minute, boot, forgot>>
    BY <2>2 DEF OnMarketUpdate
  <2> QED
    BY <1>1, <2>3, <2>4, MovePreserves
<1>7. ASSUME NEW c \in Coins, ScanSymbol(c)
      PROVE  IInv'
  <2>1. /\ items' \in [Coins -> Item] /\ file' \in [Coins -> Item]
        /\ UNCHANGED <<now, passAt, cooldowns, boot, forgot>>
    BY <1>1, <1>7, RecoverType DEF ScanSymbol
  <2>2. CASE /\ \E dir \in {1, -1} : SubmitSignal(c, dir)
             /\ last_candle_minute' = [last_candle_minute EXCEPT ![c] = passAt]
    <3>1. last_candle_minute' \in [Coins -> Nat \cup {None}]
      BY <1>1, <2>2 DEF TypeOK
    <3> QED
      BY <2>1, <2>2, <3>1, SubmitPreserves
  <2>3. CASE UNCHANGED <<orders, coin_to_pos, last_candle_minute>>
    <3>1. TypeOK' /\ passAt' >= passAt
      BY <1>1, <2>1, <2>3 DEF TypeOK
    <3> QED
      BY <2>1, <2>3, <3>1, IdlePreserves
  <2> QED
    BY <1>7, <2>2, <2>3 DEF ScanSymbol
<1>8. CASE UNCHANGED vars
  <2>1. TypeOK' /\ passAt' >= passAt
    BY <1>1, <1>8 DEF vars, TypeOK
  <2> QED
    BY <1>8, <2>1, IdlePreserves DEF vars
<1> QED
  BY <1>2, <1>3, <1>4, <1>5, <1>6, <1>7, <1>8 DEF Next, MoveOrder

(* The invariant holds in every state, for every number of coins, orders   *)
(* and restarts and all prices and delays.                                 *)
THEOREM Invariant == Spec => []IInv
<1>1. Init => IInv
  BY InitInvariant
<1>2. IInv /\ [Next]_vars => IInv'
  BY NextPreserves
<1> QED
  BY <1>1, <1>2, PTL DEF Spec

(* The variables of the strategy keep their types (VolumeOIExecutor).      *)
THEOREM TypeCorrect == Spec => []TypeOK
<1>1. IInv => TypeOK
  BY DEF IInv
<1> QED
  BY <1>1, Invariant, PTL

(* A coin never has two live orders, and none that its index misses.       *)
THEOREM OneOrderPerCoin == Spec => []ActiveIsIndexed
<1>1. IInv => ActiveIsIndexed
  BY DEF IInv
<1> QED
  BY <1>1, Invariant, PTL

(* No order of a coin within the cooldown of its last trade, although the  *)
(* trade may be stamped by the clock and the order by an older pass.       *)
THEOREM CooldownHolds == Spec => []CooldownRespected
<1>1. IInv => CooldownRespected
  BY DEF IInv
<1> QED
  BY <1>1, Invariant, PTL

(* A trailing stop always ends a trade with a net gain, if the activation  *)
(* exceeds the distance by more than the fee (TicksAssumption).            *)
THEOREM TrailingStopsWin == Spec => []TrailingWins
<1>1. IInv => TrailingWins
  BY DEF IInv
<1> QED
  BY <1>1, Invariant, PTL

(* No order fills after its timeout (order_timeout_sec).                   *)
THEOREM FillsInTime == Spec => []FilledInTime
<1>1. IInv => FilledInTime
  BY DEF IInv
<1> QED
  BY <1>1, Invariant, PTL

-----------------------------------------------------------------------------
(* The pause after a run of losses.  What the whitelist keeps of a coin    *)
(* (Reckoned) is the run of its trades as the orders tell it, until a      *)
(* pause is set: and a pause is over only when its time has come.          *)

LEMMA LeastOfNaturals ==
  ASSUME NEW S \in SUBSET Nat, S # {}
  PROVE  \E n \in S : \A m \in S : n <= m
<1> DEFINE R == {ss \in Nat \X Nat : ss[1] < ss[2]}
<1>1. IsWellFoundedOn(R, Nat)
  BY NatLessThanWellFounded DEF OpToRel
<1>2. \E x \in S : \A y \in S : ~ (<<y, x>> \in R)
  <2> HIDE DEF R
  <2> QED
    BY <1>1, WFMin
<1>3. PICK x \in S : \A y \in S : ~ (<<y, x>> \in R)
  BY <1>2
<1>4. \A y \in S : ~ (y < x)
  BY <1>3
<1> QED
  BY <1>4

LEMMA Induct ==
  ASSUME NEW S, 0 \in S, \A n \in Nat : n \in S => n + 1 \in S
  PROVE  Nat \subseteq S
<1> SUFFICES ASSUME NEW k \in Nat, k \notin S PROVE FALSE
  OBVIOUS
<1>1. PICK n \in Nat \ S : \A m \in Nat \ S : n <= m
  BY LeastOfNaturals
<1>2. CASE n = 0
  BY <1>1, <1>2
<1>3. CASE n # 0
  <2>1. n - 1 \in Nat /\ (n - 1) + 1 = n /\ ~(n <= n - 1)
    BY <1>1, <1>3
  <2>2. n - 1 \in S
    BY <1>1, <2>1
  <2> QED
    BY <1>1, <2>1, <2>2
<1> QED
  BY <1>2, <1>3

(* Two functions that start alike and go on alike are alike.               *)
AlikeStep(n, f, g) == \A i \in 1..n : f[i - 1] = g[i - 1] => f[i] = g[i]
LEMMA Alike ==
  ASSUME NEW n \in Nat, NEW f, NEW g, f[0] = g[0], AlikeStep(n, f, g)
  PROVE  \A i \in 0..n : f[i] = g[i]
<1> USE DEF AlikeStep
<1> DEFINE S == {i \in Nat : i <= n => f[i] = g[i]}
<1>1. 0 \in S
  OBVIOUS
<1>2. ASSUME NEW i \in Nat, i \in S PROVE i + 1 \in S
  <2>1. i + 1 \in Nat /\ (i + 1) - 1 = i
    OBVIOUS
  <2>2. ASSUME i + 1 <= n PROVE f[i + 1] = g[i + 1]
    <3>1. i <= n /\ i + 1 \in 1..n
      BY <2>2
    <3>2. f[i] = g[i]
      BY <1>2, <3>1
    <3> QED
      BY <2>1, <3>1, <3>2
  <2> QED
    BY <2>1, <2>2
<1>3. Nat \subseteq S
  <2> HIDE DEF S
  <2> QED
    BY <1>1, <1>2, Induct
<1> QED
  BY <1>3

(* A count of the losses in a row, up to n orders.                         *)
CountsTo(n, s, c, history, from) ==
  /\ s \in [0..n -> 0..LossLimit]
  /\ s[0] = 0
  /\ \A i \in 1..n : s[i] = IF i <= from THEN 0 ELSE Counted(c, history[i], s[i - 1])
Counts(s, c, history, from) == CountsTo(Len(history), s, c, history, from)

LEMMA CountedIs ==
  ASSUME NEW c, NEW o, NEW k \in 0..LossLimit
  PROVE  /\ Counted(c, o, k) \in 0..LossLimit
         /\ o.coin # c \/ ~Traded(o) => Counted(c, o, k) = k
BY TimesAssumption DEF Counted

LEMMA CountExists ==
  ASSUME NEW c, NEW history, NEW from \in Nat, NEW n \in Nat
  PROVE  \E s : CountsTo(n, s, c, history, from)
<1> DEFINE S == {m \in Nat : \E s : CountsTo(m, s, c, history, from)}
<1>1. 0 \in S
  <2>1. PICK s : s = [i \in 0..0 |-> 0]
    OBVIOUS
  <2>2. CountsTo(0, s, c, history, from)
    BY <2>1, TimesAssumption DEF CountsTo
  <2> QED
    BY <2>2
<1>2. ASSUME NEW m \in Nat, m \in S PROVE m + 1 \in S
  <2>1. PICK s : CountsTo(m, s, c, history, from)
    BY <1>2
  <2>2. /\ s \in [0..m -> 0..LossLimit] /\ s[0] = 0 /\ s[m] \in 0..LossLimit
        /\ \A i \in 1..m : s[i] = IF i <= from THEN 0 ELSE Counted(c, history[i], s[i - 1])
    BY <2>1 DEF CountsTo
  <2>3. PICK x \in 0..LossLimit :
          x = IF m + 1 <= from THEN 0 ELSE Counted(c, history[m + 1], s[m])
    BY <2>2, CountedIs, TimesAssumption
  <2>4. PICK t : t = [i \in 0..(m + 1) |-> IF i = m + 1 THEN x ELSE s[i]]
    OBVIOUS
  <2>5. /\ t[m + 1] = x /\ \A i \in 0..m : t[i] = s[i]
        /\ \A i \in 1..(m + 1) : i = m + 1 \/ (i \in 1..m /\ i - 1 \in 0..m /\ i \in 0..m)
        /\ (m + 1) - 1 = m /\ m \in 0..m /\ 0 \in 0..m
    BY <2>4
  <2>6. t \in [0..(m + 1) -> 0..LossLimit]
    BY <2>2, <2>4
  <2>7. ASSUME NEW i \in 1..(m + 1)
        PROVE  t[i] = IF i <= from THEN 0 ELSE Counted(c, history[i], t[i - 1])
    <3>1. CASE i = m + 1
      BY <2>3, <2>5, <3>1
    <3>2. CASE i # m + 1
      <4>1. t[i] = s[i] /\ t[i - 1] = s[i - 1] /\ i \in 1..m
        BY <2>5, <3>2
      <4> QED
        BY <2>2, <4>1
    <3> QED
      BY <3>1, <3>2
  <2>8. CountsTo(m + 1, t, c, history, from)
    BY <2>2, <2>5, <2>6, <2>7 DEF CountsTo
  <2> QED
    BY <2>8
<1>3. Nat \subseteq S
  <2> HIDE DEF S
  <2> QED
    BY <1>1, <1>2, Induct
<1> QED
  BY <1>3

(* The function that the property defines by recursion is such a count.    *)
LEMMA StreakCounts ==
  ASSUME NEW c, NEW history, Len(history) \in Nat, NEW from \in Nat
  PROVE  Counts(Streak(c, history, from), c, history, from)
<1> DEFINE n == Len(history)
           Rule(s) == s = [i \in 0..n |->
                             IF i <= from THEN 0 ELSE Counted(c, history[i], s[i - 1])]
           g == Streak(c, history, from)
<1>1. PICK s : CountsTo(n, s, c, history, from)
  BY CountExists
<1>2. /\ s \in [0..n -> 0..LossLimit] /\ s[0] = 0
      /\ \A i \in 1..n : s[i] = IF i <= from THEN 0 ELSE Counted(c, history[i], s[i - 1])
  BY <1>1 DEF CountsTo
<1>3. Rule(s)
  <2>1. \A i \in 0..n : s[i] = IF i <= from THEN 0 ELSE Counted(c, history[i], s[i - 1])
    BY <1>2
  <2> QED
    BY <1>2, <2>1
<1>4. g = CHOOSE t : Rule(t)
  BY DEF Streak
<1>5. Rule(g)
  BY <1>3, <1>4
<1> HIDE DEF g
<1>6. g[0] = 0 /\ \A i \in 1..n : g[i] = IF i <= from THEN 0
                                         ELSE Counted(c, history[i], g[i - 1])
  BY <1>5
<1>7. AlikeStep(n, g, s)
  BY <1>2, <1>6 DEF AlikeStep
<1>8. \A i \in 0..n : g[i] = s[i]
  BY <1>2, <1>6, <1>7, Alike
<1>9. g = s
  BY <1>2, <1>5, <1>8
<1> QED
  BY <1>1, <1>9 DEF Counts, g

(* Orders that count alike give the same run.                              *)
CountAlike(m, c, history, later) ==
  \A i \in 1..m : \A k \in 0..LossLimit : Counted(c, history[i], k) = Counted(c, later[i], k)

LEMMA SameRun ==
  ASSUME NEW c, NEW history, NEW later, NEW from \in Nat, NEW m \in Nat,
         Len(history) \in Nat, Len(later) \in Nat, m <= Len(history), m <= Len(later),
         CountAlike(m, c, history, later)
  PROVE  \A i \in 0..m : Streak(c, history, from)[i] = Streak(c, later, from)[i]
<1>1. PICK s : s = Streak(c, history, from)
  OBVIOUS
<1>2. PICK t : t = Streak(c, later, from)
  OBVIOUS
<1>3. Counts(s, c, history, from) /\ Counts(t, c, later, from)
  BY <1>1, <1>2, StreakCounts
<1>4. /\ s[0] = 0 /\ t[0] = 0
      /\ \A i \in 0..m : s[i] \in 0..LossLimit
      /\ \A i \in 1..m : s[i] = IF i <= from THEN 0 ELSE Counted(c, history[i], s[i - 1])
      /\ \A i \in 1..m : t[i] = IF i <= from THEN 0 ELSE Counted(c, later[i], t[i - 1])
  <2>1. \A i \in 0..m : i \in 0..Len(history) /\ i \in 0..Len(later)
    OBVIOUS
  <2>2. \A i \in 1..m : i \in 1..Len(history) /\ i \in 1..Len(later)
    OBVIOUS
  <2>3. /\ s[0] = 0 /\ s \in [0..Len(history) -> 0..LossLimit]
        /\ \A i \in 1..Len(history) :
             s[i] = IF i <= from THEN 0 ELSE Counted(c, history[i], s[i - 1])
    BY <1>3 DEF Counts, CountsTo
  <2>4. /\ t[0] = 0
        /\ \A i \in 1..Len(later) :
             t[i] = IF i <= from THEN 0 ELSE Counted(c, later[i], t[i - 1])
    BY <1>3 DEF Counts, CountsTo
  <2> QED
    BY <2>1, <2>2, <2>3, <2>4
<1>5. AlikeStep(m, s, t)
  <2> SUFFICES ASSUME NEW i \in 1..m, s[i - 1] = t[i - 1] PROVE s[i] = t[i]
    BY DEF AlikeStep
  <2>1. i - 1 \in 0..m
    OBVIOUS
  <2>2. Counted(c, history[i], s[i - 1]) = Counted(c, later[i], s[i - 1])
    BY <1>4, <2>1 DEF CountAlike
  <2> QED
    BY <1>4, <2>2
<1>6. \A i \in 0..m : s[i] = t[i]
  BY <1>4, <1>5, Alike
<1> QED
  BY <1>1, <1>2, <1>6

(* Behind the last order that counts the run stays what it is.             *)
NothingBehind(k, c, history) ==
  \A i \in 1..Len(history) : i > k => history[i].coin # c \/ ~Traded(history[i])

LEMMA RunStays ==
  ASSUME NEW c, NEW history, NEW from \in Nat, NEW k \in Nat,
         Len(history) \in Nat, from <= k, k <= Len(history), NothingBehind(k, c, history)
  PROVE  Streak(c, history, from)[Len(history)] = Streak(c, history, from)[k]
<1> DEFINE n == Len(history)
           S == {i \in Nat : i \in k..n => Streak(c, history, from)[i] = Streak(c, history, from)[k]}
<1>1. PICK s : s = Streak(c, history, from)
  OBVIOUS
<1>2. Counts(s, c, history, from)
  BY <1>1, StreakCounts
<1>3. /\ \A i \in 0..n : s[i] \in 0..LossLimit
      /\ \A i \in 1..n : s[i] = IF i <= from THEN 0 ELSE Counted(c, history[i], s[i - 1])
  BY <1>2 DEF Counts, CountsTo
<1>4. 0 \in S
  OBVIOUS
<1>5. ASSUME NEW i \in Nat, i \in S PROVE i + 1 \in S
  <2> SUFFICES ASSUME i + 1 \in k..n PROVE s[i + 1] = s[k]
    BY <1>1
  <2>1. CASE i + 1 = k
    BY <2>1
  <2>2. CASE i + 1 > k
    <3>1. i \in k..n /\ i \in 0..n /\ i + 1 \in 1..n /\ ~(i + 1 <= from) /\ (i + 1) - 1 = i
      BY <2>2
    <3>2. s[i] = s[k] /\ s[i] \in 0..LossLimit
      BY <1>1, <1>3, <1>5, <3>1
    <3>3. s[i + 1] = Counted(c, history[i + 1], s[i])
      BY <1>3, <3>1
    <3>4. history[i + 1].coin # c \/ ~Traded(history[i + 1])
      BY <2>2, <3>1 DEF NothingBehind
    <3> QED
      BY <3>2, <3>3, <3>4, CountedIs
  <2> QED
    BY <2>1, <2>2
<1>6. Nat \subseteq S
  <2> HIDE DEF S
  <2> QED
    BY <1>4, <1>5, Induct
<1> QED
  BY <1>6

(* What the whitelist says of a coin: the run, until a pause is set; and   *)
(* each full run is waited for, or its time has come.                      *)
Waits(item, o, pass) ==
  \/ item.until # 0 /\ o.exitAt + Pause <= item.until
  \/ o.exitAt + Pause <= pass
Told(item, k) ==
  IF item.until = 0 THEN item.losses = (IF k = LossLimit THEN 0 ELSE k) ELSE k = LossLimit
Reckons(c, s, history, item, pass) ==
  /\ Told(item, s[Len(history)])
  /\ \A i \in 1..Len(history) :
       history[i].coin = c /\ Traded(history[i]) /\ s[i] = LossLimit => Waits(item, history[i], pass)

Reckoned ==
  /\ file = items
  /\ \A c \in Coins : coin_to_pos[c] # 0 => items[c].until = 0 /\ coin_to_pos[c] > forgot
  /\ \A c \in Coins : Reckons(c, Streak(c, orders, forgot), orders, items[c], passAt)

PInv == IInv /\ Reckoned /\ LossStreakPauses

(* A later pass, and the end of a pause, change nothing of that.           *)
LEMMA ReckonsLater ==
  ASSUME NEW c, NEW s, NEW history \in Seq(Order), NEW item \in Item,
         NEW pass \in Nat, NEW later \in Nat, pass <= later, NEW next,
         \/ next = item
         \/ item.until # 0 /\ pass >= item.until /\ next = [losses |-> 0, until |-> 0],
         Reckons(c, s, history, item, pass)
  PROVE  Reckons(c, s, history, next, later)
<1>1. /\ item.until \in Nat
      /\ \A i \in 1..Len(history) : history[i].exitAt \in Nat
  <2>1. \A i \in 1..Len(history) : history[i] \in Order
    OBVIOUS
  <2> QED
    BY <2>1 DEF Item, Order
<1>2. Told(next, s[Len(history)])
  BY DEF Reckons, Told
<1>3. ASSUME NEW i \in 1..Len(history), Waits(item, history[i], pass)
      PROVE  Waits(next, history[i], later)
  <2>1. history[i].exitAt + Pause \in Nat
    BY SMTT(30), <1>1, TimesAssumption
  <2> QED
    BY <1>1, <1>3, <2>1 DEF Waits
<1> QED
  BY <1>2, <1>3 DEF Reckons

(* Nor do orders that are no trades of the coin.                           *)
SameTrades(c, s, history, t, later) ==
  /\ t[Len(later)] = s[Len(history)]
  /\ \A i \in 1..Len(later) : later[i].coin = c /\ Traded(later[i]) =>
       i \in 1..Len(history) /\ later[i] = history[i] /\ t[i] = s[i]

LEMMA ReckonsTransfer ==
  ASSUME NEW c, NEW s, NEW history, NEW t, NEW later, NEW item, NEW pass,
         SameTrades(c, s, history, t, later), Reckons(c, s, history, item, pass)
  PROVE  Reckons(c, t, later, item, pass)
BY DEF Reckons, SameTrades

-----------------------------------------------------------------------------
(* Steps that leave the trades alone                                       *)
TradesKept ==
  /\ orders' \in Seq(Order) /\ Len(orders') = Len(orders)
  /\ \A i \in 1..Len(orders) :
       /\ orders'[i].coin = orders[i].coin /\ orders'[i].placed = orders[i].placed
       /\ Traded(orders'[i]) <=> Traded(orders[i])
       /\ Traded(orders[i]) => orders'[i] = orders[i]
ItemsKept ==
  /\ file' = items'
  /\ \A c \in Coins :
       \/ items'[c] = items[c]
       \/ /\ items[c].until # 0 /\ passAt >= items[c].until
          /\ items'[c] = [losses |-> 0, until |-> 0]

LEMMA Shapes ==
  ASSUME TypeOK
  PROVE  /\ orders \in Seq(Order) /\ Len(orders) \in Nat /\ DOMAIN orders = 1..Len(orders)
         /\ forgot \in Nat /\ forgot <= Len(orders) /\ passAt \in Nat /\ now \in Nat
         /\ \A c \in Coins : /\ items[c] \in Item /\ items[c].until \in Nat
                             /\ coin_to_pos[c] \in 0..Len(orders)
         /\ \A i \in 1..Len(orders) : /\ orders[i] \in Order /\ orders[i].exitAt \in Nat
                                      /\ orders[i].placed \in Nat
<1>1. /\ orders \in Seq(Order) /\ Len(orders) \in Nat /\ DOMAIN orders = 1..Len(orders)
      /\ forgot \in Nat /\ forgot <= Len(orders) /\ passAt \in Nat /\ now \in Nat
  BY DEF TypeOK
<1>2. \A c \in Coins : items[c] \in Item /\ coin_to_pos[c] \in 0..Len(orders)
  BY DEF TypeOK
<1>3. \A c \in Coins : items[c].until \in Nat
  BY <1>2 DEF Item
<1>4. \A i \in 1..Len(orders) : orders[i] \in Order
  BY <1>1
<1>5. \A i \in 1..Len(orders) : orders[i].exitAt \in Nat /\ orders[i].placed \in Nat
  BY <1>4 DEF Order
<1> QED
  BY <1>1, <1>2, <1>3, <1>4, <1>5

LEMMA QuietKeeps ==
  ASSUME PInv, TradesKept, ItemsKept, passAt' \in Nat, passAt <= passAt', forgot' = forgot,
         \A c \in Coins : coin_to_pos'[c] # 0 => coin_to_pos'[c] = coin_to_pos[c]
  PROVE  Reckoned' /\ LossStreakPauses'
<1> DEFINE n == Len(orders)
<1>1. /\ orders \in Seq(Order) /\ n \in Nat /\ forgot \in Nat /\ passAt \in Nat
      /\ \A c \in Coins : items[c] \in Item
  BY Shapes DEF PInv, IInv
<1>2. ASSUME NEW c \in Coins
      PROVE  \A i \in 0..n : Streak(c, orders', forgot)[i] = Streak(c, orders, forgot)[i]
  <2>1. CountAlike(n, c, orders, orders')
    BY DEF CountAlike, Counted, TradesKept
  <2>2. Len(orders') \in Nat /\ n <= Len(orders')
    BY <1>1 DEF TradesKept
  <2> QED
    BY <1>1, <2>1, <2>2, SameRun
<1>3. ASSUME NEW c \in Coins
      PROVE  Reckons(c, Streak(c, orders', forgot), orders', items'[c], passAt')
  <2>1. PICK s : s = Streak(c, orders, forgot)
    OBVIOUS
  <2>2. PICK t : t = Streak(c, orders', forgot)
    OBVIOUS
  <2>3. \A i \in 0..n : t[i] = s[i]
    BY <1>2, <2>1, <2>2
  <2>4. SameTrades(c, s, orders, t, orders')
    BY <1>1, <2>3 DEF SameTrades, TradesKept
  <2>5. Reckons(c, s, orders, items[c], passAt)
    BY <2>1 DEF PInv, Reckoned
  <2>6. PICK next : next = items'[c]
    OBVIOUS
  <2>7. \/ next = items[c]
        \/ items[c].until # 0 /\ passAt >= items[c].until /\ next = [losses |-> 0, until |-> 0]
    BY <2>6 DEF ItemsKept
  <2>8. Reckons(c, s, orders, next, passAt')
    BY <1>1, <2>5, <2>7, ReckonsLater
  <2>9. Reckons(c, t, orders', next, passAt')
    BY <2>4, <2>8, ReckonsTransfer
  <2> QED
    BY <2>2, <2>6, <2>9
<1>4. ASSUME NEW c \in Coins, coin_to_pos'[c] # 0
      PROVE  items'[c].until = 0 /\ coin_to_pos'[c] > forgot
  <2>1. coin_to_pos'[c] = coin_to_pos[c] /\ items[c].until = 0 /\ coin_to_pos[c] > forgot
    BY <1>4 DEF PInv, Reckoned
  <2>2. items'[c] = items[c]
    BY <2>1 DEF ItemsKept
  <2> QED
    BY <2>1, <2>2
<1>5. Reckoned'
  BY <1>3, <1>4 DEF Reckoned, ItemsKept
<1>6. LossStreakPauses'
  <2> SUFFICES ASSUME NEW c \in Coins, NEW i \in 1..n, NEW j \in 1..n, i < j,
                      orders'[i].coin = c, orders'[j].coin = c,
                      Traded(orders'[i]), Streak(c, orders', forgot)[i] = LossLimit
               PROVE  orders'[j].placed >= orders'[i].exitAt + Pause
    BY DEF LossStreakPauses, TradesKept, Traded
  <2>1. Streak(c, orders, forgot)[i] = LossLimit
    BY <1>1, <1>2
  <2>2. /\ orders[i].coin = c /\ orders[j].coin = c /\ Traded(orders[i])
        /\ orders'[i] = orders[i] /\ orders'[j].placed = orders[j].placed
    BY DEF TradesKept
  <2> QED
    BY <2>1, <2>2 DEF PInv, LossStreakPauses
<1> QED
  BY <1>5, <1>6

(* The end of a pause is the only thing a scan does to the whitelist.      *)
LEMMA RecoverKeepsItems ==
  ASSUME PInv, NEW c \in Coins, Recover(c)
  PROVE  ItemsKept
<1>1. items \in [Coins -> Item] /\ file = items
  BY DEF PInv, IInv, TypeOK, Reckoned
<1>2. CASE PauseIsOver(c)
  <2>1. /\ items' = [items EXCEPT ![c] = [losses |-> 0, until |-> 0]] /\ file' = items'
        /\ items[c].until # 0 /\ passAt >= items[c].until
    BY <1>2 DEF Recover, PauseIsOver
  <2>2. \A d \in Coins : items'[d] = IF d = c THEN [losses |-> 0, until |-> 0] ELSE items[d]
    BY <1>1, <2>1
  <2> QED
    BY <2>1, <2>2 DEF ItemsKept
<1>3. CASE ~PauseIsOver(c)
  BY <1>1, <1>3 DEF Recover, ItemsKept
<1> QED
  BY <1>2, <1>3

(* A new order: the pause of its coin is over.                             *)
LEMMA SubmitKeeps ==
  ASSUME PInv, NEW c \in Coins, NEW dir \in {1, -1}, Recover(c), SubmitSignal(c, dir),
         UNCHANGED <<now, passAt, cooldowns, boot, forgot>>
  PROVE  Reckoned' /\ LossStreakPauses'
<1> DEFINE n == Len(orders)
<1>1. /\ orders \in Seq(Order) /\ n \in Nat /\ forgot \in Nat /\ passAt \in Nat /\ forgot <= n
      /\ \A d \in Coins : items[d] \in Item /\ coin_to_pos[d] \in 0..n
      /\ \A i \in 1..n : orders[i].exitAt \in Nat /\ orders[i].placed \in Nat
  BY Shapes DEF PInv, IInv
<1>2. PICK p \in Order : /\ orders' = Append(orders, p)
                         /\ p.coin = c /\ ~Traded(p) /\ p.placed = passAt
  <2>1. NewOrder(c, dir) \in Order
    BY NewOrderIs DEF PInv, IInv, TypeOK
  <2>2. /\ NewOrder(c, dir).coin = c /\ ~Traded(NewOrder(c, dir))
        /\ NewOrder(c, dir).placed = passAt
    BY DEF NewOrder, Traded
  <2>3. orders' = Append(orders, NewOrder(c, dir))
    BY DEF SubmitSignal
  <2> QED
    BY <2>1, <2>2, <2>3
<1>3. /\ orders' \in Seq(Order) /\ Len(orders') = n + 1 /\ orders'[n + 1] = p
      /\ \A i \in 1..n : orders'[i] = orders[i]
  BY <1>1, <1>2
<1>4. \A i \in 1..(n + 1) : i \in 1..n \/ i = n + 1
  BY <1>1
<1>5. \A d \in Coins : coin_to_pos'[d] = IF d = c THEN n + 1 ELSE coin_to_pos[d]
  <2>1. coin_to_pos' = [coin_to_pos EXCEPT ![c] = n + 1] /\ coin_to_pos \in [Coins -> 0..n]
    BY DEF SubmitSignal, PInv, IInv, TypeOK
  <2> QED
    BY <2>1
<1>6. ItemsKept /\ items'[c].until = 0
  <2>1. items'[c].until = 0
    <3>1. items \in [Coins -> Item]
      BY DEF PInv, IInv, TypeOK
    <3> QED
      BY <3>1 DEF Recover
  <2> QED
    BY <2>1, RecoverKeepsItems
<1>7. ASSUME NEW d \in Coins
      PROVE  /\ \A i \in 0..n : Streak(d, orders', forgot)[i] = Streak(d, orders, forgot)[i]
             /\ Streak(d, orders', forgot)[n + 1] = Streak(d, orders, forgot)[n]
  <2>1. CountAlike(n, d, orders, orders')
    BY <1>3 DEF CountAlike
  <2>2. Len(orders') \in Nat /\ n <= Len(orders') /\ Len(orders') = n + 1
    BY <1>1, <1>3
  <2>3. \A i \in 0..n : Streak(d, orders', forgot)[i] = Streak(d, orders, forgot)[i]
    BY <1>1, <2>1, <2>2, SameRun
  <2>4. NothingBehind(n, d, orders')
    BY <1>1, <1>2, <1>3, <1>4 DEF NothingBehind
  <2>5. Streak(d, orders', forgot)[n + 1] = Streak(d, orders', forgot)[n]
    <3> HIDE DEF n
    <3>1. PICK later : later = orders'
      OBVIOUS
    <3>2. Streak(d, later, forgot)[Len(later)] = Streak(d, later, forgot)[n]
      BY <1>1, <2>2, <2>4, <3>1, RunStays
    <3> QED
      BY <2>2, <3>1, <3>2
  <2> QED
    BY SMTT(30), <1>1, <2>3, <2>5
<1>8. ASSUME NEW d \in Coins
      PROVE  Reckons(d, Streak(d, orders', forgot), orders', items'[d], passAt)
  <2>1. PICK s : s = Streak(d, orders, forgot)
    OBVIOUS
  <2>2. PICK t : t = Streak(d, orders', forgot)
    OBVIOUS
  <2>3. t[n + 1] = s[n] /\ \A i \in 0..n : t[i] = s[i]
    BY <1>7, <2>1, <2>2
  <2>4. SameTrades(d, s, orders, t, orders')
    BY <1>1, <1>2, <1>3, <1>4, <2>3 DEF SameTrades
  <2>5. Reckons(d, s, orders, items[d], passAt)
    BY <2>1 DEF PInv, Reckoned
  <2>6. PICK next : next = items'[d]
    OBVIOUS
  <2>7. \/ next = items[d]
        \/ items[d].until # 0 /\ passAt >= items[d].until /\ next = [losses |-> 0, until |-> 0]
    BY <1>6, <2>6 DEF ItemsKept
  <2>8. Reckons(d, s, orders, next, passAt)
    BY <1>1, <2>5, <2>7, ReckonsLater
  <2>9. Reckons(d, t, orders', next, passAt)
    BY <2>4, <2>8, ReckonsTransfer
  <2> QED
    BY <2>2, <2>6, <2>9
<1>9. Reckoned'
  <2>1. ASSUME NEW d \in Coins, coin_to_pos'[d] # 0
        PROVE  items'[d].until = 0 /\ coin_to_pos'[d] > forgot
    <3>1. CASE d = c
      BY <1>1, <1>5, <1>6, <3>1
    <3>2. CASE d # c
      <4>1. coin_to_pos[d] # 0 /\ coin_to_pos'[d] = coin_to_pos[d]
        BY <1>5, <2>1, <3>2
      <4>2. items[d].until = 0 /\ coin_to_pos[d] > forgot
        BY <4>1 DEF PInv, Reckoned
      <4> QED
        BY <1>6, <4>1, <4>2 DEF ItemsKept
    <3> QED
      BY <3>1, <3>2
  <2> QED
    BY <1>6, <1>8, <2>1 DEF Reckoned, ItemsKept
<1>10. LossStreakPauses'
  <2> SUFFICES ASSUME NEW d \in Coins, NEW i \in 1..(n + 1), NEW j \in 1..(n + 1), i < j,
                      orders'[i].coin = d, orders'[j].coin = d,
                      Traded(orders'[i]), Streak(d, orders', forgot)[i] = LossLimit
               PROVE  orders'[j].placed >= orders'[i].exitAt + Pause
    BY <1>3 DEF LossStreakPauses, Traded
  <2>1. i \in 1..n /\ i \in 0..n /\ orders'[i] = orders[i]
    BY <1>1, <1>3
  <2>2. Streak(d, orders, forgot)[i] = LossLimit
    BY <1>7, <2>1
  <2>3. CASE j \in 1..n
    BY <1>3, <2>1, <2>2, <2>3 DEF PInv, LossStreakPauses
  <2>4. CASE j = n + 1
    <3>1. d = c /\ orders'[j].placed = passAt
      BY <1>2, <1>3, <2>4
    <3>2. i \in 1..Len(orders')
      BY <1>3
    <3>3. Waits(items'[d], orders'[i], passAt)
      BY <1>8, <3>2 DEF Reckons
    <3> QED
      BY <1>6, <3>1, <3>3, <1>1, <2>1, TimesAssumption DEF Waits
  <2> QED
    BY <1>4, <2>3, <2>4
<1> QED
  BY <1>9, <1>10

(* A trade of coin c ends: its order is the coin's last, so that the run   *)
(* goes on where the whitelist says.                                       *)
LEMMA TradeKeeps ==
  ASSUME PInv, NEW c \in Coins, NEW at \in Nat, HasActivePosition(c),
         NEW p, Moves(c, at, p), Trades(c, at, p),
         UNCHANGED <<now, passAt, last_candle_minute, boot, forgot>>
  PROVE  Reckoned' /\ LossStreakPauses'
<1> DEFINE n == Len(orders)
<1>1. /\ orders \in Seq(Order) /\ n \in Nat /\ forgot \in Nat /\ passAt \in Nat /\ forgot <= n
      /\ DOMAIN orders = 1..n
      /\ \A d \in Coins : items[d] \in Item /\ coin_to_pos[d] \in 0..n
      /\ \A i \in 1..n : orders[i].exitAt \in Nat /\ orders[i].placed \in Nat
  BY Shapes DEF PInv, IInv
<1>2. PICK k \in 1..n : k = coin_to_pos[c]
  BY <1>1 DEF HasActivePosition
<1>3. /\ orders[k].coin = c /\ orders[k].status \in Live /\ ~Traded(orders[k])
      /\ \A j \in 1..n : orders[j].coin = c => j <= k
      /\ items[c].until = 0 /\ k > forgot
  BY <1>2 DEF PInv, IInv, Pointed, Reckoned, Live, Traded
<1>4. /\ orders' \in Seq(Order) /\ Len(orders') = n
      /\ \A i \in 1..n : orders'[i] = IF i = k THEN p ELSE orders[i]
  BY <1>1, <1>2 DEF Moves
<1>5. /\ p \in Order /\ p.coin = c /\ Traded(p) /\ p.exitAt = at /\ p.placed = orders[k].placed
      /\ p.won \in BOOLEAN
  BY <1>2, NoneAssumption DEF Moves, Trades, Traded, Exits, Order
<1>6. /\ file' = items'
      /\ \A d \in Coins : d # c => items'[d] = items[d]
      /\ items'[c] = IF p.won THEN [items[c] EXCEPT !.losses = 0]
                     ELSE [losses |-> items[c].losses + 1,
                           until |-> IF items[c].losses + 1 >= LossLimit THEN at + Pause
                                     ELSE items[c].until]
  <2>1. items \in [Coins -> Item]
    BY DEF PInv, IInv, TypeOK
  <2> QED
    BY <2>1 DEF Trades, RecordTradeResult
<1>7. \A d \in Coins : coin_to_pos'[d] = IF d = c THEN 0 ELSE coin_to_pos[d]
  <2>1. coin_to_pos \in [Coins -> 0..n]
    BY DEF PInv, IInv, TypeOK
  <2> QED
    BY <2>1 DEF Trades
<1>8. Len(orders') \in Nat /\ Len(orders) \in Nat
  BY <1>1, <1>4
(* The other coins.                                                        *)
<1>9. ASSUME NEW d \in Coins, d # c
      PROVE  \A i \in 0..n : Streak(d, orders', forgot)[i] = Streak(d, orders, forgot)[i]
  <2>1. CountAlike(n, d, orders, orders')
    BY <1>3, <1>4, <1>5, <1>9 DEF CountAlike, Counted
  <2> QED
    BY <1>1, <1>4, <1>8, <2>1, SameRun
<1>10. ASSUME NEW d \in Coins, d # c
       PROVE  Reckons(d, Streak(d, orders', forgot), orders', items'[d], passAt)
  <2>1. PICK s : s = Streak(d, orders, forgot)
    OBVIOUS
  <2>2. PICK t : t = Streak(d, orders', forgot)
    OBVIOUS
  <2>3. \A i \in 0..n : t[i] = s[i]
    BY <1>9, <1>10, <2>1, <2>2
  <2>4. SameTrades(d, s, orders, t, orders')
    BY <1>1, <1>4, <1>5, <1>10, <2>3 DEF SameTrades
  <2>5. Reckons(d, s, orders, items[d], passAt)
    BY <2>1 DEF PInv, Reckoned
  <2>6. Reckons(d, t, orders', items[d], passAt)
    BY <2>4, <2>5, ReckonsTransfer
  <2> QED
    BY <1>6, <1>10, <2>2, <2>6
(* The run of coin c before the trade and after it.                        *)
<1>11. PICK s : s = Streak(c, orders, forgot)
  OBVIOUS
<1>12. PICK t : t = Streak(c, orders', forgot)
  OBVIOUS
<1>13. \A i \in 0..(k - 1) : t[i] = s[i]
  <2>1. CountAlike(k - 1, c, orders, orders')
    <3>1. \A i \in 1..(k - 1) : i \in 1..n /\ i # k
      BY <1>1
    <3> QED
      BY <1>4, <3>1 DEF CountAlike
  <2>2. k - 1 \in Nat /\ k - 1 <= Len(orders) /\ k - 1 <= Len(orders')
    BY <1>1, <1>4
  <2>3. \A i \in 0..(k - 1) : Streak(c, orders, forgot)[i] = Streak(c, orders', forgot)[i]
    BY <1>1, <1>8, <2>1, <2>2, SameRun
  <2> QED
    BY <1>11, <1>12, <2>3
<1>14. s[n] = s[k - 1]
  <2>1. NothingBehind(k - 1, c, orders)
    BY <1>1, <1>3 DEF NothingBehind
  <2>2. k - 1 \in Nat /\ forgot <= k - 1 /\ k - 1 <= Len(orders)
    BY <1>1, <1>3
  <2> QED
    BY SMTT(30), <1>1, <1>11, <2>1, <2>2, RunStays
<1>15. t[n] = t[k]
  <2>1. NothingBehind(k, c, orders')
    BY <1>1, <1>3, <1>4 DEF NothingBehind
  <2>2. k \in Nat /\ forgot <= k /\ k <= Len(orders')
    BY <1>1, <1>3, <1>4
  <2> QED
    BY <1>1, <1>4, <1>8, <1>12, <2>1, <2>2, RunStays
<1>16. s[k - 1] \in 0..LossLimit /\ t[k] = Counted(c, p, s[k - 1])
  <2>1. Counts(s, c, orders, forgot) /\ Counts(t, c, orders', forgot)
    BY <1>1, <1>8, <1>11, <1>12, StreakCounts
  <2>2. k - 1 \in 0..n /\ k \in 1..Len(orders') /\ k - 1 \in 0..(k - 1) /\ ~(k <= forgot)
    BY <1>1, <1>3, <1>4
  <2>3. s[k - 1] \in 0..LossLimit
    BY <2>1, <2>2 DEF Counts, CountsTo
  <2>4. t[k] = Counted(c, orders'[k], t[k - 1])
    BY <2>1, <2>2 DEF Counts, CountsTo
  <2> QED
    BY <1>4, <1>13, <2>2, <2>3, <2>4
<1>17. Told(items[c], s[n])
  BY <1>11 DEF PInv, Reckoned, Reckons
<1>18. /\ Told(items'[c], t[n])
       /\ t[n] = LossLimit => items'[c].until = at + Pause /\ items'[c].until # 0
       /\ items'[c].until = 0 \/ items'[c].until = at + Pause
  <2>1. items[c] \in Item /\ items[c].losses \in Nat /\ items[c].until = 0
    BY <1>1, <1>3 DEF Item
  <2>2. items[c].losses = IF s[n] = LossLimit THEN 0 ELSE s[n]
    BY <1>17, <2>1 DEF Told
  <2>3. at + Pause # 0 /\ LossLimit \in Nat \ {0}
    BY TimesAssumption
  <2>4. CASE p.won
    <3>1. t[n] = 0
      BY <1>5, <1>15, <1>16, <2>4 DEF Counted
    <3>2. items'[c].losses = 0 /\ items'[c].until = 0
      BY <1>6, <2>1, <2>4 DEF Item
    <3> QED
      BY <2>3, <3>1, <3>2 DEF Told
  <2>5. CASE ~p.won
    <3>1. t[n] = IF s[n] >= LossLimit THEN 1 ELSE s[n] + 1
      BY <1>5, <1>14, <1>15, <1>16, <2>5 DEF Counted
    <3>2. /\ items'[c].losses = items[c].losses + 1
          /\ items'[c].until = IF items[c].losses + 1 >= LossLimit THEN at + Pause ELSE 0
      BY <1>6, <2>1, <2>5
    <3>3. s[n] \in 0..LossLimit
      BY <1>14, <1>16
    <3>4. t[n] = items[c].losses + 1
      BY <2>2, <2>3, <3>1, <3>3
    <3>5. items[c].losses + 1 >= LossLimit <=> items[c].losses + 1 = LossLimit
      BY <2>1, <2>2, <2>3, <3>3
    <3> QED
      BY <2>3, <3>2, <3>4, <3>5 DEF Told
  <2> QED
    BY <2>4, <2>5
(* What coin c did before is behind it.                                    *)
<1>19. ASSUME NEW i \in 1..n, orders'[i].coin = c, Traded(orders'[i]), t[i] = LossLimit, i # k
       PROVE  /\ orders'[i] = orders[i] /\ i < k /\ s[i] = LossLimit
              /\ orders[i].exitAt + Pause <= passAt
  <2>1. orders'[i] = orders[i] /\ i <= k
    BY <1>3, <1>4, <1>19
  <2>2. i < k /\ i \in 0..(k - 1)
    BY <1>19, <2>1
  <2>3. s[i] = LossLimit
    BY <1>13, <1>19, <2>2
  <2>4. Waits(items[c], orders[i], passAt)
    BY <1>11, <1>19, <2>1, <2>3 DEF PInv, Reckoned, Reckons
  <2> QED
    BY <1>3, <2>1, <2>2, <2>3, <2>4 DEF Waits
<1>20. Reckons(c, t, orders', items'[c], passAt)
  <2> SUFFICES ASSUME NEW i \in 1..n, orders'[i].coin = c, Traded(orders'[i]), t[i] = LossLimit
               PROVE  Waits(items'[c], orders'[i], passAt)
    BY <1>4, <1>18 DEF Reckons
  <2>1. CASE i # k
    BY <1>19, <2>1 DEF Waits
  <2>2. CASE i = k
    <3>1. orders'[i].exitAt = at /\ t[n] = LossLimit
      BY <1>4, <1>5, <1>15, <2>2
    <3> QED
      BY <1>18, <3>1, TimesAssumption DEF Waits
  <2> QED
    BY <2>1, <2>2
<1>21. Reckoned'
  <2>1. ASSUME NEW d \in Coins, coin_to_pos'[d] # 0
        PROVE  items'[d].until = 0 /\ coin_to_pos'[d] > forgot
    <3>1. d # c /\ coin_to_pos[d] # 0 /\ coin_to_pos'[d] = coin_to_pos[d]
      BY <1>7, <2>1
    <3>2. items[d].until = 0 /\ coin_to_pos[d] > forgot
      BY <3>1 DEF PInv, Reckoned
    <3> QED
      BY <1>6, <3>1, <3>2
  <2>2. \A d \in Coins : Reckons(d, Streak(d, orders', forgot), orders', items'[d], passAt)
    BY <1>10, <1>12, <1>20
  <2> QED
    BY <1>6, <2>1, <2>2 DEF Reckoned
<1>22. LossStreakPauses'
  <2> SUFFICES ASSUME NEW d \in Coins, NEW i \in 1..n, NEW j \in 1..n, i < j,
                      orders'[i].coin = d, orders'[j].coin = d,
                      Traded(orders'[i]), Streak(d, orders', forgot)[i] = LossLimit
               PROVE  orders'[j].placed >= orders'[i].exitAt + Pause
    BY <1>4 DEF LossStreakPauses, Traded
  <2>1. orders'[j].placed = orders[j].placed /\ orders[j].coin = d
    BY <1>3, <1>4, <1>5
  <2>2. CASE d # c
    <3>1. orders'[i] = orders[i]
      BY <1>4, <1>5, <2>2
    <3>2. Streak(d, orders, forgot)[i] = LossLimit
      BY <1>9, <2>2
    <3> QED
      BY <2>1, <3>1, <3>2 DEF PInv, LossStreakPauses
  <2>3. CASE d = c
    <3>1. i # k
      BY <1>3, <2>1, <2>3
    <3>2. orders'[i] = orders[i] /\ s[i] = LossLimit
      BY <1>12, <1>19, <2>3, <3>1
    <3> QED
      BY <1>11, <2>1, <2>3, <3>2 DEF PInv, LossStreakPauses
  <2> QED
    BY <2>2, <2>3
<1> QED
  BY <1>21, <1>22

(* A reset of the whitelist forgets the runs of all orders so far.         *)
LEMMA ResetKeeps ==
  ASSUME PInv, orders' \in Seq(Order), Len(orders') \in Nat, forgot' = Len(orders'),
         items' = Fresh, file' = Fresh, coin_to_pos' = [c \in Coins |-> 0]
  PROVE  Reckoned' /\ LossStreakPauses'
<1>1. ASSUME NEW c \in Coins
      PROVE  \A i \in 0..Len(orders') : Streak(c, orders', forgot')[i] = 0
  <2>1. Counts(Streak(c, orders', forgot'), c, orders', forgot')
    BY StreakCounts
  <2>2. \A i \in 0..Len(orders') : i = 0 \/ (i \in 1..Len(orders') /\ i <= forgot')
    OBVIOUS
  <2> QED
    BY <2>1, <2>2 DEF Counts, CountsTo
<1>2. LossLimit # 0
  BY TimesAssumption
<1>3. \A c \in Coins : items'[c].until = 0 /\ items'[c].losses = 0 /\ coin_to_pos'[c] = 0
  BY DEF Fresh
<1>4. ASSUME NEW c \in Coins
      PROVE  Reckons(c, Streak(c, orders', forgot'), orders', items'[c], passAt')
  <2>1. PICK t : t = Streak(c, orders', forgot')
    OBVIOUS
  <2>2. \A i \in 0..Len(orders') : t[i] = 0
    BY <1>1, <2>1
  <2>3. t[Len(orders')] = 0 /\ \A i \in 1..Len(orders') : t[i] # LossLimit
    BY <1>2, <2>2
  <2>4. Reckons(c, t, orders', items'[c], passAt')
    BY <1>2, <1>3, <2>3 DEF Reckons, Told
  <2> QED
    BY <2>1, <2>4
<1>5. Reckoned'
  BY <1>3, <1>4 DEF Reckoned
<1>6. LossStreakPauses'
  <2>1. \A c \in Coins : \A i \in 1..Len(orders') : Streak(c, orders', forgot')[i] # LossLimit
    <3>1. \A i \in 1..Len(orders') : i \in 0..Len(orders')
      OBVIOUS
    <3> QED
      BY <1>1, <1>2, <3>1
  <2> QED
    BY <2>1 DEF LossStreakPauses
<1> QED
  BY <1>5, <1>6

LEMMA UpdateKeeps ==
  ASSUME PInv, NEW c \in Coins, NEW bid \in Int, NEW ask \in Int, NEW high \in Int,
         NEW low \in Int, NEW at \in Nat, OnMarketUpdate(c, bid, ask, high, low, at)
  PROVE  Reckoned' /\ LossStreakPauses'
<1>1. /\ HasActivePosition(c)
      /\ UNCHANGED <<now, passAt, last_candle_minute, boot, forgot>>
  BY DEF OnMarketUpdate
<1>2. PICK p : Moves(c, at, p) /\ (Keeps(p) \/ Expires(c, p) \/ Trades(c, at, p))
  BY UpdateMoves DEF PInv, IInv
<1>3. CASE Trades(c, at, p)
  BY <1>1, <1>2, <1>3, TradeKeeps
<1>4. CASE Keeps(p) \/ Expires(c, p)
  <2>1. /\ orders \in Seq(Order) /\ Len(orders) \in Nat /\ DOMAIN orders = 1..Len(orders)
        /\ passAt \in Nat /\ coin_to_pos \in [Coins -> 0..Len(orders)]
    BY DEF PInv, IInv, TypeOK
  <2>2. PICK k \in 1..Len(orders) : k = coin_to_pos[c]
    BY <1>1, <2>1 DEF HasActivePosition
  <2>3. orders[k].coin = c /\ ~Traded(orders[k])
    BY <2>2 DEF PInv, IInv, Pointed, Live, Traded
  <2>4. /\ orders' \in Seq(Order) /\ Len(orders') = Len(orders)
        /\ \A i \in 1..Len(orders) : orders'[i] = IF i = k THEN p ELSE orders[i]
    BY <1>2, <2>1, <2>2 DEF Moves
  <2>5. p.coin = c /\ p.placed = orders[k].placed /\ ~Traded(p)
    BY <1>2, <1>4, <2>2 DEF Moves, Keeps, Expires, Traded
  <2>6. TradesKept
    BY <2>3, <2>4, <2>5 DEF TradesKept
  <2>7. ItemsKept
    BY <1>4 DEF Keeps, Expires, ItemsKept, PInv, Reckoned
  <2>8. \A d \in Coins : coin_to_pos'[d] # 0 => coin_to_pos'[d] = coin_to_pos[d]
    BY <1>4, <2>1 DEF Keeps, Expires
  <2> QED
    BY <1>1, <2>1, <2>6, <2>7, <2>8, QuietKeeps
<1> QED
  BY <1>2, <1>3, <1>4

LEMMA RestartKeeps ==
  ASSUME PInv, Restart
  PROVE  Reckoned' /\ LossStreakPauses'
<1> DEFINE n == Len(orders)
<1>1. /\ orders \in Seq(Order) /\ n \in Nat /\ DOMAIN orders = 1..n
      /\ now \in Nat /\ passAt \in Nat /\ passAt <= now
  BY DEF PInv, IInv, TypeOK
<1>2. IInv'
  BY RestartPreserves DEF PInv
<1>3. orders' = [i \in 1..n |-> IF orders[i].status \in Live
                                THEN Ended(orders[i], "LOST", 0, None, FALSE) ELSE orders[i]]
  BY <1>1 DEF Restart
<1>4. orders' \in Seq(Order) /\ Len(orders') = n
  <2>1. orders' \in Seq(Order)
    BY <1>2 DEF IInv, TypeOK
  <2>2. Len(orders') \in Nat /\ DOMAIN orders' = 1..Len(orders') /\ DOMAIN orders' = 1..n
    BY <1>3, <2>1
  <2>3. PICK m \in Nat : m = Len(orders')
    BY <2>2
  <2>4. PICK k \in Nat : k = n
    BY <1>1
  <2>5. 1..m = 1..k
    BY <2>2, <2>3, <2>4
  <2>6. m = k
    BY ONLY <2>5, m \in Nat, k \in Nat
  <2> QED
    BY <2>1, <2>3, <2>4, <2>6
<1>5. coin_to_pos' = [c \in Coins |-> 0] /\ passAt' = now
  BY DEF Restart
<1>6. CASE items' = file /\ UNCHANGED <<file, forgot>>
  <2>1. TradesKept
    BY <1>3, <1>4 DEF TradesKept, Ended, Traded, Live
  <2>2. ItemsKept
    BY <1>6 DEF ItemsKept, PInv, Reckoned
  <2> QED
    BY <1>1, <1>5, <1>6, <2>1, <2>2, QuietKeeps
<1>7. CASE items' = Fresh /\ file' = Fresh /\ forgot' = Len(orders)
  BY <1>1, <1>4, <1>5, <1>7, ResetKeeps
<1> QED
  BY <1>6, <1>7 DEF Restart

(* Steps that leave the orders and their index as they are.                *)
LEMMA StillKeeps ==
  ASSUME PInv, UNCHANGED <<orders, coin_to_pos, forgot>>, ItemsKept,
         passAt' \in Nat, passAt <= passAt'
  PROVE  Reckoned' /\ LossStreakPauses'
<1>1. TradesKept
  BY DEF TradesKept, PInv, IInv, TypeOK, Traded
<1> QED
  BY <1>1, QuietKeeps

LEMMA StepKeepsPauses == PInv /\ [Next]_vars => PInv'
<1> SUFFICES ASSUME PInv, [Next]_vars PROVE PInv'
  OBVIOUS
<1> USE DEF memory
<1>1. IInv /\ IInv'
  BY NextPreserves DEF PInv
<1>2. now \in Nat /\ passAt \in Nat /\ passAt <= now
  BY <1>1 DEF IInv, TypeOK
<1>3. Reckoned' /\ LossStreakPauses'
  <2>1. ASSUME UNCHANGED <<items, file>> PROVE ItemsKept
    BY <2>1 DEF ItemsKept, PInv, Reckoned
  <2>2. CASE Tick
    BY <1>2, <2>1, <2>2, StillKeeps DEF Tick
  <2>3. CASE BeginPass
    BY <1>2, <2>1, <2>3, StillKeeps DEF BeginPass
  <2>4. CASE Restart
    BY <2>4, RestartKeeps
  <2>5. ASSUME NEW c \in Coins, NEW mid \in Offsets, PriceTick(c, mid)
        PROVE  Reckoned' /\ LossStreakPauses'
    <3>1. mid \in Int /\ OnMarketUpdate(c, mid, mid, mid, mid, now)
      BY <2>5, TicksAssumption DEF PriceTick
    <3> QED
      BY <1>2, <3>1, UpdateKeeps
  <2>6. ASSUME NEW c \in Coins, NEW q \in Quotes, CheckExits(c, q[1], q[2])
        PROVE  Reckoned' /\ LossStreakPauses'
    <3> DEFINE high == IF q[1] > q[2] THEN q[1] ELSE q[2]
               low == IF q[1] > q[2] THEN q[2] ELSE q[1]
    <3>1. q[1] \in Int /\ q[2] \in Int
      BY TicksAssumption
    <3>2. high \in Int /\ low \in Int /\ OnMarketUpdate(c, q[1], q[2], high, low, passAt)
      BY <2>6, <3>1 DEF CheckExits
    <3> HIDE DEF high, low
    <3> QED
      BY <1>2, <3>1, <3>2, UpdateKeeps
  <2>7. ASSUME NEW c \in Coins, ScanSymbol(c)
        PROVE  Reckoned' /\ LossStreakPauses'
    <3>1. Recover(c) /\ UNCHANGED <<now, passAt, cooldowns, boot, forgot>>
      BY <2>7 DEF ScanSymbol
    <3>2. CASE \E dir \in {1, -1} : SubmitSignal(c, dir)
      BY <3>1, <3>2, SubmitKeeps
    <3>3. CASE UNCHANGED <<orders, coin_to_pos, last_candle_minute>>
      BY <1>2, <3>1, <3>3, RecoverKeepsItems, StillKeeps
    <3> QED
      BY <2>7, <3>2, <3>3 DEF ScanSymbol
  <2>8. CASE UNCHANGED vars
    BY <1>2, <2>1, <2>8, StillKeeps DEF vars
  <2> QED
    BY <2>2, <2>3, <2>4, <2>5, <2>6, <2>7, <2>8 DEF Next, MoveOrder
<1> QED
  BY <1>1, <1>3 DEF PInv

LEMMA InitReckoned == Init => Reckoned /\ LossStreakPauses
<1> SUFFICES ASSUME Init PROVE Reckoned /\ LossStreakPauses
  OBVIOUS
<1>1. orders = <<>> /\ Len(orders) = 0 /\ forgot = 0 /\ items = Fresh /\ file = items
  BY DEF Init
<1>2. ASSUME NEW c \in Coins
      PROVE  Reckons(c, Streak(c, orders, forgot), orders, items[c], passAt)
  <2>1. PICK t : t = Streak(c, orders, forgot)
    OBVIOUS
  <2>2. t[0] = 0
    <3>1. Counts(t, c, orders, forgot)
      BY <1>1, <2>1, StreakCounts
    <3> QED
      BY <3>1 DEF Counts, CountsTo
  <2>3. items[c].until = 0 /\ items[c].losses = 0 /\ LossLimit # 0
    BY <1>1, TimesAssumption DEF Fresh
  <2>4. Reckons(c, t, orders, items[c], passAt)
    BY <1>1, <2>2, <2>3 DEF Reckons, Told
  <2> QED
    BY <2>1, <2>4
<1>3. \A c \in Coins : coin_to_pos[c] = 0
  BY DEF Init
<1> QED
  BY <1>1, <1>2, <1>3 DEF Reckoned, LossStreakPauses

(* LossLimit losses in a row pause the coin, through restarts and whatever *)
(* the two callers interleave (record_trade_result, is_eligible).          *)
THEOREM LossesPause == Spec => []LossStreakPauses
<1>1. Init => PInv
  BY InitInvariant, InitReckoned DEF PInv
<1>2. PInv /\ [Next]_vars => PInv'
  BY StepKeepsPauses
<1>3. PInv => LossStreakPauses
  BY DEF PInv
<1> QED
  BY <1>1, <1>2, <1>3, PTL DEF Spec
=============================================================================
