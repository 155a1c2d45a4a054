-------------------------- MODULE SignalBacktest --------------------------
(* The two backtests of the volume and open-interest signals, on which the   *)
(* limits of the live strategy rest: research/volume_oi_backtest.py enters   *)
(* at the next open, research/volume_oi_backtest_48.py may also wait for a   *)
(* pullback. Both hold a position bar by bar with the same rules.            *)
(*                                                                           *)
(* A bar is [o, h, l, c] with what its indicators say: spike (volume and     *)
(* body are large enough), dir (of the body), cross (another exchange        *)
(* agrees), doi (how far open interest moved, -2..2: 1 is past the first     *)
(* backtest's limit, 2 past the second's too) and strong (the close is on    *)
(* the right side of its average and of its bar). Rates are in thousandths,  *)
(* an entry price in tenths and an exit price in ten-thousandths of a unit,  *)
(* so that nothing is rounded.                                               *)
EXTENDS Integers, Sequences, SequencesExt

CONSTANTS
  Tp, Sl,        \* TP_PCT, SL_PCT
  TrailAt,       \* TRAILING_ACT
  TrailBy,       \* TRAILING_DIST
  MaxHold,       \* MAX_HOLD_MINUTES
  Cooldown,      \* COOLDOWN_MINUTES
  Warmup,        \* the bars before the first signal, 1440 in the code
  PullbackBars   \* the bars a pullback order waits, 5 in the code

ASSUME SignalBacktestAssumption ==
  /\ {Tp, Sl, TrailAt, TrailBy, MaxHold, Warmup, PullbackBars} \subseteq Nat \ {0}
  /\ Cooldown \in Nat
  /\ Cooldown <= Warmup

Unset == [at |-> 0, price |-> 0, reason |-> "open"]

-----------------------------------------------------------------------------
(* Signals. A model says what it asks of the bar of a spike; one that fades  *)
(* trades against it when open interest fell.                                *)

Asks(cross, doi, strong, pullback) ==
  [cross |-> cross, doi |-> doi, strong |-> strong, pullback |-> pullback]

Models ==
  [Model_1 |-> Asks(FALSE, 0, FALSE, FALSE), Model_2 |-> Asks(TRUE, 0, FALSE, FALSE),
   Model_3 |-> Asks(FALSE, 1, FALSE, FALSE), Model_4 |-> Asks(FALSE, -1, FALSE, FALSE),
   Model_5 |-> Asks(TRUE, 1, FALSE, FALSE)]

Models48 ==
  [Model_A |-> Asks(FALSE, 0, FALSE, FALSE), Model_B |-> Asks(TRUE, 0, FALSE, FALSE),
   Model_C |-> Asks(TRUE, 2, FALSE, FALSE),  Model_D |-> Asks(FALSE, -2, FALSE, FALSE),
   Model_E |-> Asks(TRUE, 2, TRUE, FALSE),   Model_G |-> Asks(TRUE, 2, TRUE, TRUE)]

Signal(model, bar) ==
  IF /\ bar.spike
     /\ model.cross => bar.cross
     /\ model.strong => bar.strong
     /\ model.doi > 0 => bar.doi >= model.doi
     /\ model.doi < 0 => bar.doi <= model.doi
  THEN IF model.doi < 0 THEN -bar.dir ELSE bar.dir
  ELSE 0

-----------------------------------------------------------------------------
(* Entry after a signal at bar i: at the next open, or with a limit order a  *)
(* third of the way back into the spike, which fills or lapses.              *)

NoEntry == [at |-> 0, price |-> 0]

NextOpen(bars, i) == [at |-> i + 1, price |-> 10 * bars[i + 1].o]

Pullback(bars, i, dir) ==
  LET body == IF bars[i].c >= bars[i].o THEN bars[i].c - bars[i].o ELSE bars[i].o - bars[i].c
      target == 10 * bars[i].c - dir * 3 * body
      last == IF i + PullbackBars <= Len(bars) THEN i + PullbackBars ELSE Len(bars)
      fills == {k \in (i + 1)..last : IF dir = 1 THEN 10 * bars[k].l <= target ELSE 10 * bars[k].h >= target}
  IN IF fills = {} THEN NoEntry
     ELSE [at |-> CHOOSE k \in fills : \A j \in fills : k <= j, price |-> target]

-----------------------------------------------------------------------------
(* Holding. s is [active, peak, exit]; the extreme of a bar that favours the *)
(* position is tested before the one that goes against it.                   *)

Favour(bar, dir) == IF dir = 1 THEN bar.h ELSE bar.l
Against(bar, dir) == IF dir = 1 THEN bar.l ELSE bar.h

\* The gain at a price, compared with a rate of the entry.
Gains(price, dir, entry, rate) == dir * (10 * price - entry) * 1000 >= rate * entry
Loses(price, dir, entry, rate) == dir * (10 * price - entry) * 1000 <= -rate * entry

ExitAt(s, k, price, reason) == [s EXCEPT !.exit = [at |-> k, price |-> price, reason |-> reason]]

TrailStop(peak, dir) == peak * 10 * (1000 - dir * TrailBy)

Trailed(s, bar, dir, entry) ==
  IF ~Gains(Favour(bar, dir), dir, entry, TrailAt) THEN s
  ELSE [s EXCEPT !.active = TRUE,
                 !.peak = IF s.peak > 0 /\ dir * s.peak >= dir * Favour(bar, dir)
                          THEN s.peak ELSE Favour(bar, dir)]

HitsTrail(s, bar, dir) ==
  s.active /\ dir * Against(bar, dir) * 10000 <= dir * TrailStop(s.peak, dir)

\* The trailing stop is tested before the bar moves it.
HoldBar_TestedFirst(s, bar, k, dir, entry) ==
  IF s.exit.reason \notin {"open", "time_stop"} THEN s
  ELSE IF Gains(Favour(bar, dir), dir, entry, Tp) THEN ExitAt(s, k, entry * (1000 + dir * Tp), "take_profit")
  ELSE IF Loses(Against(bar, dir), dir, entry, Sl) THEN ExitAt(s, k, entry * (1000 - dir * Sl), "stop_loss")
  ELSE IF HitsTrail(s, bar, dir) THEN ExitAt(s, k, TrailStop(s.peak, dir), "trailing_stop")
  ELSE ExitAt(Trailed(s, bar, dir, entry), k, bar.c * 10000, "time_stop")

HoldBar(s, bar, k, dir, entry) ==
  IF s.exit.reason \notin {"open", "time_stop"} THEN s
  ELSE IF Gains(Favour(bar, dir), dir, entry, Tp) THEN ExitAt(s, k, entry * (1000 + dir * Tp), "take_profit")
  ELSE IF Loses(Against(bar, dir), dir, entry, Sl) THEN ExitAt(s, k, entry * (1000 - dir * Sl), "stop_loss")
  ELSE LET t == Trailed(s, bar, dir, entry)
       IN IF HitsTrail(t, bar, dir) THEN ExitAt(t, k, TrailStop(t.peak, dir), "trailing_stop")
          ELSE ExitAt(t, k, bar.c * 10000, "time_stop")

\* The exit of a position entered at a bar, tested against that bar and the
\* ones after it until one ends it or the time is up.
Hold(bars, dir, entry) ==
  LET last == IF entry.at + MaxHold - 1 <= Len(bars) THEN entry.at + MaxHold - 1 ELSE Len(bars)
      held == [j \in 1..(last - entry.at + 1) |-> entry.at + j - 1]
  IN FoldLeft(LAMBDA s, k: HoldBar(s, bars[k], k, dir, entry.price),
              [active |-> FALSE, peak |-> 0, exit |-> Unset], held).exit

-----------------------------------------------------------------------------
(* The run over the bars of a coin. A bar within the cooldown of the last    *)
(* exit, or without a signal, or whose order lapses, is passed over.         *)

Scanned(model, bars, room) ==
  [j \in 1..(Len(bars) - MaxHold - room - Warmup) |-> Warmup + j]

Cooling_NoCooldown(s, i) == i <= s.last
Cooling(s, i) == i <= s.last + Cooldown

ScanBar(s, model, bars, i) ==
  LET dir == Signal(model, bars[i])
      entry == IF model.pullback THEN Pullback(bars, i, dir) ELSE NextOpen(bars, i)
      exit == Hold(bars, dir, entry)
  IN IF Cooling(s, i) \/ dir = 0 THEN s
     ELSE IF entry = NoEntry THEN s
     ELSE [last |-> exit.at,
           trades |-> Append(s.trades, [at |-> entry.at, entry |-> entry.price, dir |-> dir, exit |-> exit,
                                        sample |-> IF entry.at <= Len(bars) \div 2 THEN "IS" ELSE "OOS"])]

\* simulate_model_for_coin leaves room for one bar after the last signal,
\* simulate_model for the bars of a pullback.
Simulate(model, bars, room) ==
  FoldLeft(LAMBDA s, i: ScanBar(s, model, bars, i), [last |-> 0, trades |-> <<>>],
           Scanned(model, bars, room)).trades

-----------------------------------------------------------------------------
(* calculate_metrics: the fall of the running sums from their running peak.  *)
(* The first point of the curve is the first result, not 0.                  *)

CurveDrawdown(pnls) ==
  IF pnls = <<>> THEN 0
  ELSE FoldLeft(LAMBDA s, pnl:
                  LET sum == s.sum + pnl
                      peak == IF sum > s.peak THEN sum ELSE s.peak
                  IN [sum |-> sum, peak |-> peak,
                      dd |-> IF peak - sum > s.dd THEN peak - sum ELSE s.dd],
                [sum |-> Head(pnls), peak |-> Head(pnls), dd |-> 0], Tail(pnls)).dd
=============================================================================
