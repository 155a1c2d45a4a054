--------------------------- MODULE PairResearch ---------------------------
(* How a pair of coins is judged before it may be traded: the bar by bar     *)
(* simulation and the walk-forward folds of recalibration/wfa.py, which the  *)
(* service runs, and those of research/walk_forward_backtest.py, by which    *)
(* its parameters were chosen.                                               *)
(*                                                                           *)
(* A bar is [z, a, b]: the z-score of the spread over its window, which may  *)
(* be any number, and the two prices. Position is a multiple of the prices,  *)
(* so that the money a leg gains is a whole number.                          *)
EXTENDS Integers, Sequences, SequencesExt

CONSTANTS
  ExitZ,         \* exit_z
  StopMult,      \* stop_mult
  MaxHolding,    \* max_holding_bars
  Position,      \* POSITION_SIZE_USDT
  PairFee,       \* FEE_PER_TRADE_USDT
  IsLen,         \* bars of an in-sample window
  OosLen,        \* bars of an out-of-sample window
  NumFolds,      \* num_folds of the service
  StepBars,      \* step_bars of the research
  Fine, Coarse,  \* the fourth and the third digit of a gain
  Trifle         \* an in-sample gain too small to divide by, one cent

ASSUME PairResearchAssumption ==
  /\ {StopMult, MaxHolding, Position, IsLen, OosLen, NumFolds, StepBars} \subseteq Nat \ {0}
  /\ {ExitZ, PairFee} \subseteq Nat
\* Fourteen days and seven; the research writes the proportion as / 2.
ASSUME WindowsAssumption == IsLen = 2 * OosLen
\* What a gain is rounded to, in any smaller unit.
ASSUME DigitsAssumption == Fine \in Nat \ {0} /\ Coarse = 10 * Fine /\ Trifle = 100 * Fine

Magnitude(x) == IF x >= 0 THEN x ELSE -x

\* round() of a / b: to the nearest, half to the even one.
Rounded(a, b) ==
  LET q == a \div b
      r == a % b
  IN IF 2 * r < b \/ (2 * r = b /\ (q % 2) = 0) THEN q ELSE q + 1

-----------------------------------------------------------------------------
(* The simulations. s is [side, at, a, b, trades]: side 1 is short A and     *)
(* long B, -1 the opposite, 0 no position.                                   *)

Flat == [side |-> 0, at |-> 0, a |-> 0, b |-> 0, trades |-> <<>>]

Return(price, entry) == ((price - entry) * Position) \div entry

PairPnl(s, bar) == s.side * (Return(bar.b, s.b) - Return(bar.a, s.a)) - PairFee

Enter(s, bar, i, entryZ) ==
  IF Magnitude(bar.z) < entryZ THEN s
  ELSE [s EXCEPT !.side = IF bar.z > 0 THEN 1 ELSE -1, !.at = i, !.a = bar.a, !.b = bar.b]

Leave(s, bar, i) ==
  [Flat EXCEPT !.trades =
     Append(s.trades, [in |-> s.at, out |-> i, side |-> s.side, pnl |-> PairPnl(s, bar)])]

\* A stop at the entry threshold itself.
Leaves_StopAtEntry(s, bar, i, n, entryZ) ==
  \/ s.side * bar.z <= ExitZ
  \/ Magnitude(bar.z) >= entryZ
  \/ i - s.at >= MaxHolding
  \/ i = n

\* wfa.py: converged, stopped on either side, held too long, or the last bar.
Leaves(s, bar, i, n, entryZ) ==
  \/ s.side * bar.z <= ExitZ
  \/ Magnitude(bar.z) >= entryZ * StopMult
  \/ i - s.at >= MaxHolding
  \/ i = n

\* walk_forward_backtest.py: a stop on the side of the position only, and
\* nothing at the end of the segment.
ResearchLeaves(s, bar, i, entryZ) ==
  \/ s.side * bar.z <= ExitZ
  \/ s.side * bar.z >= entryZ * StopMult
  \/ i - s.at >= MaxHolding

Indices(bars) == [i \in 1..Len(bars) |-> i]

ServiceTrades(bars, entryZ) ==
  FoldLeft(LAMBDA s, i: IF s.side = 0 THEN Enter(s, bars[i], i, entryZ)
                        ELSE IF Leaves(s, bars[i], i, Len(bars), entryZ) THEN Leave(s, bars[i], i)
                        ELSE s,
           Flat, Indices(bars)).trades

ResearchTrades(bars, entryZ) ==
  FoldLeft(LAMBDA s, i: IF s.side = 0 THEN Enter(s, bars[i], i, entryZ)
                        ELSE IF ResearchLeaves(s, bars[i], i, entryZ) THEN Leave(s, bars[i], i)
                        ELSE s,
           Flat, Indices(bars)).trades

-----------------------------------------------------------------------------
(* The measures of a list of results                                         *)

Total(pnls) == FoldLeft(LAMBDA x, y: x + y, 0, pnls)

\* The peak never moves from the start of the curve.
MaxDrawdown_FromStart(pnls) ==
  LET Equity(k) == Total(SubSeq(pnls, 1, k))
      lowest == CHOOSE k \in 0..Len(pnls) : \A j \in 0..Len(pnls) : Equity(k) <= Equity(j)
  IN -Equity(lowest)

\* The deepest fall of an equity curve from its running peak; both walk-forward
\* tests begin the curve with 0.
MaxDrawdown(pnls) ==
  FoldLeft(LAMBDA s, pnl:
             LET equity == s.equity + pnl
                 peak == IF equity > s.peak THEN equity ELSE s.peak
             IN [equity |-> equity, peak |-> peak,
                 dd |-> IF peak - equity > s.dd THEN peak - equity ELSE s.dd],
           [equity |-> 0, peak |-> 0, dd |-> 0], pnls).dd

-----------------------------------------------------------------------------
(* The folds. A fold is [from, split, upto]: bars from+1..split calibrate,   *)
(* split+1..upto test. (The service takes the first day of the test to warm  *)
(* its z-scores up, the research the last day before it.)                    *)

Fold(start) == [from |-> start, split |-> start + IsLen, upto |-> start + IsLen + OosLen]

\* evaluate_pair spreads its folds over the data.
ServiceFolds_FixedStep(total) ==
  IF total < IsLen + OosLen THEN <<>> ELSE [k \in 1..NumFolds |-> Fold((k - 1) * OosLen)]

ServiceFolds(total) ==
  IF total < IsLen + OosLen THEN <<>>
  ELSE LET step == IF NumFolds > 1 THEN (total - IsLen - OosLen) \div (NumFolds - 1) ELSE 0
       IN [k \in 1..NumFolds |-> Fold((k - 1) * step)]

\* run_walk_forward_for_pair moves by a fixed step while a fold fits.
ResearchFolds(total) ==
  IF total < IsLen + OosLen THEN <<>>
  ELSE [k \in 1..((total - IsLen - OosLen) \div StepBars + 1) |-> Fold((k - 1) * StepBars)]

-----------------------------------------------------------------------------
(* The verdict on a pair. A fold is the list of its candidates for entry_z,  *)
(* each [net, dd, oos]: net gain and drawdown of its in-sample simulation,   *)
(* net gain of the test.                                                     *)

FirstBest(fold, Score(_)) ==
  CHOOSE k \in DOMAIN fold :
    \A j \in DOMAIN fold : Score(fold[j]) <= Score(fold[k]) /\ (j < k => Score(fold[j]) < Score(fold[k]))

\* The service takes half of the drawdown from the gain and rounds neither; the
\* research compares gains of four digits.
ServiceChoice(fold) == fold[FirstBest(fold, LAMBDA c: 2 * c.net - c.dd)]
ResearchNet(c) == Rounded(c.net, Fine)
ResearchChoice(fold) == fold[FirstBest(fold, ResearchNet)]

\* The gain of a test as the program sums it: three digits, or four.
ServiceGain(c) == Rounded(c.oos, Coarse)
ResearchGain(c) == Rounded(c.oos, Fine)

\* Walk-forward efficiency in tenths of a per cent: the gain of the test as a
\* share of the in-sample gain, brought to the same number of days.
ServiceEfficiency_PerWindow(c) ==
  IF c.net > Trifle THEN Rounded(c.oos * 1000, c.net) ELSE IF c.oos > 0 THEN 1000 ELSE 0
ServiceEfficiency(c) ==
  IF c.net > Trifle THEN Rounded(c.oos * IsLen * 1000, c.net * OosLen) ELSE IF c.oos > 0 THEN 1000 ELSE 0

\* The research divides what it rounded, and the in-sample gain by two before it
\* compares it.
ResearchEfficiency(c) ==
  IF ResearchNet(c) * Fine > 2 * Trifle THEN Rounded(ResearchGain(c) * 2000, ResearchNet(c))
  ELSE IF ResearchGain(c) > 0 THEN 1000 ELSE 0

\* Accepted: a gain over all tests, and an average efficiency that rounds to fifty
\* per cent or more. (is_valid of the service compares the average itself; what
\* is traded is chosen by the rounded one.)
Passes(gains, efficiencies) ==
  Total(gains) > 0 /\ Rounded(Total(efficiencies), Len(efficiencies)) >= 500

Chosen(folds, Choice(_)) == [k \in DOMAIN folds |-> Choice(folds[k])]
Judged(chosen, Gain(_), Efficiency(_)) ==
  Passes([k \in DOMAIN chosen |-> Gain(chosen[k])], [k \in DOMAIN chosen |-> Efficiency(chosen[k])])

ServiceVerdict(folds) == Judged(Chosen(folds, ServiceChoice), ServiceGain, ServiceEfficiency)
ResearchVerdict(folds) == Judged(Chosen(folds, ResearchChoice), ResearchGain, ResearchEfficiency)
=============================================================================
