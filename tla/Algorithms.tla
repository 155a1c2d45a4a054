---------------------------- MODULE Algorithms ----------------------------
(* Calls of the program's pure functions: the sizes, fills and pairs of      *)
(* Sizing, the simulations, folds and verdicts of PairResearch, the backtest *)
(* of SignalBacktest and its data (CoinDataset). A call is made with one of  *)
(* the inputs below and returns once; every property relates an input to     *)
(* what two or more of the functions made of it, or to a definition written  *)
(* independently of them.                                                    *)
EXTENDS Sizing, PairResearch, SignalBacktest, CoinDataset

CONSTANTS
  AskSides, BidSides,  \* the sides of books, sequences of [price, size]
  Targets,             \* target_portfolio_usd
  QuoteLists,          \* sequences of [ex, bid, ask]
  Funding,             \* [open, close, next, interval]; next is 0 if not known
  PairBars,            \* sequences of bars of PairResearch
  EntryZ,              \* entry_z
  Lengths,             \* how many bars the files of a pair share
  HeldBars,            \* sequences of bars of SignalBacktest, for one position
  CoinBars,            \* and for a whole run
  PnlLists,            \* sequences of results
  FoldLists,           \* sequences of folds with their candidates
  CoinFiles, Times     \* the files of a coin, and times to cut them at

\* The sides of a book, the best price first; a common multiple of the prices is
\* known.
Level == [price : Nat \ {0}, size : Nat]
ASSUME BooksAssumption ==
  /\ Targets \subseteq Nat
  /\ AskSides \subseteq Seq(Level) /\ BidSides \subseteq Seq(Level)
  /\ \A levels \in AskSides \cup BidSides : \A k \in DOMAIN levels : (Unit % levels[k].price) = 0
  /\ \A levels \in AskSides : \A i, j \in DOMAIN levels : i <= j => levels[i].price <= levels[j].price
  /\ \A levels \in BidSides : \A i, j \in DOMAIN levels : i <= j => levels[i].price >= levels[j].price
\* At least two exchanges quote, each of them once.
ASSUME QuotesAssumption ==
  \A quotes \in QuoteLists :
    /\ quotes \in Seq([ex : STRING, bid : Nat, ask : Nat \ {0}])
    /\ Len(quotes) >= 2
    /\ \A i, j \in DOMAIN quotes : quotes[i].ex = quotes[j].ex => i = j
ASSUME FundingAssumption ==
  Funding \subseteq
    {f \in [open : Nat, close : Nat, next : Nat, interval : Nat \ {0}] : f.open <= f.close}
\* Closes are positive, the z-score is any number, and the entry threshold is not
\* negative.
PairBar == [z : Int, a : Nat \ {0}, b : Nat \ {0}]
ASSUME PairBarsAssumption == PairBars \subseteq Seq(PairBar) /\ EntryZ \in Nat
\* A price lies between the low and the high of its bar; a position is held for
\* one bar or more, the first of which is the second of the list.
Candle(bar) == bar.l <= bar.o /\ bar.o <= bar.h /\ bar.l <= bar.c /\ bar.c <= bar.h
HeldBar == {bar \in [o : Nat, h : Nat, l : Nat, c : Nat] : Candle(bar)}
ASSUME HeldBarsAssumption == HeldBars \subseteq {bars \in Seq(HeldBar) : Len(bars) >= 2}
CoinBar ==
  [o : Nat, h : Nat, l : Nat, c : Nat,
   spike : BOOLEAN, dir : {1, -1}, cross : BOOLEAN, doi : Int, strong : BOOLEAN]
ASSUME CoinBarsAssumption == CoinBars \subseteq Seq(CoinBar)
\* The files are sorted by their time stamps.
Sorted(rows) == \A i, j \in DOMAIN rows : i <= j => rows[i].ts <= rows[j].ts
ASSUME CoinFilesAssumption ==
  /\ Times \subseteq Nat
  /\ \A files \in CoinFiles :
       /\ files.rows \in Seq([ts : Nat, o : Nat, c : Nat, v : Nat]) /\ Sorted(files.rows)
       /\ files.oi \in Seq([ts : Nat, oi : Nat]) /\ Sorted(files.oi)
       /\ files.others \in Seq(Seq([ts : Nat, v : Nat]))
       /\ \A k \in DOMAIN files.others : Sorted(files.others[k])
ASSUME PnlListsAssumption == PnlLists \subseteq Seq(Int)
ASSUME LengthsAssumption == Lengths \subseteq Nat
\* A fold has the candidates 2, 2.5 and 3, at least one.
Candidate == [net : Int, dd : Nat, oos : Int]
ASSUME FoldListsAssumption == FoldLists \subseteq Seq(Seq(Candidate) \ {<<>>})

VARIABLES
  input,    \* the function called and its arguments
  outcome   \* what it returned

vars == <<input, outcome>>

Running == [returned |-> FALSE]

Init ==
  /\ outcome = Running
  /\ \/ input \in [of : {"size"}, asks : AskSides, bids : BidSides, target : Targets]
     \/ input \in [of : {"pair"}, quotes : QuoteLists]
     \/ input \in [of : {"funding"}, held : Funding]
     \/ input \in [of : {"trades"}, bars : PairBars]
     \/ input \in [of : {"folds"}, total : Lengths]
     \/ input \in [of : {"hold"}, bars : HeldBars, dir : {1, -1}]
     \/ input \in [of : {"run"}, bars : CoinBars, model : DOMAIN Models \cup DOMAIN Models48]
     \/ input \in [of : {"metrics"}, pnls : PnlLists]
     \/ input \in [of : {"verdict"}, folds : FoldLists]
     \/ input \in [of : {"dataset"}, files : CoinFiles, time : Times]

Returns(of, result) ==
  /\ outcome = Running
  /\ input.of = of
  /\ outcome' = [returned |-> TRUE, result |-> result]
  /\ UNCHANGED input

\* The three ways a size is chosen, for the same books.
ChooseSize ==
  Returns("size", [dynamic |-> DynamicSize(input.asks, input.bids),
                   directional |-> [buy |-> DirSize(input.asks), sell |-> DirSize(input.bids)],
                   slice |-> OptimalEntry(input.asks, input.bids, input.target)])

ChoosePair ==
  Returns("pair", [best |-> BestPair(input.quotes), spike |-> SpikeKey(input.quotes)])

CreditFunding ==
  LET held == input.held
  IN Returns("funding", FundingPayments(held.next, held.interval, held.open, held.close))

SimulatePair ==
  Returns("trades", [service |-> ServiceTrades(input.bars, EntryZ),
                     research |-> ResearchTrades(input.bars, EntryZ)])

CutFolds ==
  Returns("folds", [service |-> ServiceFolds(input.total), research |-> ResearchFolds(input.total)])

HoldPosition ==
  Returns("hold", Hold(input.bars, input.dir, NextOpen(input.bars, 1)))

RunBacktest ==
  Returns("run", IF input.model \in DOMAIN Models
                 THEN Simulate(Models[input.model], input.bars, 1)
                 ELSE Simulate(Models48[input.model], input.bars, PullbackBars))

Measure ==
  Returns("metrics", [pair |-> MaxDrawdown(input.pnls), signal |-> CurveDrawdown(input.pnls)])

JudgePair ==
  Returns("verdict", [service |-> ServiceVerdict(input.folds), research |-> ResearchVerdict(input.folds)])

\* The dataset of the whole files, and the one a program would have had then.
LoadDataset ==
  Returns("dataset", [whole |-> Dataset(input.files), then |-> Dataset(UpTo(input.files, input.time))])

Next ==
  \/ ChooseSize
  \/ ChoosePair
  \/ CreditFunding
  \/ SimulatePair
  \/ CutFolds
  \/ HoldPosition
  \/ RunBacktest
  \/ Measure
  \/ JudgePair
  \/ LoadDataset

Spec == Init /\ [][Next]_vars

Returned(of) == outcome.returned /\ input.of = of

-----------------------------------------------------------------------------
(* What the functions promise                                                *)

\* The leg fills, at an average price between the best one and the price that
\* slippage_pct charges, which is no farther from the best than the limit.
FillsNear(levels, size) ==
  LET fill == SimulateLegFill(levels, size)
      walk == WalkWorstPrice(levels, size)
      far == Distance(walk.worst, Best(levels))
      paid == Distance(size * Unit, Best(levels) * fill.quantity)
  IN /\ fill.filled /\ walk.filled
     /\ paid <= far * fill.quantity
     /\ far * 10000 <= SlipBps * Best(levels)

\* A size the program chooses from the books is one both legs can take: the
\* fill simulated with it is not refused and no leg is left alone, the average
\* price is within the slippage limit, and the scorer, which charges the worst
\* price, never charges less than the emulator pays. (calc_dynamic_size says it
\* is guaranteed not to break through the book; the funding strategy and the
\* lead-lag entries rely on the same.) The slices recommended for a target reach
\* it but for less than the smallest order, and exceed it by less than one.
SizedEntriesFill ==
  Returned("size") =>
    LET chosen == {outcome.result.dynamic, outcome.result.slice.slice}
    IN /\ \A size \in chosen \ {0} :
            /\ FillsNear(input.asks, size) /\ FillsNear(input.bids, size)
            /\ ~Orphan(SimulateLegFill(input.asks, size), SimulateLegFill(input.bids, size))
       /\ outcome.result.directional.buy > 0 => FillsNear(input.asks, outcome.result.directional.buy)
       /\ outcome.result.directional.sell > 0 => FillsNear(input.bids, outcome.result.directional.sell)
       /\ LET s == outcome.result.slice
          IN s.chunks > 0 => /\ s.slice * s.chunks + MinSize > input.target
                             /\ s.slice * (s.chunks - 1) < input.target

\* The spike tracker finds its spikes again: the pair under which a spike is
\* filed, computed by compute_net_edge, is the pair under which the scan looks
\* it up, computed by _best_pair, ties and crossed quotes included.
SpikeFoundAgain ==
  Returned("pair") => outcome.result.spike = outcome.result.best

\* What a position is credited with, against the payments that fell due while it
\* was held. The next payment known at the entry begins a calendar: every instant
\* of it from the entry to the close is credited, but for a close at the first
\* instant, which is not; and so is every one that was past at the entry, as the
\* price feed keeps the old next payment until its funding is refreshed (300 s,
\* or longer if that fails). The docstring (emulator.py, 260-263) says that only
\* payments of the holding count. Without a next payment the credit is less than
\* one payment off, or exactly one, whenever the payments were.
FundingPaidWhileHeld ==
  Returned("funding") =>
    LET f == input.held
        From(first) == {t \in first..f.close : (t - first) % f.interval = 0}
        held == {t \in From(f.next) : t >= f.open}
        early == {t \in From(f.next) : t < f.open}
    IN IF f.next > 0
       THEN outcome.result =
              f.interval * ((Cardinality(held) + Cardinality(early)) - Cardinality({f.next} \cap {f.close}))
       ELSE \A first \in f.open..(f.open + f.interval - 1) :
              Distance(outcome.result, f.interval * Cardinality(From(first))) <= f.interval

\* The service judges a pair by the trades the research would have seen: its
\* simulation differs only by the position that is still open at the end of
\* the segment, which it closes there and the research leaves out.
SimulatorsAgree ==
  Returned("trades") =>
    LET s == outcome.result.service
        r == outcome.result.research
    IN \/ s = r
       \/ /\ s # <<>> /\ r = Front(s)
          /\ Last(s).out = Len(input.bars)
          /\ Last(s).out - Last(s).in < MaxHolding

\* No bar tests a fold that also calibrated it, no window passes the end of
\* the data, the folds are different windows whenever the data allow it, and
\* the last one of the service, whose coefficients are traded, ends with the
\* data but for less than a bar per fold (a single fold is at the beginning of
\* the data). The research may end earlier, by less than its step.
FoldsSpanTheData ==
  Returned("folds") =>
    LET s == outcome.result.service
        r == outcome.result.research
        InData(folds) == \A k \in DOMAIN folds : folds[k].from >= 0 /\ folds[k].upto <= input.total
        Distinct(folds) == \A j, k \in DOMAIN folds : j # k => folds[j] # folds[k]
    IN /\ InData(s) /\ InData(r)
       /\ Distinct(r)
       /\ Distinct(s) \/ input.total < IsLen + OosLen + NumFolds - 1
       /\ s # <<>> /\ NumFolds > 1 => Last(s).upto + NumFolds > input.total
       /\ (s = <<>>) = (r = <<>>)
       /\ r # <<>> => Last(r).upto + StepBars > input.total

\* Of the same folds the service and the research think alike, although one
\* counts the drawdown when it chooses and the two round at different places and
\* to different digits (wfa.py, 256-305; walk_forward_backtest.py, 191, 239-295);
\* they differ only if
\*   - in some fold they chose another entry_z, or the chosen in-sample gain is a
\*     trifle for one of them only, or it is a trifle and the gain of the test
\*     is rounded away; or
\*   - the gain of the tests is less than half a unit of the third digit a fold; or
\*   - the efficiencies of the service are, on an average, no further from 49.95
\*     per cent than 0.6 and a quarter of a hundredth of themselves.
\* It is no statement on two runs over the same files: the service spreads its
\* folds over them and warms its z-scores up inside the test, the research
\* steps by a fixed length and warms up on the day before.
Clear(fold) ==
  LET c == ServiceChoice(fold)
      trifling == ResearchNet(c) * Fine <= 2 * Trifle
  IN /\ c = ResearchChoice(fold)
     /\ (c.net <= Trifle) = trifling
     /\ trifling => (c.oos > 0) = (ResearchGain(c) > 0)

NearZero(chosen) ==
  2 * Magnitude(Total([k \in DOMAIN chosen |-> chosen[k].oos])) <= Coarse * Len(chosen)

Slack(efficiency) == 2400 + Magnitude(efficiency)

NearHalf(efficiencies) ==
  200 * Magnitude(2 * Total(efficiencies) - 999 * Len(efficiencies))
    <= Total([k \in DOMAIN efficiencies |-> Slack(efficiencies[k])])

VerdictsAgree ==
  Returned("verdict") =>
    LET chosen == Chosen(input.folds, ServiceChoice)
    IN \/ outcome.result.service = outcome.result.research
       \/ \E k \in DOMAIN input.folds : ~Clear(input.folds[k])
       \/ NearZero(chosen)
       \/ NearHalf([k \in DOMAIN chosen |-> ServiceEfficiency(chosen[k])])

\* The backtests do not look ahead: what the dataset says of a minute is what it
\* would have said at that minute, although rolling means, joins and two passes
\* of fill_null, one of which fills with later values, run over the whole files.
DatasetIsCausal ==
  Returned("dataset") =>
    \A i \in DOMAIN outcome.result.then : outcome.result.then[i] = outcome.result.whole[i]

\* Where every bar opens at the close of the one before, the backtest takes
\* no exit at a price that was not traded in the bar of the exit. (Over a hole
\* in the archive it does: a stop is filled at its own price.)
ContiguousExitsAreReal ==
  Returned("hold") =>
    LET b == input.bars
        exit == outcome.result
    IN (\A k \in 2..(Len(b) - 1) : b[k + 1].o = b[k].c) =>
         /\ exit.price <= b[exit.at].h * 10000
         /\ exit.price >= b[exit.at].l * 10000

\* The positions of a coin never overlap and the cooldown lies between them;
\* none is cut short by the end of the data: one that ends by time was held for
\* the whole of it.
TradesAreSpaced ==
  Returned("run") =>
    LET trades == outcome.result
    IN /\ \A k \in 1..(Len(trades) - 1) : trades[k + 1].at > trades[k].exit.at + Cooldown + 1
       /\ \A k \in DOMAIN trades :
            trades[k].exit.reason = "time_stop" => trades[k].exit.at = trades[k].at + MaxHold - 1

\* The deepest fall between two points of the equity curve, the start included.
TrueDrawdown(pnls) ==
  LET Equity(k) == Total(SubSeq(pnls, 1, k))
      falls == {Equity(p[1]) - Equity(p[2]) : p \in {q \in (0..Len(pnls)) \X (0..Len(pnls)) : q[1] <= q[2]}}
  IN CHOOSE d \in falls : \A e \in falls : e <= d

\* The walk-forward tests report the deepest fall of the equity, the backtest
\* of the signals only the deepest fall after its first result: it is too small
\* by no more than that result, and only if it was a loss.
DrawdownsReported ==
  Returned("metrics") =>
    LET first == IF input.pnls = <<>> THEN 0 ELSE Head(input.pnls)
        deepest == TrueDrawdown(input.pnls)
    IN /\ outcome.result.pair = deepest
       /\ outcome.result.signal <= deepest
       /\ outcome.result.signal < deepest => first < 0 /\ deepest - outcome.result.signal <= -first
=============================================================================
