------------------------------ MODULE Sizing ------------------------------
(* The arithmetic of an entry: which pair of exchanges is bought and sold    *)
(* (calc.py, spread_arb.py), how much (emulator.py, funding/common.py), what *)
(* the legs pay in the order book (calc.py, risk.py) and what funding a      *)
(* position is credited with (emulator.py).                                  *)
(*                                                                           *)
(* All of it is pure: the operators take a book, a size or a set of quotes.  *)
(* Money is in cents and a price in cents too, so that what the code rounds  *)
(* to two digits is a whole number here; a rate is in basis points or per    *)
(* cent. A comparison of two quotients is written as one of products.        *)
EXTENDS Integers, Sequences, SequencesExt, FiniteSets

CONSTANTS
  Unit,          \* a common multiple of the prices: quantities are in 1/Unit
  TopLevels,     \* dyn_top_levels, top_n_levels
  Percent,       \* dyn_pct, 100 * participation_rate
  SlipBps,       \* max_entry_slippage_pct, max_level_slippage_bps
  MinSize,       \* min_size, min_notional_usd
  MaxSize        \* max_size, max_notional_usd

ASSUME SizingAssumption ==
  /\ {Unit, TopLevels, MinSize, MaxSize} \subseteq Nat \ {0}
  /\ SlipBps \in Nat
  /\ Percent \in 1..100

Least(a, b) == IF a <= b THEN a ELSE b
Distance(a, b) == IF a >= b THEN a - b ELSE b - a

-----------------------------------------------------------------------------
(* Books. A side of a book is a sequence of levels, the best price first.    *)

\* The money the first k levels take.
Depth(levels, k) ==
  FoldLeft(LAMBDA money, level: money + level.price * level.size, 0, SubSeq(levels, 1, k))

Best(levels) == levels[1].price

\* A level farther from the best price than the limit is a hole in the book.
TooFar(level, best) == Distance(level.price, best) * 10000 > SlipBps * best

\* The levels that count towards a size: those before the first hole, of the
\* first n at most.
Near(levels, n) ==
  LET top == SubSeq(levels, 1, Least(n, Len(levels)))
      far == {k \in DOMAIN top : TooFar(top[k], Best(levels))}
  IN IF far = {} THEN top ELSE SubSeq(top, 1, (CHOOSE k \in far : \A j \in far : k <= j) - 1)

NearDepth(levels, n) == LET near == Near(levels, n) IN Depth(near, Len(near))

-----------------------------------------------------------------------------
(* Sizes                                                                     *)

\* The size taken from the leg with more in it.
DynamicSize_Thicker(asks, bids) ==
  IF asks = <<>> \/ bids = <<>> THEN 0
  ELSE LET long == NearDepth(asks, TopLevels)
           short == NearDepth(bids, TopLevels)
           size == Least(((IF long >= short THEN long ELSE short) * Percent) \div 100, MaxSize)
       IN IF size >= MinSize THEN size ELSE 0

\* Emulator.calc_dynamic_size: a share of the thinner leg.
DynamicSize(asks, bids) ==
  IF asks = <<>> \/ bids = <<>> THEN 0
  ELSE LET worst == Least(NearDepth(asks, TopLevels), NearDepth(bids, TopLevels))
           size == Least((worst * Percent) \div 100, MaxSize)
       IN IF worst > 0 /\ size >= MinSize THEN size ELSE 0

\* Emulator.calc_dir_size: one leg, all its levels up to the first hole.
DirSize(levels) ==
  IF levels = <<>> THEN 0
  ELSE LET size == Least((NearDepth(levels, Len(levels)) * Percent) \div 100, MaxSize)
       IN IF size >= MinSize THEN size ELSE 0

\* OrderBookSizer.calculate_optimal_entry_size: the slice, whether it is
\* tradable, and in how many slices a target is entered.
Chunks(slice, target) ==
  LET whole == target \div slice
      chunks == IF target % slice >= MinSize THEN whole + 1 ELSE whole
  IN IF chunks >= 1 THEN chunks ELSE 1

NotTradable == [tradable |-> FALSE, leg |-> "none", slice |-> 0, chunks |-> 0]

OptimalEntry(asks, bids, target) ==
  IF asks = <<>> \/ bids = <<>> THEN NotTradable
  ELSE LET long == (NearDepth(asks, TopLevels) * Percent) \div 100
           short == (NearDepth(bids, TopLevels) * Percent) \div 100
           weak == IF long <= short THEN "long" ELSE "short"
           slice == Least(Least(long, short), MaxSize)
       IN IF Least(long, short) < MinSize THEN [NotTradable EXCEPT !.leg = weak]
          ELSE [tradable |-> TRUE, leg |-> weak, slice |-> slice,
                chunks |-> IF target > slice THEN Chunks(slice, target) ELSE 0]

-----------------------------------------------------------------------------
(* Fills                                                                     *)

\* risk.simulate_leg_fill: the leg takes its size from the levels in turn and
\* fills only if the book holds all of it. quantity is in 1/Unit coins, so the
\* average price is size * Unit / quantity.
Taken(levels, size, k) ==
  LET left == size - Depth(levels, k - 1)
      level == levels[k].price * levels[k].size
  IN IF left <= 0 THEN 0 ELSE Least(left, level)

SimulateLegFill(levels, size) ==
  LET quantity == FoldLeft(LAMBDA q, k: q + Taken(levels, size, k) * (Unit \div levels[k].price),
                           0, [k \in 1..Len(levels) |-> k])
  IN [filled |-> Depth(levels, Len(levels)) >= size /\ quantity > 0, quantity |-> quantity]

\* calc._walk_worst_price: the price of the last level the size touches and
\* whether the book holds the size; slippage_pct charges the distance of that
\* price from the best one.
WalkWorstPrice(levels, size) ==
  LET reached == {k \in DOMAIN levels : Depth(levels, k) >= size}
  IN [filled |-> reached # {},
      worst |-> IF reached = {} THEN levels[Len(levels)].price
                ELSE levels[CHOOSE k \in reached : \A j \in reached : k <= j].price]

\* risk.check_orphan_leg
Orphan(a, b) == a.filled # b.filled

-----------------------------------------------------------------------------
(* Funding                                                                   *)

\* The first payment forgotten.
FundingPayments_Elapsed(next, interval, open, close) ==
  IF next <= 0 THEN IF close >= open THEN close - open ELSE 0
  ELSE IF close <= next THEN 0
  ELSE interval * ((close - next) \div interval)

\* Emulator._funding_payments: how many payments a position is credited with, in
\* parts of a payment, of which there are as many as seconds in the interval:
\* counted from the next payment the exchange named, whole ones only, or if it
\* named none (0) in proportion to the time.
FundingPayments(next, interval, open, close) ==
  IF next <= 0 THEN IF close >= open THEN close - open ELSE 0
  ELSE IF close <= next THEN 0
  ELSE interval * ((close - next) \div interval + 1)

-----------------------------------------------------------------------------
(* The pair. A quote is [ex, bid, ask]; quotes is a sequence of them, in the *)
(* order of the dictionary the code walks.                                   *)

\* The spread of buying at one quote and selling at another is a quotient by
\* the ask of the first; Wider compares two of them.
Wider(long1, short1, long2, short2) ==
  (short1.bid - long1.ask) * long2.ask > (short2.bid - long2.ask) * long1.ask

\* SpreadArbitrageStrategy._best_pair: all pairs in order, both directions of
\* each, the first of the widest ones wins.
Directions(quotes) == {p \in (DOMAIN quotes) \X (DOMAIN quotes) : p[1] # p[2]}

Rank(p, n) == IF p[1] < p[2] THEN (p[1] * n + p[2]) * 2 ELSE (p[2] * n + p[1]) * 2 + 1

Beats(quotes, p, q) == Wider(quotes[p[1]], quotes[p[2]], quotes[q[1]], quotes[q[2]])

BestPair(quotes) ==
  LET best == CHOOSE p \in Directions(quotes) : \A q \in Directions(quotes) :
                /\ ~Beats(quotes, q, p)
                /\ Rank(q, Len(quotes)) < Rank(p, Len(quotes)) => Beats(quotes, p, q)
  IN <<quotes[best[1]].ex, quotes[best[2]].ex>>

\* calc.compute_net_edge: of two quotes the first is bought unless the other
\* direction is wider.
EdgeDirection_Strict(a, b) == IF Wider(a, b, b, a) THEN <<a.ex, b.ex>> ELSE <<b.ex, a.ex>>
EdgeDirection(a, b) == IF Wider(b, a, a, b) THEN <<b.ex, a.ex>> ELSE <<a.ex, b.ex>>

QuoteOf(quotes, ex) == quotes[CHOOSE i \in DOMAIN quotes : quotes[i].ex = ex]

\* on_scan_symbol: a spike is filed under the direction compute_net_edge gives
\* for the two quotes of the best pair.
SpikeKey(quotes) ==
  LET best == BestPair(quotes)
  IN EdgeDirection(QuoteOf(quotes, best[1]), QuoteOf(quotes, best[2]))
=============================================================================
