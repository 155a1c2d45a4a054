--------------------------- MODULE MCAlgorithms ---------------------------
(* Small inputs for every call. Limits are widened in proportion: a level    *)
(* ten per cent from the best is the last that counts, and half of the depth *)
(* is taken, so that a size reaches beyond the first level.                  *)
EXTENDS Algorithms

Sides(prices, sizes, Better(_, _)) ==
  UNION {[1..n -> [price : prices, size : sizes]] : n \in 0..3} \cap
    {s \in UNION {[1..n -> [price : prices, size : sizes]] : n \in 0..3} :
       \A i \in 1..(Len(s) - 1) : Better(s[i].price, s[i + 1].price)}

MCAskSides == Sides({10, 11, 12}, {1, 4, 20}, LAMBDA p, q: p < q)
MCBidSides == Sides({9, 10, 8}, {2, 20}, LAMBDA p, q: p > q)

MCQuoteLists ==
  LET Quoted(e) == [ex : {e}, bid : {9, 10, 12}, ask : {10, 11, 12}]
  IN (Quoted("binance") \X Quoted("bybit")) \cup
     (Quoted("binance") \X Quoted("bybit") \X Quoted("okx"))

MCFunding == {f \in [open : 0..4, close : 0..9, next : 0..8, interval : 1..4] : f.open <= f.close}

MCPairBars == [1..5 -> [z : {-4, -2, -1, 0, 2, 4}, a : {4, 5}, b : {4}]]

Bar(o, h, l, c) == [o |-> o, h |-> h, l |-> l, c |-> c]
Levels == {988, 1000, 1009, 1016}
After == {b \in [o : Levels, h : Levels, l : Levels, c : Levels] :
            /\ b.l <= b.o /\ b.l <= b.c /\ b.o <= b.h /\ b.c <= b.h}
First == Bar(1000, 1000, 1000, 1000)
MCHeldBars == {<<First, a, b, c>> : a \in {x \in After : x.o = 1000}, b \in After, c \in After}

Said(spike, dir, cross, doi, strong) ==
  [spike |-> spike, dir |-> dir, cross |-> cross, doi |-> doi, strong |-> strong]
Quiet == Said(FALSE, 1, FALSE, 0, FALSE)
Shapes ==
  {Bar(1000, 1002, 999, 1000) @@ Quiet,
   Bar(1010, 1012, 1006, 1010) @@ Quiet,
   Bar(1000, 1004, 1000, 1004) @@ Said(TRUE, 1, TRUE, 2, TRUE),
   Bar(1000, 1000, 985, 996) @@ Said(TRUE, -1, FALSE, -2, TRUE)}
Still == Bar(1000, 1000, 1000, 1000) @@ Quiet
\* Room for two positions with the cooldown between them.
MCCoinBars == {<<Still>> \o s \o <<Still>> : s \in [1..7 -> Shapes]}

\* Two candidates. The unit is half of the fourth digit, so that gains lie
\* between two roundings: 8 is a gain for the research and none for the service,
\* 101 of 403 passes the service and fails the research. Of 1000, a gain of 246
\* is an efficiency just outside the band around a half, and 250 one inside it.
Candidates == [net : {200, 403, 1000}, dd : {0, 1400}, oos : {-300, 1, 8, 101, 246}]
Others ==
  {[net |-> 100, dd |-> 0, oos |-> 8], [net |-> 402, dd |-> 0, oos |-> 250],
   [net |-> 1000, dd |-> 1400, oos |-> 9], [net |-> 1000, dd |-> 0, oos |-> 250]}
MCFoldLists == UNION {[1..n -> {<<c, d>> : c \in Candidates, d \in Others}] : n \in 1..2}

\* Four minutes, perhaps with a hole, samples before, between and after them.
Minutes(ts) == {[i \in 1..4 |-> [ts |-> ts[i], o |-> 1000, c |-> IF v[i] = 1 THEN 999 ELSE 1010, v |-> v[i]]] :
                 v \in [1..4 -> {1, 3}]}
SampleLists ==
  UNION {{SetToSortSeq({[ts |-> t, oi |-> f[t]] : t \in D}, LAMBDA r, s: r.ts < s.ts) :
            f \in [D -> {1000, 1011, 1030}]} : D \in SUBSET {0, 2, 3, 5} \ {{}}}
OtherRows == {<<[ts |-> 1, v |-> 1], [ts |-> 2, v |-> 3], [ts |-> 3, v |-> 0], [ts |-> 4, v |-> 0]>>,
              <<[ts |-> 2, v |-> 1], [ts |-> 4, v |-> 3]>>}
MCCoinFiles ==
  {[rows |-> r, others |-> <<x>>, oi |-> s] :
     r \in Minutes(<<1, 2, 3, 4>>) \cup Minutes(<<1, 3, 4, 5>>), x \in OtherRows, s \in SampleLists}

MCPnlLists == UNION {[1..n -> -2..2] : n \in 0..5}
=============================================================================
