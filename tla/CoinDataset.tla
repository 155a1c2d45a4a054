---------------------------- MODULE CoinDataset ----------------------------
(* load_coin_dataset, with which both backtests of the volume and open-      *)
(* interest signals begin (research/volume_oi_backtest.py and _48.py): the   *)
(* candle files of a coin at several exchanges and the samples of its open   *)
(* interest become, for each minute of the first file, what a model asks of  *)
(* it (see SignalBacktest). The 48-coin program adds an average of the       *)
(* closes and the place of the close in its bar, which are left out.         *)
(*                                                                           *)
(* Files are sequences sorted by ts: rows [ts, o, c, v], the others [ts, v]  *)
(* each, oi [ts, oi]. Volumes are compared with their mean in per cent,      *)
(* bodies and changes of open interest in basis points.                      *)
EXTENDS Integers, Sequences, SequencesExt, FiniteSets

CONSTANTS
  VolWindow,     \* rows in the rolling mean of a volume, 1440
  SpikePct,      \* 100 * RVOL of a spike, 500
  CrossPct,      \* 100 * RVOL of an exchange that confirms it, 300
  BodyBp,        \* its smallest body, 15
  OiRows,        \* rows between the two values of a change, 5
  DoiLimits,     \* the changes the models ask for, {100, 150}
  MinRows,       \* the shortest files, 2880
  MinSamples     \* and 500

ASSUME CoinDatasetAssumption ==
  /\ {VolWindow, SpikePct, CrossPct, OiRows, MinRows, MinSamples} \subseteq Nat \ {0}
  /\ BodyBp \in Nat
  /\ DoiLimits \subseteq Nat \ {0}

VolumeOf(rows) == FoldLeft(LAMBDA s, row: s + row.v, 0, rows)

\* v / rolling_mean(v) reaches a level. The mean is null in the first rows, and
\* the quotient undefined in a window without volume: neither is a spike.
RvolReaches(rows, i, pct) ==
  LET sum == VolumeOf(SubSeq(rows, i - VolWindow + 1, i))
  IN i >= VolWindow /\ sum > 0 /\ rows[i].v * VolWindow * 100 >= pct * sum

\* cross_count_3x: the exchanges, the first included, with a spike of that
\* minute; an exchange without the minute has none.
CrossCount(files, i) ==
  LET Confirms(rows) ==
        \E j \in DOMAIN rows : rows[j].ts = files.rows[i].ts /\ RvolReaches(rows, j, CrossPct)
  IN Cardinality({k \in DOMAIN files.others : Confirms(files.others[k])})
       + (IF RvolReaches(files.rows, i, CrossPct) THEN 1 ELSE 0)

\* A join with the nearest sample, in the past or in the future.
Samples_Nearest(files, i) ==
  LET Age(s) == IF s.ts <= files.rows[i].ts THEN files.rows[i].ts - s.ts ELSE s.ts - files.rows[i].ts
  IN {s \in ToSet(files.oi) : \A r \in ToSet(files.oi) : Age(s) <= Age(r)}

\* join_asof: the last sample that is not younger than the row, if any.
Samples(files, i) == {s \in ToSet(files.oi) : s.ts <= files.rows[i].ts}
Latest(samples) == (CHOOSE s \in samples : \A r \in samples : r.ts <= s.ts).oi

\* Rows before the first sample get the value of the first row that has one
\* (fill_null backward), 0 stands for a column of nulls.
OpenInterest(files, i) ==
  LET joined == {j \in DOMAIN files.rows : j >= i /\ Samples(files, j) # {}}
  IN IF joined = {} THEN 0 ELSE Latest(Samples(files, CHOOSE j \in joined : \A k \in joined : j <= k))

\* The limits a change of open interest reaches in the direction of a sign.
Reached(new, old, sign) == {l \in DoiLimits : sign * (new - old) * 10000 >= l * old}

\* delta_oi_5m against the limits: how many of them it reaches, with its sign.
\* shift(5) counts rows, not minutes. The quotient of two zeros is filled with 0.
DoiLevel(files, i) ==
  LET new == OpenInterest(files, i)
      old == OpenInterest(files, i - OiRows)
  IN IF i <= OiRows \/ (new = 0 /\ old = 0) THEN 0
     ELSE Cardinality(Reached(new, old, 1)) - Cardinality(Reached(new, old, -1))

Spikes(files, i) ==
  LET row == files.rows[i]
      body == IF row.c >= row.o THEN row.c - row.o ELSE row.o - row.c
  IN RvolReaches(files.rows, i, SpikePct) /\ body * 10000 >= BodyBp * row.o

Dataset(files) ==
  IF Len(files.rows) < MinRows \/ Len(files.oi) < MinSamples THEN <<>>
  ELSE [i \in DOMAIN files.rows |->
         [spike |-> Spikes(files, i), dir |-> IF files.rows[i].c > files.rows[i].o THEN 1 ELSE -1,
          cross |-> CrossCount(files, i) >= 2, doi |-> DoiLevel(files, i)]]

\* What the files hold at a time: the beginning of each, as they are sorted.
Beginning(rows, time) == SubSeq(rows, 1, Cardinality({k \in DOMAIN rows : rows[k].ts <= time}))

UpTo(files, time) ==
  [rows |-> Beginning(files.rows, time), oi |-> Beginning(files.oi, time),
   others |-> [k \in DOMAIN files.others |-> Beginning(files.others[k], time)]]
=============================================================================
