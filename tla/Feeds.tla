------------------------------- MODULE Feeds -------------------------------
(***************************************************************************)
(* What Engine._on_price_update does with a price: the market state stores *)
(* it, the z-score tracker builds the minute bars of each pair of          *)
(* exchanges, and the volume/OI strategy builds the minute candles of the  *)
(* coin, from which the detector's signals come.  One symbol, as symbols   *)
(* share nothing here.  The unit of time is the minute.                    *)
(*                                                                         *)
(* The statistics of a window (EMA, deviation) are functions of the bars   *)
(* in it; the model keeps the bars.  The trend filter of a signal, an EMA  *)
(* of 750 candles, may agree or not.                                       *)
(***************************************************************************)
EXTENDS Integers, Sequences, FiniteSets, FiniteSetsExt

CONSTANTS
  Exchanges,
  Inputs,     \* prices: [px, kind], kind in Kinds
  Archive,    \* of each exchange: the minutes its candle file holds
  MinBars,    \* common minutes that make a pair (60)
  Period,     \* bars in the window of a pair (1440)
  Day,        \* candles in the detector's buffer (1440)
  Staleness,  \* of a quote
  SpikeRvol, MinRvol, MinBody,  \* percent
  OILag,      \* the change of open interest is over OILag minutes (5)
  MinOI,      \* its smallest value for a signal, percent
  OI,         \* samples [min, oi] of the file the strategy is warmed with
  Stamp,      \* the file counts in milliseconds, the candles in seconds (1000)
  Start,      \* the minute of the start of the program
  MaxTicks, MaxTime  \* bounds

Kinds == {"fit", "crossed", "one-sided"}

ASSUME ExchangesAssumption == IsFiniteSet(Exchanges)
ASSUME InputsAssumption == Inputs \subseteq [px : Nat \ {0}, kind : Kinds]
ASSUME ArchiveAssumption ==
  Archive \in [Exchanges -> SUBSET Nat] /\ \A e \in Exchanges : \A t \in Archive[e] : t <= Start
ASSUME SizesAssumption ==
  /\ {MinBars, Period, Day, OILag, SpikeRvol, MinRvol, MinOI, Stamp, Start} \subseteq Nat \ {0}
  /\ {Staleness, MinBody, MaxTicks, MaxTime} \subseteq Nat
ASSUME OIAssumption == OI \in Seq([min : Nat \ {0}, oi : Nat])

\* ZScoreTracker.prewarm: a pair exists if its files have enough minutes in
\* common, and no other pair ever will
CommonTs(p) == Archive[p[1]] \intersect Archive[p[2]]
Pairs == {p \in Exchanges \X Exchanges : p[1] # p[2] /\ Cardinality(CommonTs(p)) >= MinBars}
NthOf(S, i) == CHOOSE x \in S : Cardinality({y \in S : y <= x}) = i

VARIABLES
  clock,
  price,     \* MarketState._price: what the book is like, and when
  minutes,   \* ZScoreTracker._minute_candles
  windows,   \* PairZState.window of each pair, oldest first
  last_bar,  \* PairZState.last_bar_ts
  current,   \* VolumeOIStrategy._current_candles
  candles,   \* VolumeOIDetector._candles
  vol_sum,   \* VolumeOIDetector._vol_sum_1440
  spikes,    \* VolumeOIDetector._minute_spikes
  scanned,   \* VolumeOIStrategy._last_candle_minute
  signal,    \* the last signal
  closes,    \* history: the last price of each exchange and minute
  ticks,     \* history: prices handed to the strategies
  dropped    \* history: volume of the candles dropped by the buffers

tracker == <<minutes, windows, last_bar>>
detector == <<current, candles, vol_sum, spikes, dropped>>
vars == <<clock, price, tracker, detector, scanned, signal, closes, ticks>>

None == [min |-> -1]
NoSignal == [candle |-> -1, at |-> -1, confirmed |-> {}]

LastOf(s, n) == IF Len(s) <= n THEN s ELSE SubSeq(s, Len(s) - n + 1, Len(s))

\* PairZState.load_history
LoadHistory(p) ==
  LastOf([i \in 1..Cardinality(CommonTs(p)) |->
           [min |-> NthOf(CommonTs(p), i), a |-> 0, b |-> 0, live |-> FALSE]], Period)

Init ==
  /\ clock = Start
  /\ price = [e \in Exchanges |-> [kind |-> "one-sided", ts |-> -1]]
  /\ minutes = [e \in Exchanges |-> None]
  /\ windows = [p \in Pairs |-> LoadHistory(p)]
  /\ last_bar = [p \in Pairs |-> NthOf(CommonTs(p), Cardinality(CommonTs(p)))]
  /\ current = None
  /\ candles = [e \in Exchanges |-> <<>>]
  /\ vol_sum = [e \in Exchanges |-> 0]
  /\ spikes = {}
  /\ scanned = -1
  /\ signal = NoSignal
  /\ closes = {}
  /\ ticks = 0
  /\ dropped = 0

-----------------------------------------------------------------------------
\* ZScoreTracker.on_tick

\* the exchange that rolls into a new minute first closes the bar of the pair,
\* if the other exchange is still in the minute left
Rolls(e) == minutes[e] # None /\ clock > minutes[e].min
Other(p, e) == IF p[1] = e THEN p[2] ELSE p[1]
Pushes_Unmatched(p, e) ==
  /\ e \in {p[1], p[2]} /\ Rolls(e)
  /\ minutes[Other(p, e)] # None
  /\ clock > last_bar[p]
Pushes(p, e) ==
  /\ e \in {p[1], p[2]} /\ Rolls(e)
  /\ minutes[Other(p, e)].min = minutes[e].min
  /\ clock > last_bar[p]
Bar(p) == [min |-> minutes[p[1]].min, a |-> minutes[p[1]].px, b |-> minutes[p[2]].px,
           live |-> TRUE]

OnTick(e, px) ==
  /\ windows' = [p \in Pairs |->
       IF Pushes(p, e) THEN LastOf(Append(windows[p], Bar(p)), Period) ELSE windows[p]]
  /\ last_bar' = [p \in Pairs |-> IF Pushes(p, e) THEN minutes[e].min ELSE last_bar[p]]
  /\ minutes' = [minutes EXCEPT ![e] = [min |-> clock, px |-> px]]

-----------------------------------------------------------------------------
\* VolumeOIStrategy.on_price_tick, up to the executor's part, and
\* VolumeOIDetector.update_candle

Rvol(v, sum, n) == IF sum > 0 THEN (100 * v * n) \div sum ELSE 100

Started(e, px) ==
  [min |-> clock, ex |-> e, o |-> px, h |-> px, l |-> px, c |-> px, v |-> 1]
Extended(px) ==
  [current EXCEPT !.h = IF px > @ THEN px ELSE @, !.l = IF px < @ THEN px ELSE @,
                  !.c = px, !.v = @ + 1]

Pruned(s, minute) == {k \in s : minute - k[1] <= 10}

Evicted_Late(buf) == IF Len(buf) > Day THEN buf[1].v ELSE 0
Evicted(buf) == IF Len(buf) = Day THEN buf[1].v ELSE 0

UpdateCandle(k) ==
  LET buf == candles[k.ex]
      out == Evicted(buf)
      new == LastOf(Append(buf, k), Day)
      sum == vol_sum[k.ex] - out + k.v
      hit == IF Rvol(k.v, sum, Len(new)) >= SpikeRvol THEN {<<k.min, k.ex>>} ELSE {}
  IN
  /\ candles' = [candles EXCEPT ![k.ex] = new]
  /\ vol_sum' = [vol_sum EXCEPT ![k.ex] = sum]
  /\ spikes' = Pruned(spikes \union hit, k.min)
  /\ dropped' = dropped + out

OnPriceTick_PerExchange(e, px) ==
  IF current # None /\ current.min = clock /\ current.ex = e
  THEN /\ current' = Extended(px)
       /\ UNCHANGED <<candles, vol_sum, spikes, dropped>>
  ELSE /\ current' = Started(e, px)
       /\ IF current = None THEN UNCHANGED <<candles, vol_sum, spikes, dropped>>
          ELSE UpdateCandle(current)

\* the candle of the coin takes the ticks of every exchange; it is filed
\* under the exchange of its first one when a tick of another minute comes
OnPriceTick(e, px) ==
  \/ /\ current = None
     /\ current' = Started(e, px)
     /\ UNCHANGED <<candles, vol_sum, spikes, dropped>>
  \/ /\ current # None /\ current.min # clock
     /\ UpdateCandle(current)
     /\ current' = Started(e, px)
  \/ /\ current # None /\ current.min = clock
     /\ current' = Extended(px)
     /\ UNCHANGED <<candles, vol_sum, spikes, dropped>>

-----------------------------------------------------------------------------
\* Engine._on_price_update: a crossed price reaches the strategies, a
\* one-sided one only the market state

OnPriceUpdate(e, i) ==
  /\ ticks < MaxTicks
  /\ price' = [price EXCEPT ![e] = [kind |-> i.kind, ts |-> clock]]
  /\ IF i.kind = "one-sided"
     THEN UNCHANGED <<tracker, detector, closes, ticks>>
     ELSE /\ OnTick(e, i.px)
          /\ OnPriceTick(e, i.px)
          /\ closes' = {c \in closes : ~(c.ex = e /\ c.min = clock)}
                         \union {[ex |-> e, min |-> clock, px |-> i.px]}
          /\ ticks' = ticks + 1
  /\ UNCHANGED <<clock, scanned, signal>>

\* MarketState._build_quote
Quoted(e) == price[e].ts >= 0 /\ price[e].kind = "fit" /\ clock - price[e].ts <= Staleness

-----------------------------------------------------------------------------
\* VolumeOIDetector.check_signal

\* get_delta_oi_5m: the newest sample against the last one stamped OILag
\* before the candle, or the oldest there is; in percent
\* the strategy is warmed with the last samples of a file that counts in
\* another unit than the candles, and nothing else adds one
Warmed == LastOf([i \in DOMAIN OI |-> [ts |-> OI[i].min * Stamp, oi |-> OI[i].oi]], 20)
Change(new, old) == ((new - old) * 100) \div old
DeltaOI(min) ==
  LET old == {i \in DOMAIN Warmed : Warmed[i].ts <= min - OILag}
      past == Warmed[IF old = {} \/ Warmed[Max(old)].oi = 0 THEN 1 ELSE Max(old)].oi
  IN IF Len(Warmed) < 2 \/ past = 0 THEN 0 ELSE Change(Warmed[Len(Warmed)].oi, past)

Strong(k) ==
  LET rng == k.h - k.l IN
  /\ 100 * (IF k.c > k.o THEN k.c - k.o ELSE k.o - k.c) >= MinBody * k.o
  /\ \/ k.c > k.o /\ 100 * (k.c - k.l) >= 70 * rng
     \/ k.c < k.o /\ 100 * (k.c - k.l) <= 30 * rng

\* the buffer of the first exchange that quotes, whatever the age of its last
\* candle; the exchanges with a spike in that minute are reported
Signals(e, trend) ==
  LET buf == candles[e]
      k == buf[Len(buf)]
  IN
  /\ buf # <<>> /\ trend
  /\ Rvol(k.v, vol_sum[e], Len(buf)) >= MinRvol
  /\ Strong(k)
  /\ DeltaOI(k.min) >= MinOI

Confirmed(e, minute) ==
  LET hits == {x \in Exchanges : <<minute, x>> \in spikes} IN IF hits = {} THEN {e} ELSE hits

\* on_scan_symbol: at most one signal a minute
OnScanSymbol(e, trend) ==
  LET k == candles[e][Len(candles[e])] IN
  /\ Quoted(e)
  /\ scanned # clock
  /\ Signals(e, trend)
  /\ scanned' = clock
  /\ signal' = [candle |-> k.min, at |-> clock, confirmed |-> Confirmed(e, k.min)]
  /\ UNCHANGED <<clock, price, tracker, detector, closes, ticks>>

Tick ==
  /\ clock < MaxTime
  /\ clock' = clock + 1
  /\ UNCHANGED <<price, tracker, detector, scanned, signal, closes, ticks>>

Next ==
  \/ \E e \in Exchanges : \E i \in Inputs : OnPriceUpdate(e, i)
  \/ \E e \in Exchanges : \E trend \in BOOLEAN : OnScanSymbol(e, trend)
  \/ Tick

Spec == Init /\ [][Next]_vars

-----------------------------------------------------------------------------
Closed(e) == {c.min : c \in {d \in closes : d.ex = e}}
\* minutes in which both exchanges of a pair gave a price and that one has left
Common(p) ==
  {m \in Closed(p[1]) \intersect Closed(p[2]) : minutes[p[1]].min > m \/ minutes[p[2]].min > m}
CloseOf(e, m) == CHOOSE px \in {c.px : c \in {d \in closes : d.ex = e /\ d.min = m}} : TRUE

LiveBars(p) == {i \in DOMAIN windows[p] : windows[p][i].live}

\* Whichever exchange rolls first, each minute both of them quoted becomes one
\* bar, in order, with the last prices of that minute on both sides
\* (zscore_tracker.py, 185-204), and the two directions of a pair hold the same.
BarsAreCommonMinutes ==
  \A p \in Pairs :
    /\ {windows[p][i].min : i \in LiveBars(p)} =
         {m \in Common(p) : Cardinality({n \in Common(p) : n >= m}) <= Period}
    /\ \A i \in LiveBars(p) :
         /\ windows[p][i].a = CloseOf(p[1], windows[p][i].min)
         /\ windows[p][i].b = CloseOf(p[2], windows[p][i].min)
         /\ \A j \in LiveBars(p) : i < j => windows[p][i].min < windows[p][j].min

BufferVolume(buf) ==
  LET volume[i \in 0..Len(buf)] == IF i = 0 THEN 0 ELSE volume[i - 1] + buf[i].v
  IN volume[Len(buf)]
TotalOf(f, S) ==
  LET total[T \in SUBSET S] ==
        IF T = {} THEN 0
        ELSE LET x == CHOOSE y \in T : TRUE IN f[x] + total[T \ {x}]
  IN total[S]

\* The running sum that a volume is compared with is the sum of the candles in
\* the buffer although it is kept by additions and subtractions over its whole
\* life (detector.py, 99-106), and no tick is lost or counted twice between
\* the candles of a coin, which pass from one exchange's buffer to another's.
VolumeConserved ==
  /\ \A e \in Exchanges : vol_sum[e] = BufferVolume(candles[e])
  /\ ticks = TotalOf(vol_sum, Exchanges) + dropped
               + (IF current = None THEN 0 ELSE current.v)

\* A minute has one candle, of one exchange, so at most one exchange can spike
\* in it, and one confirms every signal (detector.py, 135-137 and 228): the
\* disagreement with the documents that SignalsAsDocumented finds cannot be
\* mended by any prices.
OneConfirmation ==
  /\ \A s, t \in spikes : s[1] = t[1] => s = t
  /\ signal # NoSignal => Cardinality(signal.confirmed) = 1

\* docs/volume_oi_momentum_strategy.md:50, detector.py:171 and config.yaml:151:
\* two exchanges or more confirm a signal (nothing compares min_exchanges).
TwoExchanges == Cardinality(signal.confirmed) >= 2

\* get_delta_oi_5m's docstring (detector.py:61) and line 51 of that document:
\* the change a signal relies on is that of the OILag minutes before its candle.
OIBefore(min) ==
  LET known == {i \in DOMAIN OI : OI[i].min <= min} IN IF known = {} THEN 0 ELSE OI[Max(known)].oi
DeltaOfFiveMinutes ==
  /\ OIBefore(signal.candle - OILag) > 0
  /\ Change(OIBefore(signal.candle), OIBefore(signal.candle - OILag)) >= MinOI

\* Section 4.1 of that document asks for both at once; a signal may meet
\* neither, so that its violation refutes the one and the other.
SignalsAsDocumented == signal # NoSignal => TwoExchanges \/ DeltaOfFiveMinutes
=============================================================================
