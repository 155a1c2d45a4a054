---------------------------- MODULE FeedsProofs ----------------------------
(***************************************************************************)
(* At most one exchange spikes in a minute, as the candle of a minute is   *)
(* filed once; the running sums of the buffers account for every tick; and *)
(* the windows of the pairs hold one bar for each of the last minutes in   *)
(* common, for all exchanges, prices, files, buffers and limits.           *)
(***************************************************************************)
EXTENDS Feeds, FiniteSetTheorems, WellFoundedInduction, TLAPS

Candle ==
  [min : Nat, ex : Exchanges, o : Nat, h : Nat, l : Nat, c : Nat, v : Nat]

\* The candle being built is of a minute that has begun.
CurrentIsKnown ==
  /\ clock \in Nat
  /\ current \in Candle \union {None}
  /\ current # None => current.min <= clock

\* The spikes are of exchanges, and of minutes before the candle being built.
SpikesAreOld ==
  /\ spikes \in SUBSET (Nat \X Exchanges)
  /\ \A s \in spikes : current # None /\ s[1] < current.min

OneSpike == \A s, t \in spikes : s[1] = t[1] => s = t

OneCandle == CurrentIsKnown /\ SpikesAreOld /\ OneConfirmation

-----------------------------------------------------------------------------
LEMMA NoneIsNoCandle == None \notin Candle
  BY DEF None, Candle

\* A candle handed over adds at most a spike of its own minute.
LEMMA SpikesAdded ==
  ASSUME NEW k, UpdateCandle(k)
  PROVE  spikes' \subseteq spikes \union {<<k.min, k.ex>>}
  BY DEF UpdateCandle, Pruned

LEMMA StartedType ==
  ASSUME NEW e \in Exchanges, NEW px \in Nat, clock \in Nat
  PROVE  Started(e, px) \in Candle /\ Started(e, px).min = clock
  BY DEF Started, Candle

\* One field of a candle is replaced.
LEMMA FieldReplaced ==
  ASSUME NEW r \in Candle, NEW n \in Nat
  PROVE  /\ [r EXCEPT !.h = n] \in Candle /\ [r EXCEPT !.h = n].min = r.min
         /\ [r EXCEPT !.l = n] \in Candle /\ [r EXCEPT !.l = n].min = r.min
         /\ [r EXCEPT !.c = n] \in Candle /\ [r EXCEPT !.c = n].min = r.min
         /\ [r EXCEPT !.v = n] \in Candle /\ [r EXCEPT !.v = n].min = r.min
  BY DEF Candle

LEMMA ExtendedType ==
  ASSUME NEW px \in Nat, current \in Candle
  PROVE  Extended(px) \in Candle /\ Extended(px).min = current.min
<1> DEFINE high == IF px > current.h THEN px ELSE current.h
           low == IF px < current.l THEN px ELSE current.l
           r1 == [current EXCEPT !.h = high]
           r2 == [r1 EXCEPT !.l = low]
           r3 == [r2 EXCEPT !.c = px]
           r4 == [r3 EXCEPT !.v = current.v + 1]
<1>1. high \in Nat /\ low \in Nat /\ current.v + 1 \in Nat
  BY DEF Candle
<1>2. Extended(px) = r4
  BY DEF Extended
<1> HIDE DEF high, low
<1>3. r1 \in Candle /\ r1.min = current.min
  BY <1>1, FieldReplaced
<1> HIDE DEF r1
<1>4. r2 \in Candle /\ r2.min = current.min
  BY <1>1, <1>3, FieldReplaced
<1> HIDE DEF r2
<1>5. r3 \in Candle /\ r3.min = current.min
  BY <1>4, FieldReplaced
<1> HIDE DEF r3
<1>6. r4 \in Candle /\ r4.min = current.min
  BY <1>1, <1>5, FieldReplaced
<1>7. QED
  BY <1>2, <1>6

\* A tick of another minute files the candle and starts the next one, whose
\* minute is later than that of the spike it may leave.
LEMMA PriceTickStep ==
  ASSUME OneCandle, NEW e \in Exchanges, NEW px \in Nat, OnPriceTick(e, px),
         clock' = clock, signal' = signal
  PROVE  OneCandle'
<1>1. CASE current = None /\ current' = Started(e, px) /\ spikes' = spikes
  <2>1. spikes = {}
    BY <1>1 DEF OneCandle, SpikesAreOld
  <2>2. CurrentIsKnown'
    BY <1>1, StartedType DEF OneCandle, CurrentIsKnown
  <2>3. QED
    BY <1>1, <2>1, <2>2 DEF OneCandle, SpikesAreOld, OneConfirmation
<1>2. CASE /\ current # None /\ current.min # clock
           /\ UpdateCandle(current) /\ current' = Started(e, px)
  <2>1. current \in Candle /\ current.min \in Nat /\ current.ex \in Exchanges /\ current.min < clock
    BY <1>2 DEF OneCandle, CurrentIsKnown, Candle
  <2>2. current' \in Candle /\ current' # None /\ current'.min = clock
    BY <1>2, StartedType, NoneIsNoCandle DEF OneCandle, CurrentIsKnown
  <2>3. spikes' \subseteq spikes \union {<<current.min, current.ex>>}
    BY <1>2, SpikesAdded
  <2>4. \A s \in spikes : s \in Nat \X Exchanges /\ s[1] < current.min /\ s[1] # current.min
    BY <2>1 DEF OneCandle, SpikesAreOld
  <2>5. CurrentIsKnown'
    BY <2>2 DEF OneCandle, CurrentIsKnown
  <2>6. SpikesAreOld'
    <3>1. ASSUME NEW s \in spikes' PROVE s \in Nat \X Exchanges /\ s[1] < clock
      <4>1. CASE s \in spikes
        BY <4>1, <2>1, <2>4 DEF OneCandle, CurrentIsKnown
      <4>2. CASE s = <<current.min, current.ex>>
        BY <4>2, <2>1
      <4>3. QED
        BY <4>1, <4>2, <2>3
    <3>2. QED
      BY <3>1, <2>2 DEF SpikesAreOld
  <2>7. OneSpike'
    BY <2>3, <2>4 DEF OneSpike, OneCandle, OneConfirmation
  <2>8. QED
    BY <2>5, <2>6, <2>7 DEF OneCandle, OneConfirmation, OneSpike
<1>3. CASE /\ current # None /\ current.min = clock
           /\ current' = Extended(px) /\ spikes' = spikes
  <2>1. current \in Candle
    BY <1>3 DEF OneCandle, CurrentIsKnown
  <2>2. current' \in Candle /\ current' # None /\ current'.min = current.min
    BY <1>3, <2>1, ExtendedType, NoneIsNoCandle
  <2>3. QED
    BY <1>3, <2>2 DEF OneCandle, CurrentIsKnown, SpikesAreOld, OneConfirmation
<1>4. QED
  BY <1>1, <1>2, <1>3 DEF OnPriceTick

\* The exchanges with a spike in a minute are at most one, and the scanned one
\* stands for none.
LEMMA ConfirmedIsOne ==
  ASSUME OneCandle, NEW e \in Exchanges, NEW minute
  PROVE  Cardinality(Confirmed(e, minute)) = 1
<1> DEFINE hits == {x \in Exchanges : <<minute, x>> \in spikes}
<1>1. CASE hits = {}
  <2>1. Confirmed(e, minute) = {e}
    BY <1>1 DEF Confirmed
  <2>2. QED
    BY <2>1, FS_Singleton
<1>2. CASE hits # {}
  <2>1. PICK x \in hits : TRUE
    BY <1>2
  <2>2. \A y \in hits : y = x
    <3> TAKE y \in hits
    <3>1. <<minute, x>> \in spikes /\ <<minute, y>> \in spikes
      BY <2>1
    <3>2. <<minute, x>>[1] = <<minute, y>>[1]
      OBVIOUS
    <3>3. <<minute, x>> = <<minute, y>>
      BY <3>1, <3>2 DEF OneCandle, OneConfirmation
    <3>4. QED
      BY <3>3
  <2>3. Confirmed(e, minute) = {x}
    BY <1>2, <2>1, <2>2 DEF Confirmed
  <2>4. QED
    BY <2>3, FS_Singleton
<1>3. QED
  BY <1>1, <1>2

-----------------------------------------------------------------------------
LEMMA OneCandleInit == Init => OneCandle
<1> SUFFICES ASSUME Init PROVE OneCandle
  OBVIOUS
<1>1. clock \in Nat /\ current = None /\ spikes = {} /\ signal = NoSignal
  BY SizesAssumption DEF Init
<1>2. QED
  BY <1>1 DEF OneCandle, CurrentIsKnown, SpikesAreOld, OneConfirmation

LEMMA OneCandleStep == OneCandle /\ [Next]_vars => OneCandle'
<1> SUFFICES ASSUME OneCandle, [Next]_vars PROVE OneCandle'
  OBVIOUS
<1>1. CASE \E e \in Exchanges : \E i \in Inputs : OnPriceUpdate(e, i)
  <2>1. PICK e \in Exchanges, i \in Inputs : OnPriceUpdate(e, i)
    BY <1>1
  <2>2. i.px \in Nat /\ clock' = clock /\ signal' = signal
    BY <2>1, InputsAssumption DEF OnPriceUpdate
  <2>3. CASE i.kind = "one-sided"
    <3>1. current' = current /\ spikes' = spikes
      BY <2>1, <2>3 DEF OnPriceUpdate, detector
    <3>2. QED
      BY <2>2, <3>1 DEF OneCandle, CurrentIsKnown, SpikesAreOld, OneConfirmation
  <2>4. CASE i.kind # "one-sided"
    <3>1. OnPriceTick(e, i.px)
      BY <2>1, <2>4 DEF OnPriceUpdate
    <3>2. QED
      BY <2>2, <3>1, PriceTickStep
  <2>5. QED
    BY <2>3, <2>4
<1>2. CASE \E e \in Exchanges : \E trend \in BOOLEAN : OnScanSymbol(e, trend)
  <2>1. PICK e \in Exchanges, trend \in BOOLEAN : OnScanSymbol(e, trend)
    BY <1>2
  <2>2. clock' = clock /\ current' = current /\ spikes' = spikes
    BY <2>1 DEF OnScanSymbol, detector
  <2>3. PICK minute : signal'.confirmed = Confirmed(e, minute)
    BY <2>1 DEF OnScanSymbol
  <2>4. Cardinality(signal'.confirmed) = 1
    BY <2>3, ConfirmedIsOne
  <2>5. QED
    BY <2>2, <2>4 DEF OneCandle, CurrentIsKnown, SpikesAreOld, OneConfirmation
<1>3. CASE Tick
  <2>1. /\ clock' = clock + 1 /\ current' = current /\ spikes' = spikes /\ signal' = signal
    BY <1>3 DEF Tick, detector
  <2>2. QED
    BY <2>1 DEF OneCandle, CurrentIsKnown, SpikesAreOld, OneConfirmation, Candle
<1>4. CASE UNCHANGED vars
  BY <1>4 DEF vars, detector, OneCandle, CurrentIsKnown, SpikesAreOld, OneConfirmation
<1>5. QED
  BY <1>1, <1>2, <1>3, <1>4 DEF Next

\* One exchange at most spikes in a minute, and one confirms every signal
\* (detector.py, 125-142 and 226-228), whatever the constants.
THEOREM SignalsHaveOneConfirmation == Spec => []OneConfirmation
<1>1. Spec => []OneCandle
  BY OneCandleInit, OneCandleStep, PTL DEF Spec
<1>2. OneCandle => OneConfirmation
  BY DEF OneCandle
<1>3. QED
  BY <1>1, <1>2, PTL

-----------------------------------------------------------------------------
(* Sums.  The functions that the property defines by recursion, over the   *)
(* indices of a buffer and over the subsets of the exchanges, are what     *)
(* their rules say, and change by what one candle adds and another takes.  *)

LEMMA LeastOfNaturals ==
  ASSUME NEW S \in SUBSET Nat, S # {}
  PROVE  \E n \in S : \A m \in S : n <= m
<1> DEFINE R == {ss \in Nat \X Nat : ss[1] < ss[2]}
<1>1. IsWellFoundedOn(R, Nat)
  BY NatLessThanWellFounded DEF OpToRel
<1>2. \E x \in S : \A y \in S : ~ (<<y, x>> \in R)
  <2> HIDE DEF R
  <2> QED BY <1>1, WFMin
<1>3. PICK x \in S : \A y \in S : ~ (<<y, x>> \in R)
  BY <1>2
<1>4. \A y \in S : ~ (y < x)
  BY <1>3
<1>5. QED
  BY <1>4

LEMMA Induct ==
  ASSUME NEW S, 0 \in S, \A n \in Nat : n \in S => n + 1 \in S
  PROVE  Nat \subseteq S
<1> SUFFICES ASSUME NEW k \in Nat, k \notin S PROVE FALSE
  OBVIOUS
<1>1. PICK n \in Nat \ S : \A m \in Nat \ S : n <= m
  BY LeastOfNaturals
<1>2. CASE n = 0
  BY <1>1, <1>2
<1>3. CASE n # 0
  <2>1. n - 1 \in Nat /\ (n - 1) + 1 = n /\ ~(n <= n - 1)
    BY <1>1, <1>3
  <2>2. n - 1 \in S
    BY <1>1, <2>1
  <2>3. QED
    BY <1>1, <2>1, <2>2
<1>4. QED
  BY <1>2, <1>3

\* The volume of the first n candles of a buffer, for n from 0 on.
Volumes(n, f, buf) ==
  /\ f \in [0..n -> Nat]
  /\ f[0] = 0
  /\ \A i \in 1..n : f[i] = f[i - 1] + buf[i].v

LEMMA VolumesExist ==
  ASSUME NEW buf \in Seq(Candle)
  PROVE  \E f : Volumes(Len(buf), f, buf)
<1> DEFINE S == {n \in Nat : n <= Len(buf) => \E f : Volumes(n, f, buf)}
<1>1. Len(buf) \in Nat /\ \A i \in 1..Len(buf) : buf[i].v \in Nat
  <2>1. Len(buf) \in Nat /\ \A i \in 1..Len(buf) : buf[i] \in Candle
    OBVIOUS
  <2>2. \A r \in Candle : r.v \in Nat
    BY DEF Candle
  <2>3. QED
    BY <2>1, <2>2
<1>2. 0 \in S
  <2>1. PICK f : f = [i \in 0..0 |-> 0]
    OBVIOUS
  <2>2. Volumes(0, f, buf)
    BY <2>1 DEF Volumes
  <2>3. QED
    BY <2>2
<1>3. ASSUME NEW n \in Nat, n \in S PROVE n + 1 \in S
  <2> SUFFICES ASSUME n + 1 <= Len(buf) PROVE \E f : Volumes(n + 1, f, buf)
    OBVIOUS
  <2>1. PICK f : Volumes(n, f, buf)
    BY <1>1, <1>3
  <2>2. /\ f \in [0..n -> Nat] /\ f[0] = 0 /\ f[n] \in Nat
        /\ \A i \in 1..n : f[i] = f[i - 1] + buf[i].v
    BY <2>1 DEF Volumes
  <2>3. PICK x \in Nat : x = f[n] + buf[n + 1].v
    BY <1>1, <2>2
  <2>4. PICK g : g = [i \in 0..(n + 1) |-> IF i = n + 1 THEN x ELSE f[i]]
    OBVIOUS
  <2>5. /\ g[n + 1] = x /\ \A i \in 0..n : g[i] = f[i]
        /\ \A i \in 1..(n + 1) : i = n + 1 \/ (i \in 1..n /\ i - 1 \in 0..n /\ i \in 0..n)
        /\ (n + 1) - 1 = n /\ n \in 0..n /\ 0 \in 0..n
    BY <2>4
  <2>6. g \in [0..(n + 1) -> Nat]
    BY <2>2, <2>4
  <2>7. ASSUME NEW i \in 1..(n + 1) PROVE g[i] = g[i - 1] + buf[i].v
    <3>1. CASE i = n + 1
      BY <2>3, <2>5, <3>1
    <3>2. CASE i # n + 1
      <4>1. g[i] = f[i] /\ g[i - 1] = f[i - 1] /\ i \in 1..n
        BY <2>5, <3>2
      <4>2. QED
        BY <2>2, <4>1
    <3>3. QED
      BY <3>1, <3>2
  <2>8. Volumes(n + 1, g, buf)
    BY <2>2, <2>5, <2>6, <2>7 DEF Volumes
  <2>9. QED
    BY <2>8
<1>4. Nat \subseteq S
  <2> HIDE DEF S
  <2>1. QED
    BY <1>2, <1>3, Induct
<1>5. QED
  BY <1>1, <1>4

\* Two such functions agree up to a difference at the start, even when one
\* buffer lags d candles behind the other.
Shifted(n, d, x, f, g) == \A i \in 0..n : g[i + d] = f[i] + x
ShiftedStep(n, d, x, f, g) ==
  \A i \in 1..n : g[(i - 1) + d] = f[i - 1] + x => g[i + d] = f[i] + x

LEMMA Shift ==
  ASSUME NEW n \in Nat, NEW d, NEW x, NEW f, NEW g,
         g[0 + d] = f[0] + x, ShiftedStep(n, d, x, f, g)
  PROVE  Shifted(n, d, x, f, g)
<1> DEFINE S == {i \in Nat : i <= n => g[i + d] = f[i] + x}
<1>1. 0 \in S
  OBVIOUS
<1>2. ASSUME NEW i \in Nat, i \in S PROVE i + 1 \in S
  <2>1. i + 1 \in Nat /\ (i + 1) - 1 = i
    OBVIOUS
  <2>2. ASSUME i + 1 <= n PROVE g[(i + 1) + d] = f[i + 1] + x
    <3>1. i <= n /\ i + 1 \in 1..n
      BY <2>2
    <3>2. g[((i + 1) - 1) + d] = f[(i + 1) - 1] + x
      BY <1>2, <2>1, <3>1
    <3>3. QED
      BY <3>1, <3>2 DEF ShiftedStep
  <2>3. QED
    BY <2>1, <2>2
<1>3. Nat \subseteq S
  <2> HIDE DEF S
  <2>1. QED
    BY <1>1, <1>2, Induct
<1>4. QED
  BY <1>3 DEF Shifted

\* The sum of a buffer.
LEMMA BufferVolumeIs ==
  ASSUME NEW buf \in Seq(Candle)
  PROVE  \E f : Volumes(Len(buf), f, buf) /\ BufferVolume(buf) = f[Len(buf)]
<1> DEFINE n == Len(buf)
           Rule(s) == s = [i \in 0..n |-> IF i = 0 THEN 0 ELSE s[i - 1] + buf[i].v]
<1>1. PICK f : Volumes(n, f, buf)
  BY VolumesExist
<1>2. /\ f \in [0..n -> Nat] /\ f[0] = 0 /\ n \in Nat
      /\ \A i \in 1..n : f[i] = f[i - 1] + buf[i].v
  BY <1>1 DEF Volumes
<1>3. Rule(f)
  <2>1. \A i \in 0..n : f[i] = IF i = 0 THEN 0 ELSE f[i - 1] + buf[i].v
    BY <1>2
  <2>2. QED
    BY <1>2, <2>1
<1>4. PICK g : g = CHOOSE s : Rule(s)
  OBVIOUS
<1>5. Rule(g) /\ BufferVolume(buf) = g[n]
  BY <1>3, <1>4 DEF BufferVolume
<1>6. g[0] = 0 /\ \A i \in 1..n : g[i] = g[i - 1] + buf[i].v
  BY <1>2, <1>5
<1>7. \A i \in 0..n : f[i] \in Nat
  BY <1>2
<1>8. ShiftedStep(n, 0, 0, f, g)
  <2> SUFFICES ASSUME NEW i \in 1..n, g[(i - 1) + 0] = f[i - 1] + 0
               PROVE  g[i + 0] = f[i] + 0
    BY DEF ShiftedStep
  <2>1. i - 1 \in 0..n /\ i \in 0..n /\ (i - 1) + 0 = i - 1 /\ i + 0 = i
    BY <1>2
  <2>2. f[i - 1] \in Nat /\ f[i] \in Nat
    BY <1>7, <2>1
  <2>3. g[i - 1] = f[i - 1]
    BY <2>1, <2>2
  <2>4. g[i] = f[i]
    BY <1>2, <1>6, <2>3
  <2>5. QED
    BY <2>1, <2>2, <2>4
<1>9. g[0 + 0] = f[0] + 0
  BY <1>2, <1>6
<1>10. Shifted(n, 0, 0, f, g)
  BY <1>2, <1>8, <1>9, Shift
<1>11. n \in 0..n /\ n + 0 = n /\ f[n] \in Nat /\ f[n] + 0 = f[n]
  BY <1>2, <1>7
<1>12. g[n] = f[n]
  BY <1>10, <1>11 DEF Shifted
<1>13. QED
  BY <1>1, <1>5, <1>12

\* A candle filed in a buffer, and the oldest one that leaves it.
LEMMA FiledVolume ==
  ASSUME NEW buf \in Seq(Candle), Len(buf) <= Day, NEW k \in Candle, NEW new,
         new = LastOf(Append(buf, k), Day)
  PROVE  /\ new \in Seq(Candle) /\ Len(new) <= Day
         /\ Evicted(buf) \in Nat
         /\ BufferVolume(new) \in Nat
         /\ BufferVolume(new) = BufferVolume(buf) - Evicted(buf) + k.v
<1> DEFINE n == Len(buf)
<1>1. n \in Nat /\ Day \in Nat \ {0} /\ k.v \in Nat
  BY SizesAssumption DEF Candle
<1>2. PICK f : Volumes(n, f, buf) /\ BufferVolume(buf) = f[n]
  BY BufferVolumeIs
<1>3. /\ f[0] = 0 /\ \A i \in 0..n : f[i] \in Nat
      /\ \A i \in 1..n : f[i] = f[i - 1] + buf[i].v
  BY <1>2 DEF Volumes
<1>4. /\ Append(buf, k) \in Seq(Candle) /\ Len(Append(buf, k)) = n + 1
      /\ Append(buf, k)[n + 1] = k /\ \A i \in 1..n : Append(buf, k)[i] = buf[i]
  BY <1>1
<1>5. ASSUME new \in Seq(Candle)
      PROVE  \E g : /\ g[0] = 0 /\ \A i \in 0..Len(new) : g[i] \in Nat
                    /\ \A i \in 1..Len(new) : g[i] = g[i - 1] + new[i].v
                    /\ BufferVolume(new) = g[Len(new)]
  <2>1. PICK g : Volumes(Len(new), g, new) /\ BufferVolume(new) = g[Len(new)]
    BY <1>5, BufferVolumeIs
  <2>2. QED
    BY <2>1 DEF Volumes
<1>6. CASE n < Day
  <2>1. new = Append(buf, k)
    BY <1>1, <1>4, <1>6 DEF LastOf
  <2>2. /\ new \in Seq(Candle) /\ Len(new) = n + 1 /\ new[n + 1] = k
        /\ \A i \in 1..n : new[i] = buf[i]
    BY <1>4, <2>1
  <2>3. PICK g : /\ g[0] = 0 /\ \A i \in 0..(n + 1) : g[i] \in Nat
                 /\ \A i \in 1..(n + 1) : g[i] = g[i - 1] + new[i].v
                 /\ BufferVolume(new) = g[n + 1]
    BY <1>5, <2>2
  <2>4. ShiftedStep(n, 0, 0, f, g)
    <3> SUFFICES ASSUME NEW i \in 1..n, g[(i - 1) + 0] = f[i - 1] + 0
                 PROVE  g[i + 0] = f[i] + 0
      BY DEF ShiftedStep
    <3>1. /\ i - 1 \in 0..n /\ i \in 0..n /\ i \in 1..(n + 1)
          /\ (i - 1) + 0 = i - 1 /\ i + 0 = i
      BY <1>1
    <3>2. f[i - 1] \in Nat /\ f[i] \in Nat
      BY <1>3, <3>1
    <3>3. g[i - 1] = f[i - 1]
      BY <3>1, <3>2
    <3>4. g[i] = f[i]
      BY <1>3, <2>2, <2>3, <3>1, <3>3
    <3>5. QED
      BY <3>1, <3>2, <3>4
  <2>5. g[0 + 0] = f[0] + 0
    BY <1>3, <2>3
  <2>6. Shifted(n, 0, 0, f, g)
    BY <1>1, <2>4, <2>5, Shift
  <2>7. g[n] = f[n]
    <3>1. n \in 0..n /\ n + 0 = n /\ f[n] \in Nat /\ f[n] + 0 = f[n]
      BY <1>1, <1>3
    <3>2. QED
      BY <2>6, <3>1 DEF Shifted
  <2>8. g[n + 1] = f[n] + k.v /\ f[n] \in Nat
    <3>1. n + 1 \in 1..(n + 1) /\ (n + 1) - 1 = n /\ n \in 0..n
      BY <1>1
    <3>2. QED
      BY <1>3, <2>2, <2>3, <2>7, <3>1
  <2>9. Evicted(buf) = 0
    BY <1>1, <1>6 DEF Evicted
  <2>10. QED
    BY <1>1, <1>2, <1>6, <2>2, <2>3, <2>8, <2>9
<1>7. CASE ~(n < Day)
  <2>1. n = Day /\ n >= 1
    BY <1>1, <1>7
  <2>2. new = SubSeq(Append(buf, k), 2, n + 1)
    <3>1. ~(Len(Append(buf, k)) <= Day) /\ Len(Append(buf, k)) - Day + 1 = 2
      BY <1>1, <1>4, <2>1
    <3>2. QED
      BY <1>4, <3>1 DEF LastOf
  <2>3. /\ new \in Seq(Candle) /\ Len(new) = n /\ new[n] = k
        /\ \A i \in 1..(n - 1) : new[i] = buf[i + 1]
    <3>1. /\ new \in Seq(Candle) /\ Len(new) = n
          /\ \A i \in 1..n : new[i] = Append(buf, k)[i + 1]
      <4>1. PICK s : s = Append(buf, k)
        OBVIOUS
      <4>2. s \in Seq(Candle) /\ 2 \in 1..(Len(s) + 1) /\ n + 1 \in 0..Len(s)
        BY <1>1, <1>4, <2>1, <4>1
      <4>3. \A i \in 2..(n + 1) : i \in 1..Len(s)
        BY <1>1, <1>4, <4>1
      <4>4. /\ SubSeq(s, 2, n + 1) \in Seq(Candle)
            /\ Len(SubSeq(s, 2, n + 1)) = n
            /\ \A i \in 1..n : SubSeq(s, 2, n + 1)[i] = s[i + 1]
        BY <1>1, <2>1, <4>2, <4>3
      <4>5. QED
        BY <2>2, <4>1, <4>4
    <3>2. n \in 1..n /\ \A i \in 1..(n - 1) : i \in 1..n /\ i + 1 \in 1..n
      BY <1>1, <2>1
    <3>3. QED
      BY <1>4, <3>1, <3>2
  <2>4. PICK g : /\ g[0] = 0 /\ \A i \in 0..n : g[i] \in Nat
                 /\ \A i \in 1..n : g[i] = g[i - 1] + new[i].v
                 /\ BufferVolume(new) = g[n]
    BY <1>5, <2>3
  <2>5. PICK x \in Nat : x = buf[1].v
    <3>1. 1 \in 1..n /\ buf[1] \in Candle
      BY <1>1, <2>1
    <3>2. QED
      BY <3>1 DEF Candle
  <2>6. ShiftedStep(n - 1, 1, x, g, f)
    <3> SUFFICES ASSUME NEW i \in 1..(n - 1), f[(i - 1) + 1] = g[i - 1] + x
                 PROVE  f[i + 1] = g[i] + x
      BY DEF ShiftedStep
    <3>1. /\ i - 1 \in 0..n /\ i \in 0..n /\ i \in 1..n /\ i + 1 \in 1..n
          /\ (i - 1) + 1 = i /\ (i + 1) - 1 = i
      BY <1>1
    <3>2. f[i] = g[i - 1] + x /\ g[i - 1] \in Nat
      BY <2>4, <3>1
    <3>3. f[i + 1] = f[i] + buf[i + 1].v
      BY <1>3, <3>1
    <3>4. g[i] = g[i - 1] + buf[i + 1].v
      BY <2>3, <2>4, <3>1
    <3>5. buf[i + 1].v \in Nat
      <4>1. buf[i + 1] \in Candle
        BY <3>1
      <4>2. QED
        BY <4>1 DEF Candle
    <3>6. QED
      BY <3>2, <3>3, <3>4, <3>5
  <2>7. f[0 + 1] = g[0] + x
    <3>1. 1 \in 1..n
      BY <1>1, <2>1
    <3>2. f[1] = f[1 - 1] + buf[1].v
      BY <1>3, <3>1
    <3>3. QED
      BY <1>3, <2>4, <2>5, <3>2
  <2>8. Shifted(n - 1, 1, x, g, f)
    <3>1. n - 1 \in Nat
      BY <1>1, <2>1
    <3>2. QED
      BY <2>6, <2>7, <3>1, Shift
  <2>9. f[n] = g[n - 1] + x
    <3>1. n - 1 \in 0..(n - 1) /\ (n - 1) + 1 = n
      BY <1>1, <2>1
    <3>2. QED
      BY <2>8, <3>1 DEF Shifted
  <2>10. g[n] = g[n - 1] + k.v /\ g[n] \in Nat /\ g[n - 1] \in Nat
    <3>1. n \in 1..n /\ n \in 0..n /\ n - 1 \in 0..n
      BY <1>1, <2>1
    <3>2. QED
      BY <2>3, <2>4, <3>1
  <2>11. Evicted(buf) = x
    BY <2>1, <2>5 DEF Evicted
  <2>12. QED
    BY <1>1, <1>2, <2>1, <2>3, <2>4, <2>5, <2>9, <2>10, <2>11
<1>8. QED
  BY <1>6, <1>7

\* The total over a set: the rule of a subset, which takes out one element.
Rest(T) == T \ {CHOOSE y \in T : TRUE}
Chosen(T) == CHOOSE y \in T : TRUE
TotalRule(g, f, T) == g[T] = IF T = {} THEN 0 ELSE f[Chosen(T)] + g[Rest(T)]
\* The rule holds of the subsets of at most n elements.
TotalTo(n, g, f, S) ==
  /\ g \in [SUBSET S -> Int]
  /\ \A T \in SUBSET S : Cardinality(T) <= n => TotalRule(g, f, T)

LEMMA RestIsSmaller ==
  ASSUME NEW T, IsFiniteSet(T), T # {}
  PROVE  /\ Chosen(T) \in T /\ Rest(T) \subseteq T /\ IsFiniteSet(Rest(T))
         /\ Cardinality(T) \in Nat /\ Cardinality(T) # 0
         /\ Cardinality(Rest(T)) = Cardinality(T) - 1
<1>1. Chosen(T) \in T
  BY DEF Chosen
<1>2. Rest(T) = T \ {Chosen(T)}
  BY DEF Rest, Chosen
<1>3. IsFiniteSet(Rest(T)) /\ Cardinality(Rest(T)) = Cardinality(T) - 1
  BY <1>1, <1>2, FS_RemoveElement
<1>4. Cardinality(T) \in Nat /\ Cardinality(T) # 0
  BY FS_CardinalityType, FS_EmptySet
<1>5. QED
  BY <1>1, <1>2, <1>3, <1>4

LEMMA PartsOf ==
  ASSUME NEW S, IsFiniteSet(S), NEW T \in SUBSET S
  PROVE  IsFiniteSet(T) /\ Cardinality(T) \in Nat /\ Cardinality(T) <= Cardinality(S)
         /\ (Cardinality(T) = 0 <=> T = {})
  BY FS_Subset, FS_CardinalityType, FS_EmptySet

LEMMA TotalExists ==
  ASSUME NEW S, IsFiniteSet(S), NEW f \in [S -> Int], NEW n \in Nat
  PROVE  \E g : TotalTo(n, g, f, S)
<1> DEFINE N == {m \in Nat : \E g : TotalTo(m, g, f, S)}
<1>1. 0 \in N
  <2>1. PICK g : g = [T \in SUBSET S |-> 0]
    OBVIOUS
  <2>2. \A T \in SUBSET S : Cardinality(T) <= 0 => T = {} /\ g[T] = 0
    BY <2>1, PartsOf
  <2>3. TotalTo(0, g, f, S)
    BY <2>1, <2>2 DEF TotalTo, TotalRule
  <2>4. QED
    BY <2>3
<1>2. ASSUME NEW m \in Nat, m \in N PROVE m + 1 \in N
  <2>1. PICK g : TotalTo(m, g, f, S)
    BY <1>2
  <2>2. g \in [SUBSET S -> Int] /\ \A T \in SUBSET S : Cardinality(T) <= m => TotalRule(g, f, T)
    BY <2>1 DEF TotalTo
  <2>3. PICK h : h = [T \in SUBSET S |-> IF Cardinality(T) = m + 1
                                         THEN f[Chosen(T)] + g[Rest(T)] ELSE g[T]]
    OBVIOUS
  <2>4. ASSUME NEW T \in SUBSET S, T # {}
        PROVE  /\ Chosen(T) \in S /\ Rest(T) \in SUBSET S
               /\ Cardinality(Rest(T)) = Cardinality(T) - 1 /\ Cardinality(T) \in Nat
    BY <2>4, PartsOf, RestIsSmaller
  <2>5. h \in [SUBSET S -> Int]
    <3>1. ASSUME NEW T \in SUBSET S, Cardinality(T) = m + 1
          PROVE  f[Chosen(T)] + g[Rest(T)] \in Int
      <4>1. T # {}
        BY <3>1, PartsOf
      <4>2. Chosen(T) \in S /\ Rest(T) \in SUBSET S
        BY <2>4, <4>1
      <4>3. QED
        BY <2>2, <4>2
    <3>2. QED
      BY <2>2, <2>3, <3>1
  <2>6. ASSUME NEW T \in SUBSET S, Cardinality(T) <= m + 1
        PROVE  TotalRule(h, f, T)
    <3>1. CASE T = {}
      <4>1. Cardinality(T) = 0
        BY <3>1, PartsOf
      <4>2. h[T] = g[T] /\ TotalRule(g, f, T)
        BY <2>2, <2>3, <4>1
      <4>3. QED
        BY <3>1, <4>2 DEF TotalRule
    <3>2. CASE T # {}
      <4>1. /\ Rest(T) \in SUBSET S /\ Cardinality(Rest(T)) = Cardinality(T) - 1
            /\ Cardinality(T) \in Nat
        BY <2>4, <3>2
      <4>2. h[Rest(T)] = g[Rest(T)]
        <5>1. Cardinality(Rest(T)) # m + 1
          BY <2>6, <4>1
        <5>2. QED
          BY <2>3, <4>1, <5>1
      <4>3. h[T] = f[Chosen(T)] + g[Rest(T)]
        <5>1. CASE Cardinality(T) = m + 1
          BY <2>3, <5>1
        <5>2. CASE Cardinality(T) # m + 1
          <6>1. Cardinality(T) <= m
            BY <2>6, <4>1, <5>2
          <6>2. h[T] = g[T] /\ TotalRule(g, f, T)
            BY <2>2, <2>3, <5>2, <6>1
          <6>3. QED
            BY <3>2, <6>2 DEF TotalRule
        <5>3. QED
          BY <5>1, <5>2
      <4>4. QED
        BY <3>2, <4>2, <4>3 DEF TotalRule
    <3>3. QED
      BY <3>1, <3>2
  <2>7. TotalTo(m + 1, h, f, S)
    BY <2>5, <2>6 DEF TotalTo
  <2>8. QED
    BY <2>7
<1>3. Nat \subseteq N
  <2> HIDE DEF N
  <2>1. QED
    BY <1>1, <1>2, Induct
<1>4. QED
  BY <1>3

\* One value of f changes, and the totals of the sets it belongs to with it.
Changed(f, h, e, x) == [f EXCEPT ![e] = @ + x] = h
TotalsDiffer(n, e, x, g, h, S) ==
  \A T \in SUBSET S : Cardinality(T) <= n => h[T] = g[T] + (IF e \in T THEN x ELSE 0)

LEMMA TotalsChange ==
  ASSUME NEW S, IsFiniteSet(S), NEW f \in [S -> Int], NEW f2 \in [S -> Int],
         NEW e \in S, NEW x \in Int, Changed(f, f2, e, x), NEW n \in Nat,
         NEW g, NEW h, g \in [SUBSET S -> Int],
         \A T \in SUBSET S : TotalRule(g, f, T) /\ TotalRule(h, f2, T)
  PROVE  TotalsDiffer(n, e, x, g, h, S)
<1> DEFINE N == {m \in Nat : TotalsDiffer(m, e, x, g, h, S)}
<1>0. /\ f2[e] = f[e] + x /\ \A y \in S : y # e => f2[y] = f[y]
      /\ \A y \in S : f[y] \in Int
  BY DEF Changed
<1>1. 0 \in N
  <2>1. ASSUME NEW T \in SUBSET S, Cardinality(T) <= 0
        PROVE  h[T] = g[T] + (IF e \in T THEN x ELSE 0)
    <3>1. T = {}
      BY <2>1, PartsOf
    <3>2. h[T] = 0 /\ g[T] = 0
      BY <3>1 DEF TotalRule
    <3>3. QED
      BY <3>1, <3>2
  <2>2. QED
    BY <2>1 DEF TotalsDiffer
<1>2. ASSUME NEW m \in Nat, m \in N PROVE m + 1 \in N
  <2>1. ASSUME NEW T \in SUBSET S, Cardinality(T) <= m + 1
        PROVE  h[T] = g[T] + (IF e \in T THEN x ELSE 0)
    <3>1. CASE T = {}
      BY <3>1 DEF TotalRule
    <3>2. CASE T # {}
      <4>1. PICK y : y = Chosen(T)
        OBVIOUS
      <4>2. PICK R : R = Rest(T)
        OBVIOUS
      <4>3. /\ y \in T /\ y \in S /\ R \in SUBSET S
            /\ Cardinality(R) = Cardinality(T) - 1 /\ Cardinality(T) \in Nat
            /\ R = T \ {y}
        <5>1. IsFiniteSet(T)
          BY PartsOf
        <5>2. QED
          BY <3>2, <4>1, <4>2, <5>1, RestIsSmaller DEF Rest, Chosen
      <4>4. h[R] = g[R] + (IF e \in R THEN x ELSE 0)
        <5>1. Cardinality(R) <= m
          BY <2>1, <4>3
        <5>2. QED
          BY <1>2, <4>3, <5>1 DEF TotalsDiffer
      <4>5. h[T] = f2[y] + h[R] /\ g[T] = f[y] + g[R]
        BY <3>2, <4>1, <4>2 DEF TotalRule
      <4>6. f[y] \in Int /\ g[R] \in Int
        BY <1>0, <4>3
      <4>7. CASE y = e
        <5>1. e \notin R /\ e \in T /\ f2[y] = f[y] + x
          BY <1>0, <4>3, <4>7
        <5>2. h[R] = g[R]
          BY <4>4, <4>6, <5>1
        <5>3. QED
          BY <4>5, <4>6, <5>1, <5>2
      <4>8. CASE y # e
        <5>1. (e \in R <=> e \in T) /\ f2[y] = f[y]
          BY <1>0, <4>3, <4>8
        <5>2. QED
          BY <4>4, <4>5, <4>6, <5>1
      <4>9. QED
        BY <4>7, <4>8
    <3>3. QED
      BY <3>1, <3>2
  <2>2. QED
    BY <2>1 DEF TotalsDiffer
<1>3. Nat \subseteq N
  <2> HIDE DEF N
  <2>1. QED
    BY <1>1, <1>2, Induct
<1>4. QED
  BY <1>3

\* The total that the property defines follows the rule.
LEMMA TotalIs ==
  ASSUME NEW S, IsFiniteSet(S), NEW f \in [S -> Int]
  PROVE  \E g : /\ g \in [SUBSET S -> Int] /\ TotalOf(f, S) = g[S]
                /\ \A T \in SUBSET S : TotalRule(g, f, T)
<1> DEFINE Rule(t) == t = [T \in SUBSET S |->
                             IF T = {} THEN 0
                             ELSE LET x == CHOOSE y \in T : TRUE IN f[x] + t[T \ {x}]]
<1>1. Cardinality(S) \in Nat
  BY FS_CardinalityType
<1>2. PICK g : TotalTo(Cardinality(S), g, f, S)
  BY <1>1, TotalExists
<1>3. g \in [SUBSET S -> Int] /\ \A T \in SUBSET S : TotalRule(g, f, T)
  BY <1>2, PartsOf DEF TotalTo
<1>4. Rule(g)
  <2>1. \A T \in SUBSET S : g[T] = IF T = {} THEN 0
                                   ELSE LET x == CHOOSE y \in T : TRUE IN f[x] + g[T \ {x}]
    BY <1>3 DEF TotalRule, Chosen, Rest
  <2>2. QED
    BY <1>3, <2>1
<1>5. PICK h : h = CHOOSE t : Rule(t)
  OBVIOUS
<1>6. Rule(h) /\ TotalOf(f, S) = h[S]
  <2>1. TotalOf(f, S) = h[S]
    BY <1>5, Zenon DEF TotalOf
  <2>2. Rule(h)
    <3> HIDE DEF Rule
    <3>1. QED
      BY <1>4, <1>5, Zenon
  <2>3. QED
    BY <2>1, <2>2, Zenon
<1>7. \A T \in SUBSET S : TotalRule(h, f, T)
  BY <1>6 DEF TotalRule, Chosen, Rest
<1>8. h = g
  <2>1. DEFINE N == {m \in Nat : \A T \in SUBSET S : Cardinality(T) <= m => h[T] = g[T]}
  <2>2. 0 \in N
    <3>1. \A T \in SUBSET S : Cardinality(T) <= 0 => T = {}
      BY PartsOf
    <3>2. QED
      BY <1>3, <1>7, <3>1 DEF TotalRule
  <2>3. ASSUME NEW m \in Nat, m \in N PROVE m + 1 \in N
    <3>1. ASSUME NEW T \in SUBSET S, Cardinality(T) <= m + 1 PROVE h[T] = g[T]
      <4>1. CASE T = {}
        BY <1>3, <1>7, <4>1 DEF TotalRule
      <4>2. CASE T # {}
        <5>1. IsFiniteSet(T)
          BY PartsOf
        <5>2. /\ Rest(T) \in SUBSET S /\ Cardinality(Rest(T)) = Cardinality(T) - 1
              /\ Cardinality(T) \in Nat
          BY <4>2, <5>1, RestIsSmaller
        <5>3. Cardinality(Rest(T)) <= m
          BY <3>1, <5>2
        <5>4. h[Rest(T)] = g[Rest(T)]
          BY <2>3, <5>2, <5>3
        <5>5. QED
          BY <1>3, <1>7, <4>2, <5>4 DEF TotalRule
      <4>3. QED
        BY <4>1, <4>2
    <3>2. QED
      BY <3>1
  <2>4. Nat \subseteq N
    <3> HIDE DEF N
    <3>1. QED
      BY <2>2, <2>3, Induct
  <2>5. \A T \in SUBSET S : h[T] = g[T]
    BY <1>1, <2>4, PartsOf
  <2>6. QED
    BY <1>3, <1>6, <2>5
<1>9. QED
  BY <1>3, <1>6, <1>8

LEMMA TotalChanges ==
  ASSUME NEW S, IsFiniteSet(S), NEW f \in [S -> Int], NEW f2 \in [S -> Int],
         NEW e \in S, NEW x \in Int, Changed(f, f2, e, x)
  PROVE  TotalOf(f, S) \in Int /\ TotalOf(f2, S) = TotalOf(f, S) + x
<1>1. PICK g : /\ g \in [SUBSET S -> Int] /\ TotalOf(f, S) = g[S]
               /\ \A T \in SUBSET S : TotalRule(g, f, T)
  BY TotalIs
<1>2. PICK h : /\ h \in [SUBSET S -> Int] /\ TotalOf(f2, S) = h[S]
               /\ \A T \in SUBSET S : TotalRule(h, f2, T)
  BY TotalIs
<1>3. Cardinality(S) \in Nat
  BY FS_CardinalityType
<1>4. TotalsDiffer(Cardinality(S), e, x, g, h, S)
  BY <1>1, <1>2, <1>3, TotalsChange
<1>5. h[S] = g[S] + x
  BY <1>3, <1>4 DEF TotalsDiffer
<1>6. QED
  BY <1>1, <1>2, <1>5

\* The total of nothing.
LEMMA TotalOfNothing ==
  ASSUME NEW S, IsFiniteSet(S)
  PROVE  TotalOf([e \in S |-> 0], S) = 0
<1>1. PICK f : f = [e \in S |-> 0]
  OBVIOUS
<1>2. f \in [S -> Int] /\ \A e \in S : f[e] = 0
  BY <1>1
<1>3. CASE S = {}
  <2>1. PICK g : /\ g \in [SUBSET S -> Int] /\ TotalOf(f, S) = g[S]
                 /\ \A T \in SUBSET S : TotalRule(g, f, T)
    BY <1>2, TotalIs
  <2>2. QED
    BY <1>1, <1>3, <2>1 DEF TotalRule
<1>4. CASE S # {}
  <2>1. PICK e \in S : TRUE
    BY <1>4
  <2>2. PICK g : /\ g \in [SUBSET S -> Int] /\ TotalOf(f, S) = g[S]
                 /\ \A T \in SUBSET S : TotalRule(g, f, T)
    BY <1>2, TotalIs
  <2>3. DEFINE N == {m \in Nat : \A T \in SUBSET S : Cardinality(T) <= m => g[T] = 0}
  <2>4. 0 \in N
    <3>1. \A T \in SUBSET S : Cardinality(T) <= 0 => T = {}
      BY PartsOf
    <3>2. QED
      BY <2>2, <3>1 DEF TotalRule
  <2>5. ASSUME NEW m \in Nat, m \in N PROVE m + 1 \in N
    <3>1. ASSUME NEW T \in SUBSET S, Cardinality(T) <= m + 1 PROVE g[T] = 0
      <4>1. CASE T = {}
        BY <2>2, <4>1 DEF TotalRule
      <4>2. CASE T # {}
        <5>1. IsFiniteSet(T)
          BY PartsOf
        <5>2. /\ Chosen(T) \in S /\ Rest(T) \in SUBSET S
              /\ Cardinality(Rest(T)) = Cardinality(T) - 1 /\ Cardinality(T) \in Nat
          BY <4>2, <5>1, RestIsSmaller
        <5>3. Cardinality(Rest(T)) <= m
          BY <3>1, <5>2
        <5>4. g[Rest(T)] = 0 /\ f[Chosen(T)] = 0
          BY <1>2, <2>5, <5>2, <5>3
        <5>5. QED
          BY <2>2, <4>2, <5>4 DEF TotalRule
      <4>3. QED
        BY <4>1, <4>2
    <3>2. QED
      BY <3>1
  <2>6. Nat \subseteq N
    <3> HIDE DEF N
    <3>1. QED
      BY <2>4, <2>5, Induct
  <2>7. Cardinality(S) \in Nat
    BY FS_CardinalityType
  <2>8. g[S] = 0
    BY <2>6, <2>7
  <2>9. QED
    BY <1>1, <2>2, <2>8
<1>5. QED
  BY <1>3, <1>4

-----------------------------------------------------------------------------
\* Buffers of candles, within their length, and their running sums.
Filing ==
  /\ candles \in [Exchanges -> Seq(Candle)]
  /\ \A e \in Exchanges : Len(candles[e]) <= Day
  /\ vol_sum \in [Exchanges -> Int]
  /\ ticks \in Nat
  /\ dropped \in Nat

\* The volume of the candle being built.
Building == IF current = None THEN 0 ELSE current.v

Accounts ==
  /\ \A e \in Exchanges : vol_sum[e] = BufferVolume(candles[e])
  /\ ticks = TotalOf(vol_sum, Exchanges) + dropped + Building

Conserved == OneCandle /\ Filing /\ Accounts

LEMMA ConservedInit == Init => Conserved
<1> SUFFICES ASSUME Init PROVE Conserved
  OBVIOUS
<1>1. /\ current = None /\ candles = [e \in Exchanges |-> <<>>]
      /\ vol_sum = [e \in Exchanges |-> 0] /\ ticks = 0 /\ dropped = 0
  BY DEF Init
<1>2. TotalOf(vol_sum, Exchanges) = 0
  <2>1. TotalOf([e \in Exchanges |-> 0], Exchanges) = 0
    BY ExchangesAssumption, TotalOfNothing DEF ExchangesAssumption
  <2>2. QED
    BY <1>1, <2>1
<1>3. BufferVolume(<<>>) = 0
  <2>1. PICK b \in Seq(Candle) : b = <<>> /\ Len(b) = 0
    <3>1. <<>> \in Seq(Candle) /\ Len(<<>>) = 0
      OBVIOUS
    <3>2. QED
      BY <3>1
  <2>2. PICK f : Volumes(Len(b), f, b) /\ BufferVolume(b) = f[Len(b)]
    BY BufferVolumeIs
  <2>3. QED
    BY <2>1, <2>2 DEF Volumes
<1>4. Filing
  <2>1. <<>> \in Seq(Candle) /\ Len(<<>>) = 0 /\ 0 <= Day
    BY SizesAssumption
  <2>2. QED
    BY <1>1, <2>1 DEF Filing
<1>5. Accounts
  BY <1>1, <1>2, <1>3 DEF Accounts, Building
<1>6. QED
  BY <1>4, <1>5, OneCandleInit DEF Conserved

\* A candle handed over: its volume goes to the sum of its exchange, and that
\* of the candle it drives out to the dropped.
LEMMA CandleFiled ==
  ASSUME Filing, Accounts, NEW k \in Candle, UpdateCandle(k), ticks' \in Nat
  PROVE  /\ Filing'
         /\ \A e \in Exchanges : vol_sum'[e] = BufferVolume(candles'[e])
         /\ TotalOf(vol_sum, Exchanges) \in Int
         /\ TotalOf(vol_sum', Exchanges) + dropped' = TotalOf(vol_sum, Exchanges) + dropped + k.v
<1> DEFINE e0 == k.ex
<1>1. e0 \in Exchanges /\ k.v \in Nat
  BY DEF Candle
<1>2. PICK buf : buf = candles[e0]
  OBVIOUS
<1>3. buf \in Seq(Candle) /\ Len(buf) <= Day
  BY <1>1, <1>2 DEF Filing
<1>4. PICK new : new = LastOf(Append(buf, k), Day)
  OBVIOUS
<1>5. /\ new \in Seq(Candle) /\ Len(new) <= Day /\ Evicted(buf) \in Nat
      /\ BufferVolume(new) \in Nat
      /\ BufferVolume(new) = BufferVolume(buf) - Evicted(buf) + k.v
  BY <1>3, <1>4, FiledVolume
<1>6. PICK x : x = k.v - Evicted(buf)
  OBVIOUS
<1>7. PICK sum : sum = vol_sum[e0] - Evicted(buf) + k.v
  OBVIOUS
<1>8. /\ candles' = [candles EXCEPT ![e0] = new]
      /\ vol_sum' = [vol_sum EXCEPT ![e0] = sum]
      /\ dropped' = dropped + Evicted(buf)
  BY <1>2, <1>4, <1>7 DEF UpdateCandle
<1>9. x \in Int /\ vol_sum[e0] \in Int /\ sum = vol_sum[e0] + x /\ sum \in Int
  <2>1. vol_sum[e0] \in Int
    BY <1>1 DEF Filing
  <2>2. QED
    BY <1>1, <1>5, <1>6, <1>7, <2>1
<1>10. Filing'
  <2>1. vol_sum' \in [Exchanges -> Int]
    BY <1>8, <1>9 DEF Filing
  <2>2. candles' \in [Exchanges -> Seq(Candle)]
    BY <1>5, <1>8 DEF Filing
  <2>3. \A e \in Exchanges : Len(candles'[e]) <= Day
    BY <1>5, <1>8 DEF Filing
  <2>4. dropped' \in Nat
    BY <1>5, <1>8 DEF Filing
  <2>5. QED
    BY <2>1, <2>2, <2>3, <2>4 DEF Filing
<1>11. ASSUME NEW e \in Exchanges PROVE vol_sum'[e] = BufferVolume(candles'[e])
  <2>1. vol_sum[e] = BufferVolume(candles[e])
    BY DEF Accounts
  <2>2. CASE e = e0
    <3>1. vol_sum'[e] = sum /\ candles'[e] = new
      BY <1>8, <2>2 DEF Filing
    <3>2. QED
      BY <1>2, <1>5, <1>7, <2>1, <2>2, <3>1
  <2>3. CASE e # e0
    <3>1. vol_sum'[e] = vol_sum[e] /\ candles'[e] = candles[e]
      BY <1>8, <2>3 DEF Filing
    <3>2. QED
      BY <2>1, <3>1
  <2>4. QED
    BY <2>2, <2>3
<1>12. Changed(vol_sum, vol_sum', e0, x)
  BY <1>8, <1>9 DEF Changed, Filing
<1>13. /\ TotalOf(vol_sum, Exchanges) \in Int
       /\ TotalOf(vol_sum', Exchanges) = TotalOf(vol_sum, Exchanges) + x
  <2>1. vol_sum \in [Exchanges -> Int] /\ vol_sum' \in [Exchanges -> Int]
    BY <1>10 DEF Filing
  <2>2. IsFiniteSet(Exchanges)
    BY ExchangesAssumption DEF ExchangesAssumption
  <2>3. PICK f : f = vol_sum
    OBVIOUS
  <2>4. PICK f2 : f2 = vol_sum'
    OBVIOUS
  <2>5. f \in [Exchanges -> Int] /\ f2 \in [Exchanges -> Int] /\ Changed(f, f2, e0, x)
    BY <1>12, <2>1, <2>3, <2>4
  <2>6. TotalOf(f, Exchanges) \in Int /\ TotalOf(f2, Exchanges) = TotalOf(f, Exchanges) + x
    <3> HIDE DEF e0
    <3>1. QED
      BY <1>1, <1>9, <2>2, <2>5, TotalChanges
  <2>7. QED
    BY <2>3, <2>4, <2>6
<1>14. dropped \in Nat
  BY DEF Filing
<1>15. TotalOf(vol_sum', Exchanges) + dropped' = TotalOf(vol_sum, Exchanges) + dropped + k.v
  <2>1. PICK t : t = TotalOf(vol_sum, Exchanges)
    OBVIOUS
  <2>2. PICK t2 : t2 = TotalOf(vol_sum', Exchanges)
    OBVIOUS
  <2>3. PICK out \in Nat : out = Evicted(buf)
    BY <1>5
  <2>4. PICK v \in Nat : v = k.v
    BY <1>1
  <2>5. t \in Int /\ t2 = t + (v - out)
    BY <1>6, <1>13, <2>1, <2>2, <2>3, <2>4
  <2>6. PICK d \in Nat : d = dropped
    BY <1>14
  <2>7. t2 + (d + out) = t + d + v
    BY ONLY <2>5, d \in Nat, out \in Nat, v \in Nat
  <2>8. QED
    BY <1>8, <2>1, <2>2, <2>3, <2>4, <2>6, <2>7
<1>16. QED
  BY <1>10, <1>11, <1>13, <1>15

\* A tick makes the volume grow by one, in the candle being built or the next.
LEMMA TickAccounted ==
  ASSUME OneCandle, Filing, Accounts, NEW e \in Exchanges, NEW px \in Nat,
         OnPriceTick(e, px), ticks' = ticks + 1
  PROVE  Filing' /\ Accounts'
<1>1. ticks \in Nat /\ dropped \in Nat /\ ticks' \in Nat
  BY DEF Filing
<1>2. \A r \in Candle : r.v \in Nat
  BY DEF Candle
<1>3. Started(e, px).v = 1 /\ Started(e, px) # None
  BY StartedType, NoneIsNoCandle DEF Started, OneCandle, CurrentIsKnown
<1>4. TotalOf(vol_sum, Exchanges) \in Int
  <2>1. vol_sum \in [Exchanges -> Int]
    BY DEF Filing
  <2>2. PICK g : g \in [SUBSET Exchanges -> Int] /\ TotalOf(vol_sum, Exchanges) = g[Exchanges]
    BY <2>1, ExchangesAssumption, TotalIs
  <2>3. QED
    BY <2>2
<1>5. CASE /\ current = None
           /\ current' = Started(e, px)
           /\ UNCHANGED <<candles, vol_sum, spikes, dropped>>
  <2>1. Building = 0 /\ Building' = 1
    BY <1>3, <1>5 DEF Building
  <2>2. Filing'
    BY <1>1, <1>5 DEF Filing
  <2>3. Accounts'
    BY <1>1, <1>4, <1>5, <2>1 DEF Accounts
  <2>4. QED
    BY <2>2, <2>3
<1>6. CASE /\ current # None /\ current.min # clock
           /\ UpdateCandle(current)
           /\ current' = Started(e, px)
  <2>1. current \in Candle
    BY <1>6 DEF OneCandle, CurrentIsKnown
  <2>2. Building = current.v /\ Building' = 1 /\ current.v \in Nat
    BY <1>2, <1>3, <1>6, <2>1 DEF Building
  <2>3. /\ Filing'
        /\ \A x \in Exchanges : vol_sum'[x] = BufferVolume(candles'[x])
        /\ TotalOf(vol_sum', Exchanges) + dropped'
             = TotalOf(vol_sum, Exchanges) + dropped + current.v
    BY <1>1, <1>6, <2>1, CandleFiled
  <2>4. ticks' = TotalOf(vol_sum', Exchanges) + dropped' + Building'
    <3>1. ticks = TotalOf(vol_sum, Exchanges) + dropped + current.v
      BY <2>2 DEF Accounts
    <3>2. QED
      BY <2>2, <2>3, <3>1
  <2>5. QED
    BY <2>3, <2>4 DEF Accounts
<1>7. CASE /\ current # None /\ current.min = clock
           /\ current' = Extended(px)
           /\ UNCHANGED <<candles, vol_sum, spikes, dropped>>
  <2>1. current \in Candle /\ current.v \in Nat
    BY <1>2, <1>7 DEF OneCandle, CurrentIsKnown
  <2>2. Extended(px).v = current.v + 1
    BY <2>1 DEF Extended, Candle
  <2>3. current' # None
    BY <1>7, <2>1, ExtendedType, NoneIsNoCandle
  <2>4. Building = current.v /\ Building' = current.v + 1
    BY <1>7, <2>2, <2>3 DEF Building
  <2>5. Filing'
    BY <1>1, <1>7 DEF Filing
  <2>6. Accounts'
    BY <1>1, <1>4, <1>7, <2>1, <2>4 DEF Accounts
  <2>7. QED
    BY <2>5, <2>6
<1>8. QED
  BY <1>5, <1>6, <1>7 DEF OnPriceTick

LEMMA ConservedStep == Conserved /\ [Next]_vars => Conserved'
<1> SUFFICES ASSUME Conserved, [Next]_vars PROVE Filing' /\ Accounts'
  BY OneCandleStep DEF Conserved
<1>1. CASE UNCHANGED <<current, candles, vol_sum, dropped, ticks>>
  BY <1>1 DEF Conserved, Filing, Accounts, Building
<1>2. CASE \E e \in Exchanges : \E i \in Inputs : OnPriceUpdate(e, i)
  <2>1. PICK e \in Exchanges, i \in Inputs : OnPriceUpdate(e, i)
    BY <1>2
  <2>2. CASE i.kind = "one-sided"
    BY <1>1, <2>1, <2>2 DEF OnPriceUpdate, detector
  <2>3. CASE i.kind # "one-sided"
    <3>1. OnPriceTick(e, i.px) /\ ticks' = ticks + 1
      BY <2>1, <2>3 DEF OnPriceUpdate
    <3>2. i.px \in Nat
      BY InputsAssumption
    <3>3. QED
      BY <3>1, <3>2, TickAccounted DEF Conserved
  <2>4. QED
    BY <2>2, <2>3
<1>3. CASE \E e \in Exchanges : \E trend \in BOOLEAN : OnScanSymbol(e, trend)
  BY <1>1, <1>3 DEF OnScanSymbol, detector
<1>4. CASE Tick
  BY <1>1, <1>4 DEF Tick, detector
<1>5. CASE UNCHANGED vars
  BY <1>1, <1>5 DEF vars, detector
<1>6. QED
  BY <1>2, <1>3, <1>4, <1>5 DEF Next

\* The running sums of the buffers are their volumes, and every tick is in one
\* candle (detector.py, 99-106; strategy.py, 118-150), for all exchanges, day
\* lengths and orders of their ticks.
THEOREM NoTickIsLost == Spec => []VolumeConserved
<1>1. Spec => []Conserved
  BY ConservedInit, ConservedStep, PTL DEF Spec
<1>2. Conserved => VolumeConserved
  BY DEF Conserved, Accounts, Building, VolumeConserved
<1>3. QED
  BY <1>1, <1>2, PTL

-----------------------------------------------------------------------------
(* The bars of a pair                                                      *)

PairBar == [min : Nat, a : Nat, b : Nat, live : BOOLEAN]

From(S, m) == {n \in S : n >= m}

\* A window holds the last of the common minutes C, with the prices a and b. Its
\* bars are counted from the end, so that the minutes it has dropped, of which
\* nothing is left, are known to be too many.
Fits(w, C, a, b) ==
  /\ w \in Seq(PairBar) /\ Len(w) <= Period
  /\ \A i \in 1..Len(w) : w[i].live =>
       /\ w[i].min \in C
       /\ Cardinality(From(C, w[i].min)) = Len(w) - i + 1
       /\ w[i].a = a[w[i].min] /\ w[i].b = b[w[i].min]
  /\ \A i, j \in 1..Len(w) : w[i].live /\ w[j].live /\ i < j => w[i].min < w[j].min
  /\ \A m \in C : \/ \E i \in 1..Len(w) : w[i].live /\ w[i].min = m
                  \/ Cardinality(From(C, m)) > Period

LEMMA LaterMinutes ==
  ASSUME NEW C \in SUBSET Nat, IsFiniteSet(C), NEW M \in Nat, \A c \in C : c < M
  PROVE  /\ \A m \in C : /\ Cardinality(From(C, m)) \in Nat
                         /\ Cardinality(From(C \cup {M}, m)) = Cardinality(From(C, m)) + 1
         /\ Cardinality(From(C \cup {M}, M)) = 1
<1>1. ASSUME NEW m \in C
      PROVE  /\ Cardinality(From(C, m)) \in Nat
             /\ Cardinality(From(C \cup {M}, m)) = Cardinality(From(C, m)) + 1
  <2>1. From(C \cup {M}, m) = From(C, m) \cup {M}
    <3>1. m \in Nat /\ m < M
      OBVIOUS
    <3>2. QED
      BY <3>1 DEF From
  <2>2. M \notin From(C, m)
    BY DEF From
  <2>3. IsFiniteSet(From(C, m))
    <3>1. From(C, m) \in SUBSET C
      BY DEF From
    <3>2. QED
      BY <3>1, FS_Subset
  <2>4. Cardinality(From(C, m) \cup {M}) = Cardinality(From(C, m)) + 1
    BY <2>2, <2>3, FS_AddElement
  <2>5. Cardinality(From(C, m)) \in Nat
    BY <2>3, FS_CardinalityType
  <2>6. QED
    BY <2>1, <2>4, <2>5
<1>2. From(C \cup {M}, M) = {M}
  <2>1. \A c \in C : c \in Nat /\ ~(c >= M)
    OBVIOUS
  <2>2. M >= M
    OBVIOUS
  <2>3. \A x \in C \cup {M} : x >= M <=> x = M
    BY <2>1, <2>2
  <2>4. QED
    BY <2>3, Zenon DEF From
<1>3. QED
  BY <1>1, <1>2, FS_Singleton

\* A window is the same for prices that agree on the common minutes.
LEMMA StillFits ==
  ASSUME NEW w, NEW C, NEW a, NEW b, NEW c, NEW d, Fits(w, C, a, b),
         \A m \in C : c[m] = a[m] /\ d[m] = b[m]
  PROVE  Fits(w, C, c, d)
  BY DEF Fits

\* A bar of a minute after all the common ones, put into the deque.
LEMMA WindowGrows ==
  ASSUME NEW w, NEW C \in SUBSET Nat, IsFiniteSet(C), NEW a, NEW b, NEW c, NEW d,
         Fits(w, C, a, b), \A m \in C : c[m] = a[m] /\ d[m] = b[m],
         NEW bar \in PairBar, bar.live, \A m \in C : m < bar.min,
         bar.a = c[bar.min], bar.b = d[bar.min]
  PROVE  Fits(LastOf(Append(w, bar), Period), C \cup {bar.min}, c, d)
<1>1. PICK n \in Nat, top \in Nat \ {0} : n = Len(w) /\ top = Period /\ n <= top
  BY SizesAssumption DEF Fits
<1>2. w \in Seq(PairBar)
  BY DEF Fits
<1>3. PICK v : v = Append(w, bar)
  OBVIOUS
<1>31. v \in Seq(PairBar) /\ Len(v) = n + 1
  BY <1>1, <1>2, <1>3
<1>32. v[n + 1] = bar /\ \A i \in 1..n : v[i] = w[i]
  BY <1>1, <1>2, <1>3
<1>4. PICK u \in Seq(PairBar), s \in {0, 1} :
        /\ u = LastOf(v, Period) /\ Len(u) = n + 1 - s /\ Len(u) <= top
        /\ \A i \in 1..Len(u) : u[i] = v[i + s]
        /\ s = 1 => n = top
  <2>1. CASE n + 1 <= top
    <3>1. LastOf(v, Period) = v
      BY <1>1, <1>3, <2>1 DEF LastOf
    <3>2. PICK t \in {0, 1} : t = 0
      OBVIOUS
    <3>3. Len(v) = n + 1 - t /\ Len(v) <= top /\ (t = 1 => n = top)
      BY <1>31, <2>1, <3>2
    <3>4. \A i \in 1..Len(v) : i + t = i
      BY <1>31, <3>2
    <3>5. QED
      BY <1>31, <3>1, <3>3, <3>4
  <2>2. CASE n + 1 > top
    <3>1. n = top
      BY <1>1, <2>2
    <3>2. LastOf(v, Period) = SubSeq(v, 2, n + 1)
      <4>1. Len(v) - Period + 1 = 2 /\ ~(Len(v) <= Period)
        BY <1>1, <1>31, <2>2, <3>1
      <4>2. QED
        BY <1>31, <4>1 DEF LastOf
    <3>3. PICK u : u = SubSeq(v, 2, n + 1)
      OBVIOUS
    <3>4. u \in Seq(PairBar) /\ Len(u) = n /\ \A i \in 1..n : u[i] = v[i + 1]
      BY <1>31, <3>3
    <3>5. PICK t \in {0, 1} : t = 1
      OBVIOUS
    <3>6. Len(u) = n + 1 - t /\ Len(u) <= top /\ (t = 1 => n = top)
      BY <1>1, <3>1, <3>4, <3>5
    <3>7. \A i \in 1..Len(u) : u[i] = v[i + t]
      BY <3>4, <3>5
    <3>8. QED
      BY <3>2, <3>3, <3>4, <3>6, <3>7
  <2>3. QED
    BY <1>1, <2>1, <2>2
<1>5. PICK M \in Nat : M = bar.min
  BY DEF PairBar
<1>6. /\ \A m \in C : /\ Cardinality(From(C, m)) \in Nat
                      /\ Cardinality(From(C \cup {M}, m)) = Cardinality(From(C, m)) + 1
      /\ Cardinality(From(C \cup {M}, M)) = 1
  BY <1>5, LaterMinutes
<1>7. ASSUME NEW i \in 1..Len(u)
      PROVE  \/ i + s \in 1..n /\ u[i] = w[i + s]
             \/ i + s = n + 1 /\ u[i] = bar
  <2>1. i + s \in 1..n \/ i + s = n + 1
    BY <1>4
  <2>2. u[i] = v[i + s]
    BY <1>4
  <2>3. QED
    BY <1>32, <2>1, <2>2
<1>8. \A k \in 1..n : w[k].live =>
        /\ w[k].min \in C
        /\ Cardinality(From(C, w[k].min)) = n - k + 1
        /\ w[k].a = a[w[k].min] /\ w[k].b = b[w[k].min]
  BY <1>1 DEF Fits
<1>9. ASSUME NEW i \in 1..Len(u), u[i].live
      PROVE  /\ u[i].min \in C \cup {M}
             /\ Cardinality(From(C \cup {M}, u[i].min)) = Len(u) - i + 1
             /\ u[i].a = c[u[i].min] /\ u[i].b = d[u[i].min]
  <2>1. CASE i + s \in 1..n /\ u[i] = w[i + s]
    <3>1. PICK k \in 1..n : k = i + s
      BY <2>1
    <3>2. /\ u[i] = w[k] /\ w[k].min \in C
          /\ Cardinality(From(C, w[k].min)) = n - k + 1
          /\ w[k].a = a[w[k].min] /\ w[k].b = b[w[k].min]
      BY <1>8, <1>9, <2>1, <3>1
    <3>3. Cardinality(From(C \cup {M}, w[k].min)) = (n - k + 1) + 1
      BY <1>6, <3>2
    <3>4. (n - k + 1) + 1 = Len(u) - i + 1
      BY <1>4, <3>1
    <3>5. QED
      BY <3>2, <3>3, <3>4
  <2>2. CASE i + s = n + 1 /\ u[i] = bar
    <3>1. Len(u) - i + 1 = 1
      BY <1>4, <2>2
    <3>2. QED
      BY <1>5, <1>6, <2>2, <3>1
  <2>3. QED
    BY <1>7, <2>1, <2>2
<1>10. ASSUME NEW i \in 1..Len(u), NEW j \in 1..Len(u), u[i].live, u[j].live, i < j
       PROVE  u[i].min < u[j].min
  <2>1. i + s \in 1..n /\ u[i] = w[i + s] /\ i + s < j + s
    BY <1>4, <1>7, <1>10
  <2>2. PICK k \in 1..n : k = i + s /\ u[i] = w[k]
    BY <2>1
  <2>3. CASE j + s \in 1..n /\ u[j] = w[j + s]
    <3>1. PICK l \in 1..n : l = j + s /\ u[j] = w[l] /\ k < l
      BY <2>1, <2>2, <2>3
    <3>2. w[k].live /\ w[l].live
      BY <1>10, <2>2, <3>1
    <3>3. QED
      BY <1>1, <2>2, <3>1, <3>2 DEF Fits
  <2>4. CASE j + s = n + 1 /\ u[j] = bar
    <3>1. w[k].min \in C
      BY <1>8, <1>10, <2>2
    <3>2. QED
      BY <2>2, <2>4, <3>1
  <2>5. QED
    BY <1>7, <2>3, <2>4
<1>11. ASSUME NEW m \in C \cup {M}
       PROVE  \/ \E i \in 1..Len(u) : u[i].live /\ u[i].min = m
              \/ Cardinality(From(C \cup {M}, m)) > Period
  <2>1. CASE m = M
    <3>1. PICK i \in Nat : i = n + 1 - s
      OBVIOUS
    <3>2. i \in 1..Len(u) /\ i + s = n + 1
      BY <1>1, <1>4, <3>1
    <3>3. u[i] = bar
      BY <1>32, <1>4, <3>2
    <3>4. QED
      BY <1>5, <2>1, <3>2, <3>3
  <2>2. CASE m \in C
    <3>0. PICK x \in Nat :
            x = Cardinality(From(C, m)) /\ Cardinality(From(C \cup {M}, m)) = x + 1
      BY <1>6, <2>2
    <3>1. CASE Cardinality(From(C, m)) > Period
      BY <1>1, <3>0, <3>1
    <3>2. CASE \E k \in 1..n : w[k].live /\ w[k].min = m
      <4>1. PICK k \in 1..n : w[k].live /\ w[k].min = m
        BY <3>2
      <4>2. CASE k > s
        <5>1. PICK i \in Nat : i = k - s
          BY <4>2
        <5>2. i \in 1..Len(u) /\ i + s = k
          BY <1>4, <4>2, <5>1
        <5>3. u[i] = w[k]
          BY <1>32, <1>4, <4>1, <5>2
        <5>4. QED
          BY <4>1, <5>2, <5>3
      <4>3. CASE k <= s
        <5>1. k = 1 /\ s = 1 /\ n = top
          BY <1>4, <4>3
        <5>2. Cardinality(From(C, m)) = n - k + 1
          BY <1>8, <4>1
        <5>3. QED
          BY <1>1, <3>0, <5>1, <5>2
      <4>4. QED
        BY <1>4, <4>2, <4>3
    <3>3. \/ \E k \in 1..n : w[k].live /\ w[k].min = m
          \/ Cardinality(From(C, m)) > Period
      BY <1>1, <2>2 DEF Fits
    <3>4. QED
      BY <3>1, <3>2, <3>3
  <2>3. QED
    BY <2>1, <2>2
<1>12. Fits(u, C \cup {M}, c, d)
  BY <1>1, <1>4, <1>9, <1>10, <1>11 DEF Fits
<1>13. QED
  BY <1>3, <1>4, <1>5, <1>12

-----------------------------------------------------------------------------
(* The minutes a pair has in common                                        *)

Minute == [min : Nat, px : Nat \ {0}]
Close == [ex : Exchanges, min : Nat, px : Nat \ {0}]

\* The history of closes ends with the minute each exchange is in.
ClosesKept ==
  /\ clock \in Nat
  /\ minutes \in [Exchanges -> Minute \cup {None}]
  /\ closes \in SUBSET Close
  /\ \A c, d \in closes : c.ex = d.ex /\ c.min = d.min => c = d
  /\ \A c \in closes : minutes[c.ex] # None /\ c.min <= minutes[c.ex].min
  /\ \A e \in Exchanges : minutes[e] # None =>
       /\ minutes[e].min <= clock
       /\ [ex |-> e, min |-> minutes[e].min, px |-> minutes[e].px] \in closes

Prices(e) == [m \in Nat |-> CloseOf(e, m)]

\* The window of a pair holds its last common minutes, and no bar is later than
\* the minute one of its exchanges is in.
WindowKept(p) ==
  /\ Fits(windows[p], Common(p), Prices(p[1]), Prices(p[2]))
  /\ last_bar[p] \in Nat /\ last_bar[p] <= clock
  /\ \A e \in {p[1], p[2]} : minutes[e] # None => last_bar[p] <= minutes[e].min

BarsKept == ClosesKept /\ \A p \in Pairs : WindowKept(p)

\* A price is entered in the minute and in the history.
Entered(e, px) ==
  /\ minutes' = [minutes EXCEPT ![e] = [min |-> clock, px |-> px]]
  /\ closes' = {c \in closes : ~(c.ex = e /\ c.min = clock)}
                 \cup {[ex |-> e, min |-> clock, px |-> px]}
  /\ clock' = clock

LEMMA NoneIsNoMinute == None \notin Minute /\ \A m \in Nat : None.min # m
  BY DEF None, Minute

LEMMA MinuteOf ==
  ASSUME ClosesKept, NEW e \in Exchanges, minutes[e] # None
  PROVE  /\ minutes[e] \in Minute /\ minutes[e].min \in Nat
         /\ minutes[e].px \in Nat \ {0} /\ minutes[e].min <= clock
         /\ [ex |-> e, min |-> minutes[e].min, px |-> minutes[e].px] \in closes
<1>1. minutes[e] \in Minute
  BY DEF ClosesKept
<1>2. QED
  BY <1>1 DEF ClosesKept, Minute

LEMMA ClosedIs ==
  ASSUME NEW e, NEW m
  PROVE  m \in Closed(e) <=> \E c \in closes : c.ex = e /\ c.min = m
  BY DEF Closed

\* The price with which an exchange left a minute is the one kept of it.
LEMMA CloseIs ==
  ASSUME ClosesKept, NEW c \in closes
  PROVE  CloseOf(c.ex, c.min) = c.px
<1> DEFINE same == {d \in closes : d.ex = c.ex /\ d.min = c.min}
<1>1. same = {c}
  <2>1. \A d \in closes : d.ex = c.ex /\ d.min = c.min => d = c
    BY Zenon DEF ClosesKept
  <2>2. QED
    BY <2>1
<1>2. {d.px : d \in same} = {c.px}
  BY <1>1
<1>3. CloseOf(c.ex, c.min) = CHOOSE px \in {d.px : d \in same} : TRUE
  BY DEF CloseOf
<1> HIDE DEF same
<1>4. QED
  BY <1>2, <1>3

LEMMA EnteredClosed ==
  ASSUME NEW e, NEW px, Entered(e, px), NEW x, NEW m
  PROVE  m \in Closed(x)' <=> m \in Closed(x) \/ (x = e /\ m = clock)
<1>1. m \in Closed(x)' <=> \E c \in closes' : c.ex = x /\ c.min = m
  BY DEF Closed
<1>2. \A c : c \in closes' <=>
        \/ c \in closes /\ ~(c.ex = e /\ c.min = clock)
        \/ c = [ex |-> e, min |-> clock, px |-> px]
  BY DEF Entered
<1>3. m \in Closed(x) <=> \E c \in closes : c.ex = x /\ c.min = m
  BY ClosedIs
<1> DEFINE k == [ex |-> e, min |-> clock, px |-> px]
<1>4. k.ex = e /\ k.min = clock
  OBVIOUS
<1>5. k \in closes' /\ \A c \in closes' : c = k \/ c \in closes
  BY <1>2
<1> HIDE DEF k
<1>6. ASSUME m \in Closed(x)' PROVE m \in Closed(x) \/ (x = e /\ m = clock)
  BY <1>1, <1>3, <1>4, <1>5, <1>6
<1>7. ASSUME m \in Closed(x) PROVE m \in Closed(x)'
  <2>1. PICK c \in closes : c.ex = x /\ c.min = m
    BY <1>3, <1>7
  <2>2. CASE c.ex = e /\ c.min = clock
    BY <1>1, <1>4, <1>5, <2>1, <2>2
  <2>3. CASE ~(c.ex = e /\ c.min = clock)
    BY <1>1, <1>2, <2>1, <2>3
  <2>4. QED
    BY <2>2, <2>3
<1>8. ASSUME x = e, m = clock PROVE m \in Closed(x)'
  BY <1>1, <1>4, <1>5, <1>8
<1>9. QED
  BY <1>6, <1>7, <1>8

LEMMA EnteredPrices ==
  ASSUME NEW e, NEW px, Entered(e, px), NEW x, NEW m, ~(x = e /\ m = clock)
  PROVE  CloseOf(x, m)' = CloseOf(x, m)
<1> DEFINE old == {d \in closes : d.ex = x /\ d.min = m}
           new == {d \in closes' : d.ex = x /\ d.min = m}
<1>1. old = new
  BY DEF Entered
<1>2. CloseOf(x, m) = CHOOSE y \in {c.px : c \in old} : TRUE
  BY DEF CloseOf
<1>3. CloseOf(x, m)' = CHOOSE y \in {c.px : c \in new} : TRUE
  BY DEF CloseOf
<1> HIDE DEF old, new
<1>4. QED
  BY <1>1, <1>2, <1>3

LEMMA EnteredKept ==
  ASSUME ClosesKept, NEW e \in Exchanges, NEW px \in Nat \ {0}, Entered(e, px)
  PROVE  ClosesKept'
<1> DEFINE new == [ex |-> e, min |-> clock, px |-> px]
<1>1. new \in Close /\ new.ex = e /\ new.min = clock /\ new.px = px
  BY DEF Close, ClosesKept
<1>2. \A c : c \in closes' <=> (c \in closes /\ ~(c.ex = e /\ c.min = clock)) \/ c = new
  BY DEF Entered
<1>3. clock' \in Nat
  BY DEF Entered, ClosesKept
<1>4. [min |-> clock, px |-> px] \in Minute
  BY DEF Minute, ClosesKept
<1>5. /\ minutes'[e] = [min |-> clock, px |-> px]
      /\ \A x \in Exchanges : x # e => minutes'[x] = minutes[x]
  BY DEF Entered, ClosesKept
<1>6. minutes' \in [Exchanges -> Minute \cup {None}]
  BY <1>4 DEF Entered, ClosesKept
<1> HIDE DEF new
<1>7. closes' \in SUBSET Close
  BY <1>1, <1>2 DEF ClosesKept
<1>8. \A c, d \in closes' : c.ex = d.ex /\ c.min = d.min => c = d
  BY <1>1, <1>2, Zenon DEF ClosesKept
<1>9. minutes'[e] # None /\ minutes'[e].min = clock /\ minutes'[e].px = px
  BY <1>4, <1>5, NoneIsNoMinute
<1>10. ASSUME NEW c \in closes' PROVE minutes'[c.ex] # None /\ c.min <= minutes'[c.ex].min
  <2>1. CASE c = new
    BY <1>1, <1>9, <2>1 DEF ClosesKept
  <2>2. CASE c \in closes
    <3>1. c \in Close /\ c.ex \in Exchanges /\ c.min \in Nat
      BY <2>2 DEF ClosesKept, Close
    <3>2. minutes[c.ex] # None /\ c.min <= minutes[c.ex].min
      BY <2>2 DEF ClosesKept
    <3>3. minutes[c.ex].min \in Nat /\ minutes[c.ex].min <= clock /\ clock \in Nat
      BY <3>1, <3>2, MinuteOf DEF ClosesKept
    <3>4. CASE c.ex = e
      BY <1>9, <3>1, <3>2, <3>3, <3>4
    <3>5. CASE c.ex # e
      BY <1>5, <3>1, <3>2, <3>5
    <3>6. QED
      BY <3>4, <3>5
  <2>3. QED
    BY <1>2, <2>1, <2>2
<1>11. ASSUME NEW x \in Exchanges, minutes'[x] # None
       PROVE  /\ minutes'[x].min <= clock'
              /\ [ex |-> x, min |-> minutes'[x].min, px |-> minutes'[x].px] \in closes'
  <2>1. CASE x = e
    <3>1. clock' = clock /\ clock <= clock
      BY DEF Entered, ClosesKept
    <3>2. QED
      BY <1>2, <1>9, <2>1, <3>1 DEF new
  <2>2. CASE x # e
    <3>1. minutes'[x] = minutes[x] /\ minutes[x] # None /\ clock' = clock
      BY <1>5, <1>11, <2>2 DEF Entered
    <3>2. PICK c \in closes : c = [ex |-> x, min |-> minutes[x].min, px |-> minutes[x].px]
      BY <3>1, MinuteOf
    <3>3. c \in closes'
      BY <1>2, <2>2, <3>2
    <3>4. QED
      BY <3>1, <3>2, <3>3, MinuteOf
  <2>3. QED
    BY <2>1, <2>2
<1>12. QED
  BY <1>3, <1>6, <1>7, <1>8, <1>10, <1>11 DEF ClosesKept

LEMMA CommonIs ==
  ASSUME NEW p, NEW m
  PROVE  m \in Common(p) <=> /\ m \in Closed(p[1]) /\ m \in Closed(p[2])
                             /\ minutes[p[1]].min > m \/ minutes[p[2]].min > m
  BY DEF Common

\* A minute kept of an exchange is not after the one it is in.
LEMMA ClosedBefore ==
  ASSUME ClosesKept, NEW e \in Exchanges, NEW m \in Closed(e)
  PROVE  /\ m \in Nat /\ m <= clock
         /\ minutes[e] # None /\ minutes[e].min \in Nat
         /\ m <= minutes[e].min /\ minutes[e].min <= clock
<1>1. PICK c \in closes : c.ex = e /\ c.min = m
  BY ClosedIs
<1>2. c \in Close /\ minutes[e] # None /\ m <= minutes[e].min
  BY <1>1 DEF ClosesKept
<1>3. m \in Nat
  BY <1>1, <1>2 DEF Close
<1>4. minutes[e].min \in Nat /\ minutes[e].min <= clock /\ clock \in Nat
  BY <1>2, MinuteOf DEF ClosesKept
<1>5. QED
  BY <1>2, <1>3, <1>4

LEMMA MinuteClosed ==
  ASSUME ClosesKept, NEW e \in Exchanges, minutes[e] # None
  PROVE  minutes[e].min \in Closed(e)
<1>1. PICK c \in closes : c = [ex |-> e, min |-> minutes[e].min, px |-> minutes[e].px]
  BY MinuteOf
<1>2. c.ex = e /\ c.min = minutes[e].min
  BY <1>1
<1>3. QED
  BY <1>1, <1>2, ClosedIs

\* The common minutes are over: they are before the present one and no more
\* than those since the first.
LEMMA CommonBefore ==
  ASSUME ClosesKept, NEW p \in Pairs
  PROVE  /\ Common(p) \in SUBSET Nat /\ IsFiniteSet(Common(p))
         /\ \A m \in Common(p) : m < clock
<1>1. p[1] \in Exchanges /\ p[2] \in Exchanges
  BY DEF Pairs
<1>2. clock \in Nat
  BY DEF ClosesKept
<1>3. ASSUME NEW m \in Common(p) PROVE m \in Nat /\ m < clock /\ m \in 0..clock
  <2>1. /\ m \in Closed(p[1]) /\ m \in Closed(p[2])
        /\ minutes[p[1]].min > m \/ minutes[p[2]].min > m
    BY CommonIs
  <2>2. m \in Nat /\ minutes[p[1]].min \in Nat /\ minutes[p[1]].min <= clock
    BY <1>1, <2>1, ClosedBefore
  <2>3. minutes[p[2]].min \in Nat /\ minutes[p[2]].min <= clock
    BY <1>1, <2>1, ClosedBefore
  <2>4. QED
    BY <1>2, <2>1, <2>2, <2>3
<1>4. IsFiniteSet(0..clock)
  BY <1>2, FS_Interval
<1>5. QED
  BY <1>3, <1>4, FS_Subset

\* A price that opens no minute, or one of an exchange outside the pair, leaves
\* the common minutes as they are; one that opens a minute adds the minute left
\* if the other exchange is in it.
LEMMA EnteredCommon ==
  ASSUME ClosesKept, NEW e \in Exchanges, NEW px \in Nat \ {0}, Entered(e, px),
         NEW p \in Pairs
  PROVE  /\ e \in {p[1], p[2]} /\ Rolls(e) /\ minutes[Other(p, e)].min = minutes[e].min
              => /\ Common(p)' = Common(p) \cup {minutes[e].min}
                 /\ \A m \in Common(p) : m < minutes[e].min
         /\ ~(e \in {p[1], p[2]} /\ Rolls(e) /\ minutes[Other(p, e)].min = minutes[e].min)
              => Common(p)' = Common(p)
<1>1. p[1] \in Exchanges /\ p[2] \in Exchanges /\ p[1] # p[2]
  BY DEF Pairs
<1>2. \A m : m \in Common(p)' <=>
        /\ m \in Closed(p[1])' /\ m \in Closed(p[2])'
        /\ minutes'[p[1]].min > m \/ minutes'[p[2]].min > m
  BY DEF Common
<1>3. \A x, m : m \in Closed(x)' <=> m \in Closed(x) \/ (x = e /\ m = clock)
  BY EnteredClosed
<1>4. minutes'[e].min = clock /\ \A x \in Exchanges : x # e => minutes'[x] = minutes[x]
  BY DEF Entered, ClosesKept
<1>5. clock \in Nat
  BY DEF ClosesKept
<1>6. CASE e \notin {p[1], p[2]}
  <2>1. Common(p)' = Common(p)
    BY <1>1, <1>2, <1>3, <1>4, <1>6, CommonIs
  <2>2. QED
    BY <1>6, <2>1
<1>7. CASE e \in {p[1], p[2]}
  <2>1. PICK o \in Exchanges : o = Other(p, e) /\ o # e /\ {p[1], p[2]} = {e, o}
    BY <1>1, <1>7 DEF Other
  <2>2. \A m : m \in Common(p) <=>
          m \in Closed(e) /\ m \in Closed(o) /\ (minutes[e].min > m \/ minutes[o].min > m)
    BY <1>1, <1>7, <2>1, CommonIs DEF Other
  <2>3. \A m : m \in Common(p)' <=>
          /\ m \in Closed(e) \/ m = clock
          /\ m \in Closed(o)
          /\ clock > m \/ minutes[o].min > m
    BY <1>1, <1>2, <1>3, <1>4, <1>7, <2>1 DEF Other
  <2>4. \A m \in Closed(o) : /\ m \in Nat /\ minutes[o].min \in Nat
                             /\ m <= minutes[o].min /\ minutes[o].min <= clock
    BY ClosedBefore
  <2>5. \A m \in Closed(e) : /\ m \in Nat /\ minutes[e].min \in Nat /\ minutes[e] # None
                             /\ m <= minutes[e].min /\ minutes[e].min <= clock
    BY ClosedBefore
  <2>6. \A m : m \in Common(p)' <=> m \in Closed(e) /\ m \in Closed(o) /\ clock > m
    <3>1. ASSUME NEW m \in Closed(o) PROVE minutes[o].min > m => clock > m
      BY <1>5, <2>4
    <3>2. ~(clock > clock)
      BY <1>5
    <3>3. QED
      BY <2>3, <3>1, <3>2
  <2>7. CASE Rolls(e)
    <3>1. PICK M \in Nat : M = minutes[e].min /\ clock > M
      BY <2>7, MinuteOf DEF Rolls
    <3>2. M \in Closed(e)
      BY <2>7, <3>1, MinuteClosed DEF Rolls
    <3>3. \A m : m \in Common(p)' <=> m \in Closed(e) /\ m \in Closed(o)
      <4>1. \A m \in Closed(e) : clock > m
        BY <1>5, <2>5, <3>1
      <4>2. QED
        BY <2>6, <4>1
    <3>4. CASE minutes[o].min = M
      <4>1. minutes[o] # None
        BY <3>1, <3>4, NoneIsNoMinute
      <4>2. M \in Closed(o)
        BY <3>4, <4>1, MinuteClosed
      <4>3. \A m \in Closed(e) : m \in Nat /\ m <= M
        BY <2>5, <3>1
      <4>4. \A m \in Closed(e) : M > m <=> m # M
        BY <4>3, <3>1
      <4>5. \A m : m \in Common(p) <=> m \in Closed(e) /\ m \in Closed(o) /\ M > m
        BY <2>2, <3>1, <3>4
      <4>6. \A m : m \in Common(p)' <=> m \in Common(p) \/ m = M
        BY <3>2, <3>3, <4>2, <4>4, <4>5, Zenon
      <4>7. Common(p)' = Common(p) \cup {M}
        BY <4>6
      <4>8. \A m \in Common(p) : m < M
        BY <4>3, <4>5, <3>1
      <4>9. QED
        BY <1>7, <2>1, <2>7, <3>1, <3>4, <4>7, <4>8
    <3>5. CASE minutes[o].min # M
      <4>1. ASSUME NEW m \in Closed(e), m \in Closed(o)
            PROVE  minutes[e].min > m \/ minutes[o].min > m
        <5>1. PICK n \in Nat : n = minutes[o].min /\ m <= n
          BY <2>4, <4>1
        <5>2. m \in Nat /\ m <= M /\ n # M
          BY <2>5, <3>1, <3>5, <5>1
        <5>3. QED
          BY <3>1, <5>1, <5>2
      <4>2. Common(p)' = Common(p)
        BY <2>2, <3>3, <4>1
      <4>3. QED
        BY <2>1, <3>1, <3>5, <4>2
    <3>6. QED
      BY <3>4, <3>5
  <2>8. CASE ~Rolls(e)
    <3>1. ASSUME NEW m \in Closed(e), m \in Closed(o)
          PROVE  clock > m <=> (minutes[e].min > m \/ minutes[o].min > m)
      <4>1. minutes[e] # None /\ minutes[e].min = clock /\ m \in Nat
        BY <1>5, <2>5, <2>8 DEF Rolls
      <4>2. minutes[o].min \in Nat /\ minutes[o].min <= clock
        BY <2>4, <3>1
      <4>3. QED
        BY <1>5, <4>1, <4>2
    <3>2. Common(p)' = Common(p)
      BY <2>2, <2>6, <3>1
    <3>3. QED
      BY <2>8, <3>2
  <2>9. QED
    BY <2>7, <2>8
<1>8. QED
  BY <1>6, <1>7

-----------------------------------------------------------------------------
(* A window follows the common minutes                                     *)

\* The bar is of the minute left, with the prices the two exchanges left it at.
LEMMA BarOfMinuteLeft ==
  ASSUME ClosesKept, NEW e \in Exchanges, NEW p \in Pairs,
         e \in {p[1], p[2]}, Rolls(e), minutes[Other(p, e)].min = minutes[e].min
  PROVE  /\ Bar(p) \in PairBar /\ Bar(p).live /\ Bar(p).min = minutes[e].min
         /\ Bar(p).a = CloseOf(p[1], minutes[e].min)
         /\ Bar(p).b = CloseOf(p[2], minutes[e].min)
<1>1. p[1] \in Exchanges /\ p[2] \in Exchanges /\ p[1] # p[2]
  BY DEF Pairs
<1>2. PICK M \in Nat : M = minutes[e].min
  BY MinuteOf DEF Rolls
<1>3. minutes[p[1]].min = M /\ minutes[p[2]].min = M
  BY <1>1, <1>2 DEF Other
<1>4. minutes[p[1]] # None /\ minutes[p[2]] # None
  BY <1>3, NoneIsNoMinute
<1>5. PICK c \in closes, d \in closes :
        /\ c = [ex |-> p[1], min |-> minutes[p[1]].min, px |-> minutes[p[1]].px]
        /\ d = [ex |-> p[2], min |-> minutes[p[2]].min, px |-> minutes[p[2]].px]
  BY <1>1, <1>4, MinuteOf
<1>6. CloseOf(c.ex, c.min) = c.px /\ CloseOf(d.ex, d.min) = d.px
  BY CloseIs
<1>7. /\ CloseOf(p[1], M) = minutes[p[1]].px
      /\ CloseOf(p[2], M) = minutes[p[2]].px
  BY <1>3, <1>5, <1>6
<1>8. minutes[p[1]].px \in Nat /\ minutes[p[2]].px \in Nat
  BY <1>1, <1>4, MinuteOf
<1>9. Bar(p) = [min |-> M, a |-> minutes[p[1]].px, b |-> minutes[p[2]].px, live |-> TRUE]
  BY <1>3 DEF Bar
<1>10. Bar(p) \in PairBar
  BY <1>8, <1>9 DEF PairBar
<1>11. QED
  BY <1>2, <1>7, <1>9, <1>10

\* Prices of the minutes that are over do not change.
LEMMA PricesStay ==
  ASSUME ClosesKept, NEW e, NEW px, Entered(e, px), NEW x, NEW m \in Nat, m < clock
  PROVE  Prices(x)'[m] = Prices(x)[m] /\ Prices(x)[m] = CloseOf(x, m)
<1>1. m # clock
  BY DEF ClosesKept
<1>2. CloseOf(x, m)' = CloseOf(x, m)
  BY <1>1, EnteredPrices
<1>3. Prices(x)'[m] = CloseOf(x, m)' /\ Prices(x)[m] = CloseOf(x, m)
  BY DEF Prices
<1>4. QED
  BY <1>2, <1>3

LEMMA WindowStep ==
  ASSUME ClosesKept, NEW e \in Exchanges, NEW px \in Nat \ {0}, Entered(e, px),
         OnTick(e, px), NEW p \in Pairs, WindowKept(p)
  PROVE  WindowKept(p)'
<1>1. p[1] \in Exchanges /\ p[2] \in Exchanges
  BY DEF Pairs
<1>2. clock \in Nat /\ clock' = clock
  BY DEF ClosesKept, Entered
<1>3. minutes'[e].min = clock /\ \A x \in Exchanges : x # e => minutes'[x] = minutes[x]
  BY DEF Entered, ClosesKept
<1>4. PICK l \in Nat : l = last_bar[p] /\ l <= clock
  BY DEF WindowKept
<1>5. \A m \in Common(p) :
        /\ Prices(p[1])'[m] = Prices(p[1])[m]
        /\ Prices(p[2])'[m] = Prices(p[2])[m]
  BY CommonBefore, PricesStay
<1>6. CASE Pushes(p, e)
  <2>1. e \in {p[1], p[2]} /\ Rolls(e) /\ minutes[Other(p, e)].min = minutes[e].min
    BY <1>6 DEF Pushes
  <2>2. PICK M \in Nat : M = minutes[e].min /\ M < clock
    BY <1>2, <2>1, MinuteOf DEF Rolls
  <2>3. /\ windows'[p] = LastOf(Append(windows[p], Bar(p)), Period)
        /\ last_bar'[p] = M
    BY <1>6, <2>2 DEF OnTick
  <2>4. Common(p)' = Common(p) \cup {M} /\ \A m \in Common(p) : m < M
    BY <2>1, <2>2, EnteredCommon
  <2>5. /\ Bar(p) \in PairBar /\ Bar(p).live /\ Bar(p).min = M
        /\ Bar(p).a = CloseOf(p[1], M) /\ Bar(p).b = CloseOf(p[2], M)
    BY <2>1, <2>2, BarOfMinuteLeft
  <2>6. /\ Prices(p[1])'[M] = CloseOf(p[1], M)
        /\ Prices(p[2])'[M] = CloseOf(p[2], M)
    BY <2>2, PricesStay
  <2>a. PICK C \in SUBSET Nat : C = Common(p) /\ IsFiniteSet(C)
    BY CommonBefore
  <2>b. PICK bar \in PairBar : bar = Bar(p)
    BY <2>5
  <2>c. PICK a, b, c, d : /\ a = Prices(p[1]) /\ b = Prices(p[2])
                          /\ c = Prices(p[1])' /\ d = Prices(p[2])'
    OBVIOUS
  <2>7. /\ C = Common(p) /\ a = Prices(p[1]) /\ b = Prices(p[2])
        /\ c = Prices(p[1])' /\ d = Prices(p[2])' /\ bar = Bar(p)
    BY <2>a, <2>b, <2>c
  <2>8. Fits(LastOf(Append(windows[p], bar), Period), C \cup {bar.min}, c, d)
    <3>1. Fits(windows[p], C, a, b) /\ IsFiniteSet(C)
      BY <2>7, <2>a DEF WindowKept
    <3>2. \A m \in C : c[m] = a[m] /\ d[m] = b[m] /\ m < bar.min
      BY <1>5, <2>4, <2>5, <2>7
    <3>3. bar.live /\ bar.a = c[bar.min] /\ bar.b = d[bar.min]
      BY <2>5, <2>6, <2>7
    <3>4. QED
      BY <3>1, <3>2, <3>3, WindowGrows
  <2>9. Fits(windows[p], Common(p), Prices(p[1]), Prices(p[2]))'
    BY <2>3, <2>4, <2>5, <2>7, <2>8
  <2>10. ASSUME NEW x \in {p[1], p[2]}, minutes'[x] # None
         PROVE  last_bar'[p] <= minutes'[x].min
    <3>1. CASE x = e
      BY <1>2, <1>3, <2>2, <2>3, <3>1
    <3>2. CASE x # e
      <4>1. minutes'[x] = minutes[Other(p, e)]
        BY <1>1, <1>3, <2>1, <3>2 DEF Other
      <4>2. QED
        BY <2>1, <2>2, <2>3, <4>1
    <3>3. QED
      BY <3>1, <3>2
  <2>11. QED
    BY <1>2, <2>2, <2>3, <2>9, <2>10 DEF WindowKept
<1>7. CASE ~Pushes(p, e)
  <2>1. windows'[p] = windows[p] /\ last_bar'[p] = last_bar[p]
    BY <1>7 DEF OnTick
  <2>2. ~(e \in {p[1], p[2]} /\ Rolls(e) /\ minutes[Other(p, e)].min = minutes[e].min)
    <3>1. SUFFICES ASSUME e \in {p[1], p[2]}, Rolls(e) PROVE clock > last_bar[p]
      BY <1>7 DEF Pushes
    <3>2. PICK M \in Nat : M = minutes[e].min /\ M < clock
      BY <1>2, <3>1, MinuteOf DEF Rolls
    <3>3. l <= M
      BY <1>4, <3>1, <3>2 DEF WindowKept, Rolls
    <3>4. QED
      BY <1>2, <1>4, <3>2, <3>3
  <2>3. Common(p)' = Common(p)
    BY <2>2, EnteredCommon
  <2>4. Fits(windows[p], Common(p), Prices(p[1])', Prices(p[2])')
    <3>1. PICK a, b, c, d : /\ a = Prices(p[1]) /\ b = Prices(p[2])
                            /\ c = Prices(p[1])' /\ d = Prices(p[2])'
      OBVIOUS
    <3>2. Fits(windows[p], Common(p), a, b)
      BY <3>1 DEF WindowKept
    <3>3. \A m \in Common(p) : c[m] = a[m] /\ d[m] = b[m]
      BY <1>5, <3>1
    <3>4. Fits(windows[p], Common(p), c, d)
      BY <3>2, <3>3, StillFits
    <3>5. QED
      BY <3>1, <3>4
  <2>5. Fits(windows[p], Common(p), Prices(p[1]), Prices(p[2]))'
    BY <2>1, <2>3, <2>4
  <2>6. ASSUME NEW x \in {p[1], p[2]}, minutes'[x] # None
        PROVE  last_bar'[p] <= minutes'[x].min
    <3>1. CASE x = e
      BY <1>2, <1>3, <1>4, <2>1, <3>1
    <3>2. CASE x # e
      BY <1>1, <1>3, <2>1, <2>6, <3>2 DEF WindowKept
    <3>3. QED
      BY <3>1, <3>2
  <2>7. QED
    BY <1>2, <1>4, <2>1, <2>5, <2>6 DEF WindowKept
<1>8. QED
  BY <1>6, <1>7

-----------------------------------------------------------------------------
(* The files a window begins with                                          *)

\* A finite set of naturals has a member with i members up to it, for each i up
\* to its size.
LEMMA NthExists ==
  ASSUME NEW S \in SUBSET Nat, IsFiniteSet(S), NEW i \in Nat \ {0}, i <= Cardinality(S)
  PROVE  NthOf(S, i) \in S
<1> DEFINE upto(x) == {y \in S : y <= x}
           has(n) == \E x \in S : Cardinality(upto(x)) = n
           G == {n \in Nat : n + 1 <= Cardinality(S) => has(n + 1)}
<1>1. Cardinality(S) \in Nat
  BY FS_CardinalityType
<1>2. \A x \in S : upto(x) \in SUBSET S /\ IsFiniteSet(upto(x)) /\ Cardinality(upto(x)) \in Nat
  BY FS_Subset, FS_CardinalityType
<1>3. 0 \in G
  <2>1. SUFFICES ASSUME 0 + 1 <= Cardinality(S) PROVE has(1)
    OBVIOUS
  <2>2. S # {}
    BY <1>1, <2>1, FS_EmptySet
  <2>3. PICK x \in S : \A y \in S : x <= y
    BY <2>2, LeastOfNaturals
  <2>4. \A y \in S : y <= x <=> y = x
    <3>1. \A y \in S : y \in Nat /\ x \in Nat /\ x <= y
      BY <2>3
    <3>2. QED
      BY <3>1
  <2>5. upto(x) = {x}
    BY <2>4
  <2>6. Cardinality(upto(x)) = 1
    BY <2>5, FS_Singleton
  <2>7. QED
    BY <2>6
<1>4. ASSUME NEW n \in Nat, n \in G PROVE n + 1 \in G
  <2>1. SUFFICES ASSUME (n + 1) + 1 <= Cardinality(S) PROVE has((n + 1) + 1)
    OBVIOUS
  <2>2. has(n + 1)
    BY <1>1, <1>4, <2>1
  <2>3. PICK x \in S : Cardinality(upto(x)) = n + 1
    BY <2>2
  <2>4. PICK R : R = S \ upto(x) /\ R \in SUBSET Nat
    OBVIOUS
  <2>5. R # {}
    <3>1. SUFFICES ASSUME R = {} PROVE FALSE
      OBVIOUS
    <3>2. upto(x) = S
      BY <1>2, <2>4, <3>1
    <3>3. QED
      BY <1>1, <2>1, <2>3, <3>2
  <2>6. PICK z \in R : \A y \in R : z <= y
    BY <2>4, <2>5, LeastOfNaturals
  <2>7. z \in S /\ z \in Nat /\ x \in Nat /\ ~(z <= x)
    BY <2>4, <2>6
  <2>8. ASSUME NEW y \in S PROVE y <= z <=> y <= x \/ y = z
    <3>1. y \in Nat
      OBVIOUS
    <3>2. CASE y <= x
      BY <2>7, <3>1, <3>2
    <3>3. CASE ~(y <= x)
      <4>1. y \in R
        BY <2>4, <3>3
      <4>2. z <= y
        BY <2>6, <4>1
      <4>3. QED
        BY <2>7, <3>1, <3>3, <4>2
    <3>4. QED
      BY <3>2, <3>3
  <2>9. upto(z) = upto(x) \cup {z} /\ z \notin upto(x)
    BY <2>7, <2>8
  <2>10. Cardinality(upto(x) \cup {z}) = Cardinality(upto(x)) + 1
    BY <1>2, <2>9, FS_AddElement
  <2>11. Cardinality(upto(z)) = (n + 1) + 1
    BY <2>3, <2>9, <2>10
  <2>12. QED
    BY <2>7, <2>11
<1>5. PICK k \in Nat : i = k + 1
  <2>1. i - 1 \in Nat /\ i = (i - 1) + 1
    OBVIOUS
  <2>2. QED
    BY <2>1
<1>6. Nat \subseteq G
  <2> HIDE DEF G
  <2>1. QED
    BY <1>3, <1>4, Induct
<1>7. k \in G
  BY <1>6
<1>8. has(i)
  BY <1>5, <1>7
<1>9. \E x \in S : Cardinality({y \in S : y <= x}) = i
  BY <1>8
<1>10. QED
  BY <1>9 DEF NthOf

LEMMA CommonTsIs ==
  ASSUME NEW p \in Pairs
  PROVE  /\ CommonTs(p) \in SUBSET Nat /\ IsFiniteSet(CommonTs(p))
         /\ \A t \in CommonTs(p) : t <= Start
         /\ Cardinality(CommonTs(p)) \in Nat \ {0}
<1>1. p[1] \in Exchanges /\ Cardinality(CommonTs(p)) >= MinBars
  BY DEF Pairs
<1>2. CommonTs(p) \in SUBSET Archive[p[1]]
  BY DEF CommonTs
<1>3. Archive[p[1]] \in SUBSET Nat /\ \A t \in Archive[p[1]] : t <= Start
  BY <1>1, ArchiveAssumption
<1>4. Start \in Nat /\ MinBars \in Nat \ {0}
  BY SizesAssumption
<1>5. CommonTs(p) \in SUBSET (0..Start)
  BY <1>2, <1>3, <1>4
<1>6. IsFiniteSet(CommonTs(p))
  <2>1. IsFiniteSet(0..Start)
    BY <1>4, FS_Interval
  <2>2. QED
    BY <1>5, <2>1, FS_Subset
<1>7. PICK n \in Nat : n = Cardinality(CommonTs(p))
  BY <1>6, FS_CardinalityType
<1>8. QED
  BY <1>1, <1>2, <1>3, <1>4, <1>6, <1>7

\* The last entries of a sequence are entries of it, as many as there is room for.
LEMMA LastEntries ==
  ASSUME NEW T, NEW s \in Seq(T)
  PROVE  LastOf(s, Period) \in Seq(T) /\ Len(LastOf(s, Period)) <= Period
<1>1. PICK n \in Nat, top \in Nat \ {0} : n = Len(s) /\ top = Period
  BY SizesAssumption
<1>2. CASE n <= top
  BY <1>1, <1>2 DEF LastOf
<1>3. CASE n > top
  <2>1. LastOf(s, Period) = SubSeq(s, n - top + 1, n)
    BY <1>1, <1>3 DEF LastOf
  <2>2. PICK u : u = SubSeq(s, n - top + 1, n)
    OBVIOUS
  <2>3. n - top + 1 \in 1..n
    BY <1>3
  <2>4. u \in Seq(T) /\ Len(u) = n - (n - top + 1) + 1
    BY <1>1, <2>2, <2>3
  <2>5. n - (n - top + 1) + 1 = top
    BY <1>1
  <2>6. QED
    BY <1>1, <2>1, <2>2, <2>4, <2>5
<1>4. QED
  BY <1>1, <1>2, <1>3

\* No bar of the files is live.
LEMMA HistoryFits ==
  ASSUME NEW p \in Pairs, NEW a, NEW b
  PROVE  Fits(LoadHistory(p), {}, a, b)
<1> DEFINE Past == {x \in PairBar : ~x.live}
<1>1. PICK n \in Nat : n = Cardinality(CommonTs(p))
  BY CommonTsIs
<1>2. PICK h : h = [i \in 1..n |->
                     [min |-> NthOf(CommonTs(p), i), a |-> 0, b |-> 0, live |-> FALSE]]
  OBVIOUS
<1>3. ASSUME NEW i \in 1..n
      PROVE  [min |-> NthOf(CommonTs(p), i), a |-> 0, b |-> 0, live |-> FALSE] \in Past
  <2>1. i \in Nat \ {0} /\ i <= n
    OBVIOUS
  <2>2. NthOf(CommonTs(p), i) \in Nat
    BY <1>1, <2>1, CommonTsIs, NthExists
  <2>3. QED
    BY <2>2 DEF PairBar
<1> HIDE DEF Past
<1>4. h \in [1..n -> Past]
  BY <1>2, <1>3
<1>5. h \in Seq(Past)
  BY <1>4
<1>6. PICK w : w = LastOf(h, Period)
  OBVIOUS
<1>7. w \in Seq(Past) /\ Len(w) <= Period
  BY <1>5, <1>6, LastEntries
<1>8. w \in Seq(PairBar) /\ \A i \in 1..Len(w) : ~w[i].live
  BY <1>7 DEF Past
<1>9. LoadHistory(p) = w
  BY <1>1, <1>2, <1>6 DEF LoadHistory
<1>10. QED
  BY <1>7, <1>8, <1>9 DEF Fits

LEMMA BarsKeptInit == Init => BarsKept
<1> SUFFICES ASSUME Init PROVE BarsKept
  OBVIOUS
<1>1. /\ clock = Start /\ minutes = [e \in Exchanges |-> None] /\ closes = {}
      /\ windows = [p \in Pairs |-> LoadHistory(p)]
      /\ last_bar = [p \in Pairs |-> NthOf(CommonTs(p), Cardinality(CommonTs(p)))]
  BY DEF Init
<1>2. clock \in Nat
  BY <1>1, SizesAssumption
<1>3. ClosesKept
  BY <1>1, <1>2 DEF ClosesKept
<1>4. ASSUME NEW p \in Pairs PROVE WindowKept(p)
  <2>1. p[1] \in Exchanges /\ p[2] \in Exchanges
    BY DEF Pairs
  <2>2. Common(p) = {}
    BY <1>1 DEF Common, Closed
  <2>3. PICK a, b : a = Prices(p[1]) /\ b = Prices(p[2])
    OBVIOUS
  <2>4. Fits(LoadHistory(p), {}, a, b)
    BY HistoryFits
  <2>5. PICK n \in Nat \ {0} : n = Cardinality(CommonTs(p)) /\ n <= n
    BY CommonTsIs
  <2>6. NthOf(CommonTs(p), n) \in CommonTs(p)
    BY <2>5, CommonTsIs, NthExists
  <2>7. NthOf(CommonTs(p), n) \in Nat /\ NthOf(CommonTs(p), n) <= Start
    BY <2>6, CommonTsIs
  <2>8. last_bar[p] \in Nat /\ last_bar[p] <= clock
    BY <1>1, <2>5, <2>7
  <2>9. QED
    BY <1>1, <2>1, <2>2, <2>3, <2>4, <2>8 DEF WindowKept
<1>5. QED
  BY <1>3, <1>4 DEF BarsKept

LEMMA BarsKeptStep == BarsKept /\ [Next]_vars => BarsKept'
<1> SUFFICES ASSUME BarsKept, [Next]_vars PROVE BarsKept'
  OBVIOUS
<1>1. ASSUME UNCHANGED <<minutes, windows, last_bar, closes>>, clock' \in Nat, clock <= clock'
      PROVE  BarsKept'
  <2>1. clock \in Nat
    BY DEF BarsKept, ClosesKept
  <2>2. ClosesKept'
    <3>1. ASSUME NEW e \in Exchanges, minutes[e] # None PROVE minutes[e].min <= clock'
      <4>1. minutes[e].min \in Nat /\ minutes[e].min <= clock
        BY <3>1, MinuteOf DEF BarsKept
      <4>2. QED
        BY <1>1, <2>1, <4>1
    <3>2. QED
      BY <1>1, <3>1 DEF BarsKept, ClosesKept
  <2>3. ASSUME NEW p \in Pairs PROVE WindowKept(p)'
    <3>1. Common(p)' = Common(p) /\ Prices(p[1])' = Prices(p[1]) /\ Prices(p[2])' = Prices(p[2])
      BY <1>1 DEF Common, Closed, Prices, CloseOf
    <3>2. WindowKept(p)
      BY DEF BarsKept
    <3>3. last_bar[p] \in Nat /\ last_bar[p] <= clock'
      BY <1>1, <2>1, <3>2 DEF WindowKept
    <3>4. Fits(windows[p], Common(p), Prices(p[1]), Prices(p[2]))'
      BY <1>1, <3>1, <3>2 DEF WindowKept
    <3>5. QED
      BY <1>1, <3>2, <3>3, <3>4 DEF WindowKept
  <2>4. QED
    BY <2>2, <2>3 DEF BarsKept
<1>2. clock \in Nat /\ clock <= clock
  BY DEF BarsKept, ClosesKept
<1>3. CASE \E e \in Exchanges : \E i \in Inputs : OnPriceUpdate(e, i)
  <2>1. PICK e \in Exchanges, i \in Inputs : OnPriceUpdate(e, i)
    BY <1>3
  <2>2. CASE i.kind = "one-sided"
    BY <1>1, <1>2, <2>1, <2>2 DEF OnPriceUpdate, tracker
  <2>3. CASE i.kind # "one-sided"
    <3>1. OnTick(e, i.px) /\ Entered(e, i.px)
      BY <2>1, <2>3 DEF OnPriceUpdate, OnTick, Entered
    <3>2. i.px \in Nat \ {0}
      BY InputsAssumption
    <3>3. ClosesKept'
      BY <3>1, <3>2, EnteredKept DEF BarsKept
    <3>4. \A p \in Pairs : WindowKept(p)'
      BY <3>1, <3>2, WindowStep DEF BarsKept
    <3>5. QED
      BY <3>3, <3>4 DEF BarsKept
  <2>4. QED
    BY <2>2, <2>3
<1>4. CASE \E e \in Exchanges : \E trend \in BOOLEAN : OnScanSymbol(e, trend)
  BY <1>1, <1>2, <1>4 DEF OnScanSymbol, tracker
<1>5. CASE Tick
  BY <1>1, <1>2, <1>5 DEF Tick, tracker
<1>6. CASE UNCHANGED vars
  BY <1>1, <1>2, <1>6 DEF vars, tracker
<1>7. QED
  BY <1>3, <1>4, <1>5, <1>6 DEF Next

LEMMA KeptBarsAreCommon == BarsKept => BarsAreCommonMinutes
<1> SUFFICES ASSUME BarsKept, NEW p \in Pairs
             PROVE  /\ {windows[p][i].min : i \in LiveBars(p)} =
                         {m \in Common(p) : Cardinality({n \in Common(p) : n >= m}) <= Period}
                    /\ \A i \in LiveBars(p) :
                         /\ windows[p][i].a = CloseOf(p[1], windows[p][i].min)
                         /\ windows[p][i].b = CloseOf(p[2], windows[p][i].min)
                         /\ \A j \in LiveBars(p) :
                              i < j => windows[p][i].min < windows[p][j].min
  BY DEF BarsAreCommonMinutes
<1>1. PICK w, C, a, b : /\ w = windows[p] /\ C = Common(p)
                        /\ a = Prices(p[1]) /\ b = Prices(p[2])
  OBVIOUS
<1>2. Fits(w, C, a, b) /\ C \in SUBSET Nat /\ IsFiniteSet(C)
  BY <1>1, CommonBefore DEF BarsKept, WindowKept
<1>3. PICK n \in Nat, top \in Nat \ {0} : n = Len(w) /\ top = Period /\ n <= top
  BY <1>2, SizesAssumption DEF Fits
<1>4. LiveBars(p) = {i \in 1..n : w[i].live}
  BY <1>1, <1>2, <1>3 DEF LiveBars, Fits
<1>5. \A m \in C : Cardinality(From(C, m)) \in Nat
  <2>1. ASSUME NEW m \in C PROVE IsFiniteSet(From(C, m))
    <3>1. From(C, m) \in SUBSET C
      BY DEF From
    <3>2. QED
      BY <1>2, <3>1, FS_Subset
  <2>2. QED
    BY <2>1, FS_CardinalityType
<1>6. ASSUME NEW i \in LiveBars(p)
      PROVE  /\ w[i].min \in C /\ Cardinality(From(C, w[i].min)) <= Period
             /\ w[i].a = CloseOf(p[1], w[i].min) /\ w[i].b = CloseOf(p[2], w[i].min)
  <2>1. /\ i \in 1..n /\ w[i].min \in C
        /\ Cardinality(From(C, w[i].min)) = n - i + 1
        /\ w[i].a = a[w[i].min] /\ w[i].b = b[w[i].min]
    BY <1>2, <1>3, <1>4 DEF Fits
  <2>2. n - i + 1 <= top
    BY <1>3, <2>1
  <2>3. w[i].min \in Nat
    BY <1>2, <2>1
  <2>4. a[w[i].min] = CloseOf(p[1], w[i].min) /\ b[w[i].min] = CloseOf(p[2], w[i].min)
    BY <1>1, <2>3 DEF Prices
  <2>5. QED
    BY <1>3, <2>1, <2>2, <2>4
<1>7. ASSUME NEW m \in C, Cardinality(From(C, m)) <= Period
      PROVE  \E i \in LiveBars(p) : w[i].min = m
  <2>1. ~(Cardinality(From(C, m)) > Period)
    BY <1>3, <1>5, <1>7
  <2>2. QED
    BY <1>2, <1>3, <1>4, <2>1 DEF Fits
<1>8. {w[i].min : i \in LiveBars(p)} = {m \in C : Cardinality(From(C, m)) <= Period}
  BY <1>6, <1>7
<1>9. \A m : From(C, m) = {k \in C : k >= m}
  BY DEF From
<1>10. {w[i].min : i \in LiveBars(p)} =
         {m \in C : Cardinality({k \in C : k >= m}) <= Period}
  BY <1>8, <1>9
<1>11. \A i, j \in LiveBars(p) : i < j => w[i].min < w[j].min
  BY <1>2, <1>3, <1>4 DEF Fits
<1>12. QED
  BY <1>1, <1>6, <1>10, <1>11

\* Whichever exchange rolls into a minute first, a pair's window holds one bar
\* for each of its last common minutes, in order, with the prices the exchanges
\* left them at (zscore_tracker.py, 185-204), for all exchanges, files, window
\* lengths and orders of the prices.
THEOREM WindowsHoldCommonMinutes == Spec => []BarsAreCommonMinutes
<1>1. Spec => []BarsKept
  BY BarsKeptInit, BarsKeptStep, PTL DEF Spec
<1>2. QED
  BY <1>1, KeptBarsAreCommon, PTL
=============================================================================
