-------------------------- MODULE AlgorithmsProofs --------------------------
(***************************************************************************)
(* What the pure functions of the program promise, for every input of the  *)
(* kind the assumptions of Algorithms name.                                *)
(***************************************************************************)
EXTENDS Algorithms, FiniteSetTheorems, WellFoundedInduction, TLAPS

\* The value of the function for an input.
Right(call, result) ==
  /\ call.of = "size" => result =
       [dynamic |-> DynamicSize(call.asks, call.bids),
        directional |-> [buy |-> DirSize(call.asks), sell |-> DirSize(call.bids)],
        slice |-> OptimalEntry(call.asks, call.bids, call.target)]
  /\ call.of = "pair" => result =
       [best |-> BestPair(call.quotes), spike |-> SpikeKey(call.quotes)]
  /\ call.of = "funding" => result =
       FundingPayments(call.held.next, call.held.interval, call.held.open, call.held.close)
  /\ call.of = "trades" => result =
       [service |-> ServiceTrades(call.bars, EntryZ), research |-> ResearchTrades(call.bars, EntryZ)]
  /\ call.of = "folds" => result =
       [service |-> ServiceFolds(call.total), research |-> ResearchFolds(call.total)]
  /\ call.of = "hold" => result = Hold(call.bars, call.dir, NextOpen(call.bars, 1))
  /\ call.of = "run" => result =
       IF call.model \in DOMAIN Models
       THEN Simulate(Models[call.model], call.bars, 1)
       ELSE Simulate(Models48[call.model], call.bars, PullbackBars)
  /\ call.of = "metrics" => result =
       [pair |-> MaxDrawdown(call.pnls), signal |-> CurveDrawdown(call.pnls)]
  /\ call.of = "verdict" => result =
       [service |-> ServiceVerdict(call.folds), research |-> ResearchVerdict(call.folds)]
  /\ call.of = "dataset" => result =
       [whole |-> Dataset(call.files), then |-> Dataset(UpTo(call.files, call.time))]

\* A call returns that value.
Calls == outcome = Running \/ (outcome.returned = TRUE /\ Right(input, outcome.result))

\* The inputs.
Inputs ==
  \/ input \in [of : {"size"}, asks : AskSides, bids : BidSides, target : Targets]
  \/ input \in [of : {"pair"}, quotes : QuoteLists]
  \/ input \in [of : {"funding"}, held : Funding]
  \/ input \in [of : {"trades"}, bars : PairBars]
  \/ input \in [of : {"folds"}, total : Lengths]
  \/ input \in [of : {"hold"}, bars : HeldBars, dir : {1, -1}]
  \/ input \in [of : {"run"}, bars : CoinBars, model : DOMAIN Models \cup DOMAIN Models48]
  \/ input \in [of : {"metrics"}, pnls : PnlLists]
  \/ input \in [of : {"verdict"}, folds : FoldLists]
  \/ input \in [of : {"dataset"}, files : CoinFiles, time : Times]

Called == Inputs /\ Calls

-----------------------------------------------------------------------------
LEMMA CalledInit == Init => Called
  BY DEF Init, Called, Inputs, Calls

LEMMA CalledStep == Called /\ [Next]_vars => Called'
<1> SUFFICES ASSUME Called, [Next]_vars PROVE Called'
  OBVIOUS
<1>1. CASE UNCHANGED vars
  BY <1>1 DEF vars, Called, Inputs, Calls
<1>2. ASSUME NEW of, NEW result, Returns(of, result), input.of = of => Right(input, result)
      PROVE  Called'
  <2>1. /\ Inputs' /\ input' = input /\ input.of = of
        /\ outcome'.returned = TRUE /\ outcome'.result = result
    BY <1>2 DEF Called, Inputs, Returns
  <2>2. Right(input', outcome'.result)
    BY <1>2, <2>1
  <2>3. QED
    BY <2>1, <2>2 DEF Called, Calls
<1>3. CASE ChooseSize
  <2>1. PICK r : /\ r = [dynamic |-> DynamicSize(input.asks, input.bids),
                         directional |-> [buy |-> DirSize(input.asks), sell |-> DirSize(input.bids)],
                         slice |-> OptimalEntry(input.asks, input.bids, input.target)]
                 /\ Returns("size", r)
    BY <1>3 DEF ChooseSize
  <2>2. QED
    BY <1>2, <2>1 DEF Right
<1>4. CASE ChoosePair
  <2>1. PICK r : /\ r = [best |-> BestPair(input.quotes), spike |-> SpikeKey(input.quotes)]
                 /\ Returns("pair", r)
    BY <1>4 DEF ChoosePair
  <2>2. QED
    BY <1>2, <2>1 DEF Right
<1>5. CASE CreditFunding
  <2>1. PICK r : /\ r = FundingPayments(input.held.next, input.held.interval, input.held.open,
                                      input.held.close)
                 /\ Returns("funding", r)
    BY <1>5 DEF CreditFunding
  <2>2. QED
    BY <1>2, <2>1 DEF Right
<1>6. CASE SimulatePair
  <2>1. PICK r : /\ r = [service |-> ServiceTrades(input.bars, EntryZ),
                         research |-> ResearchTrades(input.bars, EntryZ)]
                 /\ Returns("trades", r)
    BY <1>6 DEF SimulatePair
  <2>2. QED
    BY <1>2, <2>1 DEF Right
<1>7. CASE CutFolds
  <2>1. PICK r : /\ r = [service |-> ServiceFolds(input.total), research |-> ResearchFolds(input.total)]
                 /\ Returns("folds", r)
    BY <1>7 DEF CutFolds
  <2>2. QED
    BY <1>2, <2>1 DEF Right
<1>8. CASE HoldPosition
  <2>1. PICK r : /\ r = Hold(input.bars, input.dir, NextOpen(input.bars, 1))
                 /\ Returns("hold", r)
    BY <1>8 DEF HoldPosition
  <2>2. QED
    BY <1>2, <2>1 DEF Right
<1>9. CASE RunBacktest
  <2>1. PICK r : /\ r = (IF input.model \in DOMAIN Models
                         THEN Simulate(Models[input.model], input.bars, 1)
                         ELSE Simulate(Models48[input.model], input.bars, PullbackBars))
                 /\ Returns("run", r)
    BY <1>9 DEF RunBacktest
  <2>2. QED
    BY <1>2, <2>1 DEF Right
<1>10. CASE Measure
  <2>1. PICK r : /\ r = [pair |-> MaxDrawdown(input.pnls), signal |-> CurveDrawdown(input.pnls)]
                 /\ Returns("metrics", r)
    BY <1>10 DEF Measure
  <2>2. QED
    BY <1>2, <2>1 DEF Right
<1>11. CASE JudgePair
  <2>1. PICK r : /\ r = [service |-> ServiceVerdict(input.folds), research |-> ResearchVerdict(input.folds)]
                 /\ Returns("verdict", r)
    BY <1>11 DEF JudgePair
  <2>2. QED
    BY <1>2, <2>1 DEF Right
<1>12. CASE LoadDataset
  <2>1. PICK r : /\ r = [whole |-> Dataset(input.files), then |-> Dataset(UpTo(input.files, input.time))]
                 /\ Returns("dataset", r)
    BY <1>12 DEF LoadDataset
  <2>2. QED
    BY <1>2, <2>1 DEF Right
<1>13. QED
  BY <1>1, <1>3, <1>4, <1>5, <1>6, <1>7, <1>8, <1>9, <1>10, <1>11, <1>12 DEF Next

LEMMA AlwaysCalled == Spec => []Called
  BY CalledInit, CalledStep, PTL DEF Spec

\* The arguments of a function.
Argued(call) ==
  /\ call.of = "size" => call.asks \in AskSides /\ call.bids \in BidSides /\ call.target \in Targets
  /\ call.of = "pair" => call.quotes \in QuoteLists
  /\ call.of = "funding" => call.held \in Funding
  /\ call.of = "trades" => call.bars \in PairBars
  /\ call.of = "folds" => call.total \in Lengths
  /\ call.of = "hold" => call.bars \in HeldBars /\ call.dir \in {1, -1}
  /\ call.of = "run" => call.bars \in CoinBars /\ call.model \in DOMAIN Models \cup DOMAIN Models48
  /\ call.of = "metrics" => call.pnls \in PnlLists
  /\ call.of = "verdict" => call.folds \in FoldLists
  /\ call.of = "dataset" => call.files \in CoinFiles /\ call.time \in Times

\* A call that has returned: its arguments and its value.
LEMMA ReturnedRight ==
  ASSUME Called, NEW of, Returned(of)
  PROVE  input.of = of /\ Argued(input) /\ Right(input, outcome.result)
<1>1. input.of = of /\ Right(input, outcome.result)
  BY DEF Called, Calls, Returned, Running
<1>2. CASE input \in [of : {"size"}, asks : AskSides, bids : BidSides, target : Targets]
  BY <1>2, <1>1 DEF Argued
<1>3. CASE input \in [of : {"pair"}, quotes : QuoteLists]
  BY <1>3, <1>1 DEF Argued
<1>4. CASE input \in [of : {"funding"}, held : Funding]
  BY <1>4, <1>1 DEF Argued
<1>5. CASE input \in [of : {"trades"}, bars : PairBars]
  BY <1>5, <1>1 DEF Argued
<1>6. CASE input \in [of : {"folds"}, total : Lengths]
  BY <1>6, <1>1 DEF Argued
<1>7. CASE input \in [of : {"hold"}, bars : HeldBars, dir : {1, -1}]
  BY <1>7, <1>1 DEF Argued
<1>8. CASE input \in [of : {"run"}, bars : CoinBars, model : DOMAIN Models \cup DOMAIN Models48]
  BY <1>8, <1>1 DEF Argued
<1>9. CASE input \in [of : {"metrics"}, pnls : PnlLists]
  BY <1>9, <1>1 DEF Argued
<1>10. CASE input \in [of : {"verdict"}, folds : FoldLists]
  BY <1>10, <1>1 DEF Argued
<1>11. CASE input \in [of : {"dataset"}, files : CoinFiles, time : Times]
  BY <1>11, <1>1 DEF Argued
<1>12. QED
  BY <1>2, <1>3, <1>4, <1>5, <1>6, <1>7, <1>8, <1>9, <1>10, <1>11 DEF Called, Inputs

-----------------------------------------------------------------------------
(* Funding                                                                   *)

\* What an interval of d holds from 0 on, a multiple of i.
LEMMA Multiples ==
  ASSUME NEW i \in Nat \ {0}, NEW d \in Nat, NEW n \in Nat, n = d \div i
  PROVE  /\ \A k \in 0..n : k * i \in 0..d /\ (k * i) % i = 0
         /\ \A t \in 0..d : t % i = 0 => t \div i \in 0..n /\ t = (t \div i) * i
<1>1. d = n * i + (d % i) /\ d % i \in 0..(i - 1)
  OBVIOUS
<1>2. ASSUME NEW k \in 0..n
      PROVE  k * i \in 0..d /\ (k * i) % i = 0
  <2>1. k \in Nat /\ k <= n
    BY <1>2
  <2>2. k * i \in Nat /\ n * i \in Nat /\ k * i <= n * i
    BY ONLY <2>1, n \in Nat, i \in Nat \ {0}
  <2>3. (k * i) % i = 0
    BY ONLY <2>1, i \in Nat \ {0}
  <2>4. PICK x \in Nat : x = k * i
    BY <2>2
  <2>5. PICK y \in Nat : y = n * i
    BY <2>2
  <2>6. x <= d
    BY <1>1, <2>2, <2>4, <2>5
  <2>7. QED
    BY <2>3, <2>4, <2>6
<1>3. ASSUME NEW t \in 0..d, t % i = 0
      PROVE  t \div i \in 0..n /\ t = (t \div i) * i
  <2>1. PICK q : q = t \div i
    OBVIOUS
  <2>2. t \in Nat /\ t <= d
    BY <1>3
  <2>3. q \in Nat /\ t = q * i
    BY ONLY <2>1, <2>2, t % i = 0, i \in Nat \ {0}
  <2>4. q <= n
    <3>1. SUFFICES ASSUME q >= n + 1 PROVE FALSE
      BY <2>3
    <3>2. q * i >= (n + 1) * i
      BY ONLY <2>3, <3>1, n \in Nat, i \in Nat \ {0}
    <3>3. (n + 1) * i = n * i + i
      BY ONLY n \in Nat, i \in Nat \ {0}
    <3>4. PICK y \in Int : y = n * i
      BY ONLY n \in Nat, i \in Nat \ {0}
    <3>5. QED
      BY <1>1, <2>2, <2>3, <3>2, <3>3, <3>4
  <2>5. QED
    BY <2>1, <2>3, <2>4
<1>4. QED
  BY <1>2, <1>3

\* The instants of the calendar up to a close after the first.
LEMMA CalendarSize ==
  ASSUME NEW next \in Nat, NEW interval \in Nat \ {0}, NEW close \in Nat, next <= close,
         NEW due, due = {t \in Nat : t <= close /\ t >= next /\ (t - next) % interval = 0}
  PROVE  /\ IsFiniteSet(due)
         /\ Cardinality(due) = ((close - next) \div interval) + 1
<1>1. PICK d \in Nat : d = close - next
  OBVIOUS
<1>2. PICK n \in Nat : n = d \div interval
  OBVIOUS
<1>3. /\ \A k \in 0..n : k * interval \in 0..d /\ (k * interval) % interval = 0
      /\ \A t \in 0..d : t % interval = 0 => t \div interval \in 0..n
                                             /\ t = (t \div interval) * interval
  BY <1>2, Multiples
<1>4. PICK f : f = [k \in 0..n |-> next + k * interval]
  OBVIOUS
<1>5. f \in [0..n -> due]
  <2>1. ASSUME NEW k \in 0..n PROVE next + k * interval \in due
    <3>1. PICK x \in 0..d : x = k * interval /\ x % interval = 0
      BY <1>3
    <3>2. next + x \in Nat /\ next + x <= close /\ next + x >= next /\ (next + x) - next = x
      BY <1>1
    <3>3. QED
      BY <3>1, <3>2
  <2>2. QED
    BY <1>4, <2>1
<1>6. f \in Surjection(0..n, due)
  <2>1. ASSUME NEW t \in due PROVE \E k \in 0..n : f[k] = t
    <3>1. PICK x \in 0..d : x = t - next /\ x % interval = 0
      <4>1. t - next \in 0..d /\ (t - next) % interval = 0
        BY <1>1
      <4>2. QED
        BY <4>1
    <3>2. x \div interval \in 0..n /\ x = (x \div interval) * interval
      BY <1>3, <3>1
    <3>3. f[x \div interval] = next + x
      BY <1>4, <3>2
    <3>4. next + x = t
      BY <3>1
    <3>5. QED
      BY <3>2, <3>3, <3>4
  <2>2. QED
    BY <1>5, <2>1 DEF Surjection
<1>7. f \in Injection(0..n, due)
  <2>1. ASSUME NEW j \in 0..n, NEW k \in 0..n, f[j] = f[k] PROVE j = k
    <3>1. next + j * interval = next + k * interval
      BY <1>4, <2>1
    <3>2. j \in Nat /\ k \in Nat
      OBVIOUS
    <3>3. j * interval = k * interval
      <4>1. j * interval \in Int /\ k * interval \in Int
        BY ONLY <3>2, interval \in Nat \ {0}
      <4>2. QED
        BY <3>1, <4>1
    <3>4. QED
      BY ONLY <3>2, <3>3, interval \in Nat \ {0}
  <2>2. QED
    BY <1>5, <2>1 DEF Injection, IsInjective
<1>8. IsFiniteSet(0..n) /\ Cardinality(0..n) = n + 1
  BY FS_Interval
<1>9. IsFiniteSet(due) /\ Cardinality(due) = Cardinality(0..n)
  BY <1>6, <1>7, <1>8, FS_Surjection
<1>10. QED
  BY <1>1, <1>2, <1>8, <1>9

\* The same of a calendar that may begin after the close.
LEMMA CalendarSizes ==
  ASSUME NEW first \in Nat, NEW interval \in Nat \ {0}, NEW close \in Nat,
         NEW due, due = {t \in first..close : (t - first) % interval = 0}
  PROVE  /\ IsFiniteSet(due)
         /\ Cardinality(due) = IF first <= close THEN ((close - first) \div interval) + 1 ELSE 0
<1>1. CASE first <= close
  <2> DEFINE Falls(t) == (t - first) % interval = 0
  <2>1. due = {t \in first..close : Falls(t)}
    OBVIOUS
  <2>2. \A t : t \in first..close <=> t \in Nat /\ t <= close /\ t >= first
    OBVIOUS
  <2> HIDE DEF Falls
  <2>3. due = {t \in Nat : t <= close /\ t >= first /\ Falls(t)}
    BY <2>1, <2>2
  <2>4. due = {t \in Nat : t <= close /\ t >= first /\ (t - first) % interval = 0}
    BY <2>3 DEF Falls
  <2>5. QED
    BY <1>1, <2>4, CalendarSize
<1>2. CASE ~(first <= close)
  <2>1. due = {}
    BY <1>2
  <2>2. QED
    BY <1>2, <2>1, FS_EmptySet
<1>3. QED
  BY <1>1, <1>2

\* A number of payments in proportion to the time is not more than one off.
LEMMA ProportionIsNear ==
  ASSUME NEW open \in Nat, NEW close \in Nat, open <= close, NEW interval \in Nat \ {0},
         NEW first \in open..(open + interval - 1), first <= close
  PROVE  Distance(close - open, interval * (((close - first) \div interval) + 1)) <= interval
<1>1. PICK n \in Nat : n = close - first
  OBVIOUS
<1>2. PICK q \in Nat : q = n \div interval
  OBVIOUS
<1>3. PICK r \in 0..(interval - 1) : r = n % interval
  OBVIOUS
<1>4. n = interval * q + r
  BY <1>2, <1>3
<1>5. PICK x \in Nat : x = interval * q
  OBVIOUS
<1>6. interval * (q + 1) = x + interval
  BY ONLY <1>5, interval \in Nat \ {0}, q \in Nat
<1>7. close - open = (x + r) + (first - open) /\ first - open \in 0..(interval - 1)
  BY <1>1, <1>4, <1>5
<1>8. Distance(close - open, x + interval) <= interval
  BY <1>5, <1>7 DEF Distance
<1>9. QED
  BY <1>1, <1>2, <1>6, <1>8

\* The payments credited at the close of a position (emulator.py, 259-272), for
\* every calendar and every holding: those of the holding, and those that were
\* past at the entry.
THEOREM CreditedPayments == Spec => []FundingPaidWhileHeld
<1>1. ASSUME Called PROVE FundingPaidWhileHeld
  <2> SUFFICES ASSUME Returned("funding") PROVE FundingPaidWhileHeld
    BY DEF FundingPaidWhileHeld
  <2>1. input.held \in Funding
    BY <1>1, ReturnedRight DEF Argued
  <2>2. outcome.result =
          FundingPayments(input.held.next, input.held.interval, input.held.open, input.held.close)
    BY <1>1, ReturnedRight DEF Right
  <2>3. PICK open \in Nat, close \in Nat, next \in Nat, interval \in Nat \ {0} :
          /\ open = input.held.open /\ close = input.held.close
          /\ next = input.held.next /\ interval = input.held.interval
          /\ open <= close
    BY <2>1, FundingAssumption
  <2> DEFINE From(first) == {t \in first..close : (t - first) % interval = 0}
             held == {t \in From(next) : t >= open}
             early == {t \in From(next) : t < open}
  <2>4. PICK result : result = FundingPayments(next, interval, open, close) /\ result = outcome.result
    BY <2>2, <2>3
  <2>5. CASE next > 0
    <3>1. PICK due : due = From(next)
      OBVIOUS
    <3>2. /\ IsFiniteSet(due)
          /\ Cardinality(due) = IF next <= close THEN ((close - next) \div interval) + 1 ELSE 0
      BY <3>1, CalendarSizes
    <3>3. Cardinality(held) + Cardinality(early) = Cardinality(due)
      <4>1. due \ early = held /\ due \cap early = early
        <5>1. \A t \in due : t \in Nat
          BY <3>1
        <5>2. QED
          BY <3>1, <5>1
      <4>2. Cardinality(due \ early) = Cardinality(due) - Cardinality(due \cap early)
        BY <3>2, FS_Difference
      <4>3. PICK e \in Nat : e = Cardinality(early)
        <5>1. early \in SUBSET due
          BY <3>1
        <5>2. IsFiniteSet(early)
          BY <3>2, <5>1, FS_Subset
        <5>3. Cardinality(early) \in Nat
          BY <5>2, FS_CardinalityType
        <5>4. QED
          BY <5>3
      <4>4. Cardinality(due) \in Nat
        BY <3>2, FS_CardinalityType
      <4>5. PICK h : h = Cardinality(held)
        OBVIOUS
      <4>6. h = Cardinality(due) - e
        BY <4>1, <4>2, <4>3, <4>5
      <4>7. h + e = Cardinality(due)
        BY <4>4, <4>6
      <4>8. QED
        BY <4>3, <4>5, <4>7
    <3>4. result = interval * (Cardinality(due) - Cardinality({next} \cap {close}))
      <4>1. CASE close = next
        <5>1. {next} \cap {close} = {next} /\ Cardinality({next}) = 1
          BY <4>1, FS_Singleton
        <5>2. (close - next) \div interval = 0
          BY <4>1
        <5>3. Cardinality(due) = 1
          BY <3>2, <4>1, <5>2
        <5>4. result = 0
          BY <2>4, <2>5, <4>1 DEF FundingPayments
        <5>5. QED
          BY <5>1, <5>3, <5>4
      <4>2. CASE close # next
        <5>1. {next} \cap {close} = {} /\ Cardinality({}) = 0
          BY <4>2, FS_EmptySet
        <5>2. CASE close < next
          <6>1. result = 0 /\ Cardinality(due) = 0
            BY <2>4, <2>5, <3>2, <5>2 DEF FundingPayments
          <6>2. QED
            BY <5>1, <6>1
        <5>3. CASE next < close
          <6>1. PICK q \in Nat : q = (close - next) \div interval
            BY <5>3
          <6>2. result = interval * (q + 1)
            BY <2>4, <2>5, <5>3, <6>1 DEF FundingPayments
          <6>3. Cardinality(due) = q + 1
            BY <3>2, <5>3, <6>1
          <6>4. QED
            BY <5>1, <6>2, <6>3
        <5>4. QED
          BY <4>2, <5>2, <5>3
      <4>3. QED
        BY <4>1, <4>2
    <3>5. outcome.result =
            interval * ((Cardinality(held) + Cardinality(early)) - Cardinality({next} \cap {close}))
      <4>1. PICK sum : sum = Cardinality(held) + Cardinality(early)
        OBVIOUS
      <4> HIDE DEF held, early
      <4>2. outcome.result = interval * (sum - Cardinality({next} \cap {close}))
        BY <2>4, <3>3, <3>4, <4>1, Zenon
      <4>3. QED
        BY <4>1, <4>2, Zenon
    <3>6. QED
      BY <2>3, <2>5, <3>5, Zenon DEF FundingPaidWhileHeld
  <2>6. CASE ~(next > 0)
    <3>1. result = close - open
      BY <2>3, <2>4, <2>6 DEF FundingPayments
    <3>2. ASSUME NEW first \in open..(open + interval - 1)
          PROVE  Distance(result, interval * Cardinality(From(first))) <= interval
      <4>1. first \in Nat
        OBVIOUS
      <4>2. PICK due : due = From(first)
        OBVIOUS
      <4>3. Cardinality(due) = IF first <= close THEN ((close - first) \div interval) + 1 ELSE 0
        BY <4>1, <4>2, CalendarSizes
      <4>4. CASE first <= close
        <5>1. Distance(close - open, interval * (((close - first) \div interval) + 1)) <= interval
          BY <2>3, <4>4, ProportionIsNear
        <5>2. QED
          BY <3>1, <4>2, <4>3, <4>4, <5>1
      <4>5. CASE ~(first <= close)
        <5>1. interval * Cardinality(due) = 0
          BY <4>3, <4>5
        <5>2. close - open \in Nat /\ close - open <= interval
          BY <2>3, <4>5
        <5>3. QED
          BY <3>1, <4>2, <5>1, <5>2 DEF Distance
      <4>6. QED
        BY <4>4, <4>5
    <3>3. QED
      BY <2>3, <2>4, <2>6, <3>2 DEF FundingPaidWhileHeld
  <2>7. QED
    BY <2>5, <2>6
<1>2. QED
  BY <1>1, AlwaysCalled, PTL

-----------------------------------------------------------------------------
(* Folds                                                                     *)

\* What a division leaves.
LEMMA Quotient ==
  ASSUME NEW a \in Nat, NEW b \in Nat \ {0}
  PROVE  /\ a \div b \in Nat
         /\ b * (a \div b) <= a
         /\ a - b * (a \div b) < b
  OBVIOUS

\* The folds of the service lie in the data, differ when there is room, and
\* the last one ends less than one bar a fold before its end.
LEMMA ServiceFoldsFit ==
  ASSUME NEW total \in Nat, NEW s, s = ServiceFolds(total), s # <<>>
  PROVE  /\ total >= IsLen + OosLen
         /\ DOMAIN s = 1..NumFolds
         /\ Len(s) = NumFolds
         /\ \A k \in 1..NumFolds : s[k].from >= 0 /\ s[k].upto <= total
         /\ total >= IsLen + OosLen + NumFolds - 1
              => \A j, k \in 1..NumFolds : j # k => s[j] # s[k]
         /\ NumFolds > 1 => s[NumFolds].upto + NumFolds > total
<1>1. IsLen \in Nat \ {0} /\ OosLen \in Nat \ {0} /\ NumFolds \in Nat \ {0}
  BY PairResearchAssumption
<1>2. PICK step : step = IF NumFolds > 1 THEN (total - IsLen - OosLen) \div (NumFolds - 1) ELSE 0
  OBVIOUS
<1>3. total >= IsLen + OosLen /\ s = [k \in 1..NumFolds |-> Fold((k - 1) * step)]
  BY <1>1, <1>2 DEF ServiceFolds
<1>4. PICK room \in Nat : room = total - IsLen - OosLen
  BY <1>1, <1>3
<1>5. step \in Nat /\ (NumFolds - 1) * step <= room
      /\ (NumFolds > 1 => room - (NumFolds - 1) * step < NumFolds - 1)
  <2>1. CASE NumFolds > 1
    <3>1. PICK m \in Nat \ {0} : m = NumFolds - 1
      BY <1>1, <2>1
    <3>2. step = room \div m
      BY <1>2, <1>4, <2>1, <3>1
    <3>3. step \in Nat /\ m * step <= room /\ room - m * step < m
      BY <3>2, Quotient
    <3>4. QED
      BY <3>1, <3>3
  <2>2. CASE ~(NumFolds > 1)
    BY <1>1, <1>2, <1>4, <2>2
  <2>3. QED
    BY <2>1, <2>2
<1>6. ASSUME NEW k \in 1..NumFolds
      PROVE  /\ s[k] = Fold((k - 1) * step)
             /\ (k - 1) * step \in Nat /\ (k - 1) * step <= (NumFolds - 1) * step
  <2>1. k - 1 \in Nat /\ k - 1 <= NumFolds - 1 /\ NumFolds - 1 \in Nat
    BY <1>1
  <2>2. (k - 1) * step \in Nat /\ (k - 1) * step <= (NumFolds - 1) * step
    <3>1. PICK x \in Nat : x = k - 1
      BY <2>1
    <3>2. PICK y \in Nat : y = NumFolds - 1
      BY <2>1
    <3>3. x * step \in Nat /\ x * step <= y * step
      <4>1. x <= y /\ step \in Nat
        BY <1>5, <2>1, <3>1, <3>2
      <4>2. QED
        BY ONLY <4>1, x \in Nat, y \in Nat
    <3>4. QED
      BY <3>1, <3>2, <3>3
  <2>3. QED
    BY <1>3, <2>2
<1>7. DOMAIN s = 1..NumFolds /\ Len(s) = NumFolds
  BY <1>1, <1>3
<1>8. ASSUME NEW start \in Nat
      PROVE  Fold(start).from = start /\ Fold(start).upto = start + IsLen + OosLen
  BY DEF Fold
<1>9. ASSUME NEW k \in 1..NumFolds
      PROVE  s[k].from >= 0 /\ s[k].upto <= total
  <2>1. PICK x \in Nat : x = (k - 1) * step /\ x <= room
    <3>1. (NumFolds - 1) * step \in Int
      BY <1>1, <1>5
    <3>2. QED
      BY <1>5, <1>6, <3>1
  <2>2. s[k].from = x /\ s[k].upto = x + IsLen + OosLen
    BY <1>6, <1>8, <2>1
  <2>3. QED
    BY <1>1, <1>4, <2>1, <2>2
<1>10. ASSUME total >= IsLen + OosLen + NumFolds - 1,
              NEW j \in 1..NumFolds, NEW k \in 1..NumFolds, j # k
       PROVE  s[j] # s[k]
  <2>1. NumFolds > 1
    BY <1>1, <1>10
  <2>2. step # 0
    <3>1. room >= NumFolds - 1
      BY <1>1, <1>4, <1>10
    <3>2. SUFFICES ASSUME step = 0 PROVE FALSE
      OBVIOUS
    <3>3. (NumFolds - 1) * step = 0
      BY <1>1, <3>2
    <3>4. QED
      BY <1>1, <1>5, <2>1, <3>1, <3>3
  <2>3. (j - 1) * step # (k - 1) * step
    <3>1. PICK x \in Nat : x = j - 1
      BY <1>1
    <3>2. PICK y \in Nat : y = k - 1
      BY <1>1
    <3>3. x # y
      BY <1>10, <3>1, <3>2
    <3>4. x * step # y * step
      BY ONLY <3>3, x \in Nat, y \in Nat, <1>5, <2>2
    <3>5. QED
      BY <3>1, <3>2, <3>4
  <2>4. s[j].from = (j - 1) * step /\ s[k].from = (k - 1) * step
    BY <1>6, <1>8
  <2>5. QED
    BY <2>3, <2>4
<1>11. ASSUME NumFolds > 1 PROVE s[NumFolds].upto + NumFolds > total
  <2>1. NumFolds \in 1..NumFolds
    BY <1>1
  <2>2. PICK x \in Nat : x = (NumFolds - 1) * step
    BY <1>6, <2>1
  <2>3. s[NumFolds].upto = x + IsLen + OosLen
    BY <1>6, <1>8, <2>1, <2>2
  <2>4. room - x < NumFolds - 1
    BY <1>5, <1>11, <2>2
  <2>5. QED
    BY <1>1, <1>4, <2>3, <2>4
<1>12. QED
  BY <1>3, <1>7, <1>9, <1>10, <1>11

LEMMA ResearchFoldsFit ==
  ASSUME NEW total \in Nat, NEW r, r = ResearchFolds(total), r # <<>>
  PROVE  /\ total >= IsLen + OosLen
         /\ Len(r) \in Nat \ {0} /\ DOMAIN r = 1..Len(r)
         /\ \A k \in 1..Len(r) : r[k].from >= 0 /\ r[k].upto <= total
         /\ \A j, k \in 1..Len(r) : j # k => r[j] # r[k]
         /\ r[Len(r)].upto + StepBars > total
<1>1. IsLen \in Nat \ {0} /\ OosLen \in Nat \ {0} /\ StepBars \in Nat \ {0}
  BY PairResearchAssumption
<1>2. total >= IsLen + OosLen
  BY <1>1 DEF ResearchFolds
<1>3. PICK room \in Nat : room = total - IsLen - OosLen
  BY <1>1, <1>2
<1>4. PICK q : q = room \div StepBars
  OBVIOUS
<1>5. q \in Nat /\ StepBars * q <= room /\ room - StepBars * q < StepBars
  BY <1>1, <1>4, Quotient
<1>6. r = [k \in 1..(q + 1) |-> Fold((k - 1) * StepBars)]
  BY <1>1, <1>2, <1>3, <1>4 DEF ResearchFolds
<1>7. DOMAIN r = 1..(q + 1) /\ Len(r) = q + 1
  BY <1>5, <1>6
<1>8. ASSUME NEW start \in Nat
      PROVE  Fold(start).from = start /\ Fold(start).upto = start + IsLen + OosLen
  BY DEF Fold
<1>9. ASSUME NEW k \in 1..(q + 1)
      PROVE  /\ (k - 1) * StepBars \in Nat /\ (k - 1) * StepBars <= room
             /\ r[k].from = (k - 1) * StepBars /\ r[k].upto = (k - 1) * StepBars + IsLen + OosLen
  <2>1. PICK x \in Nat : x = k - 1 /\ x <= q
    BY <1>5
  <2>2. x * StepBars \in Nat /\ x * StepBars <= StepBars * q
    BY ONLY <1>1, <1>5, <2>1, x \in Nat
  <2>3. PICK y \in Nat : y = x * StepBars
    BY <2>2
  <2>4. PICK z \in Int : z = StepBars * q
    BY <1>1, <1>5
  <2>5. y <= room
    BY <1>5, <2>2, <2>3, <2>4
  <2>6. r[k] = Fold(y)
    BY <1>6, <2>1, <2>3
  <2>7. QED
    BY <1>8, <2>1, <2>3, <2>5, <2>6
<1>10. ASSUME NEW k \in 1..(q + 1)
       PROVE  r[k].from >= 0 /\ r[k].upto <= total
  <2>1. PICK y \in Nat : y = (k - 1) * StepBars
    BY <1>9
  <2>2. QED
    BY <1>1, <1>3, <1>9, <2>1
<1>11. ASSUME NEW j \in 1..(q + 1), NEW k \in 1..(q + 1), j # k
       PROVE  r[j] # r[k]
  <2>1. PICK x \in Nat : x = j - 1
    BY <1>5
  <2>2. PICK y \in Nat : y = k - 1
    BY <1>5
  <2>3. x # y
    BY <1>5, <1>11, <2>1, <2>2
  <2>4. x * StepBars # y * StepBars
    BY ONLY <1>1, <2>3, x \in Nat, y \in Nat
  <2>5. QED
    BY <1>9, <2>1, <2>2, <2>4
<1>12. r[q + 1].upto + StepBars > total
  <2>1. PICK y \in Nat : y = StepBars * q
    BY <1>1, <1>5
  <2>2. q + 1 \in 1..(q + 1) /\ (q + 1) - 1 = q /\ q * StepBars = y
    BY <1>1, <1>5, <2>1
  <2>3. r[q + 1].upto = y + IsLen + OosLen
    BY <1>9, <2>2
  <2>4. QED
    BY <1>1, <1>3, <1>5, <2>1, <2>3
<1>13. QED
  BY <1>2, <1>5, <1>7, <1>10, <1>11, <1>12

\* The windows of the walk-forward tests lie in the data, and the last one of
\* the service ends with it (wfa.py, 204-226), for all lengths and numbers of
\* folds.
THEOREM FoldsEndWithTheData == Spec => []FoldsSpanTheData
<1>1. ASSUME Called PROVE FoldsSpanTheData
  <2> SUFFICES ASSUME Returned("folds") PROVE FoldsSpanTheData
    BY DEF FoldsSpanTheData
  <2>1. PICK total \in Nat : total = input.total
    BY <1>1, LengthsAssumption, ReturnedRight DEF Argued
  <2>2. PICK s : s = ServiceFolds(total)
    OBVIOUS
  <2>3. PICK r : r = ResearchFolds(total)
    OBVIOUS
  <2>4. outcome.result.service = s /\ outcome.result.research = r
    BY <1>1, <2>1, <2>2, <2>3, ReturnedRight DEF Right
  <2>5. IsLen \in Nat \ {0} /\ OosLen \in Nat \ {0} /\ NumFolds \in Nat \ {0}
    BY PairResearchAssumption
  <2>6. (s = <<>>) = (r = <<>>)
    <3>1. CASE total < IsLen + OosLen
      BY <2>2, <2>3, <3>1 DEF ServiceFolds, ResearchFolds
    <3>2. CASE ~(total < IsLen + OosLen)
      <4>1. DOMAIN s = 1..NumFolds
        BY <2>2, <3>2 DEF ServiceFolds
      <4>2. PICK q \in Nat : q = (total - IsLen - OosLen) \div StepBars
        <5>1. total - IsLen - OosLen \in Nat
          BY <2>5, <3>2
        <5>2. QED
          BY <5>1, PairResearchAssumption, Quotient
      <4>3. DOMAIN r = 1..(q + 1)
        BY <2>3, <3>2, <4>2 DEF ResearchFolds
      <4>4. 1 \in DOMAIN s /\ 1 \in DOMAIN r
        BY <2>5, <4>1, <4>2, <4>3
      <4>5. s # <<>> /\ r # <<>>
        BY <4>4
      <4>6. QED
        BY <4>5
    <3>3. QED
      BY <3>1, <3>2
  <2>7. CASE s = <<>>
    <3>1. r = <<>> /\ DOMAIN s = {} /\ DOMAIN r = {}
      BY <2>6, <2>7
    <3>2. QED
      BY <2>4, <2>7, <3>1 DEF FoldsSpanTheData
  <2>8. CASE s # <<>>
    <3>1. r # <<>>
      BY <2>6, <2>8
    <3>2. /\ DOMAIN s = 1..NumFolds /\ Len(s) = NumFolds
          /\ \A k \in 1..NumFolds : s[k].from >= 0 /\ s[k].upto <= total
          /\ total >= IsLen + OosLen + NumFolds - 1
               => \A j, k \in 1..NumFolds : j # k => s[j] # s[k]
          /\ NumFolds > 1 => s[NumFolds].upto + NumFolds > total
      BY <2>2, <2>8, ServiceFoldsFit
    <3>3. /\ DOMAIN r = 1..Len(r)
          /\ \A k \in 1..Len(r) : r[k].from >= 0 /\ r[k].upto <= total
          /\ \A j, k \in 1..Len(r) : j # k => r[j] # r[k]
          /\ r[Len(r)].upto + StepBars > total
      BY <2>3, <3>1, ResearchFoldsFit
    <3>4. (\A j, k \in DOMAIN s : j # k => s[j] # s[k])
            \/ total < IsLen + OosLen + NumFolds - 1
      BY <2>5, <3>2
    <3>5. QED
      BY <2>1, <2>4, <2>6, <3>1, <3>2, <3>3, <3>4 DEF FoldsSpanTheData, Last
  <2>9. QED
    BY <2>7, <2>8
<1>2. QED
  BY <1>1, AlwaysCalled, PTL

-----------------------------------------------------------------------------
(* Induction.  A set of naturals that holds 0 and, with a number, the next.  *)

LEMMA LeastOfNaturals ==
  ASSUME NEW S \in SUBSET Nat, S # {}
  PROVE  \E n \in S : \A m \in S : n <= m
<1> DEFINE R == {ss \in Nat \X Nat : ss[1] < ss[2]}
<1>1. IsWellFoundedOn(R, Nat)
  BY NatLessThanWellFounded DEF OpToRel
<1>2. \E x \in S : \A y \in S : ~ (<<y, x>> \in R)
  <2> HIDE DEF R
  <2> QED BY <1>1, WFMin
<1>3. PICK x \in S : \A y \in S : ~ (<<y, x>> \in R)
  BY <1>2
<1>4. \A y \in S : ~ (y < x)
  BY <1>3
<1>5. QED
  BY <1>4

LEMMA Induct ==
  ASSUME NEW S, 0 \in S, \A n \in Nat : n \in S => n + 1 \in S
  PROVE  Nat \subseteq S
<1> SUFFICES ASSUME NEW k \in Nat, k \notin S PROVE FALSE
  OBVIOUS
<1>1. PICK n \in Nat \ S : \A m \in Nat \ S : n <= m
  BY LeastOfNaturals
<1>2. CASE n = 0
  BY <1>1, <1>2
<1>3. CASE n # 0
  <2>1. n - 1 \in Nat /\ (n - 1) + 1 = n /\ ~(n <= n - 1)
    BY <1>1, <1>3
  <2>2. n - 1 \in S
    BY <1>1, <2>1
  <2>3. QED
    BY <1>1, <2>1, <2>2
<1>4. QED
  BY <1>2, <1>3

-----------------------------------------------------------------------------
(* The widest pair                                                           *)

\* A comparison in which what beats another beats, or is beaten by, any third.
Comparison(D, W) ==
  /\ \A p, q \in D : <<p, q>> \in W => <<q, p>> \notin W
  /\ \A p, q, x \in D : <<p, q>> \in W => <<p, x>> \in W \/ <<x, q>> \in W

FirstWidest(T, W, r, p) ==
  \A q \in T : <<q, p>> \notin W /\ (r[q] < r[p] => <<p, q>> \in W)

LEMMA FirstWidestExists ==
  ASSUME NEW D, IsFiniteSet(D), D # {}, NEW W, Comparison(D, W), NEW r \in [D -> Nat]
  PROVE  \E p \in D : FirstWidest(D, W, r, p)
<1> DEFINE S == {m \in Nat : \A T \in SUBSET D :
                   T # {} /\ Cardinality(T) <= m => \E p \in T : FirstWidest(T, W, r, p)}
<1>1. \A T \in SUBSET D : IsFiniteSet(T) /\ Cardinality(T) \in Nat /\ (Cardinality(T) = 0 <=> T = {})
  BY FS_Subset, FS_CardinalityType, FS_EmptySet
<1>2. 0 \in S
  <2>1. ASSUME NEW T \in SUBSET D, Cardinality(T) <= 0 PROVE T = {}
    BY <1>1, <2>1
  <2>2. QED
    BY <2>1
<1>3. ASSUME NEW m \in Nat, m \in S PROVE m + 1 \in S
  <2>1. ASSUME NEW T \in SUBSET D, T # {}, Cardinality(T) <= m + 1
        PROVE  \E p \in T : FirstWidest(T, W, r, p)
    <3>1. PICK x \in T : TRUE
      BY <2>1
    <3>2. PICK R \in SUBSET D : R = T \ {x}
      OBVIOUS
    <3>3. Cardinality(R) <= m /\ x \in D
      <4>1. Cardinality(R) = Cardinality(T) - 1
        BY <1>1, <3>1, <3>2, FS_RemoveElement
      <4>2. QED
        BY <1>1, <2>1, <3>1, <4>1
    <3>4. <<x, x>> \notin W
      BY <3>3 DEF Comparison
    <3>5. r[x] \in Nat
      BY <3>3
    <3>6. CASE R = {}
      <4>1. T = {x}
        BY <3>1, <3>2, <3>6
      <4>2. FirstWidest(T, W, r, x)
        BY <3>4, <3>5, <4>1 DEF FirstWidest
      <4>3. QED
        BY <3>1, <4>2
    <3>7. CASE R # {}
      <4>1. PICK p \in R : FirstWidest(R, W, r, p)
        BY <1>3, <3>3, <3>7
      <4>2. p \in D /\ p \in T /\ r[p] \in Nat
        BY <3>2
      <4>3. \A q \in R : /\ q \in D /\ <<q, p>> \notin W /\ (r[q] < r[p] => <<p, q>> \in W)
        BY <4>1 DEF FirstWidest
      <4>4. \A q \in T : q = x \/ q \in R
        BY <3>2
      <4>5. CASE <<x, p>> \in W
        <5>1. \A q \in R : <<x, q>> \in W /\ <<q, x>> \notin W
          BY <3>3, <4>2, <4>3, <4>5 DEF Comparison
        <5>2. FirstWidest(T, W, r, x)
          BY <3>4, <3>5, <4>4, <5>1 DEF FirstWidest
        <5>3. QED
          BY <3>1, <5>2
      <4>6. CASE <<x, p>> \notin W /\ (<<p, x>> \in W \/ ~(r[x] < r[p]))
        <5>1. FirstWidest(T, W, r, p)
          BY <4>3, <4>4, <4>6 DEF FirstWidest
        <5>2. QED
          BY <4>2, <5>1
      <4>7. CASE <<x, p>> \notin W /\ <<p, x>> \notin W /\ r[x] < r[p]
        <5>1. ASSUME NEW q \in R
              PROVE  <<q, x>> \notin W /\ (r[q] < r[x] => <<x, q>> \in W)
          <6>1. <<q, x>> \notin W
            BY <3>3, <4>2, <4>3, <4>7 DEF Comparison
          <6>2. ASSUME r[q] < r[x] PROVE <<x, q>> \in W
            <7>1. q \in D /\ r[q] \in Nat
              BY <4>3
            <7>2. r[q] < r[p]
              BY <3>5, <4>2, <4>7, <6>2, <7>1
            <7>3. <<p, q>> \in W
              BY <4>3, <7>2
            <7>4. QED
              BY <3>3, <4>2, <4>7, <7>1, <7>3 DEF Comparison
          <6>3. QED
            BY <6>1, <6>2
        <5>2. FirstWidest(T, W, r, x)
          BY <3>4, <3>5, <4>4, <5>1 DEF FirstWidest
        <5>3. QED
          BY <3>1, <5>2
      <4>8. QED
        BY <4>5, <4>6, <4>7
    <3>8. QED
      BY <3>6, <3>7
  <2>2. QED
    BY <2>1
<1>4. Nat \subseteq S
  <2> HIDE DEF S
  <2>1. QED
    BY <1>2, <1>3, Induct
<1>5. Cardinality(D) \in Nat /\ D \in SUBSET D
  BY <1>1
<1>6. QED
  BY <1>4, <1>5

\* Products, for quotients compared by them.
LEMMA ProductOrder ==
  ASSUME NEW x \in Int, NEW y \in Int, NEW c \in Nat \ {0}
  PROVE  x <= y <=> x * c <= y * c
  OBVIOUS

Quote == [ex : STRING, bid : Nat, ask : Nat \ {0}]

LEMMA WiderIs ==
  ASSUME NEW a \in Quote, NEW b \in Quote, NEW c \in Quote, NEW d \in Quote
  PROVE  Wider(a, b, c, d) <=> b.bid * c.ask > d.bid * a.ask
<1>1. PICK p \in Nat \ {0}, q \in Nat \ {0} : p = a.ask /\ q = c.ask
  BY DEF Quote
<1>2. PICK x \in Nat, y \in Nat : x = b.bid /\ y = d.bid
  BY DEF Quote
<1>3. (x - p) * q > (y - q) * p <=> x * q > y * p
  <2>1. (x - p) * q = x * q - p * q /\ (y - q) * p = y * p - p * q
    OBVIOUS
  <2>2. x * q \in Int /\ p * q \in Int /\ y * p \in Int
    OBVIOUS
  <2>3. QED
    BY <2>1, <2>2
<1>4. QED
  BY <1>1, <1>2, <1>3 DEF Wider

LEMMA WiderOneWay ==
  ASSUME NEW a \in Quote, NEW b \in Quote, NEW c \in Quote, NEW d \in Quote, Wider(a, b, c, d)
  PROVE  ~Wider(c, d, a, b)
<1>1. PICK p \in Nat \ {0}, q \in Nat \ {0} : p = a.ask /\ q = c.ask
  BY DEF Quote
<1>2. PICK x \in Nat, y \in Nat : x = b.bid /\ y = d.bid
  BY DEF Quote
<1>3. x * q > y * p
  BY <1>1, <1>2, WiderIs
<1>4. Wider(c, d, a, b) <=> y * p > x * q
  BY <1>1, <1>2, WiderIs
<1>5. x * q \in Int /\ y * p \in Int
  OBVIOUS
<1>6. QED
  BY <1>3, <1>4, <1>5

\* What is wider than another is wider than, or not as wide as, any third.
LEMMA WiderCompares ==
  ASSUME NEW a \in Quote, NEW b \in Quote, NEW c \in Quote, NEW d \in Quote,
         NEW e \in Quote, NEW f \in Quote, Wider(a, b, c, d)
  PROVE  Wider(a, b, e, f) \/ Wider(e, f, c, d)
<1>1. PICK p \in Nat \ {0}, q \in Nat \ {0}, s \in Nat \ {0} : p = a.ask /\ q = c.ask /\ s = e.ask
  BY DEF Quote
<1>2. PICK x \in Nat, y \in Nat, z \in Nat : x = b.bid /\ y = d.bid /\ z = f.bid
  BY DEF Quote
<1>3. x * q > y * p
  BY <1>1, <1>2, WiderIs
<1>5. Wider(a, b, e, f) <=> x * s > z * p
  BY <1>1, <1>2, WiderIs
<1>6. Wider(e, f, c, d) <=> z * q > y * s
  BY <1>1, <1>2, WiderIs
<1>7. x * q \in Int /\ y * p \in Int /\ x * s \in Int /\ z * p \in Int /\ z * q \in Int /\ y * s \in Int
  OBVIOUS
<1>8. SUFFICES ASSUME x * s <= z * p, z * q <= y * s PROVE FALSE
  BY <1>5, <1>6, <1>7
<1>9. (x * s) * q <= (z * p) * q
  BY <1>7, <1>8, ProductOrder
<1>10. (z * q) * p <= (y * s) * p
  BY <1>7, <1>8, ProductOrder
<1>11. (x * s) * q = (x * q) * s /\ (z * p) * q = (z * q) * p /\ (y * s) * p = (y * p) * s
  OBVIOUS
<1>12. (x * q) * s <= (y * p) * s
  <2>1. (x * s) * q \in Int /\ (z * p) * q \in Int /\ (y * s) * p \in Int
    OBVIOUS
  <2>2. QED
    BY <1>9, <1>10, <1>11, <2>1
<1>13. x * q <= y * p
  BY <1>7, <1>12, ProductOrder
<1>14. QED
  BY <1>3, <1>7, <1>13

\* The best pair is one of the directions, and the opposite is not wider.
LEMMA BestPairIs ==
  ASSUME NEW quotes \in Seq(Quote), Len(quotes) >= 2
  PROVE  \E i, j \in DOMAIN quotes :
           /\ BestPair(quotes) = <<quotes[i].ex, quotes[j].ex>>
           /\ ~Wider(quotes[j], quotes[i], quotes[i], quotes[j])
<1>1. PICK n \in Nat : n = Len(quotes) /\ n >= 2 /\ DOMAIN quotes = 1..n
  OBVIOUS
<1> DEFINE I == DOMAIN quotes
<1>2. PICK D : D = Directions(quotes)
  OBVIOUS
<1>3. /\ D = {p \in I \X I : p[1] # p[2]}
      /\ \A p \in D : p[1] \in I /\ p[2] \in I /\ p[1] # p[2] /\ <<p[2], p[1]>> \in D
  <2>1. D = {p \in I \X I : p[1] # p[2]}
    BY <1>2, Zenon DEF Directions
  <2>2. ASSUME NEW p \in D
        PROVE  p[1] \in I /\ p[2] \in I /\ p[1] # p[2] /\ <<p[2], p[1]>> \in D
    <3>1. PICK x \in I, y \in I : p = <<x, y>> /\ x # y
      BY <2>1
    <3>2. <<y, x>> \in D
      BY <2>1, <3>1
    <3>3. QED
      BY <3>1, <3>2
  <2>3. QED
    BY <2>1, <2>2
<1>4. IsFiniteSet(D) /\ D # {}
  <2>1. IsFiniteSet(I \X I)
    <3>1. IsFiniteSet(I)
      BY <1>1, <1>2, FS_Interval
    <3>2. QED
      BY <3>1, FS_Product
  <2>2. D \in SUBSET (I \X I)
    BY <1>3
  <2>3. <<1, 2>> \in D
    <3>1. 1 \in I /\ 2 \in I
      BY <1>1, <1>2
    <3>2. QED
      BY <1>3, <3>1
  <2>4. QED
    BY <2>1, <2>2, <2>3, FS_Subset
<1>5. PICK r : r = [p \in D |-> Rank(p, n)]
  OBVIOUS
<1>6. r \in [D -> Nat]
  <2>1. ASSUME NEW p \in D PROVE Rank(p, n) \in Nat
    <3>1. PICK x \in Nat, y \in Nat : x = p[1] /\ y = p[2]
      BY <1>1, <1>2, <1>3
    <3>2. PICK u \in Nat, v \in Nat : u = x * n /\ v = y * n
      BY ONLY x \in Nat, y \in Nat, n \in Nat
    <3>3. (u + y) * 2 \in Nat /\ (v + x) * 2 + 1 \in Nat
      OBVIOUS
    <3>4. Rank(p, n) = IF x < y THEN (u + y) * 2 ELSE (v + x) * 2 + 1
      BY <3>1, <3>2 DEF Rank
    <3>5. QED
      BY <3>3, <3>4
  <2>2. QED
    BY <1>5, <2>1
<1>7. PICK W : W = {b \in D \X D : Beats(quotes, b[1], b[2])}
  OBVIOUS
<1>8. \A p, q \in D : <<p, q>> \in W <=> Beats(quotes, p, q)
  BY <1>7
<1>9. \A p \in D : quotes[p[1]] \in Quote /\ quotes[p[2]] \in Quote
  BY <1>1, <1>2, <1>3
<1>10. Comparison(D, W)
  <2>1. ASSUME NEW p \in D, NEW q \in D, NEW x \in D, Beats(quotes, p, q)
        PROVE  ~Beats(quotes, q, p) /\ (Beats(quotes, p, x) \/ Beats(quotes, x, q))
    <3>1. PICK a \in Quote, b \in Quote, c \in Quote, d \in Quote, e \in Quote, f \in Quote :
            /\ a = quotes[p[1]] /\ b = quotes[p[2]] /\ c = quotes[q[1]]
            /\ d = quotes[q[2]] /\ e = quotes[x[1]] /\ f = quotes[x[2]]
      BY <1>9
    <3>2. Wider(a, b, c, d)
      BY <2>1, <3>1, Zenon DEF Beats
    <3>3. ~Wider(c, d, a, b)
      BY <3>2, WiderOneWay, Zenon
    <3>4. Wider(a, b, e, f) \/ Wider(e, f, c, d)
      BY <3>2, WiderCompares, Zenon
    <3>5. QED
      BY <3>1, <3>3, <3>4 DEF Beats
  <2>2. QED
    BY <1>8, <2>1 DEF Comparison
<1>11. PICK b \in D : FirstWidest(D, W, r, b)
  BY <1>4, <1>6, <1>10, FirstWidestExists
<1> DEFINE Is(p) == \A q \in Directions(quotes) :
                      /\ ~Beats(quotes, q, p)
                      /\ Rank(q, Len(quotes)) < Rank(p, Len(quotes)) => Beats(quotes, p, q)
<1>12. \E p \in Directions(quotes) : Is(p)
  BY <1>1, <1>2, <1>5, <1>8, <1>11 DEF FirstWidest
<1>13. PICK c : c = CHOOSE p \in Directions(quotes) : Is(p)
  OBVIOUS
<1>14. c \in D /\ Is(c)
  <2> HIDE DEF Is
  <2>1. QED
    BY <1>2, <1>12, <1>13
<1>15. BestPair(quotes) = <<quotes[c[1]].ex, quotes[c[2]].ex>>
  BY <1>13, Zenon DEF BestPair
<1>16. ~Beats(quotes, <<c[2], c[1]>>, c)
  BY <1>2, <1>3, <1>14
<1>17. ~Wider(quotes[c[2]], quotes[c[1]], quotes[c[1]], quotes[c[2]])
  BY <1>16 DEF Beats
<1>18. QED
  BY <1>3, <1>14, <1>15, <1>17

\* A spike is filed under the pair the scan looks it up by (spread_arb.py,
\* 74-79 and 127-140; calc.py, 132-139), for all quotes.
THEOREM SpikeIsFoundAgain == Spec => []SpikeFoundAgain
<1>1. ASSUME Called PROVE SpikeFoundAgain
  <2> SUFFICES ASSUME Returned("pair") PROVE outcome.result.spike = outcome.result.best
    BY DEF SpikeFoundAgain
  <2>1. input.quotes \in QuoteLists
    BY <1>1, ReturnedRight DEF Argued
  <2>2. /\ outcome.result.best = BestPair(input.quotes)
        /\ outcome.result.spike = SpikeKey(input.quotes)
    BY <1>1, ReturnedRight DEF Right
  <2>3. PICK quotes \in Seq(Quote) :
          /\ quotes = input.quotes /\ Len(quotes) >= 2
          /\ \A i, j \in DOMAIN quotes : quotes[i].ex = quotes[j].ex => i = j
    BY <2>1, QuotesAssumption DEF Quote
  <2>4. PICK i \in DOMAIN quotes, j \in DOMAIN quotes :
           /\ BestPair(quotes) = <<quotes[i].ex, quotes[j].ex>>
           /\ ~Wider(quotes[j], quotes[i], quotes[i], quotes[j])
    BY <2>3, BestPairIs
  <2>5. ASSUME NEW k \in DOMAIN quotes PROVE QuoteOf(quotes, quotes[k].ex) = quotes[k]
    BY <2>3 DEF QuoteOf
  <2>6. SpikeKey(quotes) = EdgeDirection(quotes[i], quotes[j])
    BY <2>4, <2>5 DEF SpikeKey
  <2>7. EdgeDirection(quotes[i], quotes[j]) = <<quotes[i].ex, quotes[j].ex>>
    BY <2>4 DEF EdgeDirection
  <2>8. QED
    BY <2>2, <2>3, <2>4, <2>6, <2>7
<1>2. QED
  BY <1>1, AlwaysCalled, PTL

-----------------------------------------------------------------------------
(* Folds over sequences.  FoldLeft is a function on the sets of indices that *)
(* takes out the largest one; what it is on 1..i follows from i - 1.         *)

LEMMA InductTo ==
  ASSUME NEW n \in Nat, NEW S, 0 \in S, \A i \in 1..n : i - 1 \in S => i \in S
  PROVE  0..n \subseteq S
<1> DEFINE T == {i \in Nat : i <= n => i \in S}
<1>1. 0 \in T
  OBVIOUS
<1>2. ASSUME NEW i \in Nat, i \in T PROVE i + 1 \in T
  <2>1. ASSUME i + 1 <= n PROVE i + 1 \in S
    <3>1. i + 1 \in 1..n /\ (i + 1) - 1 = i /\ i <= n
      BY <2>1
    <3>2. QED
      BY <1>2, <3>1
  <2>2. QED
    BY <2>1
<1>3. Nat \subseteq T
  <2> HIDE DEF T
  <2>1. QED
    BY <1>1, <1>2, Induct
<1>4. QED
  BY <1>3

LEMMA LargestOf ==
  ASSUME NEW n \in Nat, NEW T \in SUBSET (1..n), T # {}
  PROVE  Max(T) \in T /\ \A x \in T : x <= Max(T)
<1> DEFINE S == {m \in Nat : \A x \in T : x <= m}
<1>1. \A x \in T : x \in Nat /\ x >= 1 /\ x <= n
  OBVIOUS
<1>2. n \in S
  BY <1>1
<1>3. PICK m \in S : \A k \in S : m <= k
  BY <1>2, LeastOfNaturals
<1>4. m \in T
  <2>1. SUFFICES ASSUME m \notin T PROVE FALSE
    OBVIOUS
  <2>2. \A x \in T : x <= m - 1
    BY <1>1, <1>3, <2>1
  <2>3. m - 1 \in Nat
    <3>1. PICK x \in T : x \in Nat /\ x >= 1 /\ x <= m - 1
      BY <1>1, <2>2
    <3>2. QED
      BY <1>3, <3>1
  <2>4. m - 1 \in S
    BY <2>2, <2>3
  <2>5. QED
    BY <1>3, <2>4
<1>5. m \in T /\ \A x \in T : m >= x
  BY <1>1, <1>3, <1>4
<1>6. Max(T) \in T /\ \A x \in T : Max(T) >= x
  BY <1>5 DEF Max
<1>7. QED
  BY <1>1, <1>6

LEMMA PrefixMax ==
  ASSUME NEW i \in Nat \ {0}
  PROVE  1..i # {} /\ Max(1..i) = i /\ (1..i) \ {i} = 1..(i - 1)
<1>1. i \in 1..i
  OBVIOUS
<1>2. Max(1..i) \in 1..i /\ \A x \in 1..i : x <= Max(1..i)
  BY <1>1, LargestOf
<1>3. QED
  BY <1>1, <1>2

\* The fold of a step function F from base, on all sets of indices.
FoldRule(g, F, base, n) ==
  \A T \in SUBSET (1..n) :
    g[T] = IF T = {} THEN base ELSE F[<<g[T \ {Max(T)}], Max(T)>>]

LEMMA FoldExists ==
  ASSUME NEW n \in Nat, NEW V, NEW base \in V, NEW F \in [V \X (1..n) -> V]
  PROVE  \E g \in [SUBSET (1..n) -> V] : FoldRule(g, F, base, n)
<1> DEFINE To(m, g) == /\ g \in [SUBSET (1..n) -> V]
                       /\ \A T \in SUBSET (1..n) : T \subseteq 1..m =>
                            g[T] = IF T = {} THEN base ELSE F[<<g[T \ {Max(T)}], Max(T)>>]
           S == {m \in Nat : \E g : To(m, g)}
<1>1. 0 \in S
  <2>1. PICK g : g = [T \in SUBSET (1..n) |-> base]
    OBVIOUS
  <2>2. \A T : T \subseteq 1..0 => T = {}
    OBVIOUS
  <2>3. To(0, g)
    BY <2>1, <2>2
  <2>4. QED
    BY <2>3
<1>2. ASSUME NEW m \in Nat, m \in S PROVE m + 1 \in S
  <2>1. PICK g : To(m, g)
    BY <1>2
  <2>2. PICK h : h = [T \in SUBSET (1..n) |->
                        IF T # {} /\ Max(T) = m + 1 THEN F[<<g[T \ {m + 1}], m + 1>>] ELSE g[T]]
    OBVIOUS
  <2>3. h \in [SUBSET (1..n) -> V]
    <3>1. ASSUME NEW T \in SUBSET (1..n), T # {}, Max(T) = m + 1
          PROVE  F[<<g[T \ {m + 1}], m + 1>>] \in V
      <4>1. m + 1 \in 1..n
        BY <3>1, LargestOf
      <4>2. T \ {m + 1} \in SUBSET (1..n)
        OBVIOUS
      <4>3. g[T \ {m + 1}] \in V
        BY <2>1, <4>2
      <4>4. <<g[T \ {m + 1}], m + 1>> \in V \X (1..n)
        BY <4>1, <4>3
      <4>5. QED
        BY <4>4
    <3>2. QED
      BY <2>1, <2>2, <3>1
  <2>4. ASSUME NEW T \in SUBSET (1..n), T \subseteq 1..(m + 1)
        PROVE  h[T] = IF T = {} THEN base ELSE F[<<h[T \ {Max(T)}], Max(T)>>]
    <3>1. CASE T = {}
      BY <2>1, <2>2, <3>1
    <3>2. CASE T # {}
      <4>1. PICK x : x = Max(T)
        OBVIOUS
      <4>2. x \in T /\ x \in 1..(m + 1) /\ \A y \in T : y <= x
        BY <2>4, <3>2, <4>1, LargestOf
      <4>3. PICK R \in SUBSET (1..n) : R = T \ {x}
        OBVIOUS
      <4>4. R \subseteq 1..m
        <5>1. ASSUME NEW y \in R PROVE y \in 1..m
          <6>1. y \in 1..(m + 1) /\ y <= x /\ y # x
            BY <2>4, <4>2, <4>3
          <6>2. QED
            BY <4>2, <6>1
        <5>2. QED
          BY <5>1
      <4>5. h[R] = g[R]
        <5>1. R # {} => Max(R) # m + 1
          <6>1. R # {} => Max(R) \in R
            BY LargestOf
          <6>2. QED
            BY <4>4, <6>1
        <5>2. QED
          BY <2>2, <5>1
      <4>6. h[T] = F[<<g[R], x>>]
        <5>1. CASE x = m + 1
          BY <2>2, <3>2, <4>1, <4>3, <5>1
        <5>2. CASE x # m + 1
          <6>1. T \subseteq 1..m
            <7>1. ASSUME NEW y \in T PROVE y \in 1..m
              <8>1. y \in 1..(m + 1) /\ y <= x /\ x <= m
                BY <2>4, <4>2, <5>2
              <8>2. QED
                BY <4>2, <8>1
            <7>2. QED
              BY <7>1
          <6>2. h[T] = g[T]
            BY <2>2, <4>1, <5>2
          <6>3. g[T] = F[<<g[T \ {Max(T)}], Max(T)>>]
            BY <2>1, <3>2, <6>1
          <6>4. QED
            BY <4>1, <4>3, <6>2, <6>3
        <5>3. QED
          BY <5>1, <5>2
      <4>7. QED
        BY <3>2, <4>1, <4>3, <4>5, <4>6
    <3>3. QED
      BY <3>1, <3>2
  <2>5. To(m + 1, h)
    BY <2>3, <2>4
  <2>6. QED
    <3> HIDE DEF To
    <3>1. QED
      BY <2>5
<1>3. Nat \subseteq S
  <2> HIDE DEF S
  <2>1. QED
    BY <1>1, <1>2, Induct
<1>4. PICK g : To(n, g)
  BY <1>3
<1>5. QED
  BY <1>4 DEF FoldRule

\* A function that does the steps of F follows them from 1 to n.
FoldsLike(h, V, F, base, n) ==
  /\ base \in V
  /\ F \in [V \X (1..n) -> V]
  /\ \A T \in SUBSET (1..n) :
       /\ T = {} => h[T] = base
       /\ T # {} /\ h[T \ {Max(T)}] \in V => h[T] = F[<<h[T \ {Max(T)}], Max(T)>>]

Stepwise(f, F, base, n) == f[0] = base /\ \A i \in 1..n : f[i] = F[<<f[i - 1], i>>]

Followed(h, V, F, base, n) ==
  \E f \in [0..n -> V] : Stepwise(f, F, base, n) /\ h[1..n] = f[n]

LEMMA FoldValue ==
  ASSUME NEW n \in Nat, NEW V, NEW base, NEW F, NEW h, FoldsLike(h, V, F, base, n)
  PROVE  Followed(h, V, F, base, n)
<1>0. base \in V /\ F \in [V \X (1..n) -> V]
  BY DEF FoldsLike
<1>1. PICK f : f = [i \in 0..n |-> h[1..i]]
  OBVIOUS
<1>2. f[0] = base /\ f[n] = h[1..n]
  <2>1. 1..0 = {} /\ 1..0 \in SUBSET (1..n) /\ 0 \in 0..n /\ n \in 0..n
    OBVIOUS
  <2>2. QED
    BY <1>1, <2>1 DEF FoldsLike
<1>3. ASSUME NEW i \in 1..n, f[i - 1] \in V
      PROVE  f[i] = F[<<f[i - 1], i>>] /\ f[i] \in V
  <2>1. i \in Nat \ {0} /\ 1..i \in SUBSET (1..n) /\ i \in 0..n /\ i - 1 \in 0..n
    OBVIOUS
  <2>2. 1..i # {} /\ Max(1..i) = i /\ (1..i) \ {i} = 1..(i - 1)
    BY <2>1, PrefixMax
  <2>3. h[1..(i - 1)] = f[i - 1] /\ h[1..i] = f[i]
    BY <1>1, <2>1
  <2>4. f[i] = F[<<f[i - 1], i>>]
    BY <1>3, <2>1, <2>2, <2>3 DEF FoldsLike
  <2>5. <<f[i - 1], i>> \in V \X (1..n)
    BY <1>3
  <2>6. QED
    BY <1>0, <2>4, <2>5
<1>4. \A i \in 0..n : f[i] \in V
  <2> DEFINE S == {i \in 0..n : f[i] \in V}
  <2>1. 0 \in S
    BY <1>0, <1>2
  <2>2. ASSUME NEW i \in 1..n, i - 1 \in S PROVE i \in S
    <3>1. f[i - 1] \in V /\ i \in 0..n
      BY <2>2
    <3>2. QED
      BY <1>3, <3>1
  <2>3. 0..n \subseteq S
    <3> HIDE DEF S
    <3>1. QED
      BY <2>1, <2>2, InductTo
  <2>4. QED
    BY <2>3
<1>5. ASSUME NEW i \in 1..n PROVE f[i] = F[<<f[i - 1], i>>]
  <2>1. i - 1 \in 0..n
    OBVIOUS
  <2>2. QED
    BY <1>3, <1>4, <2>1
<1>6. f \in [0..n -> V]
  BY <1>1, <1>4
<1>7. QED
  BY <1>2, <1>5, <1>6 DEF Stepwise, Followed

-----------------------------------------------------------------------------
(* Drawdowns                                                                 *)

Sums(n, f, pnls) == /\ f \in [0..n -> Int] /\ f[0] = 0
                    /\ \A i \in 1..n : f[i] = f[i - 1] + pnls[i]

LEMMA TotalIs ==
  ASSUME NEW pnls \in Seq(Int)
  PROVE  \E f : Sums(Len(pnls), f, pnls) /\ Total(pnls) = f[Len(pnls)]
<1>1. PICK n \in Nat : n = Len(pnls) /\ DOMAIN pnls = 1..n
  OBVIOUS
<1>2. \A i \in 1..n : pnls[i] \in Int
  BY <1>1
<1>3. PICK F : F = [p \in Int \X (1..n) |-> p[1] + pnls[p[2]]]
  OBVIOUS
<1>4. F \in [Int \X (1..n) -> Int] /\ \A x \in Int, i \in 1..n : F[<<x, i>>] = x + pnls[i]
  <2>1. \A p \in Int \X (1..n) : p[1] \in Int /\ p[2] \in 1..n
    OBVIOUS
  <2>2. QED
    BY <1>2, <1>3, <2>1
<1>5. PICK g \in [SUBSET (1..n) -> Int] : FoldRule(g, F, 0, n)
  <2>1. PICK V : V = Int
    OBVIOUS
  <2>2. 0 \in V /\ F \in [V \X (1..n) -> V]
    BY <1>4, <2>1
  <2>3. \E g \in [SUBSET (1..n) -> V] : FoldRule(g, F, 0, n)
    BY <2>2, FoldExists
  <2>4. QED
    BY <2>1, <2>3
<1> DEFINE Rule(it) == it = [s \in SUBSET (DOMAIN pnls) |->
                               IF s = {} THEN 0 ELSE it[s \ {Max(s)}] + pnls[Max(s)]]
<1>6. Rule(g)
  <2>1. ASSUME NEW s \in SUBSET (1..n)
        PROVE  g[s] = IF s = {} THEN 0 ELSE g[s \ {Max(s)}] + pnls[Max(s)]
    <3>1. CASE s = {}
      BY <1>5, <3>1 DEF FoldRule
    <3>2. CASE s # {}
      <4>1. Max(s) \in 1..n /\ s \ {Max(s)} \in SUBSET (1..n)
        BY <3>2, LargestOf
      <4>2. g[s \ {Max(s)}] \in Int
        BY <4>1
      <4>3. F[<<g[s \ {Max(s)}], Max(s)>>] = g[s \ {Max(s)}] + pnls[Max(s)]
        BY <1>4, <4>1, <4>2
      <4>4. QED
        BY <1>5, <3>2, <4>3 DEF FoldRule
    <3>3. QED
      BY <3>1, <3>2
  <2>2. QED
    BY <1>1, <2>1
<1>7. PICK h : h = CHOOSE it : Rule(it)
  OBVIOUS
<1>8. Rule(h)
  <2> HIDE DEF Rule
  <2>1. QED
    BY <1>6, <1>7, Zenon
<1>9. Total(pnls) = h[DOMAIN pnls]
  BY <1>7, Zenon DEF Total, FoldLeft, MapThenFoldSet
<1>10. FoldsLike(h, Int, F, 0, n)
  <2>1. ASSUME NEW T \in SUBSET (1..n), T # {}, h[T \ {Max(T)}] \in Int
        PROVE  h[T] = F[<<h[T \ {Max(T)}], Max(T)>>]
    <3>1. Max(T) \in 1..n
      BY <2>1, LargestOf
    <3>2. h[T] = h[T \ {Max(T)}] + pnls[Max(T)]
      BY <1>1, <1>8, <2>1
    <3>3. QED
      BY <1>4, <2>1, <3>1, <3>2
  <2>2. ASSUME NEW T \in SUBSET (1..n), T = {} PROVE h[T] = 0
    BY <1>1, <1>8, <2>2
  <2>3. 0 \in Int
    OBVIOUS
  <2>4. QED
    BY <1>4, <2>1, <2>2, <2>3 DEF FoldsLike
<1>11. PICK f \in [0..n -> Int] : Stepwise(f, F, 0, n) /\ h[1..n] = f[n]
  <2>1. PICK V : V = Int
    OBVIOUS
  <2>2. PICK base : base = 0
    OBVIOUS
  <2>3. FoldsLike(h, V, F, base, n)
    BY <1>10, <2>1, <2>2
  <2>4. Followed(h, V, F, base, n)
    BY <2>3, FoldValue
  <2>5. QED
    BY <2>1, <2>2, <2>4 DEF Followed
<1>12. ASSUME NEW i \in 1..n PROVE f[i] = f[i - 1] + pnls[i]
  <2>1. i - 1 \in 0..n
    OBVIOUS
  <2>2. QED
    BY <1>4, <1>11, <2>1 DEF Stepwise
<1>13. QED
  BY <1>1, <1>9, <1>11, <1>12 DEF Sums, Stepwise

\* The net result of the first k is the k-th sum.
LEMMA TotalOfPrefix ==
  ASSUME NEW pnls \in Seq(Int), NEW f, Sums(Len(pnls), f, pnls), NEW k \in 0..Len(pnls)
  PROVE  Total(SubSeq(pnls, 1, k)) = f[k]
<1>1. PICK s : s = SubSeq(pnls, 1, k)
  OBVIOUS
<1>2. s \in Seq(Int) /\ Len(s) = k /\ \A i \in 1..k : s[i] = pnls[i]
  BY <1>1
<1>3. PICK g : Sums(k, g, s) /\ Total(s) = g[k]
  BY <1>2, TotalIs
<1>4. k \in Nat /\ k <= Len(pnls) /\ Len(pnls) \in Nat
  OBVIOUS
<1> DEFINE S == {i \in 0..k : g[i] = f[i]}
<1>5. 0 \in S
  BY <1>3, <1>4 DEF Sums
<1>6. ASSUME NEW i \in 1..k, i - 1 \in S PROVE i \in S
  <2>1. i \in 1..Len(pnls) /\ i \in 0..k
    BY <1>4
  <2>2. g[i] = g[i - 1] + pnls[i] /\ f[i] = f[i - 1] + pnls[i]
    BY <1>2, <1>3, <2>1 DEF Sums
  <2>3. QED
    BY <1>6, <2>1, <2>2
<1>7. 0..k \subseteq S
  <2> HIDE DEF S
  <2>1. QED
    BY <1>4, <1>5, <1>6, InductTo
<1>8. k \in 0..k
  BY <1>4
<1>9. QED
  BY <1>1, <1>3, <1>7, <1>8

\* The running peak p of a curve e, and its deepest fall d so far.
Watched(n, e, p, d) ==
  /\ p[0] = e[0] /\ d[0] = 0
  /\ \A i \in 1..n :
       /\ p[i] = IF e[i] > p[i - 1] THEN e[i] ELSE p[i - 1]
       /\ d[i] = IF p[i] - e[i] > d[i - 1] THEN p[i] - e[i] ELSE d[i - 1]

Deepest(n, e, d) ==
  /\ \A j, k \in 0..n : j <= k => e[j] - e[k] <= d
  /\ \E j, k \in 0..n : j <= k /\ d = e[j] - e[k]

LEMMA WatchedIsDeepest ==
  ASSUME NEW n \in Nat, NEW e \in [0..n -> Int], NEW p, NEW d, Watched(n, e, p, d)
  PROVE  Deepest(n, e, d[n]) /\ d[n] \in Int
<1>0. \A j \in 0..n : e[j] \in Int
  OBVIOUS
<1> DEFINE Peak(i) == /\ \A j \in 0..i : e[j] <= p[i]
                      /\ \E j \in 0..i : p[i] = e[j]
           S == {i \in 0..n : p[i] \in Int /\ d[i] \in Int /\ Peak(i) /\ Deepest(i, e, d[i])}
<1>1. 0 \in S
  <2>1. \A j \in 0..0 : j = 0
    OBVIOUS
  <2>2. e[0] \in Int /\ 0 \in 0..0 /\ 0 \in 0..n
    BY <1>0
  <2>3. p[0] = e[0] /\ d[0] = 0
    BY DEF Watched
  <2>4. Peak(0)
    BY <2>1, <2>2, <2>3
  <2>5. Deepest(0, e, d[0])
    BY <2>1, <2>2, <2>3 DEF Deepest
  <2>6. QED
    BY <2>2, <2>3, <2>4, <2>5
<1>2. ASSUME NEW i \in 1..n, i - 1 \in S PROVE i \in S
  <2>1. PICK m \in 0..n : m = i - 1
    BY <1>2
  <2>2. /\ \A j \in 0..i : j = i \/ j \in 0..m
        /\ \A j \in 0..m : j \in 0..i /\ j \in 0..n /\ j < i
        /\ i \in 0..i /\ i \in 0..n
    BY <2>1
  <2>3. p[m] \in Int /\ d[m] \in Int /\ Peak(m) /\ Deepest(m, e, d[m])
    BY <1>2, <2>1
  <2>4. /\ p[i] = IF e[i] > p[m] THEN e[i] ELSE p[m]
        /\ d[i] = IF p[i] - e[i] > d[m] THEN p[i] - e[i] ELSE d[m]
    BY <2>1 DEF Watched
  <2>5. p[i] \in Int /\ d[i] \in Int /\ e[i] \in Int /\ p[i] >= e[i] /\ p[i] >= p[m]
        /\ d[i] >= d[m] /\ d[i] >= p[i] - e[i]
    BY <1>0, <2>2, <2>3, <2>4
  <2>6. Peak(i)
    <3>1. ASSUME NEW j \in 0..i PROVE e[j] <= p[i]
      <4>1. CASE j = i
        BY <2>5, <4>1
      <4>2. CASE j \in 0..m
        <5>1. e[j] <= p[m] /\ e[j] \in Int
          BY <1>0, <2>2, <2>3, <4>2
        <5>2. QED
          BY SMTT(30), <2>3, <2>5, <5>1
      <4>3. QED
        BY <2>2, <4>1, <4>2
    <3>2. \E j \in 0..i : p[i] = e[j]
      BY <2>2, <2>3, <2>4
    <3>3. QED
      BY <3>1, <3>2
  <2>7. Deepest(i, e, d[i])
    <3>1. ASSUME NEW j \in 0..i, NEW k \in 0..i, j <= k PROVE e[j] - e[k] <= d[i]
      <4>1. CASE k = i
        <5>1. e[j] <= p[i] /\ e[j] \in Int
          BY <1>0, <2>2, <2>6
        <5>2. QED
          BY <2>5, <4>1, <5>1
      <4>2. CASE k # i
        <5>1. j \in 0..m /\ k \in 0..m
          BY <2>1, <3>1, <4>2
        <5>2. e[j] - e[k] <= d[m] /\ e[j] \in Int /\ e[k] \in Int
          BY <1>0, <2>2, <2>3, <3>1, <5>1 DEF Deepest
        <5>3. PICK x \in Int : x = e[j] - e[k]
          BY <5>2
        <5>4. x <= d[m] /\ d[m] \in Int /\ d[i] \in Int /\ d[i] >= d[m]
          BY <2>3, <2>5, <5>2, <5>3
        <5>5. x <= d[i]
          BY ONLY <5>4, x \in Int
        <5>6. QED
          BY <5>3, <5>5
      <4>3. QED
        BY <4>1, <4>2
    <3>2. \E j, k \in 0..i : j <= k /\ d[i] = e[j] - e[k]
      <4>1. CASE d[i] = d[m]
        <5>1. PICK j \in 0..m, k \in 0..m : j <= k /\ d[m] = e[j] - e[k]
          BY <2>3 DEF Deepest
        <5>2. QED
          BY <2>2, <4>1, <5>1
      <4>2. CASE d[i] # d[m]
        <5>1. d[i] = p[i] - e[i]
          BY <2>4, <4>2
        <5>2. PICK j \in 0..i : p[i] = e[j]
          BY <2>6
        <5>3. j <= i
          OBVIOUS
        <5>4. QED
          BY <2>2, <5>1, <5>2, <5>3
      <4>3. QED
        BY <4>1, <4>2
    <3>3. QED
      BY <3>1, <3>2 DEF Deepest
  <2>8. QED
    BY <2>2, <2>5, <2>6, <2>7
<1>3. 0..n \subseteq S
  <2> HIDE DEF S
  <2>1. QED
    BY <1>1, <1>2, InductTo
<1>4. n \in 0..n
  OBVIOUS
<1>5. QED
  BY <1>3, <1>4

LEMMA MaxDrawdownIs ==
  ASSUME NEW pnls \in Seq(Int)
  PROVE  \E e, p, d : /\ Sums(Len(pnls), e, pnls) /\ Watched(Len(pnls), e, p, d)
                      /\ MaxDrawdown(pnls) = d[Len(pnls)]
<1>1. PICK n \in Nat : n = Len(pnls) /\ DOMAIN pnls = 1..n
  OBVIOUS
<1> DEFINE Op(s, x) == LET equity == s.equity + x
                           peak == IF equity > s.peak THEN equity ELSE s.peak
                       IN [equity |-> equity, peak |-> peak,
                           dd |-> IF peak - equity > s.dd THEN peak - equity ELSE s.dd]
           V == [equity : Int, peak : Int, dd : Int]
           base == [equity |-> 0, peak |-> 0, dd |-> 0]
<1>2. base \in V /\ \A s \in V, i \in 1..n : Op(s, pnls[i]) \in V
  <2>1. ASSUME NEW s \in V, NEW x \in Int PROVE Op(s, x) \in V
    OBVIOUS
  <2>2. \A i \in 1..n : pnls[i] \in Int
    BY <1>1
  <2>3. base \in V
    OBVIOUS
  <2>4. QED
    <3> HIDE DEF Op, V, base
    <3>1. QED
      BY <2>1, <2>2, <2>3
<1>3. PICK F : F = [p \in V \X (1..n) |-> Op(p[1], pnls[p[2]])]
  OBVIOUS
<1>4. F \in [V \X (1..n) -> V] /\ \A s \in V, i \in 1..n : F[<<s, i>>] = Op(s, pnls[i])
  <2> HIDE DEF Op, V, base
  <2>1. \A p \in V \X (1..n) : p[1] \in V /\ p[2] \in 1..n
    OBVIOUS
  <2>2. QED
    BY <1>2, <1>3, <2>1
<1>5. PICK g \in [SUBSET (1..n) -> V] : FoldRule(g, F, base, n)
  <2> HIDE DEF Op, V, base
  <2>1. QED
    BY <1>2, <1>4, FoldExists
<1> DEFINE Rule(it) == it = [s \in SUBSET (DOMAIN pnls) |->
                               IF s = {} THEN base ELSE Op(it[s \ {Max(s)}], pnls[Max(s)])]
<1>6. Rule(g)
  <2> HIDE DEF Op, V, base
  <2>1. ASSUME NEW s \in SUBSET (1..n)
        PROVE  g[s] = IF s = {} THEN base ELSE Op(g[s \ {Max(s)}], pnls[Max(s)])
    <3>1. CASE s = {}
      BY <1>5, <3>1 DEF FoldRule
    <3>2. CASE s # {}
      <4>1. Max(s) \in 1..n /\ s \ {Max(s)} \in SUBSET (1..n)
        BY <3>2, LargestOf
      <4>2. g[s \ {Max(s)}] \in V
        BY <4>1
      <4>3. F[<<g[s \ {Max(s)}], Max(s)>>] = Op(g[s \ {Max(s)}], pnls[Max(s)])
        BY <1>4, <4>1, <4>2
      <4>4. QED
        BY <1>5, <3>2, <4>3 DEF FoldRule
    <3>3. QED
      BY <3>1, <3>2
  <2>2. QED
    BY <1>1, <2>1
<1>7. PICK h : h = CHOOSE it : Rule(it)
  OBVIOUS
<1>8. Rule(h)
  <2> HIDE DEF Rule
  <2>1. QED
    BY <1>6, <1>7, Zenon
<1>9. MaxDrawdown(pnls) = h[DOMAIN pnls].dd
  BY <1>7, Zenon DEF MaxDrawdown, FoldLeft, MapThenFoldSet
<1>10. FoldsLike(h, V, F, base, n)
  <2> HIDE DEF Op, V, base
  <2>1. ASSUME NEW T \in SUBSET (1..n), T # {}, h[T \ {Max(T)}] \in V
        PROVE  h[T] = F[<<h[T \ {Max(T)}], Max(T)>>]
    <3>1. Max(T) \in 1..n
      BY <2>1, LargestOf
    <3>2. h[T] = Op(h[T \ {Max(T)}], pnls[Max(T)])
      BY <1>1, <1>8, <2>1
    <3>3. QED
      BY <1>4, <2>1, <3>1, <3>2
  <2>2. ASSUME NEW T \in SUBSET (1..n), T = {} PROVE h[T] = base
    BY <1>1, <1>8, <2>2
  <2>3. QED
    BY <1>2, <1>4, <2>1, <2>2 DEF FoldsLike
<1>11. PICK f \in [0..n -> V] : Stepwise(f, F, base, n) /\ h[1..n] = f[n]
  <2> HIDE DEF Op, V, base
  <2>1. QED
    BY <1>10, FoldValue DEF Followed
<1>12. f[0] = base /\ \A i \in 1..n : f[i] = Op(f[i - 1], pnls[i])
  <2> HIDE DEF Op, V, base
  <2>1. ASSUME NEW i \in 1..n PROVE f[i] = Op(f[i - 1], pnls[i])
    <3>1. i - 1 \in 0..n
      OBVIOUS
    <3>2. QED
      BY <1>4, <1>11, <3>1 DEF Stepwise
  <2>2. QED
    BY <1>11, <2>1 DEF Stepwise
<1>13. PICK e, p, d : /\ e = [i \in 0..n |-> f[i].equity] /\ p = [i \in 0..n |-> f[i].peak]
                     /\ d = [i \in 0..n |-> f[i].dd]
  OBVIOUS
<1>14. ASSUME NEW i \in 1..n
       PROVE  /\ e[i] = e[i - 1] + pnls[i]
              /\ p[i] = IF e[i] > p[i - 1] THEN e[i] ELSE p[i - 1]
              /\ d[i] = IF p[i] - e[i] > d[i - 1] THEN p[i] - e[i] ELSE d[i - 1]
  <2>1. i \in 0..n /\ i - 1 \in 0..n
    OBVIOUS
  <2>2. f[i] = Op(f[i - 1], pnls[i])
    BY <1>12
  <2>3. /\ f[i].equity = f[i - 1].equity + pnls[i]
        /\ f[i].peak = IF f[i].equity > f[i - 1].peak THEN f[i].equity ELSE f[i - 1].peak
        /\ f[i].dd = IF f[i].peak - f[i].equity > f[i - 1].dd
                     THEN f[i].peak - f[i].equity ELSE f[i - 1].dd
    BY <2>2
  <2>4. QED
    BY <1>13, <2>1, <2>3
<1>15. e[0] = 0 /\ p[0] = 0 /\ d[0] = 0 /\ e \in [0..n -> Int] /\ d[n] = f[n].dd
  <2>1. 0 \in 0..n /\ n \in 0..n /\ \A i \in 0..n : f[i].equity \in Int
    OBVIOUS
  <2>2. QED
    BY <1>12, <1>13, <2>1
<1>16. Sums(n, e, pnls)
  BY <1>14, <1>15 DEF Sums
<1>17. Watched(n, e, p, d)
  BY <1>14, <1>15 DEF Watched
<1>18. MaxDrawdown(pnls) = d[n]
  BY <1>1, <1>9, <1>11, <1>15
<1>19. QED
  BY <1>1, <1>16, <1>17, <1>18

\* The same for the curve that begins with the first result.
LEMMA CurveDrawdownIs ==
  ASSUME NEW pnls \in Seq(Int), pnls # <<>>
  PROVE  \E e, p, d : /\ e \in [0..(Len(pnls) - 1) -> Int] /\ e[0] = pnls[1]
                      /\ \A i \in 1..(Len(pnls) - 1) : e[i] = e[i - 1] + pnls[i + 1]
                      /\ Watched(Len(pnls) - 1, e, p, d)
                      /\ CurveDrawdown(pnls) = d[Len(pnls) - 1]
<1>0. /\ Tail(pnls) \in Seq(Int) /\ Len(Tail(pnls)) = Len(pnls) - 1
      /\ Head(pnls) = pnls[1] /\ pnls[1] \in Int
  OBVIOUS
<1>1. PICK n \in Nat : n = Len(Tail(pnls)) /\ DOMAIN (Tail(pnls)) = 1..n
  OBVIOUS
<1> DEFINE Op(s, x) == LET sum == s.sum + x
                           peak == IF sum > s.peak THEN sum ELSE s.peak
                       IN [sum |-> sum, peak |-> peak,
                           dd |-> IF peak - sum > s.dd THEN peak - sum ELSE s.dd]
           V == [sum : Int, peak : Int, dd : Int]
           base == [sum |-> Head(pnls), peak |-> Head(pnls), dd |-> 0]
<1>2. base \in V /\ \A s \in V, i \in 1..n : Op(s, (Tail(pnls))[i]) \in V
  <2>1. ASSUME NEW s \in V, NEW x \in Int PROVE Op(s, x) \in V
    OBVIOUS
  <2>2. \A i \in 1..n : (Tail(pnls))[i] \in Int
    BY <1>0, <1>1
  <2>3. base \in V
    BY <1>0
  <2>4. QED
    <3> HIDE DEF Op, V, base
    <3>1. QED
      BY <2>1, <2>2, <2>3
<1>3. PICK F : F = [p \in V \X (1..n) |-> Op(p[1], (Tail(pnls))[p[2]])]
  OBVIOUS
<1>4. F \in [V \X (1..n) -> V] /\ \A s \in V, i \in 1..n : F[<<s, i>>] = Op(s, (Tail(pnls))[i])
  <2> HIDE DEF Op, V, base
  <2>1. \A p \in V \X (1..n) : p[1] \in V /\ p[2] \in 1..n
    OBVIOUS
  <2>2. QED
    BY <1>2, <1>3, <2>1
<1>5. PICK g \in [SUBSET (1..n) -> V] : FoldRule(g, F, base, n)
  <2> HIDE DEF Op, V, base
  <2>1. QED
    BY <1>2, <1>4, FoldExists
<1> DEFINE Rule(it) == it = [s \in SUBSET (DOMAIN (Tail(pnls))) |->
                               IF s = {} THEN base ELSE Op(it[s \ {Max(s)}], (Tail(pnls))[Max(s)])]
<1>6. Rule(g)
  <2> HIDE DEF Op, V, base
  <2>1. ASSUME NEW s \in SUBSET (1..n)
        PROVE  g[s] = IF s = {} THEN base ELSE Op(g[s \ {Max(s)}], (Tail(pnls))[Max(s)])
    <3>1. CASE s = {}
      BY <1>5, <3>1 DEF FoldRule
    <3>2. CASE s # {}
      <4>1. Max(s) \in 1..n /\ s \ {Max(s)} \in SUBSET (1..n)
        BY <3>2, LargestOf
      <4>2. g[s \ {Max(s)}] \in V
        BY <4>1
      <4>3. F[<<g[s \ {Max(s)}], Max(s)>>] = Op(g[s \ {Max(s)}], (Tail(pnls))[Max(s)])
        BY <1>4, <4>1, <4>2
      <4>4. QED
        BY <1>5, <3>2, <4>3 DEF FoldRule
    <3>3. QED
      BY <3>1, <3>2
  <2>2. QED
    BY <1>1, <2>1
<1>7. PICK h : h = CHOOSE it : Rule(it)
  OBVIOUS
<1>8. Rule(h)
  <2> HIDE DEF Rule
  <2>1. QED
    BY <1>6, <1>7, Zenon
<1>9. CurveDrawdown(pnls) = h[DOMAIN (Tail(pnls))].dd
  BY <1>7, Zenon DEF CurveDrawdown, FoldLeft, MapThenFoldSet
<1>10. FoldsLike(h, V, F, base, n)
  <2> HIDE DEF Op, V, base
  <2>1. ASSUME NEW T \in SUBSET (1..n), T # {}, h[T \ {Max(T)}] \in V
        PROVE  h[T] = F[<<h[T \ {Max(T)}], Max(T)>>]
    <3>1. Max(T) \in 1..n
      BY <2>1, LargestOf
    <3>2. h[T] = Op(h[T \ {Max(T)}], (Tail(pnls))[Max(T)])
      BY <1>1, <1>8, <2>1
    <3>3. QED
      BY <1>4, <2>1, <3>1, <3>2
  <2>2. ASSUME NEW T \in SUBSET (1..n), T = {} PROVE h[T] = base
    BY <1>1, <1>8, <2>2
  <2>3. QED
    BY <1>2, <1>4, <2>1, <2>2 DEF FoldsLike
<1>11. PICK f \in [0..n -> V] : Stepwise(f, F, base, n) /\ h[1..n] = f[n]
  <2> HIDE DEF Op, V, base
  <2>1. QED
    BY <1>10, FoldValue DEF Followed
<1>12. f[0] = base /\ \A i \in 1..n : f[i] = Op(f[i - 1], (Tail(pnls))[i])
  <2> HIDE DEF Op, V, base
  <2>1. ASSUME NEW i \in 1..n PROVE f[i] = Op(f[i - 1], (Tail(pnls))[i])
    <3>1. i - 1 \in 0..n
      OBVIOUS
    <3>2. QED
      BY <1>4, <1>11, <3>1 DEF Stepwise
  <2>2. QED
    BY <1>11, <2>1 DEF Stepwise
<1>13. PICK e, p, d : /\ e = [i \in 0..n |-> f[i].sum] /\ p = [i \in 0..n |-> f[i].peak]
                     /\ d = [i \in 0..n |-> f[i].dd]
  OBVIOUS
<1>14. ASSUME NEW i \in 1..n
       PROVE  /\ e[i] = e[i - 1] + pnls[i + 1]
              /\ p[i] = IF e[i] > p[i - 1] THEN e[i] ELSE p[i - 1]
              /\ d[i] = IF p[i] - e[i] > d[i - 1] THEN p[i] - e[i] ELSE d[i - 1]
  <2>1. i \in 0..n /\ i - 1 \in 0..n /\ (Tail(pnls))[i] = pnls[i + 1]
    BY <1>0, <1>1
  <2>2. f[i] = Op(f[i - 1], pnls[i + 1])
    <3> HIDE DEF Op
    <3>1. QED
      BY <1>12, <2>1
  <2>3. /\ f[i].sum = f[i - 1].sum + pnls[i + 1]
        /\ f[i].peak = IF f[i].sum > f[i - 1].peak THEN f[i].sum ELSE f[i - 1].peak
        /\ f[i].dd = IF f[i].peak - f[i].sum > f[i - 1].dd
                     THEN f[i].peak - f[i].sum ELSE f[i - 1].dd
    BY <2>2
  <2>4. QED
    BY <1>13, <2>1, <2>3
<1>15. /\ e[0] = pnls[1] /\ p[0] = pnls[1] /\ d[0] = 0
       /\ e \in [0..n -> Int] /\ d[n] = f[n].dd
  <2>1. 0 \in 0..n /\ n \in 0..n /\ \A i \in 0..n : f[i].sum \in Int
    OBVIOUS
  <2>2. QED
    BY <1>0, <1>12, <1>13, <2>1
<1>16. Watched(n, e, p, d)
  BY <1>14, <1>15 DEF Watched
<1>17. CurveDrawdown(pnls) = d[n]
  BY <1>1, <1>9, <1>11, <1>15
<1>18. n = Len(pnls) - 1
  BY <1>0, <1>1
<1>19. QED
  BY <1>14, <1>15, <1>16, <1>17, <1>18

\* The falls of the equity curve, whose deepest is the true drawdown.
LEMMA TrueDrawdownIs ==
  ASSUME NEW pnls \in Seq(Int), NEW e, Sums(Len(pnls), e, pnls), NEW d \in Int, Deepest(Len(pnls), e, d)
  PROVE  TrueDrawdown(pnls) = d
<1>1. PICK n \in Nat : n = Len(pnls)
  OBVIOUS
<1> DEFINE Equity(k) == Total(SubSeq(pnls, 1, k))
           Pairs == {q \in (0..Len(pnls)) \X (0..Len(pnls)) : q[1] <= q[2]}
           falls == {Equity(p[1]) - Equity(p[2]) : p \in Pairs}
<1>2. \A k \in 0..Len(pnls) : Equity(k) = e[k] /\ e[k] \in Int
  <2>1. ASSUME NEW k \in 0..Len(pnls) PROVE Equity(k) = e[k] /\ e[k] \in Int
    <3>1. Total(SubSeq(pnls, 1, k)) = e[k]
      BY TotalOfPrefix
    <3>2. QED
      BY <3>1 DEF Sums
  <2>2. QED
    BY <2>1
<1>3. TrueDrawdown(pnls) = CHOOSE x \in falls : \A y \in falls : y <= x
  BY DEF TrueDrawdown
<1> HIDE DEF Equity
<1>4. d \in falls
  <2>1. PICK j, k \in 0..Len(pnls) : j <= k /\ d = e[j] - e[k]
    BY DEF Deepest
  <2>2. <<j, k>> \in Pairs
    BY <2>1
  <2>3. QED
    BY <1>2, <2>1, <2>2
<1>5. \A x \in falls : x <= d /\ x \in Int
  <2>1. ASSUME NEW p \in Pairs PROVE Equity(p[1]) - Equity(p[2]) <= d /\ Equity(p[1]) - Equity(p[2]) \in Int
    <3>1. p[1] \in 0..Len(pnls) /\ p[2] \in 0..Len(pnls) /\ p[1] <= p[2]
      OBVIOUS
    <3>2. e[p[1]] - e[p[2]] <= d
      BY <3>1 DEF Deepest
    <3>3. QED
      BY <1>2, <3>1, <3>2
  <2>2. QED
    BY <2>1
<1>6. \A x \in falls : (\A y \in falls : y <= x) => x = d
  <2> HIDE DEF falls
  <2>1. QED
    BY <1>4, <1>5
<1>7. QED
  <2> HIDE DEF falls
  <2>1. QED
    BY <1>3, <1>4, <1>5, <1>6

\* The deepest fall from the first result on, against the deepest of all.
LEMMA FallsCompared ==
  ASSUME NEW n \in Nat \ {0}, NEW pnls \in Seq(Int), n = Len(pnls), NEW e, Sums(n, e, pnls),
         NEW d \in Int, Deepest(n, e, d), NEW c \in [0..(n - 1) -> Int], c[0] = pnls[1],
         \A i \in 1..(n - 1) : c[i] = c[i - 1] + pnls[i + 1],
         NEW b \in Int, Deepest(n - 1, c, b)
  PROVE  b <= d /\ (b < d => pnls[1] < 0 /\ d - b <= -pnls[1])
<1>1. \A i \in 0..(n - 1) : c[i] = e[i + 1]
  <2> DEFINE S == {i \in 0..(n - 1) : c[i] = e[i + 1]}
  <2>1. 0 \in S
    <3>1. e[1] = e[0] + pnls[1] /\ e[0] = 0 /\ pnls[1] \in Int
      BY DEF Sums
    <3>2. QED
      BY <3>1
  <2>2. ASSUME NEW i \in 1..(n - 1), i - 1 \in S PROVE i \in S
    <3>1. c[i] = c[i - 1] + pnls[i + 1] /\ c[i - 1] = e[(i - 1) + 1] /\ (i - 1) + 1 = i
      BY <2>2
    <3>2. i + 1 \in 1..n /\ (i + 1) - 1 = i
      OBVIOUS
    <3>3. e[i + 1] = e[(i + 1) - 1] + pnls[i + 1]
      BY <3>2 DEF Sums
    <3>4. QED
      BY <3>1, <3>2, <3>3
  <2>3. 0..(n - 1) \subseteq S
    <3> HIDE DEF S
    <3>1. n - 1 \in Nat
      OBVIOUS
    <3>2. QED
      BY <2>1, <2>2, <3>1, InductTo
  <2>4. QED
    BY <2>3
<1>2. e[0] = 0 /\ e[1] = pnls[1] /\ pnls[1] \in Int /\ \A i \in 0..n : e[i] \in Int
  <2>1. e[0] = 0 /\ e \in [0..n -> Int] /\ 1 \in 1..n /\ pnls[1] \in Int
    BY DEF Sums
  <2>2. e[1] = e[1 - 1] + pnls[1]
    BY <2>1 DEF Sums
  <2>3. 1 - 1 = 0 /\ 0 + pnls[1] = pnls[1]
    BY <2>1
  <2>4. e[1] = pnls[1]
    BY <2>1, <2>2, <2>3
  <2>5. \A i \in 0..n : e[i] \in Int
    BY <2>1
  <2>6. QED
    BY <2>1, <2>4, <2>5
<1>3. b <= d
  <2>1. PICK j, k \in 0..(n - 1) : j <= k /\ b = c[j] - c[k]
    BY DEF Deepest
  <2>2. j + 1 \in 0..n /\ k + 1 \in 0..n /\ j + 1 <= k + 1
    BY <2>1
  <2>3. e[j + 1] - e[k + 1] <= d
    BY <2>2 DEF Deepest
  <2>4. QED
    BY <1>1, <2>1, <2>3
<1>4. ASSUME b < d PROVE pnls[1] < 0 /\ d - b <= -pnls[1]
  <2>1. PICK j, k \in 0..n : j <= k /\ d = e[j] - e[k]
    BY DEF Deepest
  <2>2. 0 <= b
    <3>1. 0 \in 0..(n - 1) /\ c[0] \in Int
      OBVIOUS
    <3>2. c[0] - c[0] <= b
      BY <3>1 DEF Deepest
    <3>3. QED
      BY <3>1, <3>2
  <2>3. k # 0
    <3>1. ASSUME k = 0 PROVE FALSE
      <4>1. j = 0
        BY <2>1, <3>1
      <4>2. d = 0
        BY <1>2, <2>1, <3>1, <4>1
      <4>3. QED
        BY <1>4, <2>2, <4>2
    <3>2. QED
      BY <3>1
  <2>4. k - 1 \in 0..(n - 1) /\ c[k - 1] = e[k] /\ e[k] \in Int /\ (k - 1) + 1 = k
    <3>1. k - 1 \in 0..(n - 1) /\ (k - 1) + 1 = k
      BY <2>3
    <3>2. c[k - 1] = e[(k - 1) + 1]
      BY <1>1, <3>1
    <3>3. QED
      BY <1>2, <3>1, <3>2
  <2>5. j = 0
    <3>1. ASSUME j # 0 PROVE FALSE
      <4>1. j - 1 \in 0..(n - 1) /\ (j - 1) + 1 = j /\ j - 1 <= k - 1
        BY <2>1, <3>1
      <4>2. c[j - 1] = e[(j - 1) + 1]
        BY <1>1, <4>1
      <4>3. c[j - 1] - c[k - 1] <= b
        BY <2>4, <4>1 DEF Deepest
      <4>4. d <= b
        BY <2>1, <2>4, <4>1, <4>2, <4>3
      <4>5. QED
        BY <1>4, <4>4
    <3>2. QED
      BY <3>1
  <2>6. pnls[1] - e[k] <= b
    <3>1. 0 \in 0..(n - 1) /\ 0 <= k - 1
      BY <2>4
    <3>2. c[0] - c[k - 1] <= b
      BY <2>4, <3>1 DEF Deepest
    <3>3. QED
      BY <2>4, <3>2
  <2>7. d = -e[k]
    BY <1>2, <2>1, <2>4, <2>5
  <2>8. QED
    BY SMTT(30), <1>2, <1>4, <2>4, <2>6, <2>7
<1>5. QED
  BY <1>3, <1>4

\* The drawdown of the walk-forward tests is the deepest fall of the equity; the
\* one of the signal backtest misses no more than a first loss
\* (max_drawdown in recalibration/wfa.py, calculate_metrics in the research).
THEOREM DrawdownsAreReported == Spec => []DrawdownsReported
<1>1. ASSUME Called PROVE DrawdownsReported
  <2> SUFFICES ASSUME Returned("metrics") PROVE DrawdownsReported
    BY DEF DrawdownsReported
  <2>1. PICK pnls \in PnlLists : /\ input.pnls = pnls
                                 /\ outcome.result = [pair |-> MaxDrawdown(pnls), signal |-> CurveDrawdown(pnls)]
    <3>1. input.pnls \in PnlLists
      BY <1>1, ReturnedRight DEF Argued
    <3>2. outcome.result = [pair |-> MaxDrawdown(input.pnls), signal |-> CurveDrawdown(input.pnls)]
      BY <1>1, ReturnedRight DEF Right
    <3>3. QED
      BY <3>1, <3>2
  <2>2. pnls \in Seq(Int)
    BY PnlListsAssumption
  <2>3. PICK n \in Nat : n = Len(pnls)
    BY <2>2
  <2>4. PICK e, p, d : /\ Sums(n, e, pnls) /\ Watched(n, e, p, d)
                       /\ MaxDrawdown(pnls) = d[n]
    BY <2>2, <2>3, MaxDrawdownIs
  <2>5. Deepest(n, e, d[n]) /\ d[n] \in Int
    BY <2>4, WatchedIsDeepest DEF Sums
  <2>6. TrueDrawdown(pnls) = d[n]
    BY <2>2, <2>3, <2>4, <2>5, TrueDrawdownIs
  <2>7. CASE pnls = <<>>
    <3>1. n = 0
      BY <2>3, <2>7
    <3>2. d[n] = 0
      BY <2>4, <3>1 DEF Watched
    <3>3. CurveDrawdown(pnls) = 0
      BY <2>7 DEF CurveDrawdown
    <3>4. QED
      BY <2>1, <2>4, <2>6, <3>2, <3>3 DEF DrawdownsReported
  <2>8. CASE pnls # <<>>
    <3>1. n \in Nat \ {0} /\ Head(pnls) = pnls[1] /\ pnls[1] \in Int /\ n - 1 \in Nat
      BY <2>2, <2>3, <2>8
    <3>2. PICK c, q, b : /\ c \in [0..(n - 1) -> Int] /\ c[0] = pnls[1]
                         /\ \A i \in 1..(n - 1) : c[i] = c[i - 1] + pnls[i + 1]
                         /\ Watched(n - 1, c, q, b)
                         /\ CurveDrawdown(pnls) = b[n - 1]
      BY ZenonT(40), <2>2, <2>3, <2>8, CurveDrawdownIs
    <3>3. Deepest(n - 1, c, b[n - 1]) /\ b[n - 1] \in Int
      BY <3>1, <3>2, WatchedIsDeepest
    <3>4. PICK x \in Int, y \in Int : x = d[n] /\ y = b[n - 1]
      BY <2>5, <3>3
    <3>5. y <= x /\ (y < x => pnls[1] < 0 /\ x - y <= -pnls[1])
      BY <2>2, <2>3, <2>4, <2>5, <3>1, <3>2, <3>3, <3>4, FallsCompared
    <3>6. input.pnls # <<>> /\ Head(input.pnls) = pnls[1]
      BY <2>1, <2>8, <3>1
    <3>7. outcome.result.pair = x /\ outcome.result.signal = y /\ TrueDrawdown(input.pnls) = x
      BY <2>1, <2>4, <2>6, <3>2, <3>4
    <3>8. QED
      BY <3>5, <3>6, <3>7 DEF DrawdownsReported
  <2>9. QED
    BY <2>7, <2>8
<1>2. QED
  BY <1>1, AlwaysCalled, PTL
-----------------------------------------------------------------------------
(* Verdicts                                                                  *)

\* The first of the largest of n values.
FirstLargest(f, n, k) == \A j \in 1..n : f[j] <= f[k] /\ (j < k => f[j] < f[k])

LEMMA FirstLargestExists ==
  ASSUME NEW n \in Nat \ {0}, NEW f \in [1..n -> Int]
  PROVE  \E k \in 1..n : FirstLargest(f, n, k)
<1> DEFINE S == {m \in Nat : m + 1 <= n => \E k \in 1..(m + 1) : FirstLargest(f, m + 1, k)}
<1>0. \A j \in 1..n : f[j] \in Int
  OBVIOUS
<1>1. 0 \in S
  <2>1. FirstLargest(f, 1, 1)
    BY <1>0 DEF FirstLargest
  <2>2. 1 \in 1..(0 + 1) /\ 0 + 1 = 1
    OBVIOUS
  <2>3. QED
    BY <2>1, <2>2
<1>2. ASSUME NEW m \in Nat, m \in S PROVE m + 1 \in S
  <2> SUFFICES ASSUME (m + 1) + 1 <= n
               PROVE  \E k \in 1..((m + 1) + 1) : FirstLargest(f, (m + 1) + 1, k)
    OBVIOUS
  <2>1. PICK k \in 1..(m + 1) : FirstLargest(f, m + 1, k)
    BY <1>2
  <2>2. PICK t \in Nat : t = (m + 1) + 1
    OBVIOUS
  <2>3. /\ \A j \in 1..t : j = t \/ j \in 1..(m + 1)
        /\ \A j \in 1..t : f[j] \in Int
        /\ t \in 1..t /\ k \in 1..t /\ k < t
    BY <1>0, <2>2
  <2>4. CASE f[t] <= f[k]
    <3>1. FirstLargest(f, t, k)
      BY <2>1, <2>3, <2>4 DEF FirstLargest
    <3>2. QED
      BY <2>2, <2>3, <3>1
  <2>5. CASE f[t] > f[k]
    <3>1. \A j \in 1..(m + 1) : j \in 1..t /\ f[j] <= f[k] /\ f[j] < f[t]
      BY <2>1, <2>2, <2>3, <2>5 DEF FirstLargest
    <3>2. FirstLargest(f, t, t)
      BY SMTT(30), <2>3, <3>1 DEF FirstLargest
    <3>3. QED
      BY <2>2, <2>3, <3>2
  <2>6. QED
    BY <2>3, <2>4, <2>5
<1>3. Nat \subseteq S
  <2> HIDE DEF S
  <2>1. QED
    BY <1>1, <1>2, Induct
<1>4. PICK m \in Nat : m + 1 = n
  <2>1. n - 1 \in Nat /\ (n - 1) + 1 = n
    OBVIOUS
  <2>2. QED
    BY <2>1
<1>5. QED
  BY <1>3, <1>4

\* What the service chooses is one of the candidates.
LEMMA ServiceChoiceType ==
  ASSUME NEW fold \in Seq(Candidate) \ {<<>>}
  PROVE  ServiceChoice(fold) \in Candidate
<1>1. PICK n \in Nat \ {0} : n = Len(fold) /\ DOMAIN fold = 1..n
  OBVIOUS
<1>2. \A k \in 1..n : fold[k] \in Candidate
  BY <1>1
<1>3. \A c \in Candidate : 2 * c.net - c.dd \in Int
  BY DEF Candidate
<1>4. PICK f : f = [k \in 1..n |-> 2 * fold[k].net - fold[k].dd]
  OBVIOUS
<1>5. f \in [1..n -> Int]
  BY <1>2, <1>3, <1>4
<1>6. PICK b \in 1..n : FirstLargest(f, n, b)
  BY <1>5, FirstLargestExists
<1> DEFINE Is(k) == \A j \in DOMAIN fold :
                      /\ 2 * fold[j].net - fold[j].dd <= 2 * fold[k].net - fold[k].dd
                      /\ j < k => 2 * fold[j].net - fold[j].dd < 2 * fold[k].net - fold[k].dd
<1>7. \E k \in DOMAIN fold : Is(k)
  BY <1>1, <1>4, <1>6 DEF FirstLargest
<1>8. ServiceChoice(fold) = fold[CHOOSE k \in DOMAIN fold : Is(k)]
  BY Zenon DEF ServiceChoice, FirstBest
<1>9. (CHOOSE k \in DOMAIN fold : Is(k)) \in DOMAIN fold
  <2> HIDE DEF Is
  <2>1. QED
    BY <1>7
<1>10. QED
  <2> HIDE DEF Is
  <2>1. QED
    BY <1>1, <1>2, <1>8, <1>9

\* A common factor leaves a rounded quotient alone.
LEMMA Cancelled ==
  ASSUME NEW a \in Int, NEW b \in Nat \ {0}, NEW m \in Nat \ {0}
  PROVE  Rounded(a * m, b * m) = Rounded(a, b)
<1>1. PICK q \in Int : q = a \div b
  OBVIOUS
<1>2. PICK r \in Int : r = a % b
  OBVIOUS
<1>3. r >= 0 /\ r < b /\ a = b * q + r
  BY <1>1, <1>2
<1>4. a * m = (b * m) * q + r * m
  BY ONLY <1>3, a \in Int, b \in Nat \ {0}, m \in Nat \ {0}, q \in Int, r \in Int
<1>5. r * m >= 0 /\ r * m < b * m
  BY ONLY <1>3, b \in Nat \ {0}, m \in Nat \ {0}, r \in Int
<1>6. PICK x \in Int : x = a * m
  OBVIOUS
<1>7. PICK y \in Nat \ {0} : y = b * m
  BY ONLY b \in Nat \ {0}, m \in Nat \ {0}
<1>8. PICK z \in Int : z = r * m
  OBVIOUS
<1>9. x = y * q + z /\ z >= 0 /\ z < y
  BY <1>4, <1>5, <1>6, <1>7, <1>8
<1>10. (x \div y) = q /\ (x % y) = z
  BY ONLY <1>9, x \in Int, y \in Nat \ {0}, z \in Int, q \in Int
<1>11. (2 * z < y <=> 2 * r < b) /\ (2 * z = y <=> 2 * r = b)
  <2>1. PICK d \in Int : d = 2 * r - b
    <3>1. 2 * r - b \in Int
      BY ONLY b \in Nat, r \in Int
    <3>2. QED
      BY ONLY <3>1
  <2>2. 2 * z - y = d * m
    BY ONLY <1>7, <1>8, <2>1, b \in Nat, m \in Nat, r \in Int, d \in Int
  <2>3. (d * m < 0 <=> d < 0) /\ (d * m = 0 <=> d = 0)
    BY ONLY d \in Int, m \in Nat \ {0}
  <2>4. QED
    BY <2>1, <2>2, <2>3
<1>12. Rounded(x, y) = IF 2 * z < y \/ (2 * z = y /\ (q % 2) = 0) THEN q ELSE q + 1
  BY <1>10 DEF Rounded
<1>13. Rounded(a, b) = IF 2 * r < b \/ (2 * r = b /\ (q % 2) = 0) THEN q ELSE q + 1
  BY <1>1, <1>2 DEF Rounded
<1>14. QED
  BY <1>6, <1>7, <1>11, <1>12, <1>13

\* Rounding moves a quotient by half at most.
LEMMA RoundedIsNear ==
  ASSUME NEW a \in Int, NEW b \in Nat \ {0}
  PROVE  /\ Rounded(a, b) \in Int
         /\ 2 * (b * Rounded(a, b)) - 2 * a <= b
         /\ 2 * a - 2 * (b * Rounded(a, b)) <= b
<1>1. PICK q \in Int : q = a \div b
  OBVIOUS
<1>2. PICK r \in Int : r = a % b
  OBVIOUS
<1>3. r >= 0 /\ r < b /\ a = b * q + r
  BY <1>1, <1>2
<1>4. PICK t \in Int : t = Rounded(a, b)
  BY <1>1, <1>2 DEF Rounded
<1>5. (t = q /\ 2 * r <= b) \/ (t = q + 1 /\ 2 * r >= b)
  BY <1>1, <1>2, <1>4 DEF Rounded
<1>6. b * (q + 1) = b * q + b
  OBVIOUS
<1>7. PICK p \in Int : p = b * q
  OBVIOUS
<1>8. CASE t = q /\ 2 * r <= b
  <2>1. b * t = p
    BY <1>7, <1>8
  <2>2. 2 * (b * t) - 2 * a <= b /\ 2 * a - 2 * (b * t) <= b
    BY <1>3, <1>7, <1>8, <2>1
  <2>3. QED
    BY <1>4, <2>2
<1>9. CASE t = q + 1 /\ 2 * r >= b
  <2>1. b * t = p + b
    BY <1>6, <1>7, <1>9
  <2>2. 2 * (b * t) - 2 * a <= b /\ 2 * a - 2 * (b * t) <= b
    BY <1>3, <1>7, <1>9, <2>1
  <2>3. QED
    BY <1>4, <2>2
<1>10. QED
  BY <1>5, <1>8, <1>9

\* An average rounds to 500 or more from 499.5 on.
LEMMA RoundsToHalf ==
  ASSUME NEW a \in Int, NEW b \in Nat \ {0}
  PROVE  Rounded(a, b) >= 500 <=> 2 * a >= 999 * b
<1>1. PICK q \in Int : q = a \div b
  OBVIOUS
<1>2. PICK r \in Int : r = a % b
  OBVIOUS
<1>3. r >= 0 /\ r < b /\ a = b * q + r
  BY <1>1, <1>2
<1>4. PICK t \in Int : t = Rounded(a, b)
  BY <1>1, <1>2 DEF Rounded
<1>5. t = IF 2 * r < b \/ (2 * r = b /\ (q % 2) = 0) THEN q ELSE q + 1
  BY <1>1, <1>2, <1>4 DEF Rounded
<1>6. CASE q >= 500
  <2>1. b * q >= b * 500
    BY ONLY <1>6, q \in Int, b \in Nat \ {0}
  <2>2. t >= 500 /\ 2 * a >= 999 * b
    BY <1>3, <1>5, <1>6, <2>1
  <2>3. QED
    BY <1>4, <2>2
<1>7. CASE q <= 498
  <2>1. b * q <= b * 498
    BY ONLY <1>7, q \in Int, b \in Nat \ {0}
  <2>2. ~(t >= 500) /\ ~(2 * a >= 999 * b)
    BY <1>3, <1>5, <1>7, <2>1
  <2>3. QED
    BY <1>4, <2>2
<1>8. CASE q = 499
  <2>1. b * q = 499 * b /\ (q % 2) = 1
    BY <1>8
  <2>2. t >= 500 <=> 2 * r >= b
    BY <1>5, <1>8, <2>1
  <2>3. 2 * a >= 999 * b <=> 2 * r >= b
    BY <1>3, <2>1
  <2>4. QED
    BY <1>4, <2>2, <2>3
<1>9. QED
  BY <1>6, <1>7, <1>8

\* How far the two efficiencies of a candidate lie apart, as the windows are two
\* to one: f is the unit of the research, m its in-sample gain and g its gain of
\* the test, w and r are the efficiencies.
Apart(w, r) == 400 * Magnitude(w - r)

\* p is a / b but for a half.
Halved(p, a, b) == 2 * (b * p) - 2 * a <= b /\ 2 * a - 2 * (b * p) <= b

LEMMA EfficiencyGap ==
  ASSUME NEW f \in Nat \ {0}, NEW net \in Int, NEW oos \in Int,
         NEW m \in Nat, NEW g \in Int, NEW w \in Int, NEW r \in Int, m > 200,
         Halved(m, net, f), Halved(g, oos, f), Halved(w, oos * 2000, net), Halved(r, g * 2000, m)
  PROVE  Apart(w, r) <= Slack(w)
<1>0. /\ 2 * (f * m) - 2 * net <= f /\ 2 * net - 2 * (f * m) <= f
      /\ 2 * (f * g) - 2 * oos <= f /\ 2 * oos - 2 * (f * g) <= f
      /\ 2 * (net * w) - 2 * (oos * 2000) <= net /\ 2 * (oos * 2000) - 2 * (net * w) <= net
      /\ 2 * (m * r) - 2 * (g * 2000) <= m /\ 2 * (g * 2000) - 2 * (m * r) <= m
  BY DEF Halved
<1>1. PICK a \in Nat : a = Magnitude(w) /\ w <= a /\ -w <= a
  BY ONLY w \in Int DEF Magnitude
<1>2. PICK x \in Nat : x = Magnitude(w - r) /\ (x = w - r \/ x = r - w)
  <2>1. Magnitude(w - r) \in Nat /\ (Magnitude(w - r) = w - r \/ Magnitude(w - r) = r - w)
    BY ONLY w \in Int, r \in Int DEF Magnitude
  <2>2. QED
    BY ONLY <2>1
<1>3. PICK fm \in Int : fm = f * m
  OBVIOUS
<1>4. PICK mr \in Int : mr = m * r
  OBVIOUS
<1>5. PICK mw \in Int : mw = m * w
  OBVIOUS
<1>6. PICK fg \in Int : fg = f * g
  OBVIOUS
\* the rounding of the gain of the research, brought to the unit
<1>7. 2 * (f * mr) - 4000 * fg <= fm /\ 4000 * fg - 2 * (f * mr) <= fm
  <2>0. PICK h \in Int : h = 4000 * g
    BY ONLY g \in Int
  <2>1. PICK e \in Int : e = 2 * mr - h
    <3>1. 2 * mr - h \in Int
      BY ONLY mr \in Int, h \in Int
    <3>2. QED
      BY ONLY <3>1
  <2>2. e <= m /\ -e <= m
    BY <1>0, <1>4, <2>0, <2>1
  <2>3. f * e <= f * m /\ f * (-e) <= f * m
    BY ONLY <2>2, f \in Nat \ {0}, e \in Int, m \in Nat
  <2>4. f * e = 2 * (f * mr) - 4000 * fg /\ f * (-e) = 4000 * fg - 2 * (f * mr)
    BY ONLY <1>6, <2>0, <2>1, f \in Nat \ {0}, e \in Int, mr \in Int, g \in Int, h \in Int
  <2>5. QED
    BY <1>3, <2>3, <2>4
\* that of its in-sample gain, brought to the efficiency
<1>8. 2 * (fm * w) - 2 * (net * w) <= f * a /\ 2 * (net * w) - 2 * (fm * w) <= f * a
  <2>1. PICK d \in Int : d = 2 * fm - 2 * net /\ d <= f /\ -d <= f
    <3>1. 2 * fm - 2 * net <= f /\ -(2 * fm - 2 * net) <= f
      BY <1>0, <1>3
    <3>2. 2 * fm - 2 * net \in Int
      BY ONLY fm \in Int, net \in Int
    <3>3. QED
      BY ONLY <3>1, <3>2
  <2>2. d * w <= f * a /\ -(d * w) <= f * a
    <3>1. CASE w >= 0
      <4>1. d * w <= f * w /\ (-d) * w <= f * w
        BY ONLY <2>1, <3>1, f \in Nat, d \in Int, w \in Int
      <4>2. f * w <= f * a
        BY ONLY <1>1, f \in Nat, a \in Nat, w \in Int
      <4>3. (-d) * w = -(d * w)
        BY ONLY d \in Int, w \in Int
      <4>4. QED
        BY <4>1, <4>2, <4>3
    <3>2. CASE w < 0
      <4>1. PICK v \in Nat : v = -w /\ v <= a
        BY <1>1, <3>2
      <4>2. d * v <= f * v /\ (-d) * v <= f * v
        BY ONLY <2>1, f \in Nat, d \in Int, v \in Nat
      <4>3. f * v <= f * a
        BY ONLY <4>1, f \in Nat, a \in Nat, v \in Nat
      <4>4. (-d) * v = d * w /\ d * v = -(d * w)
        BY ONLY <4>1, d \in Int, w \in Int, v \in Nat
      <4>5. QED
        BY <4>2, <4>3, <4>4
    <3>3. QED
      BY <3>1, <3>2
  <2>3. d * w = 2 * (fm * w) - 2 * (net * w)
    BY ONLY <2>1, fm \in Int, net \in Int, d \in Int, w \in Int
  <2>4. QED
    BY <2>2, <2>3
<1>9. fm * w = f * mw
  BY ONLY <1>3, <1>5, f \in Nat, m \in Nat, w \in Int
<1>10. /\ 4 * (f * mr) - 4 * (f * mw) <= 4001 * f + 4 * fm + 2 * (f * a)
       /\ 4 * (f * mw) - 4 * (f * mr) <= 4001 * f + 4 * fm + 2 * (f * a)
  <2>1. PICK s \in Int : s = f * mr
    OBVIOUS
  <2>2. PICK t \in Int : t = f * mw
    OBVIOUS
  <2>3. PICK u \in Int : u = f * a
    OBVIOUS
  <2>4. PICK v \in Int : v = net * w
    OBVIOUS
  <2>5. /\ 2 * s - 4000 * fg <= fm /\ 4000 * fg - 2 * s <= fm
        /\ 2 * t - 2 * v <= u /\ 2 * v - 2 * t <= u
        /\ 2 * v - 4000 * oos <= net /\ 4000 * oos - 2 * v <= net
        /\ 2 * fg - 2 * oos <= f /\ 2 * oos - 2 * fg <= f
        /\ 2 * net - 2 * fm <= f
    BY <1>0, <1>3, <1>6, <1>7, <1>8, <1>9, <2>1, <2>2, <2>3, <2>4
  <2>6. 4 * s - 4 * t <= 4001 * f + 4 * fm + 2 * u /\ 4 * t - 4 * s <= 4001 * f + 4 * fm + 2 * u
    BY ONLY <2>5, s \in Int, t \in Int, u \in Int, v \in Int, fg \in Int, fm \in Int,
            oos \in Int, net \in Int, f \in Nat
  <2>7. QED
    BY <2>1, <2>2, <2>3, <2>6
<1>11. PICK y \in Int : y = m * x
  OBVIOUS
<1>12. 4 * y <= 4001 + 4 * m + 2 * a
  <2>1. PICK e \in Int : e = 4 * y - 4001 - 4 * m - 2 * a
    OBVIOUS
  <2>2. y = mw - mr \/ y = mr - mw
    <3>1. m * (w - r) = mw - mr /\ m * (r - w) = mr - mw
      BY ONLY <1>4, <1>5, m \in Nat, w \in Int, r \in Int
    <3>2. QED
      BY <1>2, <1>11, <3>1
  <2>3. f * y = f * mw - f * mr \/ f * y = f * mr - f * mw
    <3>1. f * (mw - mr) = f * mw - f * mr /\ f * (mr - mw) = f * mr - f * mw
      BY ONLY f \in Nat, mw \in Int, mr \in Int
    <3>2. QED
      BY <2>2, <3>1
  <2>4. f * e = 4 * (f * y) - 4001 * f - 4 * fm - 2 * (f * a)
    BY ONLY <1>3, <2>1, f \in Nat, e \in Int, y \in Int, m \in Nat, a \in Nat
  <2>5. f * e <= 0
    BY <1>10, <2>3, <2>4
  <2>6. e <= 0
    BY ONLY <2>5, f \in Nat \ {0}, e \in Int
  <2>7. QED
    BY <2>1, <2>6
<1>13. 400 * x <= 2400 + a
  <2>1. CASE x <= 6
    BY <2>1
  <2>2. CASE x > 6
    <3>1. PICK z \in Nat : x = z + 1
      BY <2>2
    <3>2. m * z >= 201 * z
      BY ONLY m \in Nat, m > 200, z \in Nat
    <3>3. y = m * z + m
      BY ONLY <1>11, <3>1, m \in Nat, z \in Nat, x \in Nat
    <3>4. PICK v \in Int : v = m * z
      OBVIOUS
    <3>5. QED
      BY ONLY <1>12, <2>2, <3>1, <3>2, <3>3, <3>4, v \in Int, x \in Nat, z \in Nat, y \in Int,
              m \in Nat, a \in Nat
  <2>3. QED
    BY <2>1, <2>2
<1>14. QED
  BY ONLY <1>1, <1>2, <1>13 DEF Apart, Slack

\* The gains and efficiencies of a candidate that is clear, for the two programs.
LEMMA ClearIsNear ==
  ASSUME NEW fold \in Seq(Candidate) \ {<<>>}, Clear(fold), NEW c, c = ServiceChoice(fold)
  PROVE  /\ c = ResearchChoice(fold) /\ c.oos \in Int
         /\ ServiceEfficiency(c) \in Int /\ ResearchEfficiency(c) \in Int
         /\ Apart(ServiceEfficiency(c), ResearchEfficiency(c)) <= Slack(ServiceEfficiency(c))
<1>1. /\ IsLen = 2 * OosLen /\ OosLen \in Nat \ {0}
      /\ Fine \in Nat \ {0} /\ Trifle = 100 * Fine
  BY PairResearchAssumption, WindowsAssumption, DigitsAssumption
<1>2. c \in Candidate
  BY ServiceChoiceType
<1>3. PICK net \in Int : net = c.net
  BY <1>2 DEF Candidate
<1>4. PICK oos \in Int : oos = c.oos
  BY <1>2 DEF Candidate
<1>5. PICK m \in Int : m = ResearchNet(c) /\ 2 * (Fine * m) - 2 * net <= Fine /\ 2 * net - 2 * (Fine * m) <= Fine
  BY <1>1, <1>3, RoundedIsNear DEF ResearchNet
<1>6. PICK g \in Int : g = ResearchGain(c) /\ 2 * (Fine * g) - 2 * oos <= Fine /\ 2 * oos - 2 * (Fine * g) <= Fine
  BY <1>1, <1>4, RoundedIsNear DEF ResearchGain
<1>7. m * Fine > 2 * Trifle <=> m > 200
  <2>1. PICK d \in Int : d = m - 200
    BY ONLY m \in Int
  <2>2. d * Fine = m * Fine - 200 * Fine
    BY ONLY <1>1, <2>1, m \in Int, d \in Int
  <2>3. d * Fine > 0 <=> d > 0
    BY ONLY <1>1, d \in Int
  <2>4. PICK x \in Int : x = m * Fine
    BY ONLY m \in Int, <1>1
  <2>5. PICK y \in Int : y = d * Fine
    BY ONLY d \in Int, <1>1
  <2>6. QED
    BY ONLY <1>1, <2>1, <2>2, <2>3, <2>4, <2>5, m \in Int, d \in Int, x \in Int, y \in Int
<1>8. /\ c = ResearchChoice(fold)
      /\ net > Trifle <=> m > 200
      /\ ~(m > 200) => (oos > 0 <=> g > 0)
  <2>1. /\ c = ResearchChoice(fold)
        /\ (c.net <= Trifle) = (ResearchNet(c) * Fine <= 2 * Trifle)
        /\ ResearchNet(c) * Fine <= 2 * Trifle => (c.oos > 0) = (ResearchGain(c) > 0)
    BY Zenon DEF Clear
  <2>2. PICK x \in Int : x = m * Fine
    BY ONLY m \in Int, <1>1
  <2>3. PICK t \in Int : t = Trifle
    BY <1>1
  <2>4. x > 2 * t <=> m > 200
    BY <1>7, <2>2, <2>3
  <2>5. (net <= t) = (x <= 2 * t)
    BY <1>3, <1>5, <2>1, <2>2, <2>3, Zenon
  <2>6. x <= 2 * t => (oos > 0) = (g > 0)
    BY <1>4, <1>5, <1>6, <2>1, <2>2, <2>3, Zenon
  <2>7. net > t <=> m > 200
    BY ONLY <2>4, <2>5, net \in Int, t \in Int, x \in Int, m \in Int
  <2>8. ~(m > 200) => (oos > 0 <=> g > 0)
    BY ONLY <2>4, <2>6, t \in Int, x \in Int, m \in Int, oos \in Int, g \in Int
  <2>9. QED
    BY <2>1, <2>3, <2>7, <2>8
<1>9. CASE m > 200
  <2>1. net \in Nat \ {0} /\ m \in Nat \ {0}
    BY <1>1, <1>8, <1>9
  <2>2. oos * IsLen * 1000 = (oos * 2000) * OosLen
    BY ONLY <1>1, oos \in Int
  <2>3. PICK a \in Int : a = oos * 2000
    BY ONLY oos \in Int
  <2>4. ServiceEfficiency(c) = Rounded(oos * IsLen * 1000, net * OosLen)
    BY <1>3, <1>4, <1>8, <1>9 DEF ServiceEfficiency
  <2>5. PICK w \in Int : w = ServiceEfficiency(c) /\ 2 * (net * w) - 2 * a <= net /\ 2 * a - 2 * (net * w) <= net
    <3>1. Rounded(a * OosLen, net * OosLen) = Rounded(a, net)
      BY <1>1, <2>1, Cancelled
    <3>2. ServiceEfficiency(c) = Rounded(a, net)
      <4>1. oos * IsLen * 1000 = a * OosLen
        BY <2>2, <2>3
      <4>2. QED
        BY ONLY <2>4, <3>1, <4>1
    <3>3. QED
      BY <2>1, <3>2, RoundedIsNear
  <2>6. PICK b \in Int : b = g * 2000
    BY ONLY g \in Int
  <2>7. ResearchEfficiency(c) = Rounded(b, m)
    <3>1. ResearchNet(c) * Fine > 2 * Trifle
      BY <1>5, <1>7, <1>9
    <3>2. ResearchEfficiency(c) = Rounded(ResearchGain(c) * 2000, ResearchNet(c))
      BY <3>1 DEF ResearchEfficiency
    <3>3. QED
      BY ONLY <1>5, <1>6, <2>6, <3>2
  <2>8. PICK r \in Int : r = ResearchEfficiency(c) /\ 2 * (m * r) - 2 * b <= m /\ 2 * b - 2 * (m * r) <= m
    <3>1. /\ Rounded(b, m) \in Int
          /\ 2 * (m * Rounded(b, m)) - 2 * b <= m
          /\ 2 * b - 2 * (m * Rounded(b, m)) <= m
      BY ONLY <2>1, b \in Int, RoundedIsNear
    <3>2. QED
      BY <2>7, <3>1
  <2>9. Apart(w, r) <= Slack(w)
    <3>1. Fine \in Nat \ {0} /\ m \in Nat
      BY <1>1, <2>1
    <3>2. Halved(w, oos * 2000, net) /\ Halved(r, g * 2000, m)
      BY ONLY <2>3, <2>5, <2>6, <2>8 DEF Halved
    <3>3. Halved(m, net, Fine) /\ Halved(g, oos, Fine)
      BY ONLY <1>5, <1>6 DEF Halved
    <3>4. QED
      BY ONLY <1>9, <3>1, <3>2, <3>3, EfficiencyGap,
              net \in Int, oos \in Int, g \in Int, w \in Int, r \in Int
  <2>10. QED
    BY <1>4, <1>8, <2>5, <2>8, <2>9
<1>10. CASE ~(m > 200)
  <2>1. ServiceEfficiency(c) = IF oos > 0 THEN 1000 ELSE 0
    BY <1>3, <1>4, <1>8, <1>10 DEF ServiceEfficiency
  <2>2. ResearchEfficiency(c) = IF g > 0 THEN 1000 ELSE 0
    <3>1. ~(ResearchNet(c) * Fine > 2 * Trifle)
      BY <1>5, <1>7, <1>10
    <3>2. QED
      BY <1>6, <3>1 DEF ResearchEfficiency
  <2>3. PICK w \in {0, 1000} : w = ServiceEfficiency(c) /\ w = ResearchEfficiency(c)
    BY <1>8, <1>10, <2>1, <2>2
  <2>4. Apart(w, w) <= Slack(w)
    BY ONLY <2>3 DEF Apart, Slack, Magnitude
  <2>5. QED
    BY <1>4, <1>8, <2>3, <2>4
<1>11. QED
  BY <1>9, <1>10

\* Terms near each other make sums near each other.
LEMMA SumsNear ==
  ASSUME NEW x \in Seq(Int), NEW y \in Seq(Int), NEW z \in Seq(Int), NEW h \in Int, NEW k \in Int,
         Len(y) = Len(x), Len(z) = Len(x),
         \A i \in 1..Len(x) : h * x[i] - k * y[i] <= z[i] /\ k * y[i] - h * x[i] <= z[i]
  PROVE  /\ Total(x) \in Int /\ Total(y) \in Int /\ Total(z) \in Int
         /\ h * Total(x) - k * Total(y) <= Total(z) /\ k * Total(y) - h * Total(x) <= Total(z)
<1>1. PICK n \in Nat : n = Len(x)
  OBVIOUS
<1>2. PICK f : Sums(n, f, x) /\ Total(x) = f[n]
  BY <1>1, TotalIs
<1>3. PICK g : Sums(n, g, y) /\ Total(y) = g[n]
  BY <1>1, TotalIs
<1>4. PICK e : Sums(n, e, z) /\ Total(z) = e[n]
  BY <1>1, TotalIs
<1>5. \A i \in 0..n : f[i] \in Int /\ g[i] \in Int /\ e[i] \in Int
  BY <1>2, <1>3, <1>4 DEF Sums
<1> DEFINE S == {i \in 0..n : h * f[i] - k * g[i] <= e[i] /\ k * g[i] - h * f[i] <= e[i]}
<1>6. 0 \in S
  BY <1>2, <1>3, <1>4 DEF Sums
<1>7. ASSUME NEW i \in 1..n, i - 1 \in S PROVE i \in S
  <2>1. i \in 0..n /\ i - 1 \in 0..n
    OBVIOUS
  <2>2. PICK a \in Int : a = f[i - 1]
    BY <1>5, <2>1
  <2>3. PICK b \in Int : b = g[i - 1]
    BY <1>5, <2>1
  <2>4. PICK c \in Int : c = e[i - 1]
    BY <1>5, <2>1
  <2>5. PICK u \in Int : u = x[i]
    BY <1>1
  <2>6. PICK v \in Int : v = y[i]
    <3>1. y[i] \in Int
      BY <1>1
    <3>2. QED
      BY ONLY <3>1
  <2>7. PICK w \in Int : w = z[i]
    <3>1. z[i] \in Int
      BY <1>1
    <3>2. QED
      BY ONLY <3>1
  <2>8. f[i] = a + u /\ g[i] = b + v /\ e[i] = c + w
    BY <1>2, <1>3, <1>4, <2>2, <2>3, <2>4, <2>5, <2>6, <2>7 DEF Sums
  <2>9. h * a - k * b <= c /\ k * b - h * a <= c
    BY <1>7, <2>2, <2>3, <2>4
  <2>10. h * u - k * v <= w /\ k * v - h * u <= w
    BY <1>1, <2>5, <2>6, <2>7
  <2>11. h * (a + u) = h * a + h * u /\ k * (b + v) = k * b + k * v
    BY ONLY h \in Int, k \in Int, a \in Int, b \in Int, u \in Int, v \in Int
  <2>12. h * (a + u) - k * (b + v) <= c + w /\ k * (b + v) - h * (a + u) <= c + w
    <3>1. PICK ha \in Int : ha = h * a
      BY ONLY h \in Int, a \in Int
    <3>2. PICK hu \in Int : hu = h * u
      BY ONLY h \in Int, u \in Int
    <3>3. PICK kb \in Int : kb = k * b
      BY ONLY k \in Int, b \in Int
    <3>4. PICK kv \in Int : kv = k * v
      BY ONLY k \in Int, v \in Int
    <3>5. ha - kb <= c /\ kb - ha <= c /\ hu - kv <= w /\ kv - hu <= w
      BY <2>9, <2>10, <3>1, <3>2, <3>3, <3>4
    <3>6. (ha + hu) - (kb + kv) <= c + w /\ (kb + kv) - (ha + hu) <= c + w
      BY ONLY <3>5, ha \in Int, hu \in Int, kb \in Int, kv \in Int, c \in Int, w \in Int
    <3>7. QED
      BY <2>11, <3>1, <3>2, <3>3, <3>4, <3>6
  <2>13. QED
    BY <2>1, <2>8, <2>12
<1>8. 0..n \subseteq S
  <2> HIDE DEF S
  <2>1. QED
    BY <1>6, <1>7, InductTo
<1>9. n \in S /\ n \in 0..n
  BY <1>8
<1>10. QED
  BY <1>2, <1>3, <1>4, <1>5, <1>9

LEMMA WholeSequence ==
  ASSUME NEW n \in Nat, NEW f \in [1..n -> Int]
  PROVE  f \in Seq(Int) /\ Len(f) = n /\ DOMAIN f = 1..n
OBVIOUS

LEMMA TotalOfConstant ==
  ASSUME NEW n \in Nat, NEW c \in Int, NEW z \in [1..n -> {c}]
  PROVE  Total(z) = c * n
<1>1. z \in Seq(Int) /\ Len(z) = n /\ \A i \in 1..n : z[i] = c
  OBVIOUS
<1>2. PICK e : Sums(n, e, z) /\ Total(z) = e[n]
  BY <1>1, TotalIs
<1> DEFINE S == {i \in 0..n : e[i] = c * i}
<1>3. 0 \in S
  BY <1>2 DEF Sums
<1>4. ASSUME NEW i \in 1..n, i - 1 \in S PROVE i \in S
  <2>1. e[i] = e[i - 1] + c
    BY <1>1, <1>2 DEF Sums
  <2>2. e[i - 1] = c * (i - 1)
    BY <1>4
  <2>3. c * (i - 1) + c = c * i
    BY ONLY c \in Int, i \in 1..n, n \in Nat
  <2>4. i \in 0..n
    OBVIOUS
  <2>5. QED
    BY <2>1, <2>2, <2>3, <2>4
<1>5. 0..n \subseteq S
  <2> HIDE DEF S
  <2>1. QED
    BY <1>3, <1>4, InductTo
<1>6. n \in S
  BY <1>5
<1>7. QED
  BY <1>2, <1>6

\* Of the same folds the service and the research think alike (wfa.py, 256-305;
\* walk_forward_backtest.py, 191, 239-295), for all folds and whatever they
\* gained: what the two roundings may turn is bounded.
THEOREM SameVerdict == Spec => []VerdictsAgree
<1>1. ASSUME Called PROVE VerdictsAgree
  <2> SUFFICES ASSUME Returned("verdict"),
                      \A k \in DOMAIN input.folds : Clear(input.folds[k]),
                      ~NearZero(Chosen(input.folds, ServiceChoice)),
                      ~NearHalf([k \in DOMAIN Chosen(input.folds, ServiceChoice) |->
                                   ServiceEfficiency(Chosen(input.folds, ServiceChoice)[k])])
               PROVE  outcome.result.service = outcome.result.research
    BY Zenon DEF VerdictsAgree
  <2>1. input.folds \in FoldLists
    BY <1>1, ReturnedRight DEF Argued
  <2>2. /\ outcome.result.service = ServiceVerdict(input.folds)
        /\ outcome.result.research = ResearchVerdict(input.folds)
    BY <1>1, ReturnedRight DEF Right
  <2>3. PICK folds : folds = input.folds /\ folds \in Seq(Seq(Candidate) \ {<<>>})
    BY <2>1, FoldListsAssumption
  <2>4. PICK n \in Nat : n = Len(folds) /\ DOMAIN folds = 1..n
    BY <2>3
  <2>5. PICK c : c = [k \in 1..n |-> ServiceChoice(folds[k])]
    OBVIOUS
  <2>6. ASSUME NEW k \in 1..n
        PROVE  /\ c[k] = ServiceChoice(folds[k]) /\ c[k] = ResearchChoice(folds[k]) /\ c[k].oos \in Int
               /\ ServiceEfficiency(c[k]) \in Int /\ ResearchEfficiency(c[k]) \in Int
               /\ Apart(ServiceEfficiency(c[k]), ResearchEfficiency(c[k])) <= Slack(ServiceEfficiency(c[k]))
    <3>1. folds[k] \in Seq(Candidate) \ {<<>>}
      BY <2>3, <2>4
    <3>2. Clear(folds[k])
      BY <2>3, <2>4, Zenon
    <3>3. c[k] = ServiceChoice(folds[k])
      BY <2>5
    <3>4. QED
      BY <3>1, <3>2, <3>3, ClearIsNear, Zenon
  <2>7. /\ c = Chosen(folds, ServiceChoice) /\ c = Chosen(folds, ResearchChoice)
        /\ DOMAIN c = 1..n /\ Len(c) = n
    <3>1. c = [k \in DOMAIN folds |-> ServiceChoice(folds[k])]
      BY <2>4, <2>5
    <3>2. c = [k \in DOMAIN folds |-> ResearchChoice(folds[k])]
      BY <2>4, <2>5, <2>6
    <3>3. DOMAIN c = 1..n /\ Len(c) = n
      BY <2>5
    <3>4. QED
      BY <3>1, <3>2, <3>3, Zenon DEF Chosen
  <2>8. PICK oos \in Seq(Int) : oos = [k \in DOMAIN c |-> c[k].oos] /\ Len(oos) = n /\ DOMAIN oos = 1..n
    <3>1. \A k \in 1..n : c[k].oos \in Int
      BY <2>6, Zenon
    <3>2. [k \in 1..n |-> c[k].oos] \in [1..n -> Int]
      BY <3>1, Zenon
    <3>3. [k \in DOMAIN c |-> c[k].oos] = [k \in 1..n |-> c[k].oos]
      BY <2>7, Zenon
    <3>4. QED
      BY <3>2, <3>3, WholeSequence, Zenon
  <2>9. PICK w \in Seq(Int) : w = [k \in DOMAIN c |-> ServiceEfficiency(c[k])] /\ Len(w) = n /\ DOMAIN w = 1..n
    <3>1. \A k \in 1..n : ServiceEfficiency(c[k]) \in Int
      BY <2>6, Zenon
    <3>2. [k \in 1..n |-> ServiceEfficiency(c[k])] \in [1..n -> Int]
      BY <3>1, Zenon
    <3>3. [k \in DOMAIN c |-> ServiceEfficiency(c[k])] = [k \in 1..n |-> ServiceEfficiency(c[k])]
      BY <2>7, Zenon
    <3>4. QED
      BY <3>2, <3>3, WholeSequence, Zenon
  <2>10. PICK r \in Seq(Int) : r = [k \in DOMAIN c |-> ResearchEfficiency(c[k])] /\ Len(r) = n /\ DOMAIN r = 1..n
    <3>1. \A k \in 1..n : ResearchEfficiency(c[k]) \in Int
      BY <2>6, Zenon
    <3>2. [k \in 1..n |-> ResearchEfficiency(c[k])] \in [1..n -> Int]
      BY <3>1, Zenon
    <3>3. [k \in DOMAIN c |-> ResearchEfficiency(c[k])] = [k \in 1..n |-> ResearchEfficiency(c[k])]
      BY <2>7, Zenon
    <3>4. QED
      BY <3>2, <3>3, WholeSequence, Zenon
  <2>11. /\ Fine \in Nat \ {0} /\ Coarse \in Nat \ {0} /\ Fine <= Coarse
    BY DigitsAssumption
  <2>12. ASSUME NEW k \in 1..n
         PROVE  /\ ServiceGain(c[k]) \in Int /\ ResearchGain(c[k]) \in Int
                /\ 2 * (Coarse * ServiceGain(c[k])) - 2 * oos[k] <= Coarse
                /\ 2 * oos[k] - 2 * (Coarse * ServiceGain(c[k])) <= Coarse
                /\ 2 * (Fine * ResearchGain(c[k])) - 2 * oos[k] <= Fine
                /\ 2 * oos[k] - 2 * (Fine * ResearchGain(c[k])) <= Fine
    <3>1. PICK o \in Int : o = oos[k] /\ o = c[k].oos
      BY <2>6, <2>7, <2>8
    <3>2. /\ Rounded(o, Coarse) \in Int
          /\ 2 * (Coarse * Rounded(o, Coarse)) - 2 * o <= Coarse
          /\ 2 * o - 2 * (Coarse * Rounded(o, Coarse)) <= Coarse
      BY <2>11, RoundedIsNear
    <3>3. /\ Rounded(o, Fine) \in Int
          /\ 2 * (Fine * Rounded(o, Fine)) - 2 * o <= Fine
          /\ 2 * o - 2 * (Fine * Rounded(o, Fine)) <= Fine
      BY <2>11, RoundedIsNear
    <3>4. ServiceGain(c[k]) = Rounded(o, Coarse) /\ ResearchGain(c[k]) = Rounded(o, Fine)
      BY <3>1, Zenon DEF ServiceGain, ResearchGain
    <3>5. QED
      BY <3>1, <3>2, <3>3, <3>4, Zenon
  <2>13. PICK a \in Seq(Int) : a = [k \in DOMAIN c |-> ServiceGain(c[k])] /\ Len(a) = n /\ DOMAIN a = 1..n
    <3>1. \A k \in 1..n : ServiceGain(c[k]) \in Int
      BY <2>12, Zenon
    <3>2. [k \in 1..n |-> ServiceGain(c[k])] \in [1..n -> Int]
      BY <3>1, Zenon
    <3>3. [k \in DOMAIN c |-> ServiceGain(c[k])] = [k \in 1..n |-> ServiceGain(c[k])]
      BY <2>7, Zenon
    <3>4. QED
      BY <3>2, <3>3, WholeSequence, Zenon
  <2>14. PICK b \in Seq(Int) : b = [k \in DOMAIN c |-> ResearchGain(c[k])] /\ Len(b) = n /\ DOMAIN b = 1..n
    <3>1. \A k \in 1..n : ResearchGain(c[k]) \in Int
      BY <2>12, Zenon
    <3>2. [k \in 1..n |-> ResearchGain(c[k])] \in [1..n -> Int]
      BY <3>1, Zenon
    <3>3. [k \in DOMAIN c |-> ResearchGain(c[k])] = [k \in 1..n |-> ResearchGain(c[k])]
      BY <2>7, Zenon
    <3>4. QED
      BY <3>2, <3>3, WholeSequence, Zenon
\* The gains have the same sign.
  <2>15. Total(a) \in Int /\ Total(b) \in Int /\ (Total(a) > 0 <=> Total(b) > 0)
    <3>1. \A k \in 1..n : a[k] = ServiceGain(c[k]) /\ b[k] = ResearchGain(c[k])
      BY <2>7, <2>13, <2>14
    <3>2. PICK x : x = [k \in 1..n |-> Coarse]
      OBVIOUS
    <3>3. PICK y : y = [k \in 1..n |-> Fine]
      OBVIOUS
    <3>4. /\ x \in [1..n -> {Coarse}] /\ x \in Seq(Int) /\ Len(x) = n /\ \A k \in 1..n : x[k] = Coarse
          /\ y \in [1..n -> {Fine}] /\ y \in Seq(Int) /\ Len(y) = n /\ \A k \in 1..n : y[k] = Fine
      BY <2>11, <3>2, <3>3
    <3>5. PICK C \in Int : C = 2 * Coarse
      BY <2>11
    <3>6. PICK F \in Int : F = 2 * Fine
      BY <2>11
    <3>7. ASSUME NEW k \in 1..n
          PROVE  /\ C * a[k] - 2 * oos[k] <= x[k] /\ 2 * oos[k] - C * a[k] <= x[k]
                 /\ F * b[k] - 2 * oos[k] <= y[k] /\ 2 * oos[k] - F * b[k] <= y[k]
      <4>1. PICK p \in Int : p = a[k] /\ p = ServiceGain(c[k])
        BY <2>12, <3>1
      <4>2. PICK q \in Int : q = b[k] /\ q = ResearchGain(c[k])
        BY <2>12, <3>1
      <4>3. C * p = 2 * (Coarse * p)
        BY ONLY <2>11, <3>5, p \in Int
      <4>4. F * q = 2 * (Fine * q)
        BY ONLY <2>11, <3>6, q \in Int
      <4>5. /\ 2 * (Coarse * p) - 2 * oos[k] <= Coarse /\ 2 * oos[k] - 2 * (Coarse * p) <= Coarse
            /\ 2 * (Fine * q) - 2 * oos[k] <= Fine /\ 2 * oos[k] - 2 * (Fine * q) <= Fine
        BY <2>12, <4>1, <4>2, Zenon
      <4>6. x[k] = Coarse /\ y[k] = Fine
        BY <3>4
      <4>7. QED
        BY <4>1, <4>2, <4>3, <4>4, <4>5, <4>6, Zenon
    <3>8. /\ Total(a) \in Int /\ Total(oos) \in Int
          /\ C * Total(a) - 2 * Total(oos) <= Total(x) /\ 2 * Total(oos) - C * Total(a) <= Total(x)
      <4>1. \A k \in 1..Len(a) : C * a[k] - 2 * oos[k] <= x[k] /\ 2 * oos[k] - C * a[k] <= x[k]
        BY <2>13, <3>7, Zenon
      <4>2. Len(oos) = Len(a) /\ Len(x) = Len(a) /\ 2 \in Int
        BY <2>8, <2>13, <3>4
      <4>3. QED
        BY <3>4, <4>1, <4>2, SumsNear, Zenon
    <3>9. /\ Total(b) \in Int
          /\ F * Total(b) - 2 * Total(oos) <= Total(y) /\ 2 * Total(oos) - F * Total(b) <= Total(y)
      <4>1. \A k \in 1..Len(b) : F * b[k] - 2 * oos[k] <= y[k] /\ 2 * oos[k] - F * b[k] <= y[k]
        BY <2>14, <3>7, Zenon
      <4>2. Len(oos) = Len(b) /\ Len(y) = Len(b) /\ 2 \in Int
        BY <2>8, <2>14, <3>4
      <4>3. QED
        BY <3>4, <4>1, <4>2, SumsNear, Zenon
    <3>10. Total(x) = Coarse * n /\ Total(y) = Fine * n
      <4>1. Coarse \in Int /\ Fine \in Int
        BY <2>11
      <4>2. QED
        BY <3>4, <4>1, TotalOfConstant, Zenon
    <3>11. Fine * n <= Coarse * n
      BY ONLY <2>11, n \in Nat
    <3>12. 2 * Magnitude(Total(oos)) > Coarse * n
      <4>1. ~(2 * Magnitude(Total(oos)) <= Coarse * n)
        BY <2>3, <2>7, <2>8, Zenon DEF NearZero
      <4>2. Magnitude(Total(oos)) \in Int
        BY <3>8 DEF Magnitude
      <4>3. Coarse * n \in Int
        BY ONLY <2>11, n \in Nat
      <4>4. QED
        BY <4>1, <4>2, <4>3
    <3>13. PICK s \in Int : s = Total(oos)
      BY <3>8
    <3>14. PICK cn \in Int : cn = Coarse * n
      BY ONLY <2>11, n \in Nat
    <3>15. PICK fn \in Int : fn = Fine * n
      BY ONLY <2>11, n \in Nat
    <3>16. PICK p \in Int : p = Total(a)
      BY <3>8
    <3>17. PICK q \in Int : q = Total(b)
      BY <3>9
    <3>18. PICK cp \in Int : cp = C * p
      BY ONLY C \in Int, p \in Int
    <3>19. PICK fq \in Int : fq = F * q
      BY ONLY F \in Int, q \in Int
    <3>20. /\ cp - 2 * s <= cn /\ 2 * s - cp <= cn /\ fq - 2 * s <= fn /\ 2 * s - fq <= fn /\ fn <= cn
           /\ 2 * s > cn \/ 2 * s < -cn
      <4>1. /\ cp - 2 * s <= cn /\ 2 * s - cp <= cn /\ fq - 2 * s <= fn /\ 2 * s - fq <= fn /\ fn <= cn
        BY <3>8, <3>9, <3>10, <3>11, <3>13, <3>14, <3>15, <3>16, <3>17, <3>18, <3>19, Zenon
      <4>2. 2 * Magnitude(s) > cn
        BY <3>12, <3>13, <3>14, Zenon
      <4>3. 2 * s > cn \/ 2 * s < -cn
        BY ONLY <4>2, s \in Int, cn \in Int DEF Magnitude
      <4>4. QED
        BY <4>1, <4>3
    <3>21. cp > 0 <=> fq > 0
      BY ONLY <3>20, cp \in Int, fq \in Int, s \in Int, cn \in Int, fn \in Int
    <3>22. (cp > 0 <=> p > 0) /\ (fq > 0 <=> q > 0)
      <4>1. C > 0 /\ F > 0
        BY <2>11, <3>5, <3>6
      <4>2. QED
        BY ONLY <4>1, <3>18, <3>19, C \in Int, F \in Int, p \in Int, q \in Int
    <3>23. QED
      BY <3>16, <3>17, <3>21, <3>22
\* The average efficiencies lie on the same side of 49.95 per cent.
  <2>16. Total(w) \in Int /\ Total(r) \in Int /\ (2 * Total(w) >= 999 * n <=> 2 * Total(r) >= 999 * n)
    <3>1. \A k \in 1..n : w[k] = ServiceEfficiency(c[k]) /\ r[k] = ResearchEfficiency(c[k])
      BY <2>7, <2>9, <2>10
    <3>2. PICK z : z = [k \in DOMAIN w |-> Slack(w[k])]
      BY Zenon
    <3>3. \A k \in 1..n : w[k] \in Int /\ r[k] \in Int
      BY <2>9, <2>10
    <3>4. z \in Seq(Int) /\ Len(z) = n /\ \A k \in 1..n : z[k] = Slack(w[k])
      <4>1. \A k \in 1..n : Slack(w[k]) \in Int
        BY ONLY <3>3 DEF Slack, Magnitude
      <4>2. z = [k \in 1..n |-> Slack(w[k])]
        BY <2>9, <3>2, Zenon
      <4>3. z \in [1..n -> Int]
        BY <4>1, <4>2, Zenon
      <4>4. QED
        BY <4>2, <4>3, WholeSequence, Zenon
    <3>5. ASSUME NEW k \in 1..n
          PROVE  400 * w[k] - 400 * r[k] <= z[k] /\ 400 * r[k] - 400 * w[k] <= z[k]
      <4>1. PICK u \in Int : u = w[k]
        BY <3>3
      <4>2. PICK v \in Int : v = r[k]
        BY <3>3
      <4>3. Apart(u, v) <= Slack(u)
        BY <2>6, <3>1, <4>1, <4>2, Zenon
      <4>4. PICK d \in Int : d = Slack(u)
        <5>1. Slack(u) \in Int
          BY ONLY u \in Int DEF Slack, Magnitude
        <5>2. QED
          BY <5>1, Zenon
      <4>5. 400 * u - 400 * v <= d /\ 400 * v - 400 * u <= d
        BY ONLY <4>3, <4>4, u \in Int, v \in Int, d \in Int DEF Apart, Slack, Magnitude
      <4>6. z[k] = d
        BY <3>4, <4>1, <4>4, Zenon
      <4>7. QED
        BY ONLY <4>1, <4>2, <4>5, <4>6
    <3>6. /\ Total(w) \in Int /\ Total(r) \in Int /\ Total(z) \in Int
          /\ 400 * Total(w) - 400 * Total(r) <= Total(z) /\ 400 * Total(r) - 400 * Total(w) <= Total(z)
      <4>1. \A k \in 1..Len(w) : 400 * w[k] - 400 * r[k] <= z[k] /\ 400 * r[k] - 400 * w[k] <= z[k]
        BY ONLY <2>9, <3>5
      <4>2. Len(r) = Len(w) /\ Len(z) = Len(w) /\ 400 \in Int
        BY <2>9, <2>10, <3>4
      <4>3. PICK h \in Int : h = 400
        BY ONLY <4>2
      <4>4. \A k \in 1..Len(w) : h * w[k] - h * r[k] <= z[k] /\ h * r[k] - h * w[k] <= z[k]
        BY ONLY <4>1, <4>3
      <4>5. /\ Total(w) \in Int /\ Total(r) \in Int /\ Total(z) \in Int
            /\ h * Total(w) - h * Total(r) <= Total(z) /\ h * Total(r) - h * Total(w) <= Total(z)
        BY <3>4, <4>2, <4>4, SumsNear, Zenon
      <4>6. QED
        BY ONLY <4>3, <4>5
    <3>7. ~(200 * Magnitude(2 * Total(w) - 999 * n) <= Total(z))
      <4>1. ~NearHalf(w)
        BY <2>3, <2>7, <2>9, Zenon
      <4>2. QED
        BY ONLY <2>9, <3>2, <4>1 DEF NearHalf
    <3>8. PICK p \in Int : p = Total(w)
      BY <3>6
    <3>9. PICK q \in Int : q = Total(r)
      BY <3>6
    <3>10. PICK t \in Int : t = Total(z)
      BY <3>6
    <3>11. 400 * p - 400 * q <= t /\ 400 * q - 400 * p <= t /\ ~(200 * Magnitude(2 * p - 999 * n) <= t)
      BY ONLY <3>6, <3>7, <3>8, <3>9, <3>10
    <3>12. 2 * p >= 999 * n <=> 2 * q >= 999 * n
      BY ONLY <3>11, p \in Int, q \in Int, t \in Int, n \in Nat DEF Magnitude
    <3>13. QED
      BY <3>6, <3>8, <3>9, <3>12
  <2>17. Passes(a, w) = Passes(b, r)
    <3>1. CASE n = 0
      <4>1. 2 * Magnitude(Total(oos)) <= Coarse * n
        <5>1. oos \in [1..n -> {0}]
          BY <2>8, <3>1
        <5>2. Total(oos) = 0 * n
          BY <5>1, TotalOfConstant
        <5>3. QED
          BY <2>11, <3>1, <5>2 DEF Magnitude
      <4>2. FALSE
        BY <2>3, <2>7, <2>8, <4>1, Zenon DEF NearZero
      <4>3. QED
        BY <4>2
    <3>2. CASE n # 0
      <4>1. n \in Nat \ {0}
        BY <3>2
      <4>2. Rounded(Total(w), n) >= 500 <=> Rounded(Total(r), n) >= 500
        BY <2>16, <4>1, RoundsToHalf
      <4>3. /\ Passes(a, w) <=> Total(a) > 0 /\ Rounded(Total(w), n) >= 500
            /\ Passes(b, r) <=> Total(b) > 0 /\ Rounded(Total(r), n) >= 500
        BY <2>9, <2>10, Zenon DEF Passes
      <4>4. Passes(a, w) <=> Passes(b, r)
        BY <2>15, <4>2, <4>3, Zenon
      <4>5. QED
        BY <4>4, Zenon DEF Passes
    <3>3. QED
      BY <3>1, <3>2
  <2>18. ServiceVerdict(folds) = Passes(a, w) /\ ResearchVerdict(folds) = Passes(b, r)
    <3>1. ServiceVerdict(folds) = Passes(a, w)
      BY <2>7, <2>9, <2>13, Zenon DEF ServiceVerdict, Judged
    <3>2. ResearchVerdict(folds) = Passes(b, r)
      BY <2>7, <2>10, <2>14, Zenon DEF ResearchVerdict, Judged
    <3>3. QED
      BY <3>1, <3>2
  <2>19. QED
    BY <2>2, <2>3, <2>17, <2>18
<1>2. QED
  BY <1>1, AlwaysCalled, PTL

-----------------------------------------------------------------------------
(* The two simulations of a pair                                             *)

PairTrade == [in : Nat, out : Nat, side : {-1, 1}, pnl : Int]
Position0 == [side : {-1, 0, 1}, at : Nat, a : Nat, b : Nat, trades : Seq(PairTrade)]
\* The prices of a position are known.
Positions == {s \in Position0 : s.side # 0 => s.a \in Nat \ {0} /\ s.b \in Nat \ {0}}

LEMMA EntersPosition ==
  ASSUME NEW s \in Positions, NEW bar \in PairBar, NEW i \in Nat
  PROVE  Enter(s, bar, i, EntryZ) \in Positions
<1>1. bar.a \in Nat \ {0} /\ bar.b \in Nat \ {0} /\ s \in Position0
  BY DEF PairBar, Positions
<1>2. PICK side \in {-1, 1} : side = IF bar.z > 0 THEN 1 ELSE -1
  OBVIOUS
<1>3. PICK t : t = [s EXCEPT !.side = side, !.at = i, !.a = bar.a, !.b = bar.b]
  OBVIOUS
<1>4. t \in Position0 /\ t.a = bar.a /\ t.b = bar.b
  BY <1>1, <1>2, <1>3 DEF Position0
<1>5. t \in Positions
  BY <1>1, <1>4 DEF Positions
<1>6. Enter(s, bar, i, EntryZ) = IF Magnitude(bar.z) < EntryZ THEN s ELSE t
  BY <1>2, <1>3 DEF Enter
<1>7. QED
  BY <1>5, <1>6

LEMMA ReturnIsWhole ==
  ASSUME NEW x \in Nat, NEW y \in Nat \ {0}
  PROVE  Return(x, y) \in Int
<1>1. PICK m \in Int : m = (x - y) * Position
  BY PairResearchAssumption
<1>2. (m \div y) \in Int
  OBVIOUS
<1>3. QED
  BY <1>1, <1>2 DEF Return

LEMMA LeavesPosition ==
  ASSUME NEW s \in Positions, s.side # 0, NEW bar \in PairBar, NEW i \in Nat
  PROVE  /\ Leave(s, bar, i) \in Positions
         /\ \E t \in PairTrade : /\ Leave(s, bar, i).trades = Append(s.trades, t)
                                 /\ t.in = s.at /\ t.out = i
<1>1. /\ bar.a \in Nat /\ bar.b \in Nat /\ s.a \in Nat \ {0} /\ s.b \in Nat \ {0}
      /\ s.side \in {-1, 1} /\ s.at \in Nat /\ s.trades \in Seq(PairTrade)
  BY DEF PairBar, Positions, Position0
<1>2. PICK x \in Int, y \in Int : x = Return(bar.b, s.b) /\ y = Return(bar.a, s.a)
  BY <1>1, ReturnIsWhole
<1>3. PairPnl(s, bar) = s.side * (x - y) - PairFee
  BY <1>2 DEF PairPnl
<1>4. PairPnl(s, bar) \in Int
  <2>1. PairFee \in Int
    BY PairResearchAssumption
  <2>2. CASE s.side = 1
    BY <1>3, <2>1, <2>2
  <2>3. CASE s.side = -1
    BY <1>3, <2>1, <2>3
  <2>4. QED
    BY <1>1, <2>2, <2>3
<1>5. PICK t : t = [in |-> s.at, out |-> i, side |-> s.side, pnl |-> PairPnl(s, bar)]
  OBVIOUS
<1>6. t \in PairTrade /\ t.in = s.at /\ t.out = i
  BY <1>1, <1>4, <1>5 DEF PairTrade
<1>7. PICK r : r = Append(s.trades, t)
  OBVIOUS
<1>8. r \in Seq(PairTrade)
  <2>1. PICK w \in Seq(PairTrade) : w = s.trades
    BY <1>1
  <2>2. t \in PairTrade
    BY <1>6
  <2>3. r = Append(w, t)
    BY <1>7, <2>1
  <2>4. QED
    BY ONLY w \in Seq(PairTrade), <2>2, <2>3
<1>9. Leave(s, bar, i) = [side |-> 0, at |-> 0, a |-> 0, b |-> 0, trades |-> r]
  <2>1. Leave(s, bar, i) = [Flat EXCEPT !.trades = r]
    BY <1>5, <1>7 DEF Leave
  <2>2. QED
    BY <2>1 DEF Flat
<1>10. Leave(s, bar, i) \in Positions /\ Leave(s, bar, i).trades = r
  BY <1>8, <1>9 DEF Positions, Position0
<1>11. QED
  BY <1>6, <1>7, <1>10

ServiceStep(s, bars, i) ==
  IF s.side = 0 THEN Enter(s, bars[i], i, EntryZ)
  ELSE IF Leaves(s, bars[i], i, Len(bars), EntryZ) THEN Leave(s, bars[i], i) ELSE s

ResearchStep(s, bars, i) ==
  IF s.side = 0 THEN Enter(s, bars[i], i, EntryZ)
  ELSE IF ResearchLeaves(s, bars[i], i, EntryZ) THEN Leave(s, bars[i], i) ELSE s

LEMMA ServiceStates ==
  ASSUME NEW bars \in Seq(PairBar)
  PROVE  \E f \in [0..Len(bars) -> Positions] :
           /\ f[0] = Flat
           /\ \A i \in 1..Len(bars) : f[i] = ServiceStep(f[i - 1], bars, i)
           /\ ServiceTrades(bars, EntryZ) = f[Len(bars)].trades
<1>0. /\ Len(bars) \in Nat
      /\ Len(Indices(bars)) = Len(bars) /\ DOMAIN Indices(bars) = 1..Len(bars)
      /\ \A i \in 1..Len(bars) : (Indices(bars))[i] = i
  BY DEF Indices
<1>1. PICK n \in Nat : n = Len(Indices(bars)) /\ DOMAIN Indices(bars) = 1..n
  BY <1>0
<1> DEFINE Op(s, x) == IF s.side = 0 THEN Enter(s, bars[x], x, EntryZ)
                       ELSE IF Leaves(s, bars[x], x, Len(bars), EntryZ) THEN Leave(s, bars[x], x)
                       ELSE s
           V == Positions
           base == Flat
<1>2. base \in V /\ \A s \in V, i \in 1..n : Op(s, (Indices(bars))[i]) \in V
  <2>1. ASSUME NEW s \in Positions, NEW i \in 1..n PROVE Op(s, (Indices(bars))[i]) \in Positions
    <3>1. i \in Nat /\ bars[i] \in PairBar /\ (Indices(bars))[i] = i
      BY <1>0, <1>1
    <3>2. Op(s, i) \in Positions
      <4> HIDE DEF V, base
      <4>1. CASE s.side = 0
        BY <3>1, <4>1, EntersPosition
      <4>2. CASE s.side # 0
        BY <3>1, <4>2, LeavesPosition
      <4>3. QED
        BY <4>1, <4>2
    <3>3. QED
      <4> HIDE DEF Op, V, base
      <4>1. QED
        BY <3>1, <3>2
  <2>2. base \in V
    <3>1. <<>> \in Seq(PairTrade)
      OBVIOUS
    <3>2. QED
      BY <3>1 DEF Positions, Position0, Flat
  <2>3. QED
    <3> HIDE DEF Op, base
    <3>1. QED
      BY <2>1, <2>2
<1>3. PICK F : F = [p \in V \X (1..n) |-> Op(p[1], (Indices(bars))[p[2]])]
  OBVIOUS
<1>4. F \in [V \X (1..n) -> V] /\ \A s \in V, i \in 1..n : F[<<s, i>>] = Op(s, (Indices(bars))[i])
  <2> HIDE DEF Op, V, base
  <2>1. \A p \in V \X (1..n) : p[1] \in V /\ p[2] \in 1..n
    OBVIOUS
  <2>2. QED
    BY <1>2, <1>3, <2>1
<1>5. PICK g \in [SUBSET (1..n) -> V] : FoldRule(g, F, base, n)
  <2> HIDE DEF Op, V, base
  <2>1. QED
    BY <1>2, <1>4, FoldExists
<1> DEFINE Rule(it) == it = [s \in SUBSET (DOMAIN Indices(bars)) |->
                               IF s = {} THEN base ELSE Op(it[s \ {Max(s)}], (Indices(bars))[Max(s)])]
<1>6. Rule(g)
  <2> HIDE DEF Op, V, base
  <2>1. ASSUME NEW s \in SUBSET (1..n)
        PROVE  g[s] = IF s = {} THEN base ELSE Op(g[s \ {Max(s)}], (Indices(bars))[Max(s)])
    <3>1. CASE s = {}
      BY <1>5, <3>1 DEF FoldRule
    <3>2. CASE s # {}
      <4>1. Max(s) \in 1..n /\ s \ {Max(s)} \in SUBSET (1..n)
        BY <3>2, LargestOf
      <4>2. g[s \ {Max(s)}] \in V
        BY <4>1
      <4>3. F[<<g[s \ {Max(s)}], Max(s)>>] = Op(g[s \ {Max(s)}], (Indices(bars))[Max(s)])
        BY <1>4, <4>1, <4>2
      <4>4. QED
        BY <1>5, <3>2, <4>3 DEF FoldRule
    <3>3. QED
      BY <3>1, <3>2
  <2>2. QED
    BY <1>1, <2>1
<1>7. PICK h : h = CHOOSE it : Rule(it)
  OBVIOUS
<1>8. Rule(h)
  <2> HIDE DEF Rule
  <2>1. QED
    BY <1>6, <1>7, Zenon
<1>9. ServiceTrades(bars, EntryZ) = h[DOMAIN Indices(bars)].trades
  BY <1>7, Zenon DEF ServiceTrades, FoldLeft, MapThenFoldSet
<1>10. FoldsLike(h, V, F, base, n)
  <2> HIDE DEF Op, V, base
  <2>1. ASSUME NEW T \in SUBSET (1..n), T # {}, h[T \ {Max(T)}] \in V
        PROVE  h[T] = F[<<h[T \ {Max(T)}], Max(T)>>]
    <3>1. Max(T) \in 1..n
      BY <2>1, LargestOf
    <3>2. h[T] = Op(h[T \ {Max(T)}], (Indices(bars))[Max(T)])
      BY <1>1, <1>8, <2>1
    <3>3. QED
      BY <1>4, <2>1, <3>1, <3>2
  <2>2. ASSUME NEW T \in SUBSET (1..n), T = {} PROVE h[T] = base
    BY <1>1, <1>8, <2>2
  <2>3. QED
    BY <1>2, <1>4, <2>1, <2>2 DEF FoldsLike
<1>11. PICK f \in [0..n -> V] : Stepwise(f, F, base, n) /\ h[1..n] = f[n]
  <2> HIDE DEF Op, V, base
  <2>1. QED
    BY <1>10, FoldValue DEF Followed
<1>12. f[0] = base /\ \A i \in 1..n : f[i] = Op(f[i - 1], (Indices(bars))[i])
  <2> HIDE DEF Op, V, base
  <2>1. ASSUME NEW i \in 1..n PROVE f[i] = Op(f[i - 1], (Indices(bars))[i])
    <3>1. i - 1 \in 0..n
      OBVIOUS
    <3>2. QED
      BY <1>4, <1>11, <3>1 DEF Stepwise
  <2>2. QED
    BY <1>11, <2>1 DEF Stepwise
<1>13. \A i \in 1..n : f[i] = ServiceStep(f[i - 1], bars, i)
  <2>1. ASSUME NEW i \in 1..n PROVE f[i] = ServiceStep(f[i - 1], bars, i)
    <3>1. f[i] = Op(f[i - 1], i)
      <4> HIDE DEF Op, V, base
      <4>1. QED
        BY <1>0, <1>1, <1>12
    <3>2. QED
      BY <3>1 DEF ServiceStep
  <2>2. QED
    BY <2>1
<1>14. n = Len(bars) /\ ServiceTrades(bars, EntryZ) = f[n].trades /\ f \in [0..n -> Positions]
  <2> HIDE DEF Op, Rule, base
  <2>1. QED
    BY <1>0, <1>1, <1>9, <1>11
<1>15. QED
  <2> HIDE DEF Op, Rule
  <2>1. QED
    BY <1>12, <1>13, <1>14

LEMMA ResearchStates ==
  ASSUME NEW bars \in Seq(PairBar)
  PROVE  \E f \in [0..Len(bars) -> Positions] :
           /\ f[0] = Flat
           /\ \A i \in 1..Len(bars) : f[i] = ResearchStep(f[i - 1], bars, i)
           /\ ResearchTrades(bars, EntryZ) = f[Len(bars)].trades
<1>0. /\ Len(bars) \in Nat
      /\ Len(Indices(bars)) = Len(bars) /\ DOMAIN Indices(bars) = 1..Len(bars)
      /\ \A i \in 1..Len(bars) : (Indices(bars))[i] = i
  BY DEF Indices
<1>1. PICK n \in Nat : n = Len(Indices(bars)) /\ DOMAIN Indices(bars) = 1..n
  BY <1>0
<1> DEFINE Op(s, x) == IF s.side = 0 THEN Enter(s, bars[x], x, EntryZ)
                       ELSE IF ResearchLeaves(s, bars[x], x, EntryZ) THEN Leave(s, bars[x], x)
                       ELSE s
           V == Positions
           base == Flat
<1>2. base \in V /\ \A s \in V, i \in 1..n : Op(s, (Indices(bars))[i]) \in V
  <2>1. ASSUME NEW s \in Positions, NEW i \in 1..n PROVE Op(s, (Indices(bars))[i]) \in Positions
    <3>1. i \in Nat /\ bars[i] \in PairBar /\ (Indices(bars))[i] = i
      BY <1>0, <1>1
    <3>2. Op(s, i) \in Positions
      <4> HIDE DEF V, base
      <4>1. CASE s.side = 0
        BY <3>1, <4>1, EntersPosition
      <4>2. CASE s.side # 0
        BY <3>1, <4>2, LeavesPosition
      <4>3. QED
        BY <4>1, <4>2
    <3>3. QED
      <4> HIDE DEF Op, V, base
      <4>1. QED
        BY <3>1, <3>2
  <2>2. base \in V
    <3>1. <<>> \in Seq(PairTrade)
      OBVIOUS
    <3>2. QED
      BY <3>1 DEF Positions, Position0, Flat
  <2>3. QED
    <3> HIDE DEF Op, base
    <3>1. QED
      BY <2>1, <2>2
<1>3. PICK F : F = [p \in V \X (1..n) |-> Op(p[1], (Indices(bars))[p[2]])]
  OBVIOUS
<1>4. F \in [V \X (1..n) -> V] /\ \A s \in V, i \in 1..n : F[<<s, i>>] = Op(s, (Indices(bars))[i])
  <2> HIDE DEF Op, V, base
  <2>1. \A p \in V \X (1..n) : p[1] \in V /\ p[2] \in 1..n
    OBVIOUS
  <2>2. QED
    BY <1>2, <1>3, <2>1
<1>5. PICK g \in [SUBSET (1..n) -> V] : FoldRule(g, F, base, n)
  <2> HIDE DEF Op, V, base
  <2>1. QED
    BY <1>2, <1>4, FoldExists
<1> DEFINE Rule(it) == it = [s \in SUBSET (DOMAIN Indices(bars)) |->
                               IF s = {} THEN base ELSE Op(it[s \ {Max(s)}], (Indices(bars))[Max(s)])]
<1>6. Rule(g)
  <2> HIDE DEF Op, V, base
  <2>1. ASSUME NEW s \in SUBSET (1..n)
        PROVE  g[s] = IF s = {} THEN base ELSE Op(g[s \ {Max(s)}], (Indices(bars))[Max(s)])
    <3>1. CASE s = {}
      BY <1>5, <3>1 DEF FoldRule
    <3>2. CASE s # {}
      <4>1. Max(s) \in 1..n /\ s \ {Max(s)} \in SUBSET (1..n)
        BY <3>2, LargestOf
      <4>2. g[s \ {Max(s)}] \in V
        BY <4>1
      <4>3. F[<<g[s \ {Max(s)}], Max(s)>>] = Op(g[s \ {Max(s)}], (Indices(bars))[Max(s)])
        BY <1>4, <4>1, <4>2
      <4>4. QED
        BY <1>5, <3>2, <4>3 DEF FoldRule
    <3>3. QED
      BY <3>1, <3>2
  <2>2. QED
    BY <1>1, <2>1
<1>7. PICK h : h = CHOOSE it : Rule(it)
  OBVIOUS
<1>8. Rule(h)
  <2> HIDE DEF Rule
  <2>1. QED
    BY <1>6, <1>7, Zenon
<1>9. ResearchTrades(bars, EntryZ) = h[DOMAIN Indices(bars)].trades
  BY <1>7, Zenon DEF ResearchTrades, FoldLeft, MapThenFoldSet
<1>10. FoldsLike(h, V, F, base, n)
  <2> HIDE DEF Op, V, base
  <2>1. ASSUME NEW T \in SUBSET (1..n), T # {}, h[T \ {Max(T)}] \in V
        PROVE  h[T] = F[<<h[T \ {Max(T)}], Max(T)>>]
    <3>1. Max(T) \in 1..n
      BY <2>1, LargestOf
    <3>2. h[T] = Op(h[T \ {Max(T)}], (Indices(bars))[Max(T)])
      BY <1>1, <1>8, <2>1
    <3>3. QED
      BY <1>4, <2>1, <3>1, <3>2
  <2>2. ASSUME NEW T \in SUBSET (1..n), T = {} PROVE h[T] = base
    BY <1>1, <1>8, <2>2
  <2>3. QED
    BY <1>2, <1>4, <2>1, <2>2 DEF FoldsLike
<1>11. PICK f \in [0..n -> V] : Stepwise(f, F, base, n) /\ h[1..n] = f[n]
  <2> HIDE DEF Op, V, base
  <2>1. QED
    BY <1>10, FoldValue DEF Followed
<1>12. f[0] = base /\ \A i \in 1..n : f[i] = Op(f[i - 1], (Indices(bars))[i])
  <2> HIDE DEF Op, V, base
  <2>1. ASSUME NEW i \in 1..n PROVE f[i] = Op(f[i - 1], (Indices(bars))[i])
    <3>1. i - 1 \in 0..n
      OBVIOUS
    <3>2. QED
      BY <1>4, <1>11, <3>1 DEF Stepwise
  <2>2. QED
    BY <1>11, <2>1 DEF Stepwise
<1>13. \A i \in 1..n : f[i] = ResearchStep(f[i - 1], bars, i)
  <2>1. ASSUME NEW i \in 1..n PROVE f[i] = ResearchStep(f[i - 1], bars, i)
    <3>1. f[i] = Op(f[i - 1], i)
      <4> HIDE DEF Op, V, base
      <4>1. QED
        BY <1>0, <1>1, <1>12
    <3>2. QED
      BY <3>1 DEF ResearchStep
  <2>2. QED
    BY <2>1
<1>14. n = Len(bars) /\ ResearchTrades(bars, EntryZ) = f[n].trades /\ f \in [0..n -> Positions]
  <2> HIDE DEF Op, Rule, base
  <2>1. QED
    BY <1>0, <1>1, <1>9, <1>11
<1>15. QED
  <2> HIDE DEF Op, Rule
  <2>1. QED
    BY <1>12, <1>13, <1>14

\* Before the last bar the two leave a position together.
LEMMA LeavesTogether ==
  ASSUME NEW s \in Positions, s.side # 0, NEW bar \in PairBar, NEW i \in Nat, NEW n \in Nat, i # n
  PROVE  Leaves(s, bar, i, n, EntryZ) <=> ResearchLeaves(s, bar, i, EntryZ)
<1>1. s.side \in {-1, 1} /\ bar.z \in Int /\ ExitZ \in Nat
  BY PairResearchAssumption DEF Positions, Position0, PairBar
<1>2. PICK limit \in Nat : limit = EntryZ * StopMult
  BY PairResearchAssumption, PairBarsAssumption
<1>3. PICK z \in Int : z = bar.z
  BY <1>1
<1>4. (s.side * z <= ExitZ \/ Magnitude(z) >= limit) <=> (s.side * z <= ExitZ \/ s.side * z >= limit)
  <2>1. CASE s.side = 1
    BY <1>1, <2>1 DEF Magnitude
  <2>2. CASE s.side = -1
    BY <1>1, <2>2 DEF Magnitude
  <2>3. QED
    BY <1>1, <2>1, <2>2
<1>5. Leaves(s, bar, i, n, EntryZ) <=>
        (s.side * z <= ExitZ \/ Magnitude(z) >= limit) \/ i - s.at >= MaxHolding
  BY <1>2, <1>3 DEF Leaves
<1>6. ResearchLeaves(s, bar, i, EntryZ) <=>
        (s.side * z <= ExitZ \/ s.side * z >= limit) \/ i - s.at >= MaxHolding
  BY <1>2, <1>3 DEF ResearchLeaves
<1>7. QED
  BY <1>4, <1>5, <1>6

\* What the service adds at the last bar is the position that is still open.
LEMMA LastBar ==
  ASSUME NEW s \in Positions, NEW bars \in Seq(PairBar), NEW n \in Nat \ {0}, n = Len(bars)
  PROVE  LET t == ServiceStep(s, bars, n).trades
             r == ResearchStep(s, bars, n).trades
         IN t = r \/ (/\ t # <<>> /\ r = Front(t)
                      /\ Last(t).out = n /\ Last(t).out - Last(t).in < MaxHolding)
<1>1. bars[n] \in PairBar /\ n \in Nat
  OBVIOUS
<1>2. CASE s.side = 0
  BY <1>2 DEF ServiceStep, ResearchStep
<1>3. CASE s.side # 0 /\ ResearchLeaves(s, bars[n], n, EntryZ)
  <2>1. Leaves(s, bars[n], n, Len(bars), EntryZ)
    BY DEF Leaves
  <2>2. QED
    BY <1>3, <2>1 DEF ServiceStep, ResearchStep
<1>4. CASE s.side # 0 /\ ~ResearchLeaves(s, bars[n], n, EntryZ)
  <2>1. Leaves(s, bars[n], n, Len(bars), EntryZ)
    BY DEF Leaves
  <2>2. PICK x \in PairTrade : /\ Leave(s, bars[n], n).trades = Append(s.trades, x)
                               /\ x.in = s.at /\ x.out = n
    BY <1>1, <1>4, LeavesPosition
  <2>3. PICK r \in Seq(PairTrade) : r = s.trades
    BY DEF Positions, Position0
  <2>4. PICK t : t = Append(r, x)
    OBVIOUS
  <2>5. t \in Seq(PairTrade) /\ Len(t) = Len(r) + 1 /\ t[Len(t)] = x /\ \A i \in 1..Len(r) : t[i] = r[i]
    BY <2>4
  <2>6. t # <<>> /\ Last(t) = x
    BY <2>5 DEF Last
  <2>7. r = Front(t)
    <3>1. PICK k \in Nat : k = Len(r)
      OBVIOUS
    <3>2. Len(t) - 1 = k
      BY <2>5, <3>1
    <3>3. PICK u : u = SubSeq(t, 1, k)
      OBVIOUS
    <3>4. Front(t) = u
      BY <3>2, <3>3 DEF Front
    <3>5. u \in Seq(PairTrade) /\ Len(u) = k /\ \A i \in 1..k : u[i] = t[i]
      BY <2>5, <3>1, <3>3
    <3>6. r = [i \in 1..k |-> r[i]] /\ u = [i \in 1..k |-> u[i]]
      BY <3>1, <3>5
    <3>7. QED
      BY <2>5, <3>1, <3>4, <3>5, <3>6
  <2>8. ServiceStep(s, bars, n).trades = t
    BY <1>4, <2>1, <2>2, <2>3, <2>4 DEF ServiceStep
  <2>9. ResearchStep(s, bars, n).trades = r
    BY <1>4, <2>3 DEF ResearchStep
  <2>10. n - s.at < MaxHolding
    <3>1. ~(n - s.at >= MaxHolding)
      BY <1>4 DEF ResearchLeaves
    <3>2. s.at \in Nat /\ MaxHolding \in Nat
      BY PairResearchAssumption DEF Positions, Position0
    <3>3. QED
      BY <3>1, <3>2
  <2>11. QED
    BY <2>2, <2>6, <2>7, <2>8, <2>9, <2>10
<1>5. QED
  BY <1>2, <1>3, <1>4

\* The service judges a pair by the trades of the research and, at most, one more:
\* the position still open at the end of the segment
\* (simulate_segment in recalibration/wfa.py and research/walk_forward_backtest.py).
THEOREM SimulationsAgree == Spec => []SimulatorsAgree
<1>1. ASSUME Called PROVE SimulatorsAgree
  <2> SUFFICES ASSUME Returned("trades") PROVE SimulatorsAgree
    BY DEF SimulatorsAgree
  <2>1. PICK bars \in Seq(PairBar) : input.bars = bars
    BY <1>1, ReturnedRight, PairBarsAssumption DEF Argued
  <2>2. outcome.result = [service |-> ServiceTrades(bars, EntryZ), research |-> ResearchTrades(bars, EntryZ)]
    BY <1>1, <2>1, ReturnedRight DEF Right
  <2>3. PICK n \in Nat : n = Len(bars)
    BY <2>1
  <2>4. PICK f \in [0..n -> Positions] :
          /\ f[0] = Flat
          /\ \A i \in 1..n : f[i] = ServiceStep(f[i - 1], bars, i)
          /\ ServiceTrades(bars, EntryZ) = f[n].trades
    BY <2>3, ServiceStates
  <2>5. PICK g \in [0..n -> Positions] :
          /\ g[0] = Flat
          /\ \A i \in 1..n : g[i] = ResearchStep(g[i - 1], bars, i)
          /\ ResearchTrades(bars, EntryZ) = g[n].trades
    BY <2>3, ResearchStates
  <2>6. CASE n = 0
    BY <2>2, <2>4, <2>5, <2>6 DEF SimulatorsAgree
  <2>7. CASE n # 0
    <3>1. PICK m \in Nat : m = n - 1
      BY <2>7
    <3> DEFINE S == {i \in 0..m : f[i] = g[i]}
    <3>2. 0 \in S
      BY <2>4, <2>5
    <3>3. ASSUME NEW i \in 1..m, i - 1 \in S PROVE i \in S
      <4>1. i \in 1..n /\ i # n /\ i \in Nat /\ i - 1 \in 0..n /\ bars[i] \in PairBar
        BY <2>3, <3>1
      <4>2. PICK s \in Positions : s = f[i - 1] /\ s = g[i - 1]
        BY <3>3, <4>1
      <4>3. s.side # 0 => (Leaves(s, bars[i], i, Len(bars), EntryZ) <=> ResearchLeaves(s, bars[i], i, EntryZ))
        BY <2>3, <4>1, LeavesTogether
      <4>4. ServiceStep(s, bars, i) = ResearchStep(s, bars, i)
        BY <4>3 DEF ServiceStep, ResearchStep
      <4>5. f[i] = g[i]
        BY <2>4, <2>5, <4>1, <4>2, <4>4
      <4>6. QED
        BY <4>5
    <3>4. 0..m \subseteq S
      <4> HIDE DEF S
      <4>1. QED
        BY <3>2, <3>3, InductTo
    <3>5. PICK s \in Positions : s = f[n - 1] /\ s = g[n - 1]
      <4>1. m \in 0..m /\ n - 1 \in 0..n
        BY <3>1
      <4>2. QED
        BY <3>1, <3>4, <4>1
    <3>6. f[n] = ServiceStep(s, bars, n) /\ g[n] = ResearchStep(s, bars, n)
      <4>1. n \in 1..n
        BY <2>7
      <4>2. QED
        BY <2>4, <2>5, <3>5, <4>1
    <3>7. PICK t, r : /\ t = outcome.result.service /\ r = outcome.result.research
                      /\ t = f[n].trades /\ r = g[n].trades
      BY <2>2, <2>4, <2>5
    <3>8. t = r \/ (/\ t # <<>> /\ r = Front(t)
                    /\ Last(t).out = n /\ Last(t).out - Last(t).in < MaxHolding)
      BY <2>3, <2>7, <3>6, <3>7, LastBar
    <3>9. QED
      BY <2>1, <2>3, <3>7, <3>8 DEF SimulatorsAgree
  <2>8. QED
    BY <2>6, <2>7
<1>2. QED
  BY <1>1, AlwaysCalled, PTL
-----------------------------------------------------------------------------
(* Holding a position                                                        *)

Priced(bars) ==
  /\ Len(bars) \in Nat
  /\ \A k \in 1..Len(bars) : bars[k].o \in Nat /\ bars[k].h \in Nat /\ bars[k].l \in Nat /\ bars[k].c \in Nat

Reasons == {"open", "take_profit", "stop_loss", "trailing_stop", "time_stop"}
Held == [active : BOOLEAN, peak : Nat, exit : [at : Nat, price : Int, reason : Reasons]]
NotHeld == [active |-> FALSE, peak |-> 0, exit |-> Unset]

LEMMA HeldOn ==
  ASSUME NEW s \in Held, NEW bar, bar.h \in Nat, bar.l \in Nat, bar.c \in Nat, NEW k \in Nat,
         NEW dir \in {1, -1}, NEW price \in Int
  PROVE  HoldBar(s, bar, k, dir, price) \in Held
<1>0. Tp \in Nat /\ Sl \in Nat /\ TrailBy \in Nat
  BY SignalBacktestAssumption
<1>1. ASSUME NEW t \in Held, NEW p \in Int, NEW reason \in Reasons
      PROVE  ExitAt(t, k, p, reason) \in Held
  <2>1. ExitAt(t, k, p, reason) = [active |-> t.active, peak |-> t.peak,
                                   exit |-> [at |-> k, price |-> p, reason |-> reason]]
    BY DEF ExitAt, Held
  <2>2. QED
    BY <2>1 DEF Held
<1>2. price * (1000 + dir * Tp) \in Int /\ price * (1000 - dir * Sl) \in Int
  <2>1. PICK x \in Int, y \in Int : x = 1000 + dir * Tp /\ y = 1000 - dir * Sl
    BY <1>0
  <2>2. price * x \in Int /\ price * y \in Int
    OBVIOUS
  <2>3. QED
    BY <2>1, <2>2
<1>3. ASSUME NEW t \in Held PROVE TrailStop(t.peak, dir) \in Int
  <2>1. PICK x \in Int, y \in Int : x = 1000 - dir * TrailBy /\ y = t.peak * 10
    BY <1>0 DEF Held
  <2>2. y * x \in Int
    OBVIOUS
  <2>3. QED
    BY <2>1, <2>2 DEF TrailStop
<1>4. PICK t : t = Trailed(s, bar, dir, price)
  OBVIOUS
<1>5. t \in Held
  <2>1. Favour(bar, dir) \in Nat
    BY DEF Favour
  <2>2. PICK peak \in Nat : peak = IF s.peak > 0 /\ dir * s.peak >= dir * Favour(bar, dir)
                                   THEN s.peak ELSE Favour(bar, dir)
    BY <2>1 DEF Held
  <2>3. t = s \/ t = [s EXCEPT !.active = TRUE, !.peak = peak]
    BY <1>4, <2>2 DEF Trailed
  <2>4. [s EXCEPT !.active = TRUE, !.peak = peak] \in Held
    BY DEF Held
  <2>5. QED
    BY <2>3, <2>4
<1>6. bar.c * 10000 \in Int
  OBVIOUS
<1>7. \/ HoldBar(s, bar, k, dir, price) = s
      \/ HoldBar(s, bar, k, dir, price) = ExitAt(s, k, price * (1000 + dir * Tp), "take_profit")
      \/ HoldBar(s, bar, k, dir, price) = ExitAt(s, k, price * (1000 - dir * Sl), "stop_loss")
      \/ HoldBar(s, bar, k, dir, price) = ExitAt(t, k, TrailStop(t.peak, dir), "trailing_stop")
      \/ HoldBar(s, bar, k, dir, price) = ExitAt(t, k, bar.c * 10000, "time_stop")
  BY <1>4 DEF HoldBar
<1>8. /\ ExitAt(s, k, price * (1000 + dir * Tp), "take_profit") \in Held
      /\ ExitAt(s, k, price * (1000 - dir * Sl), "stop_loss") \in Held
      /\ ExitAt(t, k, TrailStop(t.peak, dir), "trailing_stop") \in Held
      /\ ExitAt(t, k, bar.c * 10000, "time_stop") \in Held
  <2>1. {"take_profit", "stop_loss", "trailing_stop", "time_stop"} \subseteq Reasons
    BY DEF Reasons
  <2>2. ExitAt(s, k, price * (1000 + dir * Tp), "take_profit") \in Held
    BY <1>1, <1>2, <2>1
  <2>3. ExitAt(s, k, price * (1000 - dir * Sl), "stop_loss") \in Held
    BY <1>1, <1>2, <2>1
  <2>4. ExitAt(t, k, TrailStop(t.peak, dir), "trailing_stop") \in Held
    BY <1>1, <1>3, <1>5, <2>1
  <2>5. ExitAt(t, k, bar.c * 10000, "time_stop") \in Held
    BY <1>1, <1>5, <1>6, <2>1
  <2>6. QED
    BY <2>2, <2>3, <2>4, <2>5
<1>9. QED
  BY <1>7, <1>8

LEMMA NotHeldYet == NotHeld \in Held
  BY DEF NotHeld, Held, Unset, Reasons

\* The bars a position may be held for.
LastHeld(bars, at) == IF at + MaxHold - 1 <= Len(bars) THEN at + MaxHold - 1 ELSE Len(bars)

HoldSteps(f, n, bars, dir, entry) ==
  /\ f \in [0..n -> Held]
  /\ f[0] = NotHeld
  /\ \A j \in 1..n : f[j] = HoldBar(f[j - 1], bars[entry.at + j - 1], entry.at + j - 1, dir, entry.price)
  /\ Hold(bars, dir, entry) = f[n].exit

Instants(bars, at) == [j \in 1..(LastHeld(bars, at) - at + 1) |-> at + j - 1]

LEMMA HoldLasts ==
  ASSUME NEW bars, Priced(bars), NEW at \in Nat \ {0}, at <= Len(bars),
         NEW n, n = LastHeld(bars, at) - at + 1
  PROVE  /\ n \in Nat \ {0} /\ at + n - 1 = LastHeld(bars, at) /\ at + n - 1 <= Len(bars)
         /\ Len(Instants(bars, at)) = n /\ DOMAIN Instants(bars, at) = 1..n
         /\ \A j \in 1..n : (Instants(bars, at))[j] = at + j - 1 /\ at + j - 1 \in 1..Len(bars)
<1>1. PICK len \in Nat : len = Len(bars)
  BY DEF Priced
<1>2. MaxHold \in Nat \ {0} /\ at <= len
  BY <1>1, SignalBacktestAssumption
<1>3. PICK x \in Nat : x = LastHeld(bars, at) /\ at <= x /\ x <= len
  <2>1. PICK m \in Nat \ {0} : m = MaxHold
    BY <1>2
  <2>2. PICK x : x = LastHeld(bars, at)
    OBVIOUS
  <2>3. x = IF at + m - 1 <= len THEN at + m - 1 ELSE len
    BY <1>1, <2>1, <2>2 DEF LastHeld
  <2>4. x \in Nat /\ at <= x /\ x <= len
    BY ONLY <1>2, <2>3, m \in Nat \ {0}, at \in Nat \ {0}, len \in Nat
  <2>5. QED
    BY <2>2, <2>4
<1>4. n = x - at + 1 /\ n \in Nat \ {0} /\ at + n - 1 = x
  BY <1>3
<1>5. PICK y : y = [j \in 1..n |-> at + j - 1]
  OBVIOUS
<1>6. Len(y) = n /\ DOMAIN y = 1..n
  BY ONLY <1>4, <1>5
<1>7. \A j \in 1..n : y[j] = at + j - 1 /\ y[j] \in 1..len
  BY ONLY <1>3, <1>4, <1>5, x \in Nat, at \in Nat \ {0}, len \in Nat
<1>8. Instants(bars, at) = y
  BY <1>3, <1>4, <1>5 DEF Instants
<1>9. QED
  BY <1>1, <1>3, <1>4, <1>6, <1>7, <1>8

LEMMA HoldStates ==
  ASSUME NEW bars, Priced(bars), NEW dir \in {1, -1}, NEW entry, entry.price \in Int,
         entry.at \in Nat \ {0}, entry.at <= Len(bars),
         NEW n \in Nat \ {0}, n = LastHeld(bars, entry.at) - entry.at + 1
  PROVE  \E f : HoldSteps(f, n, bars, dir, entry)
<1> DEFINE held == Instants(bars, entry.at)
<1>0. /\ Len(held) = n /\ DOMAIN held = 1..n
      /\ \A j \in 1..n : held[j] = entry.at + j - 1 /\ held[j] \in 1..Len(bars)
  <2>1. PICK at \in Nat \ {0} : at = entry.at
    OBVIOUS
  <2>2. at <= Len(bars) /\ n = LastHeld(bars, at) - at + 1
    BY <2>1
  <2>3. /\ Len(Instants(bars, at)) = n /\ DOMAIN Instants(bars, at) = 1..n
        /\ \A j \in 1..n : (Instants(bars, at))[j] = at + j - 1 /\ at + j - 1 \in 1..Len(bars)
    BY <2>2, HoldLasts
  <2>4. QED
    BY <2>1, <2>3
<1>1. n \in Nat /\ n = Len(held) /\ DOMAIN held = 1..n
  BY <1>0
<1> DEFINE Op(s, x) == HoldBar(s, bars[x], x, dir, entry.price)
           V == Held
           base == NotHeld
<1>2. base \in V /\ \A s \in V, i \in 1..n : Op(s, held[i]) \in V
  <2> HIDE DEF held
  <2>1. ASSUME NEW s \in V, NEW i \in 1..n PROVE Op(s, held[i]) \in V
    <3>1. PICK k \in 1..Len(bars) : k = held[i]
      BY <1>0
    <3>2. k \in Nat /\ bars[k].h \in Nat /\ bars[k].l \in Nat /\ bars[k].c \in Nat
      BY DEF Priced
    <3>3. QED
      BY <3>1, <3>2, HeldOn
  <2>2. base \in V
    BY NotHeldYet
  <2>3. QED
    <3> HIDE DEF Op, V, base, held
    <3>1. QED
      BY <2>1, <2>2
<1>3. PICK F : F = [p \in V \X (1..n) |-> Op(p[1], held[p[2]])]
  OBVIOUS
<1>4. F \in [V \X (1..n) -> V] /\ \A s \in V, i \in 1..n : F[<<s, i>>] = Op(s, held[i])
  <2> HIDE DEF Op, V, base, held
  <2>1. \A p \in V \X (1..n) : p[1] \in V /\ p[2] \in 1..n
    OBVIOUS
  <2>2. QED
    BY <1>2, <1>3, <2>1
<1>5. PICK g \in [SUBSET (1..n) -> V] : FoldRule(g, F, base, n)
  <2> HIDE DEF Op, V, base, held
  <2>1. QED
    BY <1>2, <1>4, FoldExists
<1> DEFINE Rule(it) == it = [s \in SUBSET (DOMAIN held) |->
                               IF s = {} THEN base ELSE Op(it[s \ {Max(s)}], held[Max(s)])]
<1>6. Rule(g)
  <2> HIDE DEF Op, V, base, held
  <2>1. ASSUME NEW s \in SUBSET (1..n)
        PROVE  g[s] = IF s = {} THEN base ELSE Op(g[s \ {Max(s)}], held[Max(s)])
    <3>1. CASE s = {}
      BY <1>5, <3>1 DEF FoldRule
    <3>2. CASE s # {}
      <4>1. Max(s) \in 1..n /\ s \ {Max(s)} \in SUBSET (1..n)
        BY <3>2, LargestOf
      <4>2. g[s \ {Max(s)}] \in V
        BY <4>1
      <4>3. F[<<g[s \ {Max(s)}], Max(s)>>] = Op(g[s \ {Max(s)}], held[Max(s)])
        BY <1>4, <4>1, <4>2
      <4>4. QED
        BY <1>5, <3>2, <4>3 DEF FoldRule
    <3>3. QED
      BY <3>1, <3>2
  <2>2. QED
    BY <1>1, <2>1
<1>7. PICK h : h = CHOOSE it : Rule(it)
  OBVIOUS
<1>8. Rule(h)
  <2> HIDE DEF Rule, held
  <2>1. QED
    BY <1>6, <1>7, Zenon
<1>9. Hold(bars, dir, entry) = h[DOMAIN held].exit
  BY <1>7, Zenon DEF Hold, NotHeld, Instants, LastHeld, FoldLeft, MapThenFoldSet
<1>10. FoldsLike(h, V, F, base, n)
  <2> HIDE DEF Op, V, base, held
  <2>1. ASSUME NEW T \in SUBSET (1..n), T # {}, h[T \ {Max(T)}] \in V
        PROVE  h[T] = F[<<h[T \ {Max(T)}], Max(T)>>]
    <3>1. Max(T) \in 1..n
      BY <2>1, LargestOf
    <3>2. h[T] = Op(h[T \ {Max(T)}], held[Max(T)])
      BY <1>1, <1>8, <2>1
    <3>3. QED
      BY <1>4, <2>1, <3>1, <3>2
  <2>2. ASSUME NEW T \in SUBSET (1..n), T = {} PROVE h[T] = base
    BY <1>1, <1>8, <2>2
  <2>3. QED
    BY <1>2, <1>4, <2>1, <2>2 DEF FoldsLike
<1>11. PICK f \in [0..n -> V] : Stepwise(f, F, base, n) /\ h[1..n] = f[n]
  <2> HIDE DEF Op, V, base, held
  <2>1. QED
    BY <1>10, FoldValue DEF Followed
<1>12. f[0] = base /\ \A i \in 1..n : f[i] = Op(f[i - 1], held[i])
  <2> HIDE DEF Op, V, base, held
  <2>1. ASSUME NEW i \in 1..n PROVE f[i] = Op(f[i - 1], held[i])
    <3>1. i - 1 \in 0..n
      OBVIOUS
    <3>2. QED
      BY <1>4, <1>11, <3>1 DEF Stepwise
  <2>2. QED
    BY <1>11, <2>1 DEF Stepwise
<1>13. HoldSteps(f, n, bars, dir, entry)
  <2> HIDE DEF held, Rule
  <2>1. ASSUME NEW j \in 1..n
        PROVE  f[j] = HoldBar(f[j - 1], bars[entry.at + j - 1], entry.at + j - 1, dir, entry.price)
    BY <1>0, <1>12
  <2>2. Hold(bars, dir, entry) = f[n].exit
    BY <1>1, <1>9, <1>11
  <2>3. QED
    BY <1>12, <2>1, <2>2 DEF HoldSteps
<1>14. QED
  BY <1>0, <1>13

-----------------------------------------------------------------------------
(* The prices of the exits                                                   *)

\* A bar opens neither past the target nor past the stop, nor past the trailing
\* stop it begins with.
OpensWithin(s, bar, dir, price) ==
  /\ dir * (10 * bar.o - price) * 1000 <= Tp * price
  /\ dir * (10 * bar.o - price) * 1000 >= -Sl * price
  /\ s.active => dir * bar.o * 10000 >= dir * TrailStop(s.peak, dir)

\* A position was held through bar k.
HeldThrough(s, bar, dir, price) ==
  /\ s.exit.reason = "time_stop"
  /\ ~Gains(Favour(bar, dir), dir, price, Tp)
  /\ ~Loses(Against(bar, dir), dir, price, Sl)
  /\ ~HitsTrail(s, bar, dir)

\* Its exit at k is a price of the bar.
RealExit(s, bar, k) ==
  /\ s.exit.at = k
  /\ s.exit.price <= bar.h * 10000
  /\ s.exit.price >= bar.l * 10000

LEMMA BarsAreWhole ==
  ASSUME NEW bar \in HeldBar
  PROVE  /\ bar.o \in Nat /\ bar.h \in Nat /\ bar.l \in Nat /\ bar.c \in Nat
         /\ bar.l <= bar.o /\ bar.o <= bar.h /\ bar.l <= bar.c /\ bar.c <= bar.h
  BY DEF HeldBar, Candle

StopOf(peak, dir, stop) == \E w \in Nat : stop = 10000 * peak - dir * 10 * w

LEMMA StopIsWhole ==
  ASSUME NEW peak \in Nat, NEW dir \in {1, -1}
  PROVE  StopOf(peak, dir, TrailStop(peak, dir))
<1>1. TrailBy \in Nat
  BY SignalBacktestAssumption
<1>2. PICK w \in Nat : w = peak * TrailBy
  BY <1>1
<1>3. CASE dir = 1
  <2>1. TrailStop(peak, dir) = peak * 10 * (1000 - TrailBy)
    BY <1>1, <1>3 DEF TrailStop
  <2>2. peak * 10 * (1000 - TrailBy) = 10000 * peak - 10 * w
    BY ONLY <1>1, <1>2, peak \in Nat, w \in Nat
  <2>3. QED
    BY <1>2, <1>3, <2>1, <2>2 DEF StopOf
<1>4. CASE dir = -1
  <2>1. TrailStop(peak, dir) = peak * 10 * (1000 + TrailBy)
    BY <1>1, <1>4 DEF TrailStop
  <2>2. peak * 10 * (1000 + TrailBy) = 10000 * peak + 10 * w
    BY ONLY <1>1, <1>2, peak \in Nat, w \in Nat
  <2>3. QED
    BY <1>2, <1>4, <2>1, <2>2 DEF StopOf
<1>5. QED
  BY <1>3, <1>4

\* What was held through a bar opens the next one within the limits.
LEMMA NextOpensWithin ==
  ASSUME NEW s \in Held, NEW dir \in {1, -1}, NEW price \in Nat, NEW p \in HeldBar, NEW bar \in HeldBar,
         HeldThrough(s, p, dir, price), bar.o = p.c
  PROVE  OpensWithin(s, bar, dir, price)
<1>1. PICK g \in Nat, l \in Nat : g = Tp * price /\ l = Sl * price /\ -Sl * price = -l
  BY SignalBacktestAssumption
<1>2. PICK t \in Int : t = TrailStop(s.peak, dir)
  <2>1. PICK x \in Nat : x = s.peak
    BY DEF Held
  <2>2. StopOf(x, dir, TrailStop(x, dir))
    BY StopIsWhole
  <2>3. PICK w \in Nat : TrailStop(x, dir) = 10000 * x - dir * 10 * w
    BY <2>2 DEF StopOf
  <2>4. QED
    BY <2>1, <2>3
<1>3. /\ p.l \in Nat /\ p.h \in Nat /\ p.c \in Nat /\ p.l <= p.c /\ p.c <= p.h
      /\ bar.o \in Nat /\ bar.o = p.c
  BY BarsAreWhole
<1>4. /\ ~(dir * (10 * Favour(p, dir) - price) * 1000 >= g)
      /\ ~(dir * (10 * Against(p, dir) - price) * 1000 <= -l)
      /\ s.active => ~(dir * Against(p, dir) * 10000 <= dir * t)
  BY <1>1, <1>2 DEF HeldThrough, Gains, Loses, HitsTrail
<1>5. /\ dir * (10 * bar.o - price) * 1000 <= g
      /\ dir * (10 * bar.o - price) * 1000 >= -l
      /\ s.active => dir * bar.o * 10000 >= dir * t
  <2>1. CASE dir = 1
    <3>1. /\ ~((10 * p.h - price) * 1000 >= g)
          /\ ~((10 * p.l - price) * 1000 <= -l)
          /\ s.active => ~(p.l * 10000 <= t)
      BY <1>3, <1>4, <2>1 DEF Favour, Against
    <3>2. QED
      BY <1>3, <2>1, <3>1
  <2>2. CASE dir = -1
    <3>1. /\ ~(-(10 * p.l - price) * 1000 >= g)
          /\ ~(-(10 * p.h - price) * 1000 <= -l)
          /\ s.active => ~(-p.h * 10000 <= -t)
      BY <1>3, <1>4, <2>2 DEF Favour, Against
    <3>2. QED
      BY <1>3, <2>2, <3>1
  <2>3. QED
    BY <2>1, <2>2
<1>6. QED
  BY <1>1, <1>2, <1>5 DEF OpensWithin

\* The extreme a bar moved the trailing stop to, or the one it began with.
Moved(s, t, bar, dir) ==
  /\ t \in Held
  /\ ~t.active => t.peak = 0
  /\ t.active => (t.peak = Favour(bar, dir) \/ (s.active /\ t.peak = s.peak))

LEMMA TrailedTo ==
  ASSUME NEW s \in Held, ~s.active => s.peak = 0, NEW bar \in HeldBar, NEW dir \in {1, -1},
         NEW price \in Nat
  PROVE  Moved(s, Trailed(s, bar, dir, price), bar, dir)
<1>0. PICK t : t = Trailed(s, bar, dir, price)
  OBVIOUS
<1>1. PICK x \in Nat : x = Favour(bar, dir)
  BY BarsAreWhole DEF Favour
<1>2. s.peak \in Nat /\ s.active \in BOOLEAN
  BY DEF Held
<1>3. PICK peak \in Nat : peak = IF s.peak > 0 /\ dir * s.peak >= dir * x THEN s.peak ELSE x
  BY <1>2
<1>4. t = s \/ t = [s EXCEPT !.active = TRUE, !.peak = peak]
  BY <1>0, <1>1, <1>3 DEF Trailed
<1>5. CASE t = s
  BY <1>0, <1>5 DEF Moved
<1>6. CASE t = [s EXCEPT !.active = TRUE, !.peak = peak]
  <2>1. t \in Held /\ t.active = TRUE /\ t.peak = peak /\ t.exit = s.exit
    BY <1>6 DEF Held
  <2>2. peak = s.peak => s.active \/ peak = x
    BY <1>2, <1>3
  <2>3. QED
    BY <1>0, <1>1, <1>3, <2>1, <2>2 DEF Moved
<1>7. QED
  BY <1>4, <1>5, <1>6

\* A position is left at a price of the bar, or held through it.
LEMMA LeavesAtRealPrice ==
  ASSUME NEW s \in Held, s.exit.reason \in {"open", "time_stop"}, ~s.active => s.peak = 0,
         NEW dir \in {1, -1}, NEW price \in Nat, NEW bar \in HeldBar, NEW k \in Nat,
         OpensWithin(s, bar, dir, price), NEW u, u = HoldBar(s, bar, k, dir, price)
  PROVE  /\ RealExit(u, bar, k)
         /\ ~u.active => u.peak = 0
         /\ u.exit.reason \in {"open", "time_stop"} => HeldThrough(u, bar, dir, price)
<1>1. PICK g \in Nat, l \in Nat : g = Tp * price /\ l = Sl * price /\ -Sl * price = -l
  BY SignalBacktestAssumption
<1>2. /\ bar.o \in Nat /\ bar.h \in Nat /\ bar.l \in Nat /\ bar.c \in Nat
      /\ bar.l <= bar.o /\ bar.o <= bar.h /\ bar.l <= bar.c /\ bar.c <= bar.h
  BY BarsAreWhole
<1>3. /\ dir * (10 * bar.o - price) * 1000 <= g
      /\ dir * (10 * bar.o - price) * 1000 >= -l
      /\ s.active => dir * bar.o * 10000 >= dir * TrailStop(s.peak, dir)
  BY <1>1 DEF OpensWithin
<1>4. ASSUME NEW t \in Held, NEW p, NEW reason \in Reasons, u = ExitAt(t, k, p, reason)
      PROVE  /\ u.exit.at = k /\ u.exit.price = p /\ u.exit.reason = reason
             /\ u.active = t.active /\ u.peak = t.peak
  BY <1>4 DEF ExitAt, Held
<1>5. PICK t : t = Trailed(s, bar, dir, price)
  OBVIOUS
<1>6. /\ t \in Held /\ (~t.active => t.peak = 0)
      /\ t.active => (t.peak = Favour(bar, dir) \/ (s.active /\ t.peak = s.peak))
  BY <1>5, TrailedTo DEF Moved
<1>7. CASE Gains(Favour(bar, dir), dir, price, Tp)
  <2>1. dir * (10 * Favour(bar, dir) - price) * 1000 >= g
    BY <1>1, <1>7 DEF Gains
  <2>2. PICK p \in Int : p = price * (1000 + dir * Tp) /\ p = 1000 * price + dir * g
    <3>1. CASE dir = 1
      <4>1. price * (1000 + 1 * Tp) = 1000 * price + g /\ g \in Nat /\ price \in Nat
        BY ONLY <1>1, price \in Nat, SignalBacktestAssumption
      <4>2. QED
        BY <3>1, <4>1
    <3>2. CASE dir = -1
      <4>1. price * (1000 + (-1) * Tp) = 1000 * price - g /\ g \in Nat /\ price \in Nat
        BY ONLY <1>1, price \in Nat, SignalBacktestAssumption
      <4>2. QED
        BY <3>2, <4>1
    <3>3. QED
      BY <3>1, <3>2
  <2>3. u = ExitAt(s, k, p, "take_profit")
    BY <1>7, <2>2 DEF HoldBar
  <2>4. p <= bar.h * 10000 /\ p >= bar.l * 10000
    <3>1. CASE dir = 1
      BY <1>2, <1>3, <2>1, <2>2, <3>1 DEF Favour
    <3>2. CASE dir = -1
      BY <1>2, <1>3, <2>1, <2>2, <3>2 DEF Favour
    <3>3. QED
      BY <3>1, <3>2
  <2>5. /\ u.exit.at = k /\ u.exit.price = p /\ u.exit.reason = "take_profit"
        /\ u.active = s.active /\ u.peak = s.peak
    BY <1>4, <2>3 DEF Reasons
  <2>6. QED
    BY <2>4, <2>5 DEF RealExit
<1>8. CASE ~Gains(Favour(bar, dir), dir, price, Tp) /\ Loses(Against(bar, dir), dir, price, Sl)
  <2>1. dir * (10 * Against(bar, dir) - price) * 1000 <= -l
    BY <1>1, <1>8 DEF Loses
  <2>2. PICK p \in Int : p = price * (1000 - dir * Sl) /\ p = 1000 * price - dir * l
    <3>1. CASE dir = 1
      <4>1. price * (1000 - 1 * Sl) = 1000 * price - l /\ l \in Nat /\ price \in Nat
        BY ONLY <1>1, price \in Nat, SignalBacktestAssumption
      <4>2. QED
        BY <3>1, <4>1
    <3>2. CASE dir = -1
      <4>1. price * (1000 - (-1) * Sl) = 1000 * price + l /\ l \in Nat /\ price \in Nat
        BY ONLY <1>1, price \in Nat, SignalBacktestAssumption
      <4>2. QED
        BY <3>2, <4>1
    <3>3. QED
      BY <3>1, <3>2
  <2>3. u = ExitAt(s, k, p, "stop_loss")
    BY <1>8, <2>2 DEF HoldBar
  <2>4. p <= bar.h * 10000 /\ p >= bar.l * 10000
    <3>1. CASE dir = 1
      BY <1>2, <1>3, <2>1, <2>2, <3>1 DEF Against
    <3>2. CASE dir = -1
      BY <1>2, <1>3, <2>1, <2>2, <3>2 DEF Against
    <3>3. QED
      BY <3>1, <3>2
  <2>5. /\ u.exit.at = k /\ u.exit.price = p /\ u.exit.reason = "stop_loss"
        /\ u.active = s.active /\ u.peak = s.peak
    BY <1>4, <2>3 DEF Reasons
  <2>6. QED
    BY <2>4, <2>5 DEF RealExit
<1>9. CASE /\ ~Gains(Favour(bar, dir), dir, price, Tp) /\ ~Loses(Against(bar, dir), dir, price, Sl)
           /\ HitsTrail(t, bar, dir)
  <2>1. PICK w \in Nat : TrailStop(t.peak, dir) = 10000 * t.peak - dir * 10 * w
    <3>1. PICK x \in Nat : x = t.peak
      BY <1>6 DEF Held
    <3>2. StopOf(x, dir, TrailStop(x, dir))
      BY StopIsWhole
    <3>3. PICK w \in Nat : TrailStop(x, dir) = 10000 * x - dir * 10 * w
      BY <3>2 DEF StopOf
    <3>4. TrailStop(t.peak, dir) = 10000 * t.peak - dir * 10 * w
      BY <3>1, <3>3
    <3>5. QED
      BY <3>4
  <2>2. PICK p \in Int : p = TrailStop(t.peak, dir) /\ p = 10000 * t.peak - dir * 10 * w
    BY <1>6, <2>1 DEF Held
  <2>3. t.active /\ dir * Against(bar, dir) * 10000 <= dir * p
    BY <1>9, <2>2 DEF HitsTrail
  <2>4. t.peak = Favour(bar, dir) \/ dir * bar.o * 10000 >= dir * p
    <3>1. CASE t.peak = Favour(bar, dir)
      BY <3>1
    <3>2. CASE s.active /\ t.peak = s.peak
      <4>1. p = TrailStop(t.peak, dir) /\ t.peak = s.peak
        BY <2>2, <3>2
      <4>2. p = TrailStop(s.peak, dir)
        BY ONLY <4>1
      <4>3. QED
        BY <1>3, <3>2, <4>2
    <3>3. QED
      BY <1>6, <2>3, <3>1, <3>2
  <2>5. u = ExitAt(t, k, p, "trailing_stop")
    BY <1>5, <1>9, <2>2 DEF HoldBar
  <2>6. p <= bar.h * 10000 /\ p >= bar.l * 10000
    <3>1. CASE dir = 1
      BY <1>2, <2>2, <2>3, <2>4, <3>1 DEF Favour, Against
    <3>2. CASE dir = -1
      BY <1>2, <2>2, <2>3, <2>4, <3>2 DEF Favour, Against
    <3>3. QED
      BY <3>1, <3>2
  <2>7. /\ u.exit.at = k /\ u.exit.price = p /\ u.exit.reason = "trailing_stop"
        /\ u.active = t.active /\ u.peak = t.peak
    BY <1>4, <1>6, <2>5 DEF Reasons
  <2>8. QED
    BY <1>6, <2>6, <2>7 DEF RealExit
<1>10. CASE /\ ~Gains(Favour(bar, dir), dir, price, Tp) /\ ~Loses(Against(bar, dir), dir, price, Sl)
            /\ ~HitsTrail(t, bar, dir)
  <2>1. PICK p \in Nat : p = bar.c * 10000
    BY <1>2
  <2>2. u = ExitAt(t, k, p, "time_stop")
    BY <1>5, <1>10, <2>1 DEF HoldBar
  <2>3. /\ u.exit.at = k /\ u.exit.price = p /\ u.exit.reason = "time_stop"
        /\ u.active = t.active /\ u.peak = t.peak
    BY <1>4, <1>6, <2>2 DEF Reasons
  <2>4. ~HitsTrail(u, bar, dir)
    BY <1>10, <2>3 DEF HitsTrail
  <2>5. p <= bar.h * 10000 /\ p >= bar.l * 10000
    BY <1>2, <2>1
  <2>6. QED
    BY <1>6, <1>10, <2>3, <2>4, <2>5 DEF RealExit, HeldThrough
<1>11. QED
  BY <1>7, <1>8, <1>9, <1>10

\* Where every bar opens at the close of the one before, no exit of the backtest
\* is at a price its bar did not have (simulate_model_for_coin and simulate_model in
\* research/volume_oi_backtest.py and volume_oi_backtest_48.py).
THEOREM ExitsAreReal == Spec => []ContiguousExitsAreReal
<1>1. ASSUME Called PROVE ContiguousExitsAreReal
  <2> SUFFICES ASSUME Returned("hold"),
                      \A k \in 2..(Len(input.bars) - 1) : input.bars[k + 1].o = input.bars[k].c
               PROVE  /\ outcome.result.price <= input.bars[outcome.result.at].h * 10000
                      /\ outcome.result.price >= input.bars[outcome.result.at].l * 10000
    BY DEF ContiguousExitsAreReal
  <2>1. PICK bars \in Seq(HeldBar) : input.bars = bars /\ Len(bars) >= 2
    BY <1>1, ReturnedRight, HeldBarsAssumption DEF Argued
  <2>2. PICK dir \in {1, -1} : input.dir = dir
    BY <1>1, ReturnedRight DEF Argued
  <2>3. PICK entry : entry = NextOpen(bars, 1)
    OBVIOUS
  <2>4. outcome.result = Hold(bars, dir, entry)
    BY <1>1, <2>1, <2>2, <2>3, ReturnedRight DEF Right
  <2>5. PICK len \in Nat : len = Len(bars) /\ 2 <= len
    BY <2>1
  <2>6. \A k \in 1..len : bars[k] \in HeldBar
    BY <2>5
  <2>7. Priced(bars)
    <3>1. ASSUME NEW k \in 1..Len(bars)
          PROVE  bars[k].o \in Nat /\ bars[k].h \in Nat /\ bars[k].l \in Nat /\ bars[k].c \in Nat
      BY BarsAreWhole
    <3>2. QED
      BY <2>5, <3>1 DEF Priced
  <2>8. PICK price \in Nat : price = 10 * bars[2].o
    <3>1. bars[2] \in HeldBar
      BY <2>5, <2>6
    <3>2. bars[2].o \in Nat
      BY <3>1, BarsAreWhole
    <3>3. QED
      BY <3>2
  <2>9. entry.at = 2 /\ entry.price = price
    BY <2>3, <2>8 DEF NextOpen
  <2>10. PICK n : n = LastHeld(bars, 2) - 2 + 1
    OBVIOUS
  <2>11. n \in Nat \ {0} /\ 2 + n - 1 <= len
    <3>1. PICK at \in Nat \ {0} : at = 2
      OBVIOUS
    <3>2. at <= Len(bars) /\ n = LastHeld(bars, at) - at + 1
      BY <2>5, <2>10, <3>1
    <3>3. n \in Nat \ {0} /\ at + n - 1 <= Len(bars)
      BY <2>7, <3>2, HoldLasts
    <3>4. QED
      BY <2>5, <3>1, <3>3
  <2>12. PICK f : HoldSteps(f, n, bars, dir, entry)
    BY <2>1, <2>5, <2>7, <2>9, <2>10, <2>11, HoldStates
  <2>13. /\ f \in [0..n -> Held] /\ f[0] = NotHeld /\ outcome.result = f[n].exit
         /\ \A j \in 1..n : f[j] = HoldBar(f[j - 1], bars[j + 1], j + 1, dir, price)
    <3>1. ASSUME NEW j \in 1..n PROVE f[j] = HoldBar(f[j - 1], bars[j + 1], j + 1, dir, price)
      <4>1. entry.at + j - 1 = j + 1
        BY <2>9, <2>11
      <4>2. QED
        BY <2>9, <2>12, <4>1 DEF HoldSteps
    <3>2. QED
      BY <2>4, <2>12, <3>1 DEF HoldSteps
  <2> DEFINE Left(j) == \E k \in 2..(j + 1) : RealExit(f[j], bars[k], k)
             Real(j) ==
               \/ f[j].exit.reason \notin {"open", "time_stop"} /\ Left(j)
               \/ /\ ~f[j].active => f[j].peak = 0
                  /\ RealExit(f[j], bars[j + 1], j + 1)
                  /\ HeldThrough(f[j], bars[j + 1], dir, price)
             S == {j \in 0..n : j = 0 \/ Real(j)}
  <2>14. 0 \in S
    BY <2>11
  <2>15. ASSUME NEW j \in 1..n, j - 1 \in S PROVE j \in S
    <3>1. PICK s \in Held : s = f[j - 1]
      <4>1. j - 1 \in 0..n
        BY <2>11
      <4>2. QED
        BY <2>13, <4>1
    <3>2. PICK k \in Nat : k = j + 1 /\ k \in 2..len
      BY <2>11
    <3>3. PICK bar \in HeldBar : bar = bars[k]
      BY <2>6, <3>2
    <3>4. f[j] = HoldBar(s, bar, k, dir, price)
      BY <2>13, <3>1, <3>2, <3>3
    <3>5. ASSUME s.exit.reason \in {"open", "time_stop"}, ~s.active => s.peak = 0,
                 OpensWithin(s, bar, dir, price)
          PROVE  Real(j)
      <4>1. PICK u : u = HoldBar(s, bar, k, dir, price)
        OBVIOUS
      <4>2. /\ RealExit(u, bar, k) /\ (~u.active => u.peak = 0)
            /\ u.exit.reason \in {"open", "time_stop"} => HeldThrough(u, bar, dir, price)
        BY <3>5, <4>1, LeavesAtRealPrice
      <4>3. k \in 2..(j + 1)
        BY <3>2
      <4>4. f[j] = u
        BY <3>4, <4>1
      <4>5. QED
        BY <3>2, <3>3, <4>2, <4>3, <4>4
    <3>6. CASE j = 1
      <4>1. s = NotHeld /\ k = 2
        BY <2>13, <3>1, <3>2, <3>6
      <4>2. s.exit.reason = "open" /\ s.active = FALSE /\ s.peak = 0
        BY <4>1 DEF NotHeld, Unset
      <4>3. PICK o \in Nat : o = bar.o /\ price = 10 * o
        BY <2>8, <3>3, <4>1, BarsAreWhole
      <4>4. PICK g \in Nat, l \in Nat : g = Tp * price /\ l = Sl * price /\ -Sl * price = -l
        BY SMTT(30), SignalBacktestAssumption
      <4>5. dir * (10 * o - price) * 1000 = 0
        BY SMTT(30), <4>3
      <4>6. OpensWithin(s, bar, dir, price)
        <5>1. /\ dir * (10 * bar.o - price) * 1000 = 0
              /\ Tp * price = g /\ -Sl * price = -l /\ ~s.active
          BY <4>2, <4>3, <4>4, <4>5
        <5>2. QED
          BY <5>1 DEF OpensWithin
      <4>7. Real(j)
        <5> HIDE DEF Real
        <5>1. QED
          BY <3>5, <4>2, <4>6
      <4>8. QED
        BY <4>7
    <3>7. CASE j # 1 /\ s.exit.reason \notin {"open", "time_stop"}
      <4>1. PICK i : i = j - 1 /\ i \in 0..n /\ i # 0 /\ i + 1 = j
        BY <2>11, <3>7
      <4>2. s = f[i]
        BY <3>1, <4>1
      <4>3. HeldThrough(f[i], bars[i + 1], dir, price) => s.exit.reason = "time_stop"
        BY <4>2 DEF HeldThrough
      <4>4. Left(i)
        BY <2>15, <3>7, <4>1, <4>2, <4>3
      <4>5. PICK m \in 2..(i + 1) : RealExit(f[i], bars[m], m)
        BY <4>4
      <4>6. f[j] = f[i]
        BY <3>4, <3>7, <4>2 DEF HoldBar
      <4>7. m \in 2..(j + 1)
        BY <4>1, <4>5
      <4>8. Left(j)
        BY <4>5, <4>6, <4>7
      <4>9. Real(j)
        BY <3>7, <4>2, <4>6, <4>8
      <4>10. QED
        BY <4>9
    <3>8. CASE j # 1 /\ s.exit.reason \in {"open", "time_stop"}
      <4>1. PICK i : i = j - 1 /\ i \in 0..n /\ i # 0 /\ i + 1 = j /\ j \in 2..(len - 1)
        BY <2>11, <3>8
      <4>2. s = f[i]
        BY <3>1, <4>1
      <4>3. (~s.active => s.peak = 0) /\ HeldThrough(s, bars[j], dir, price)
        BY <2>15, <3>8, <4>1, <4>2
      <4>4. PICK p \in HeldBar : p = bars[j]
        BY <2>6, <4>1
      <4>5. bar.o = p.c
        BY <2>1, <2>5, <3>2, <3>3, <4>1, <4>4
      <4>6. OpensWithin(s, bar, dir, price)
        BY <4>3, <4>4, <4>5, NextOpensWithin
      <4>7. Real(j)
        <5> HIDE DEF Real
        <5>1. QED
          BY <3>5, <3>8, <4>3, <4>6
      <4>8. QED
        BY <4>7
    <3>9. QED
      BY <3>6, <3>7, <3>8
  <2>16. 0..n \subseteq S
    <3> HIDE DEF S
    <3>1. n \in Nat
      BY <2>11
    <3>2. QED
      BY <2>14, <2>15, <3>1, InductTo
  <2>17. \E k \in 2..(n + 1) : RealExit(f[n], bars[k], k)
    <3>1. n \in S /\ n # 0
      BY <2>11, <2>16
    <3>2. n + 1 \in 2..(n + 1)
      BY <2>11
    <3>3. QED
      BY <3>1, <3>2
  <2>18. QED
    BY <2>1, <2>13, <2>17 DEF RealExit
<1>2. QED
  BY <1>1, AlwaysCalled, PTL

-----------------------------------------------------------------------------
(* A run over the bars of a coin                                             *)

HeldTrade ==
  {t \in [at : Nat, entry : Int, dir : {1, -1}, exit : [at : Nat, price : Int, reason : Reasons],
          sample : {"IS", "OOS"}] :
     t.exit.reason = "time_stop" => t.exit.at = t.at + MaxHold - 1}

SpacedTrades(trades) ==
  \A k \in 1..(Len(trades) - 1) : trades[k + 1].at > trades[k].exit.at + Cooldown + 1

Runs == {s \in [last : Nat, trades : Seq(HeldTrade)] :
           /\ SpacedTrades(s.trades)
           /\ Len(s.trades) > 0 => s.trades[Len(s.trades)].exit.at = s.last}

\* A position entered with room for all of its bars and ended by time was held
\* for all of them.
LEMMA HeldInFull ==
  ASSUME NEW bars, Priced(bars), NEW dir \in {1, -1}, NEW entry, entry.price \in Int,
         entry.at \in Nat \ {0}, entry.at + MaxHold <= Len(bars)
  PROVE  /\ Hold(bars, dir, entry) \in [at : Nat, price : Int, reason : Reasons]
         /\ Hold(bars, dir, entry).reason = "time_stop" =>
              Hold(bars, dir, entry).at = entry.at + MaxHold - 1
<1>1. PICK at \in Nat \ {0} : at = entry.at
  OBVIOUS
<1>2. PICK len \in Nat : len = Len(bars)
  BY DEF Priced
<1>3. PICK most \in Nat \ {0} : most = MaxHold
  BY SignalBacktestAssumption
<1>4. at <= len /\ LastHeld(bars, at) = at + most - 1
  BY <1>1, <1>2, <1>3 DEF LastHeld
<1>5. PICK n : n = LastHeld(bars, at) - at + 1
  OBVIOUS
<1>6. n \in Nat \ {0} /\ n = most
  BY <1>4, <1>5
<1>7. PICK f : HoldSteps(f, n, bars, dir, entry)
  BY <1>1, <1>2, <1>4, <1>5, <1>6, HoldStates
<1>8. PICK s \in Held, t \in Held : s = f[n - 1] /\ t = f[n]
  <2>1. n - 1 \in 0..n /\ n \in 0..n
    BY <1>6
  <2>2. QED
    BY <1>7, <2>1 DEF HoldSteps
<1>9. Hold(bars, dir, entry) = t.exit
  BY <1>7, <1>8 DEF HoldSteps
<1>10. PICK k \in Nat : k = entry.at + n - 1 /\ k = at + most - 1
  BY <1>1, <1>6
<1>11. t = HoldBar(s, bars[k], k, dir, entry.price)
  <2>1. n \in 1..n
    BY <1>6
  <2>2. f[n] = HoldBar(f[n - 1], bars[entry.at + n - 1], entry.at + n - 1, dir, entry.price)
    BY <1>7, <2>1 DEF HoldSteps
  <2>3. QED
    BY <1>8, <1>10, <2>2
<1>12. t.exit.reason = "time_stop" => t.exit.at = k
  <2>1. ASSUME NEW u, NEW p, NEW reason, t = ExitAt(u, k, p, reason), u \in Held
        PROVE  t.exit.at = k
    BY <2>1 DEF ExitAt, Held
  <2>2. CASE s.exit.reason \notin {"open", "time_stop"}
    BY <1>11, <2>2 DEF HoldBar
  <2>3. CASE s.exit.reason \in {"open", "time_stop"}
    <3>1. PICK u : u = Trailed(s, bars[k], dir, entry.price)
      OBVIOUS
    <3>2. \/ t = ExitAt(s, k, entry.price * (1000 + dir * Tp), "take_profit")
          \/ t = ExitAt(s, k, entry.price * (1000 - dir * Sl), "stop_loss")
          \/ t = ExitAt(u, k, TrailStop(u.peak, dir), "trailing_stop")
          \/ t = ExitAt(u, k, bars[k].c * 10000, "time_stop")
      BY <1>11, <2>3, <3>1 DEF HoldBar
    <3>3. u \in Held
      <4>1. k \in 1..Len(bars)
        BY <1>1, <1>2, <1>3, <1>10
      <4>2. bars[k].h \in Nat /\ bars[k].l \in Nat
        BY <4>1 DEF Priced
      <4>3. PICK x \in Nat : x = Favour(bars[k], dir)
        BY <4>2 DEF Favour
      <4>4. PICK peak \in Nat : peak = IF s.peak > 0 /\ dir * s.peak >= dir * x THEN s.peak ELSE x
        BY DEF Held
      <4>5. u = s \/ u = [s EXCEPT !.active = TRUE, !.peak = peak]
        BY <3>1, <4>3, <4>4 DEF Trailed
      <4>6. [s EXCEPT !.active = TRUE, !.peak = peak] \in Held
        BY DEF Held
      <4>7. QED
        BY <4>5, <4>6
    <3>4. QED
      BY <2>1, <3>2, <3>3
  <2>4. QED
    BY <2>2, <2>3
<1>13. t.exit \in [at : Nat, price : Int, reason : Reasons]
  BY DEF Held
<1>14. QED
  BY <1>1, <1>3, <1>9, <1>10, <1>12, <1>13

\* A limit order fills within its bars or lapses.
LEMMA PullbackFills ==
  ASSUME NEW bars, Priced(bars), NEW i \in 1..Len(bars), NEW dir \in {1, -1},
         Pullback(bars, i, dir) # NoEntry
  PROVE  /\ Pullback(bars, i, dir).at \in Nat \ {0} /\ Pullback(bars, i, dir).price \in Int
         /\ i + 1 <= Pullback(bars, i, dir).at /\ Pullback(bars, i, dir).at <= i + PullbackBars
<1> DEFINE body == IF bars[i].c >= bars[i].o THEN bars[i].c - bars[i].o ELSE bars[i].o - bars[i].c
           target == 10 * bars[i].c - dir * 3 * body
           last == IF i + PullbackBars <= Len(bars) THEN i + PullbackBars ELSE Len(bars)
           fills == {k \in (i + 1)..last : IF dir = 1 THEN 10 * bars[k].l <= target ELSE 10 * bars[k].h >= target}
<1>1. Pullback(bars, i, dir) =
        IF fills = {} THEN NoEntry
        ELSE [at |-> CHOOSE k \in fills : \A j \in fills : k <= j, price |-> target]
  BY DEF Pullback
<1>2. bars[i].o \in Nat /\ bars[i].c \in Nat
  BY DEF Priced
<1>3. target \in Int
  <2>1. PICK b \in Int : b = body
    BY <1>2
  <2>2. 10 * bars[i].c - dir * 3 * b \in Int
    BY <1>2
  <2>3. QED
    BY <2>1, <2>2
<1>4. PICK top \in Int : top = last /\ top <= i + PullbackBars
  <2>1. PullbackBars \in Nat /\ Len(bars) \in Nat
    BY SignalBacktestAssumption DEF Priced
  <2>2. QED
    BY <2>1
<1>5. fills \subseteq (i + 1)..top
  <2> HIDE DEF target
  <2>1. QED
    BY <1>4
<1> HIDE DEF fills, target, last
<1>6. fills # {}
  BY <1>1
<1>7. PICK at : at = CHOOSE k \in fills : \A j \in fills : k <= j
  OBVIOUS
<1>8. at \in fills
  <2>1. fills \subseteq Nat
    BY <1>5
  <2>2. \E k \in fills : \A j \in fills : k <= j
    BY <1>6, <2>1, LeastOfNaturals
  <2>3. QED
    BY <1>7, <2>2
<1>9. Pullback(bars, i, dir) = [at |-> at, price |-> target]
  BY <1>1, <1>6, <1>7
<1>10. at \in (i + 1)..top
  BY <1>5, <1>8
<1>11. at \in Nat \ {0} /\ i + 1 <= at /\ at <= i + PullbackBars
  BY <1>4, <1>10, SignalBacktestAssumption
<1>12. QED
  BY <1>3, <1>9, <1>11

LEMMA CoinBarsPriced ==
  ASSUME NEW bars \in Seq(CoinBar)
  PROVE  Priced(bars)
<1>1. ASSUME NEW k \in 1..Len(bars)
      PROVE  bars[k].o \in Nat /\ bars[k].h \in Nat /\ bars[k].l \in Nat /\ bars[k].c \in Nat
  <2>1. bars[k] \in CoinBar
    OBVIOUS
  <2>2. QED
    BY <2>1 DEF CoinBar
<1>2. QED
  BY <1>1 DEF Priced

\* The bars a run looks at leave room for the entry and for the whole position.
Room(i, bars, room) == i \in Nat \ {0} /\ i + room + MaxHold <= Len(bars)

LEMMA ScansBar ==
  ASSUME NEW s \in Runs, NEW model, NEW bars \in Seq(CoinBar), NEW room \in Nat \ {0},
         model.pullback => PullbackBars <= room, NEW i, Room(i, bars, room)
  PROVE  ScanBar(s, model, bars, i) \in Runs
<1>1. PICK dir : dir = Signal(model, bars[i])
  OBVIOUS
<1>2. PICK entry : entry = IF model.pullback THEN Pullback(bars, i, dir) ELSE NextOpen(bars, i)
  OBVIOUS
<1>3. PICK exit : exit = Hold(bars, dir, entry)
  OBVIOUS
<1>4. PICK t : t = [at |-> entry.at, entry |-> entry.price, dir |-> dir, exit |-> exit,
                    sample |-> IF entry.at <= Len(bars) \div 2 THEN "IS" ELSE "OOS"]
  OBVIOUS
<1>5. \/ ScanBar(s, model, bars, i) = s
      \/ /\ ~Cooling(s, i) /\ dir # 0 /\ entry # NoEntry
         /\ ScanBar(s, model, bars, i) = [last |-> exit.at, trades |-> Append(s.trades, t)]
  BY <1>1, <1>2, <1>3, <1>4 DEF ScanBar
<1>6. PICK len \in Nat : len = Len(bars)
  OBVIOUS
<1>7. MaxHold \in Nat \ {0} /\ Cooldown \in Nat /\ i \in Nat \ {0} /\ i + room + MaxHold <= len
  BY <1>6, SignalBacktestAssumption DEF Room
<1>8. i \in 1..Len(bars) /\ i + 1 \in 1..Len(bars)
  BY <1>6, <1>7
<1>9. Priced(bars)
  BY CoinBarsPriced
<1>10. dir \in {1, -1, 0}
  <2>1. bars[i] \in CoinBar
    BY <1>8
  <2>2. bars[i].dir \in {1, -1}
    BY <2>1 DEF CoinBar
  <2>3. QED
    BY <1>1, <2>2 DEF Signal
<1>11. ASSUME ~Cooling(s, i), dir # 0, entry # NoEntry
       PROVE  [last |-> exit.at, trades |-> Append(s.trades, t)] \in Runs
  <2>1. dir \in {1, -1}
    BY <1>10, <1>11
  <2>2. /\ entry.at \in Nat \ {0} /\ entry.price \in Int
        /\ i + 1 <= entry.at /\ entry.at <= i + room
    <3>1. CASE model.pullback
      <4>1. PullbackBars <= room /\ PullbackBars \in Nat
        BY <3>1, SignalBacktestAssumption
      <4>2. entry = Pullback(bars, i, dir)
        BY <1>2, <3>1
      <4>3. /\ entry.at \in Nat \ {0} /\ entry.price \in Int
            /\ i + 1 <= entry.at /\ entry.at <= i + PullbackBars
        BY <1>8, <1>9, <1>11, <2>1, <4>2, PullbackFills
      <4>4. QED
        BY <1>7, <4>1, <4>3
    <3>2. CASE ~model.pullback
      <4>1. entry = [at |-> i + 1, price |-> 10 * bars[i + 1].o]
        BY <1>2, <3>2 DEF NextOpen
      <4>2. bars[i + 1].o \in Nat
        BY <1>8, <1>9 DEF Priced
      <4>3. QED
        BY SMTT(30), <1>7, <4>1, <4>2
    <3>3. QED
      BY <3>1, <3>2
  <2>3. PICK at \in Nat \ {0} : at = entry.at
    BY <2>2
  <2>4. entry.at + MaxHold <= Len(bars)
    BY <1>6, <1>7, <2>2, <2>3
  <2>5. /\ exit \in [at : Nat, price : Int, reason : Reasons]
        /\ exit.reason = "time_stop" => exit.at = at + MaxHold - 1
    BY <1>3, <1>9, <2>1, <2>2, <2>3, <2>4, HeldInFull
  <2>6. /\ t \in HeldTrade /\ t.at = at /\ t.exit = exit
    <3>1. PICK sample \in {"IS", "OOS"} : sample = IF entry.at <= Len(bars) \div 2 THEN "IS" ELSE "OOS"
      OBVIOUS
    <3>2. t = [at |-> at, entry |-> entry.price, dir |-> dir, exit |-> exit, sample |-> sample]
      BY <1>4, <2>3, <3>1
    <3>3. QED
      BY <2>1, <2>2, <2>5, <3>2 DEF HeldTrade
  <2>7. PICK trades \in Seq(HeldTrade) : trades = s.trades
    BY DEF Runs
  <2>8. PICK n \in Nat : n = Len(trades)
    OBVIOUS
  <2>9. PICK after : after = Append(trades, t)
    OBVIOUS
  <2>10. /\ after \in Seq(HeldTrade) /\ Len(after) = n + 1 /\ after[n + 1] = t
         /\ \A k \in 1..n : after[k] = trades[k]
    BY <2>6, <2>8, <2>9
  <2>11. PICK last \in Nat : last = s.last
    BY DEF Runs
  <2>12. at > last + Cooldown + 1
    <3>1. i > last + Cooldown
      BY <1>7, <1>11, <2>11 DEF Cooling
    <3>2. i + 1 <= at
      BY <2>2, <2>3
    <3>3. QED
      BY <1>7, <3>1, <3>2
  <2>13. SpacedTrades(after)
    <3>1. ASSUME NEW k \in 1..n PROVE after[k + 1].at > after[k].exit.at + Cooldown + 1
      <4>1. CASE k = n
        <5>1. trades[n].exit.at = last
          BY <2>7, <2>8, <2>11, <4>1 DEF Runs
        <5>2. after[k + 1].at = at /\ after[k].exit.at = last
          BY <2>6, <2>10, <4>1, <5>1
        <5>3. QED
          BY <2>12, <5>2
      <4>2. CASE k # n
        <5>1. k \in 1..(n - 1) /\ k + 1 \in 1..n
          BY <4>2
        <5>2. trades[k + 1].at > trades[k].exit.at + Cooldown + 1
          BY <2>7, <2>8, <5>1 DEF Runs, SpacedTrades
        <5>3. after[k + 1] = trades[k + 1] /\ after[k] = trades[k]
          BY <2>10, <5>1
        <5>4. QED
          BY <5>2, <5>3
      <4>3. QED
        BY <4>1, <4>2
    <3>2. Len(after) - 1 = n
      BY <2>10
    <3>3. QED
      BY <3>1, <3>2 DEF SpacedTrades
  <2>14. PICK r : r = [last |-> exit.at, trades |-> after]
    OBVIOUS
  <2>15. r \in [last : Nat, trades : Seq(HeldTrade)] /\ r.last = exit.at /\ r.trades = after
    BY <2>5, <2>10, <2>14
  <2>16. r.trades[Len(r.trades)].exit.at = r.last
    BY <2>6, <2>10, <2>15
  <2>17. r \in Runs
    BY <2>13, <2>15, <2>16 DEF Runs
  <2>18. QED
    BY <2>7, <2>9, <2>14, <2>17
<1>12. QED
  BY <1>5, <1>11

LEMMA SimulatesSpaced ==
  ASSUME NEW model, NEW bars \in Seq(CoinBar), NEW room \in Nat \ {0},
         model.pullback => PullbackBars <= room
  PROVE  \E s \in Runs : Simulate(model, bars, room) = s.trades
<1>0. \E n \in Nat : /\ DOMAIN Scanned(model, bars, room) = 1..n
                     /\ \A j \in 1..n : Room((Scanned(model, bars, room))[j], bars, room)
  <2>1. PICK m \in Int : m = Len(bars) - MaxHold - room - Warmup
    BY SignalBacktestAssumption
  <2>2. Scanned(model, bars, room) = [j \in 1..m |-> Warmup + j]
    BY <2>1 DEF Scanned
  <2>3. PICK n \in Nat : n = IF m > 0 THEN m ELSE 0
    OBVIOUS
  <2>4. 1..n = 1..m
    BY <2>3
  <2>5. ASSUME NEW j \in 1..n PROVE Room(Warmup + j, bars, room)
    <3>1. j <= m /\ j \in Nat \ {0}
      BY <2>4
    <3>2. PICK w \in Nat, x \in Nat, len \in Nat : w = Warmup /\ x = MaxHold /\ len = Len(bars)
      BY SignalBacktestAssumption
    <3>3. w + j \in Nat \ {0} /\ (w + j) + room + x <= len
      BY <2>1, <3>1, <3>2
    <3>4. QED
      BY <3>2, <3>3 DEF Room
  <2>6. QED
    BY <2>2, <2>4, <2>5
<1>1. PICK n \in Nat : /\ DOMAIN Scanned(model, bars, room) = 1..n
                       /\ \A j \in 1..n : Room((Scanned(model, bars, room))[j], bars, room)
  BY <1>0
<1> DEFINE Op(s, x) == ScanBar(s, model, bars, x)
           V == Runs
           base == [last |-> 0, trades |-> <<>>]
<1>2. base \in V /\ \A s \in V, i \in 1..n : Op(s, (Scanned(model, bars, room))[i]) \in V
  <2>1. ASSUME NEW s \in V, NEW i \in 1..n
        PROVE  Op(s, (Scanned(model, bars, room))[i]) \in V
    BY <1>1, ScansBar
  <2>2. base \in V
    <3>1. <<>> \in Seq(HeldTrade) /\ Len(<<>>) = 0
      OBVIOUS
    <3>2. QED
      BY <3>1 DEF Runs, SpacedTrades
  <2>3. QED
    <3> HIDE DEF Op, V, base
    <3>1. QED
      BY <2>1, <2>2
<1>3. PICK F : F = [p \in V \X (1..n) |-> Op(p[1], (Scanned(model, bars, room))[p[2]])]
  OBVIOUS
<1>4. F \in [V \X (1..n) -> V] /\ \A s \in V, i \in 1..n : F[<<s, i>>] = Op(s, (Scanned(model, bars, room))[i])
  <2> HIDE DEF Op, V, base
  <2>1. \A p \in V \X (1..n) : p[1] \in V /\ p[2] \in 1..n
    OBVIOUS
  <2>2. QED
    BY <1>2, <1>3, <2>1
<1>5. PICK g \in [SUBSET (1..n) -> V] : FoldRule(g, F, base, n)
  <2> HIDE DEF Op, V, base
  <2>1. QED
    BY <1>2, <1>4, FoldExists
<1> DEFINE Rule(it) == it = [s \in SUBSET (DOMAIN Scanned(model, bars, room)) |->
                               IF s = {} THEN base ELSE Op(it[s \ {Max(s)}], (Scanned(model, bars, room))[Max(s)])]
<1>6. Rule(g)
  <2> HIDE DEF Op, V, base
  <2>1. ASSUME NEW s \in SUBSET (1..n)
        PROVE  g[s] = IF s = {} THEN base ELSE Op(g[s \ {Max(s)}], (Scanned(model, bars, room))[Max(s)])
    <3>1. CASE s = {}
      BY <1>5, <3>1 DEF FoldRule
    <3>2. CASE s # {}
      <4>1. Max(s) \in 1..n /\ s \ {Max(s)} \in SUBSET (1..n)
        BY <3>2, LargestOf
      <4>2. g[s \ {Max(s)}] \in V
        BY <4>1
      <4>3. F[<<g[s \ {Max(s)}], Max(s)>>] = Op(g[s \ {Max(s)}], (Scanned(model, bars, room))[Max(s)])
        BY <1>4, <4>1, <4>2
      <4>4. QED
        BY <1>5, <3>2, <4>3 DEF FoldRule
    <3>3. QED
      BY <3>1, <3>2
  <2>2. QED
    BY <1>1, <2>1
<1>7. PICK h : h = CHOOSE it : Rule(it)
  OBVIOUS
<1>8. Rule(h)
  <2> HIDE DEF Rule
  <2>1. QED
    BY <1>6, <1>7, Zenon
<1>9. Simulate(model, bars, room) = h[DOMAIN Scanned(model, bars, room)].trades
  BY <1>7, Zenon DEF Simulate, FoldLeft, MapThenFoldSet
<1>10. FoldsLike(h, V, F, base, n)
  <2> HIDE DEF Op, V, base
  <2>1. ASSUME NEW T \in SUBSET (1..n), T # {}, h[T \ {Max(T)}] \in V
        PROVE  h[T] = F[<<h[T \ {Max(T)}], Max(T)>>]
    <3>1. Max(T) \in 1..n
      BY <2>1, LargestOf
    <3>2. h[T] = Op(h[T \ {Max(T)}], (Scanned(model, bars, room))[Max(T)])
      BY <1>1, <1>8, <2>1
    <3>3. QED
      BY <1>4, <2>1, <3>1, <3>2
  <2>2. ASSUME NEW T \in SUBSET (1..n), T = {} PROVE h[T] = base
    BY <1>1, <1>8, <2>2
  <2>3. QED
    BY <1>2, <1>4, <2>1, <2>2 DEF FoldsLike
<1>11. PICK f \in [0..n -> V] : Stepwise(f, F, base, n) /\ h[1..n] = f[n]
  <2> HIDE DEF Op, V, base
  <2>1. QED
    BY <1>10, FoldValue DEF Followed
<1>12. f[0] = base /\ \A i \in 1..n : f[i] = Op(f[i - 1], (Scanned(model, bars, room))[i])
  <2> HIDE DEF Op, V, base
  <2>1. ASSUME NEW i \in 1..n PROVE f[i] = Op(f[i - 1], (Scanned(model, bars, room))[i])
    <3>1. i - 1 \in 0..n
      OBVIOUS
    <3>2. QED
      BY <1>4, <1>11, <3>1 DEF Stepwise
  <2>2. QED
    BY <1>11, <2>1 DEF Stepwise
<1>13. n \in 0..n
  OBVIOUS
<1>14. Simulate(model, bars, room) = f[n].trades /\ f[n] \in Runs
  <2> HIDE DEF Op, base, Rule
  <2>1. QED
    BY <1>1, <1>9, <1>11, <1>13
<1>15. QED
  BY <1>14

\* The positions of a run keep their distance, and none is cut short by the end
\* of the data (the loops of simulate_model_for_coin and simulate_model).
THEOREM RunsAreSpaced == Spec => []TradesAreSpaced
<1>1. ASSUME Called PROVE TradesAreSpaced
  <2> SUFFICES ASSUME Returned("run") PROVE TradesAreSpaced
    BY DEF TradesAreSpaced
  <2>1. PICK bars \in Seq(CoinBar) : input.bars = bars
    BY <1>1, ReturnedRight, CoinBarsAssumption DEF Argued
  <2>2. PICK m \in DOMAIN Models \cup DOMAIN Models48 : input.model = m
    BY <1>1, ReturnedRight DEF Argued
  <2>3. outcome.result = IF m \in DOMAIN Models
                         THEN Simulate(Models[m], bars, 1)
                         ELSE Simulate(Models48[m], bars, PullbackBars)
    BY <1>1, <2>1, <2>2, ReturnedRight DEF Right
  <2>4. PullbackBars \in Nat \ {0}
    BY SignalBacktestAssumption
  <2>5. \E s \in Runs : outcome.result = s.trades
    <3>1. CASE m \in DOMAIN Models
      <4>1. ~Models[m].pullback
        BY <3>1 DEF Models, Asks
      <4>2. PICK room \in Nat \ {0} : room = 1
        OBVIOUS
      <4>3. \E s \in Runs : Simulate(Models[m], bars, room) = s.trades
        BY <4>1, SimulatesSpaced
      <4>4. QED
        BY <2>3, <3>1, <4>2, <4>3
    <3>2. CASE m \notin DOMAIN Models
      <4>1. PICK room \in Nat \ {0} : room = PullbackBars
        BY <2>4
      <4>2. PullbackBars <= room
        BY <2>4, <4>1
      <4>3. \E s \in Runs : Simulate(Models48[m], bars, room) = s.trades
        BY <4>2, SimulatesSpaced
      <4>4. QED
        BY <2>3, <3>2, <4>1, <4>3
    <3>3. QED
      BY <3>1, <3>2
  <2>6. PICK s \in Runs : outcome.result = s.trades
    BY <2>5
  <2>7. PICK trades \in Seq(HeldTrade) : outcome.result = trades /\ SpacedTrades(trades)
    BY <2>6 DEF Runs
  <2>8. ASSUME NEW k \in DOMAIN trades, trades[k].exit.reason = "time_stop"
        PROVE  trades[k].exit.at = trades[k].at + MaxHold - 1
    <3>1. trades[k] \in HeldTrade
      OBVIOUS
    <3>2. QED
      BY <2>8, <3>1 DEF HeldTrade
  <2>9. QED
    BY <2>7, <2>8 DEF TradesAreSpaced, SpacedTrades
<1>2. QED
  BY <1>1, AlwaysCalled, PTL

-----------------------------------------------------------------------------
(* The dataset of files that hold less                                       *)

Stamped(rows) ==
  /\ Sorted(rows)
  /\ \E R : rows \in Seq(R) /\ \A r \in R : r.ts \in Nat

\* The first m rows are those of the time and before.
Cut(rows, cut, m, time) ==
  /\ \E R : rows \in Seq(R) /\ cut \in Seq(R)
  /\ m \in 0..Len(rows) /\ Len(cut) = m
  /\ \A k \in 1..m : cut[k] = rows[k] /\ rows[k].ts <= time
  /\ \A k \in 1..Len(rows) : rows[k].ts <= time => k <= m

LEMMA BeginningIsCut ==
  ASSUME NEW rows, Stamped(rows), NEW time \in Nat
  PROVE  \E m : Cut(rows, Beginning(rows, time), m, time)
<1>1. PICK R : rows \in Seq(R) /\ \A r \in R : r.ts \in Nat
  BY DEF Stamped
<1>2. PICK n \in Nat : n = Len(rows) /\ DOMAIN rows = 1..n
  BY <1>1
<1>3. \A k \in 1..n : rows[k].ts \in Nat
  BY <1>1, <1>2
<1>4. PICK kept \in SUBSET (1..n) : kept = {k \in DOMAIN rows : rows[k].ts <= time}
  BY <1>2
<1>5. \A k \in kept, j \in 1..n : j <= k => j \in kept
  <2>1. ASSUME NEW k \in kept, NEW j \in 1..n, j <= k PROVE j \in kept
    <3>1. rows[j].ts <= rows[k].ts /\ rows[k].ts <= time
      BY <1>2, <1>4, <2>1 DEF Stamped, Sorted
    <3>2. rows[j].ts <= time
      BY <1>3, <3>1
    <3>3. QED
      BY <1>2, <1>4, <3>2
  <2>2. QED
    BY <2>1
<1>6. PICK m \in 0..n : kept = 1..m
  <2>1. CASE kept = {}
    <3>1. 1..0 = {} /\ 0 \in 0..n
      OBVIOUS
    <3>2. QED
      BY <2>1, <3>1
  <2>2. CASE kept # {}
    <3>1. Max(kept) \in kept /\ \A k \in kept : k <= Max(kept)
      BY <2>2, LargestOf
    <3>2. PICK x \in 1..n : x = Max(kept)
      BY <3>1
    <3>3. ASSUME NEW k \in kept PROVE k \in 1..x
      <4>1. k \in 1..n /\ k <= x
        BY <3>1, <3>2
      <4>2. QED
        BY <4>1
    <3>4. ASSUME NEW k \in 1..x PROVE k \in kept
      <4>1. k \in 1..n /\ k <= x /\ x \in kept
        BY <3>1, <3>2
      <4>2. QED
        BY <1>5, <4>1
    <3>5. kept = 1..x
      BY <3>3, <3>4, Zenon
    <3>6. x \in 0..n
      OBVIOUS
    <3>7. QED
      BY <3>5, <3>6
  <2>3. QED
    BY <2>1, <2>2
<1>7. Cardinality(kept) = m
  <2>1. 1 \in Int /\ m \in Int
    OBVIOUS
  <2>2. Cardinality(1..m) = IF 1 > m THEN 0 ELSE m - 1 + 1
    BY <2>1, FS_Interval
  <2>3. QED
    BY <1>6, <2>2
<1>8. PICK cut : cut = SubSeq(rows, 1, m)
  OBVIOUS
<1>9. cut = Beginning(rows, time)
  BY <1>4, <1>7, <1>8 DEF Beginning
<1>10. cut \in Seq(R) /\ Len(cut) = m /\ \A k \in 1..m : cut[k] = rows[k]
  BY <1>1, <1>2, <1>8
<1>11. ASSUME NEW k \in 1..n PROVE rows[k].ts <= time <=> k <= m
  <2>1. rows[k].ts <= time <=> k \in kept
    BY <1>2, <1>4
  <2>2. k \in kept <=> k <= m
    BY <1>6
  <2>3. QED
    BY <2>1, <2>2
<1>12. Cut(rows, cut, m, time)
  <2>1. \A k \in 1..m : k \in 1..n /\ k <= m
    OBVIOUS
  <2>2. QED
    BY <1>1, <1>2, <1>10, <1>11, <2>1 DEF Cut
<1>13. QED
  BY <1>9, <1>12

LEMMA SameWindow ==
  ASSUME NEW rows, NEW cut, NEW m, NEW time, Cut(rows, cut, m, time), NEW i \in 1..m, NEW pct
  PROVE  RvolReaches(cut, i, pct) <=> RvolReaches(rows, i, pct)
<1>1. PICK R : rows \in Seq(R) /\ cut \in Seq(R)
  BY DEF Cut
<1>2. PICK n \in Nat : n = Len(rows)
  BY <1>1
<1>3. m \in 0..n /\ Len(cut) = m /\ (\A k \in 1..m : cut[k] = rows[k])
  BY <1>2 DEF Cut
<1>4. CASE i >= VolWindow
  <2>1. PICK a \in Nat \ {0} : a = i - VolWindow + 1
    BY <1>3, <1>4, CoinDatasetAssumption
  <2>2. PICK u : u = SubSeq(rows, a, i)
    OBVIOUS
  <2>3. PICK w : w = SubSeq(cut, a, i)
    OBVIOUS
  <2>4. a <= i /\ i <= n /\ i \in Nat /\ m <= n /\ i <= m
    BY <1>3, <2>1, <1>4, CoinDatasetAssumption
  <2>5. u = [k \in 1..(i - a + 1) |-> rows[a + k - 1]]
    BY <1>1, <1>2, <2>2, <2>4
  <2>6. w = [k \in 1..(i - a + 1) |-> cut[a + k - 1]]
    BY <1>1, <1>3, <2>3, <2>4
  <2>7. \A k \in 1..(i - a + 1) : a + k - 1 \in 1..m
    BY <2>1, <2>4, <1>3
  <2>8. u = w
    BY <1>3, <2>5, <2>6, <2>7
  <2>9. PICK v : v = VolumeOf(u)
    OBVIOUS
  <2>10. VolumeOf(SubSeq(rows, i - VolWindow + 1, i)) = v /\ VolumeOf(SubSeq(cut, i - VolWindow + 1, i)) = v
    BY <2>1, <2>2, <2>3, <2>8, <2>9
  <2>11. cut[i] = rows[i]
    BY <1>3
  <2>12. RvolReaches(rows, i, pct) <=> i >= VolWindow /\ v > 0 /\ rows[i].v * VolWindow * 100 >= pct * v
    BY <2>10 DEF RvolReaches
  <2>13. RvolReaches(cut, i, pct) <=> i >= VolWindow /\ v > 0 /\ cut[i].v * VolWindow * 100 >= pct * v
    BY <2>10 DEF RvolReaches
  <2>14. QED
    BY <2>11, <2>12, <2>13
<1>5. CASE ~(i >= VolWindow)
  BY <1>5 DEF RvolReaches
<1>6. QED
  BY <1>4, <1>5

Sample == [ts : Nat, oi : Nat]

\* The files of a coin.
Files(files) ==
  /\ Stamped(files.rows)
  /\ files.oi \in Seq(Sample) /\ Stamped(files.oi)
  /\ \A k \in DOMAIN files.others : Stamped(files.others[k])

LEMMA SameCount ==
  ASSUME NEW files, Files(files), NEW time \in Nat, NEW then, then = UpTo(files, time),
         NEW m, Cut(files.rows, then.rows, m, time), NEW i \in 1..m
  PROVE  CrossCount(then, i) = CrossCount(files, i)
<1> DEFINE Confirms(fs, rows) ==
             \E j \in DOMAIN rows : rows[j].ts = fs.rows[i].ts /\ RvolReaches(rows, j, CrossPct)
<1>1. then.rows[i] = files.rows[i] /\ files.rows[i].ts <= time
  BY DEF Cut
<1>2. then.others = [k \in DOMAIN files.others |-> Beginning(files.others[k], time)]
  BY DEF UpTo
<1>3. ASSUME NEW k \in DOMAIN files.others
      PROVE  Confirms(then, then.others[k]) <=> Confirms(files, files.others[k])
  <2>1. PICK rows : rows = files.others[k]
    OBVIOUS
  <2>2. PICK cut : cut = then.others[k]
    OBVIOUS
  <2>3. PICK n : Cut(rows, cut, n, time)
    <3>1. Stamped(rows)
      BY <2>1 DEF Files
    <3>2. cut = Beginning(rows, time)
      BY <1>2, <2>1, <2>2
    <3>3. QED
      BY <3>1, <3>2, BeginningIsCut
  <2>4. PICK R : rows \in Seq(R) /\ cut \in Seq(R)
    BY <2>3 DEF Cut
  <2>5. DOMAIN cut = 1..n /\ DOMAIN rows = 1..Len(rows) /\ Len(rows) \in Nat /\ n \in 0..Len(rows)
    BY <2>3, <2>4 DEF Cut
  <2>6. \A j \in 1..n : cut[j] = rows[j] /\ (RvolReaches(cut, j, CrossPct) <=> RvolReaches(rows, j, CrossPct))
    BY <2>3, SameWindow DEF Cut
  <2>7. PICK ts : ts = files.rows[i].ts /\ ts = then.rows[i].ts /\ ts <= time
    BY <1>1
  <2>8. \A j \in 1..Len(rows) : rows[j].ts = ts => j \in 1..n
    BY <2>3, <2>5, <2>7 DEF Cut
  <2>9. Confirms(then, cut) <=> \E j \in 1..n : cut[j].ts = ts /\ RvolReaches(cut, j, CrossPct)
    BY <2>5, <2>7
  <2>10. Confirms(files, rows) <=> \E j \in 1..Len(rows) : rows[j].ts = ts /\ RvolReaches(rows, j, CrossPct)
    BY <2>5, <2>7
  <2>11. (\E j \in 1..n : cut[j].ts = ts /\ RvolReaches(cut, j, CrossPct))
           <=> \E j \in 1..Len(rows) : rows[j].ts = ts /\ RvolReaches(rows, j, CrossPct)
    BY <2>5, <2>6, <2>8
  <2>12. QED
    BY <2>1, <2>2, <2>9, <2>10, <2>11
<1>4. RvolReaches(then.rows, i, CrossPct) <=> RvolReaches(files.rows, i, CrossPct)
  BY SameWindow
<1>5. PICK K : /\ K = {k \in DOMAIN files.others : Confirms(files, files.others[k])}
               /\ K = {k \in DOMAIN then.others : Confirms(then, then.others[k])}
  <2>1. DOMAIN then.others = DOMAIN files.others
    BY <1>2
  <2> HIDE DEF Confirms
  <2>2. QED
    BY <1>3, <2>1
<1>6. CrossCount(files, i) = Cardinality(K) + (IF RvolReaches(files.rows, i, CrossPct) THEN 1 ELSE 0)
  BY <1>5 DEF CrossCount
<1>7. CrossCount(then, i) = Cardinality(K) + (IF RvolReaches(then.rows, i, CrossPct) THEN 1 ELSE 0)
  BY <1>5 DEF CrossCount
<1>8. QED
  BY <1>4, <1>6, <1>7

LEMMA SampleIsWhole ==
  ASSUME NEW files, Files(files), NEW j \in 1..Len(files.oi)
  PROVE  files.oi[j].ts \in Nat /\ files.oi[j].oi \in Nat
<1>1. files.oi \in Seq(Sample)
  BY DEF Files
<1>2. files.oi[j] \in Sample
  BY <1>1
<1>3. QED
  BY <1>2 DEF Sample

\* Where a row that has a sample is among the first m, the cut files say the same
\* of the open interest as the whole ones.
LEMMA SameSamples ==
  ASSUME NEW files, Files(files), NEW time \in Nat, NEW then, then = UpTo(files, time),
         NEW m, Cut(files.rows, then.rows, m, time), NEW i \in 1..m
  PROVE  Samples(then, i) = Samples(files, i)
<1>1. then.rows[i].ts = files.rows[i].ts /\ files.rows[i].ts <= time
  BY DEF Cut
<1>2. PICK n : Cut(files.oi, then.oi, n, time)
  <2>1. then.oi = Beginning(files.oi, time)
    BY DEF UpTo
  <2>2. QED
    BY <2>1, BeginningIsCut DEF Files
<1>3. PICK R : files.oi \in Seq(R) /\ then.oi \in Seq(R)
  BY <1>2 DEF Cut
<1>4. /\ DOMAIN then.oi = 1..n /\ DOMAIN files.oi = 1..Len(files.oi)
      /\ Len(files.oi) \in Nat /\ n \in 0..Len(files.oi)
  BY <1>2, <1>3 DEF Cut
<1>5. PICK ts \in Nat : ts = files.rows[i].ts
  <2>1. PICK Q : files.rows \in Seq(Q) /\ \A r \in Q : r.ts \in Nat
    BY DEF Files, Stamped
  <2>2. i \in 1..Len(files.rows)
    BY <2>1 DEF Cut
  <2>3. QED
    BY <2>1, <2>2
<1>6. ASSUME NEW j \in 1..Len(files.oi), files.oi[j].ts <= ts PROVE j \in 1..n
  <2>1. files.oi[j].ts \in Nat
    BY SampleIsWhole
  <2>2. files.oi[j].ts <= time
    BY <1>1, <1>5, <1>6, <2>1
  <2>3. QED
    BY <1>2, <1>4, <2>2 DEF Cut
<1>7. \A j \in 1..n : then.oi[j] = files.oi[j]
  BY <1>2 DEF Cut
<1>8. ToSet(then.oi) = {then.oi[j] : j \in 1..n} /\ ToSet(files.oi) = {files.oi[j] : j \in 1..Len(files.oi)}
  BY <1>4 DEF ToSet
<1>9. Samples(then, i) = {s \in ToSet(then.oi) : s.ts <= ts}
  BY <1>1, <1>5 DEF Samples
<1>10. Samples(files, i) = {s \in ToSet(files.oi) : s.ts <= ts}
  BY <1>5 DEF Samples
<1>11. ASSUME NEW s \in Samples(then, i) PROVE s \in Samples(files, i)
  <2>1. PICK j \in 1..n : s = then.oi[j]
    BY <1>8, <1>9
  <2>2. s = files.oi[j] /\ j \in 1..Len(files.oi)
    BY <1>4, <1>7, <2>1
  <2>3. QED
    BY <1>8, <1>9, <1>10, <2>2
<1>12. ASSUME NEW s \in Samples(files, i) PROVE s \in Samples(then, i)
  <2>1. PICK j \in 1..Len(files.oi) : s = files.oi[j] /\ files.oi[j].ts <= ts
    BY <1>8, <1>10
  <2>2. s = then.oi[j] /\ j \in 1..n
    BY <1>6, <1>7, <2>1
  <2>3. QED
    BY <1>8, <1>9, <2>1, <2>2
<1>13. QED
  BY <1>11, <1>12

\* Rows only ever gain samples.
LEMMA SamplesGrow ==
  ASSUME NEW files, Files(files), NEW i \in DOMAIN files.rows, NEW j \in DOMAIN files.rows, i <= j
  PROVE  Samples(files, i) \subseteq Samples(files, j)
<1>1. PICK Q : files.rows \in Seq(Q) /\ \A r \in Q : r.ts \in Nat
  BY DEF Files, Stamped
<1>2. files.rows[i].ts <= files.rows[j].ts /\ files.rows[i].ts \in Nat /\ files.rows[j].ts \in Nat
  BY <1>1 DEF Files, Stamped, Sorted
<1>3. \A s \in ToSet(files.oi) : s.ts \in Nat
  <2>1. ASSUME NEW s \in ToSet(files.oi) PROVE s.ts \in Nat
    <3>1. PICK k \in DOMAIN files.oi : s = files.oi[k]
      BY DEF ToSet
    <3>2. k \in 1..Len(files.oi)
      BY DEF Files
    <3>3. QED
      BY <3>1, <3>2, SampleIsWhole
  <2>2. QED
    BY <2>1
<1>4. QED
  BY <1>2, <1>3 DEF Samples

\* The rows from k on that have a sample.
Joined(files, k) == {j \in DOMAIN files.rows : j >= k /\ Samples(files, j) # {}}

LEMMA InterestIs ==
  ASSUME NEW files, Files(files), NEW k
  PROVE  /\ Joined(files, k) = {} => OpenInterest(files, k) = 0
         /\ \A j \in Joined(files, k) : (\A l \in Joined(files, k) : j <= l) =>
              OpenInterest(files, k) = Latest(Samples(files, j))
<1>1. OpenInterest(files, k) =
        IF Joined(files, k) = {} THEN 0
        ELSE Latest(Samples(files, CHOOSE j \in Joined(files, k) : \A l \in Joined(files, k) : j <= l))
  BY DEF OpenInterest, Joined
<1>2. Joined(files, k) \subseteq Nat
  BY DEF Joined, Files, Stamped
<1>3. ASSUME NEW j \in Joined(files, k), \A l \in Joined(files, k) : j <= l
      PROVE  OpenInterest(files, k) = Latest(Samples(files, j))
  <2>1. PICK c : c = CHOOSE x \in Joined(files, k) : \A l \in Joined(files, k) : x <= l
    OBVIOUS
  <2>2. c \in Joined(files, k) /\ \A l \in Joined(files, k) : c <= l
    BY <1>3, <2>1
  <2>3. c = j
    BY <1>2, <1>3, <2>2
  <2>4. QED
    BY <1>1, <1>3, <2>1, <2>3
<1>4. QED
  BY <1>1, <1>3

\* The latest of some samples is one of them.
LEMMA InterestIsWhole ==
  ASSUME NEW files, Files(files), NEW j, Samples(files, j) # {}
  PROVE  Latest(Samples(files, j)) \in Nat
<1>1. PICK S : S = Samples(files, j)
  OBVIOUS
<1>2. PICK n \in Nat : n = Len(files.oi) /\ DOMAIN files.oi = 1..n
  BY DEF Files
<1>3. \A i \in 1..n : files.oi[i].ts \in Nat /\ files.oi[i].oi \in Nat
  BY <1>2, SampleIsWhole
<1>4. PICK K \in SUBSET (1..n) : K = {i \in 1..n : files.oi[i] \in S}
  OBVIOUS
<1>5. S \subseteq {files.oi[i] : i \in 1..n}
  BY <1>1, <1>2 DEF Samples, ToSet
<1>6. K # {}
  BY <1>1, <1>4, <1>5
<1>7. PICK last : last \in K /\ \A i \in K : i <= last
  BY <1>6, LargestOf
<1>8. \A r \in S : r.ts <= files.oi[last].ts
  <2>1. ASSUME NEW r \in S PROVE r.ts <= files.oi[last].ts
    <3>1. PICK i \in 1..n : r = files.oi[i]
      BY <1>5
    <3>2. i \in K /\ i <= last /\ last \in 1..n
      BY <1>4, <1>7, <3>1
    <3>3. files.oi[i].ts <= files.oi[last].ts
      BY <1>2, <3>2 DEF Files, Stamped, Sorted
    <3>4. QED
      BY <3>1, <3>3
  <2>2. QED
    BY <2>1
<1>9. files.oi[last] \in S
  BY <1>4, <1>7
<1>10. PICK s : s = CHOOSE x \in S : \A r \in S : r.ts <= x.ts
  OBVIOUS
<1>11. s \in S
  BY <1>8, <1>9, <1>10
<1>12. s.oi \in Nat
  BY <1>3, <1>5, <1>11
<1>13. Latest(S) = s.oi
  BY <1>10 DEF Latest
<1>14. QED
  BY <1>1, <1>12, <1>13

\* No change, and no limit reached.
LEMMA NothingReached ==
  ASSUME NEW x \in Nat \ {0}, NEW sign \in {1, -1}
  PROVE  Reached(x, x, sign) = {}
<1>1. ASSUME NEW l \in DoiLimits PROVE ~(sign * (x - x) * 10000 >= l * x)
  <2>1. l \in Nat \ {0}
    BY CoinDatasetAssumption
  <2>2. l * x > 0
    BY ONLY <2>1, x \in Nat \ {0}
  <2>3. sign * (x - x) * 10000 = 0
    OBVIOUS
  <2>4. l * x \in Int
    BY <2>1
  <2>5. QED
    BY <2>2, <2>3, <2>4
<1>2. QED
  BY <1>1 DEF Reached

LEMMA SameLevel ==
  ASSUME NEW files, Files(files), NEW time \in Nat, NEW then, then = UpTo(files, time), Files(then),
         NEW m, Cut(files.rows, then.rows, m, time), NEW i \in 1..m
  PROVE  DoiLevel(then, i) = DoiLevel(files, i)
<1>1. PICK R : files.rows \in Seq(R) /\ then.rows \in Seq(R)
  BY DEF Cut
<1>2. PICK n \in Nat : n = Len(files.rows) /\ DOMAIN files.rows = 1..n /\ m \in 0..n /\ DOMAIN then.rows = 1..m
  BY <1>1 DEF Cut
<1>3. \A j \in 1..m : Samples(then, j) = Samples(files, j) /\ j \in 1..n
  <2>1. ASSUME NEW j \in 1..m PROVE Samples(then, j) = Samples(files, j)
    BY SameSamples
  <2>2. \A j \in 1..m : j \in 1..n
    BY <1>2
  <2>3. QED
    BY <2>1, <2>2
<1>4. ASSUME NEW k \in Nat, NEW j \in 1..m, j >= k, Samples(files, j) # {}
      PROVE  OpenInterest(then, k) = OpenInterest(files, k)
  <2>1. j \in Joined(files, k) /\ j \in Joined(then, k)
    BY <1>2, <1>3, <1>4 DEF Joined
  <2>2. Joined(files, k) \in SUBSET Nat
    BY <1>2 DEF Joined
  <2>3. PICK l \in Joined(files, k) : \A x \in Joined(files, k) : l <= x
    BY <2>1, <2>2, LeastOfNaturals
  <2>4. l \in 1..m /\ l >= k /\ Samples(files, l) # {}
    <3>1. l <= j /\ l \in 1..n /\ l >= k /\ Samples(files, l) # {}
      BY <1>2, <2>1, <2>3 DEF Joined
    <3>2. l \in 1..m
      BY <1>2, <3>1
    <3>3. QED
      BY <3>1, <3>2
  <2>5. l \in Joined(then, k)
    BY <1>2, <1>3, <2>4 DEF Joined
  <2>6. Joined(then, k) \subseteq Joined(files, k)
    BY <1>2, <1>3 DEF Joined
  <2>7. OpenInterest(files, k) = Latest(Samples(files, l))
    BY <2>3, InterestIs
  <2>8. OpenInterest(then, k) = Latest(Samples(then, l))
    BY <2>3, <2>5, <2>6, InterestIs
  <2>9. QED
    BY <1>3, <2>4, <2>7, <2>8
<1>5. CASE i <= OiRows
  BY <1>5 DEF DoiLevel
<1>6. CASE ~(i <= OiRows)
  <2>1. PICK k \in Nat \ {0} : k = i - OiRows /\ k <= i
    BY <1>6, CoinDatasetAssumption
  <2>2. CASE Samples(files, i) # {}
    <3>1. i \in Nat /\ i >= i /\ i >= k
      BY <2>1
    <3>2. OpenInterest(then, i) = OpenInterest(files, i) /\ OpenInterest(then, k) = OpenInterest(files, k)
      BY <1>4, <2>2, <3>1
    <3>3. QED
      BY <2>1, <3>2 DEF DoiLevel
  <2>3. CASE Samples(files, i) = {}
    <3>1. ASSUME NEW fs, Files(fs), NEW len \in Nat, DOMAIN fs.rows = 1..len, i \in 1..len, Samples(fs, i) = {}
          PROVE  DoiLevel(fs, i) = 0
      <4>1. \A j \in 1..i : Samples(fs, j) = {}
        <5>1. ASSUME NEW j \in 1..i PROVE Samples(fs, j) = {}
          <6>1. j \in DOMAIN fs.rows /\ i \in DOMAIN fs.rows /\ j <= i
            BY <3>1
          <6>2. Samples(fs, j) \subseteq Samples(fs, i)
            BY <3>1, <6>1, SamplesGrow
          <6>3. QED
            BY <3>1, <6>2
        <5>2. QED
          BY <5>1
      <4>2. Joined(fs, k) = Joined(fs, i)
        <5>1. ASSUME NEW j \in 1..len, j >= k, Samples(fs, j) # {} PROVE j >= i
          BY <3>1, <4>1, <5>1
        <5>2. \A j \in 1..len : j >= i => j >= k
          BY <2>1
        <5>3. QED
          BY <3>1, <5>1, <5>2 DEF Joined
      <4>3. PICK x : x = OpenInterest(fs, i)
        OBVIOUS
      <4>4. OpenInterest(fs, k) = x /\ x \in Nat
        <5>1. CASE Joined(fs, i) = {}
          BY <3>1, <4>2, <4>3, <5>1, InterestIs
        <5>2. CASE Joined(fs, i) # {}
          <6>1. Joined(fs, i) \in SUBSET Nat
            BY <3>1 DEF Joined
          <6>2. PICK l \in Joined(fs, i) : \A y \in Joined(fs, i) : l <= y
            BY <5>2, <6>1, LeastOfNaturals
          <6>3. x = Latest(Samples(fs, l)) /\ OpenInterest(fs, k) = Latest(Samples(fs, l))
            BY <3>1, <4>2, <4>3, <6>2, InterestIs
          <6>4. Samples(fs, l) # {}
            BY <6>2 DEF Joined
          <6>5. QED
            BY <3>1, <6>3, <6>4, InterestIsWhole
        <5>3. QED
          BY <5>1, <5>2
      <4>5. CASE x = 0
        BY <1>6, <2>1, <4>3, <4>4, <4>5 DEF DoiLevel
      <4>6. CASE x # 0
        <5>1. PICK one, minus : one = 1 /\ minus = -1 /\ one \in {1, -1} /\ minus \in {1, -1}
          OBVIOUS
        <5>2. Reached(x, x, one) = {} /\ Reached(x, x, minus) = {}
          BY <4>4, <4>6, <5>1, NothingReached
        <5>3. DoiLevel(fs, i) = Cardinality(Reached(x, x, 1)) - Cardinality(Reached(x, x, -1))
          BY <1>6, <2>1, <4>3, <4>4, <4>6 DEF DoiLevel
        <5>4. Cardinality({}) = 0
          BY FS_EmptySet
        <5>5. QED
          BY <5>1, <5>2, <5>3, <5>4
      <4>7. QED
        BY <4>5, <4>6
    <3>2. DoiLevel(files, i) = 0
      <4>1. i \in 1..n
        BY <1>3
      <4>2. QED
        BY <1>2, <2>3, <3>1, <4>1
    <3>3. DoiLevel(then, i) = 0
      <4>1. Samples(then, i) = {} /\ m \in Nat
        BY <1>2, <1>3, <2>3
      <4>2. QED
        BY <1>2, <3>1, <4>1
    <3>4. QED
      BY <3>2, <3>3
  <2>4. QED
    BY <2>2, <2>3
<1>7. QED
  BY <1>5, <1>6

\* The files at a time are files.
LEMMA CutIsStamped ==
  ASSUME NEW rows, Stamped(rows), NEW time \in Nat
  PROVE  Stamped(Beginning(rows, time))
<1>1. PICK m, cut : cut = Beginning(rows, time) /\ Cut(rows, cut, m, time)
  BY BeginningIsCut
<1>2. PICK R : rows \in Seq(R) /\ \A r \in R : r.ts \in Nat
  BY DEF Stamped
<1>3. PICK Q : cut \in Seq(Q)
  BY <1>1 DEF Cut
<1>4. /\ Len(rows) \in Nat /\ DOMAIN rows = 1..Len(rows) /\ m \in 0..Len(rows)
      /\ Len(cut) = m /\ DOMAIN cut = 1..m /\ \A k \in 1..m : cut[k] = rows[k]
  BY <1>1, <1>2, <1>3 DEF Cut
<1>5. cut \in Seq(R)
  <2>1. \A k \in 1..m : cut[k] \in R
    BY <1>2, <1>4
  <2>2. cut = [k \in 1..m |-> cut[k]]
    BY <1>3, <1>4
  <2>3. QED
    BY <1>4, <2>1, <2>2
<1>6. Sorted(cut)
  <2>1. \A k \in 1..m : k \in 1..Len(rows)
    BY <1>4
  <2>2. QED
    BY <1>4, <2>1 DEF Stamped, Sorted
<1>7. QED
  BY <1>1, <1>2, <1>5, <1>6 DEF Stamped

LEMMA CutFiles ==
  ASSUME NEW files, Files(files), NEW time \in Nat
  PROVE  Files(UpTo(files, time))
<1>1. PICK then : then = UpTo(files, time)
  OBVIOUS
<1>2. /\ then.rows = Beginning(files.rows, time) /\ then.oi = Beginning(files.oi, time)
      /\ then.others = [k \in DOMAIN files.others |-> Beginning(files.others[k], time)]
  BY <1>1 DEF UpTo
<1>3. Stamped(then.rows) /\ Stamped(then.oi)
  BY <1>2, CutIsStamped DEF Files
<1>4. \A k \in DOMAIN then.others : Stamped(then.others[k])
  BY <1>2, CutIsStamped DEF Files
<1>5. then.oi \in Seq(Sample)
  <2>1. PICK m : Cut(files.oi, then.oi, m, time)
    BY <1>2, BeginningIsCut DEF Files
  <2>2. PICK Q : then.oi \in Seq(Q)
    BY <2>1 DEF Cut
  <2>3. /\ Len(files.oi) \in Nat /\ m \in 0..Len(files.oi) /\ Len(then.oi) = m /\ DOMAIN then.oi = 1..m
        /\ \A k \in 1..m : then.oi[k] = files.oi[k]
    BY <2>1, <2>2 DEF Cut, Files
  <2>4. \A k \in 1..m : then.oi[k] \in Sample
    BY <2>3 DEF Files
  <2>5. then.oi = [k \in 1..m |-> then.oi[k]]
    BY <2>2, <2>3
  <2>6. QED
    BY <2>3, <2>4, <2>5
<1>6. QED
  BY <1>1, <1>3, <1>4, <1>5 DEF Files

\* What the backtests are told of a minute, they would have been told at that
\* minute (load_coin_dataset).
THEOREM NothingIsForeseen == Spec => []DatasetIsCausal
<1>1. ASSUME Called PROVE DatasetIsCausal
  <2> SUFFICES ASSUME Returned("dataset") PROVE DatasetIsCausal
    BY DEF DatasetIsCausal
  <2>1. PICK files : files = input.files
    OBVIOUS
  <2>2. PICK time \in Nat : time = input.time /\ files \in CoinFiles
    BY <1>1, <2>1, CoinFilesAssumption, ReturnedRight DEF Argued
  <2>3. PICK then : then = UpTo(files, time)
    OBVIOUS
  <2>4. outcome.result = [whole |-> Dataset(files), then |-> Dataset(then)]
    BY <1>1, <2>1, <2>2, <2>3, ReturnedRight DEF Right
  <2>5. Files(files)
    <3>1. /\ files.rows \in Seq([ts : Nat, o : Nat, c : Nat, v : Nat]) /\ Sorted(files.rows)
          /\ files.oi \in Seq([ts : Nat, oi : Nat]) /\ Sorted(files.oi)
          /\ files.others \in Seq(Seq([ts : Nat, v : Nat]))
          /\ \A k \in DOMAIN files.others : Sorted(files.others[k])
      BY <2>2, CoinFilesAssumption
    <3>2. Stamped(files.rows)
      <4>1. \A r \in [ts : Nat, o : Nat, c : Nat, v : Nat] : r.ts \in Nat
        OBVIOUS
      <4>2. QED
        BY <3>1, <4>1 DEF Stamped
    <3>3. Stamped(files.oi) /\ files.oi \in Seq(Sample)
      <4>1. \A r \in Sample : r.ts \in Nat
        BY DEF Sample
      <4>2. files.oi \in Seq(Sample)
        BY <3>1 DEF Sample
      <4>3. QED
        BY <3>1, <4>1, <4>2 DEF Stamped
    <3>4. ASSUME NEW k \in DOMAIN files.others PROVE Stamped(files.others[k])
      <4>1. \A r \in [ts : Nat, v : Nat] : r.ts \in Nat
        OBVIOUS
      <4>2. files.others[k] \in Seq([ts : Nat, v : Nat]) /\ Sorted(files.others[k])
        BY <3>1
      <4>3. QED
        BY <4>1, <4>2 DEF Stamped
    <3>5. QED
      BY <3>2, <3>3, <3>4 DEF Files
  <2>6. Files(then)
    BY <2>3, <2>5, CutFiles
  <2>7. PICK m : Cut(files.rows, then.rows, m, time)
    <3>1. then.rows = Beginning(files.rows, time)
      BY <2>3 DEF UpTo
    <3>2. QED
      BY <2>5, <3>1, BeginningIsCut DEF Files
  <2>8. PICK o : Cut(files.oi, then.oi, o, time)
    <3>1. then.oi = Beginning(files.oi, time)
      BY <2>3 DEF UpTo
    <3>2. QED
      BY <2>5, <3>1, BeginningIsCut DEF Files
  <2>9. /\ Len(files.rows) \in Nat /\ DOMAIN files.rows = 1..Len(files.rows)
        /\ m \in 0..Len(files.rows) /\ Len(then.rows) = m /\ DOMAIN then.rows = 1..m
    BY <2>7 DEF Cut
  <2>10. Len(files.oi) \in Nat /\ o \in 0..Len(files.oi) /\ Len(then.oi) = o
    BY <2>8 DEF Cut
  <2>11. CASE Len(then.rows) < MinRows \/ Len(then.oi) < MinSamples
    <3>1. Dataset(then) = <<>>
      BY <2>11 DEF Dataset
    <3>2. QED
      BY <2>4, <3>1 DEF DatasetIsCausal
  <2>12. CASE ~(Len(then.rows) < MinRows \/ Len(then.oi) < MinSamples)
    <3>1. ~(Len(files.rows) < MinRows \/ Len(files.oi) < MinSamples)
      BY <2>9, <2>10, <2>12, CoinDatasetAssumption
    <3> DEFINE Told(fs, i) ==
                 [spike |-> Spikes(fs, i), dir |-> IF fs.rows[i].c > fs.rows[i].o THEN 1 ELSE -1,
                  cross |-> CrossCount(fs, i) >= 2, doi |-> DoiLevel(fs, i)]
    <3>2. Dataset(files) = [i \in DOMAIN files.rows |-> Told(files, i)]
      BY <3>1 DEF Dataset
    <3>3. Dataset(then) = [i \in DOMAIN then.rows |-> Told(then, i)]
      BY <2>12 DEF Dataset
    <3>4. ASSUME NEW i \in 1..m PROVE Told(then, i) = Told(files, i)
      <4>1. then.rows[i] = files.rows[i]
        BY <2>7 DEF Cut
      <4>2. Spikes(then, i) = Spikes(files, i)
        <5>1. RvolReaches(then.rows, i, SpikePct) <=> RvolReaches(files.rows, i, SpikePct)
          BY <2>7, SameWindow
        <5>2. QED
          BY <4>1, <5>1 DEF Spikes
      <4>3. CrossCount(then, i) = CrossCount(files, i)
        BY <2>3, <2>5, <2>7, SameCount
      <4>4. DoiLevel(then, i) = DoiLevel(files, i)
        BY <2>3, <2>5, <2>6, <2>7, SameLevel
      <4>5. QED
        BY <4>1, <4>2, <4>3, <4>4
    <3> HIDE DEF Told
    <3>5. ASSUME NEW i \in DOMAIN Dataset(then) PROVE Dataset(then)[i] = Dataset(files)[i]
      <4>1. i \in 1..m /\ i \in DOMAIN files.rows
        BY <2>9, <3>3
      <4>2. QED
        BY <2>9, <3>2, <3>3, <3>4, <4>1
    <3>6. QED
      BY <2>4, <3>5 DEF DatasetIsCausal
  <2>13. QED
    BY <2>11, <2>12
<1>2. QED
  BY <1>1, AlwaysCalled, PTL

-----------------------------------------------------------------------------
(* Books and fills                                                           *)

\* The money the levels of a side take, one after the other.
Sunk(n, d, levels) ==
  /\ d \in [0..n -> Nat]
  /\ d[0] = 0
  /\ \A i \in 1..n : d[i] = d[i - 1] + levels[i].price * levels[i].size

LEMMA LevelIsWhole ==
  ASSUME NEW levels \in Seq(Level), NEW k \in 1..Len(levels)
  PROVE  /\ levels[k].price \in Nat \ {0} /\ levels[k].size \in Nat
         /\ levels[k].price * levels[k].size \in Nat
<1>1. levels[k] \in Level
  OBVIOUS
<1>2. PICK p \in Nat \ {0}, s \in Nat : p = levels[k].price /\ s = levels[k].size
  BY <1>1 DEF Level
<1>3. p * s \in Nat
  OBVIOUS
<1>4. QED
  BY <1>2, <1>3

LEMMA DepthOfPrefix ==
  ASSUME NEW levels \in Seq(Level), NEW m \in 0..Len(levels)
  PROVE  \E d : Sunk(m, d, levels) /\ Depth(levels, m) = d[m]
<1> DEFINE first == SubSeq(levels, 1, m)
<1>0. /\ m \in Nat /\ m <= Len(levels) /\ Len(levels) \in Nat /\ DOMAIN first = 1..m
      /\ \A i \in 1..m : first[i] = levels[i] /\ first[i] \in Level
  <2>1. PICK s : s = SubSeq(levels, 1, m)
    OBVIOUS
  <2>2. s \in Seq(Level) /\ Len(s) = m /\ \A i \in 1..m : s[i] = levels[i]
    BY <2>1
  <2>3. \A i \in 1..m : s[i] \in Level
    BY <2>2
  <2>4. QED
    BY <2>1, <2>2, <2>3
<1>1. PICK n \in Nat : n = m /\ DOMAIN first = 1..n
  BY <1>0
<1> DEFINE Op(s, x) == s + x.price * x.size
           V == Nat
           base == 0
<1>2. base \in V /\ \A s \in V, i \in 1..n : Op(s, first[i]) \in V
  <2> HIDE DEF first
  <2>1. ASSUME NEW s \in V, NEW i \in 1..n PROVE Op(s, first[i]) \in V
    <3>1. PICK p \in Nat, q \in Nat : p = first[i].price /\ q = first[i].size
      BY <1>0, <1>1 DEF Level
    <3>2. s + p * q \in Nat
      OBVIOUS
    <3>3. QED
      BY <3>1, <3>2
  <2>2. base \in V
    OBVIOUS
  <2>3. QED
    <3> HIDE DEF Op, V, base, first
    <3>1. QED
      BY <2>1, <2>2
<1>3. PICK F : F = [p \in V \X (1..n) |-> Op(p[1], first[p[2]])]
  OBVIOUS
<1>4. F \in [V \X (1..n) -> V] /\ \A s \in V, i \in 1..n : F[<<s, i>>] = Op(s, first[i])
  <2> HIDE DEF Op, V, base, first
  <2>1. \A p \in V \X (1..n) : p[1] \in V /\ p[2] \in 1..n
    OBVIOUS
  <2>2. QED
    BY <1>2, <1>3, <2>1
<1>5. PICK g \in [SUBSET (1..n) -> V] : FoldRule(g, F, base, n)
  <2> HIDE DEF Op, V, base, first
  <2>1. QED
    BY <1>2, <1>4, FoldExists
<1> DEFINE Rule(it) == it = [s \in SUBSET (DOMAIN first) |->
                               IF s = {} THEN base ELSE Op(it[s \ {Max(s)}], first[Max(s)])]
<1>6. Rule(g)
  <2> HIDE DEF Op, V, base, first
  <2>1. ASSUME NEW s \in SUBSET (1..n)
        PROVE  g[s] = IF s = {} THEN base ELSE Op(g[s \ {Max(s)}], first[Max(s)])
    <3>1. CASE s = {}
      BY <1>5, <3>1 DEF FoldRule
    <3>2. CASE s # {}
      <4>1. Max(s) \in 1..n /\ s \ {Max(s)} \in SUBSET (1..n)
        BY <3>2, LargestOf
      <4>2. g[s \ {Max(s)}] \in V
        BY <4>1
      <4>3. F[<<g[s \ {Max(s)}], Max(s)>>] = Op(g[s \ {Max(s)}], first[Max(s)])
        BY <1>4, <4>1, <4>2
      <4>4. QED
        BY <1>5, <3>2, <4>3 DEF FoldRule
    <3>3. QED
      BY <3>1, <3>2
  <2>2. QED
    BY <1>1, <2>1
<1>7. PICK h : h = CHOOSE it : Rule(it)
  OBVIOUS
<1>8. Rule(h)
  <2> HIDE DEF Rule, first
  <2>1. QED
    BY <1>6, <1>7, Zenon
<1>9. Depth(levels, m) = h[DOMAIN first]
  BY <1>7, Zenon DEF Depth, FoldLeft, MapThenFoldSet
<1>10. FoldsLike(h, V, F, base, n)
  <2> HIDE DEF Op, V, base, first
  <2>1. ASSUME NEW T \in SUBSET (1..n), T # {}, h[T \ {Max(T)}] \in V
        PROVE  h[T] = F[<<h[T \ {Max(T)}], Max(T)>>]
    <3>1. Max(T) \in 1..n
      BY <2>1, LargestOf
    <3>2. h[T] = Op(h[T \ {Max(T)}], first[Max(T)])
      BY <1>1, <1>8, <2>1
    <3>3. QED
      BY <1>4, <2>1, <3>1, <3>2
  <2>2. ASSUME NEW T \in SUBSET (1..n), T = {} PROVE h[T] = base
    BY <1>1, <1>8, <2>2
  <2>3. QED
    BY <1>2, <1>4, <2>1, <2>2 DEF FoldsLike
<1>11. PICK f \in [0..n -> V] : Stepwise(f, F, base, n) /\ h[1..n] = f[n]
  <2> HIDE DEF Op, V, base, first
  <2>1. QED
    BY <1>10, FoldValue DEF Followed
<1>12. f[0] = base /\ \A i \in 1..n : f[i] = Op(f[i - 1], first[i])
  <2> HIDE DEF Op, V, base, first
  <2>1. ASSUME NEW i \in 1..n PROVE f[i] = Op(f[i - 1], first[i])
    <3>1. i - 1 \in 0..n
      OBVIOUS
    <3>2. QED
      BY <1>4, <1>11, <3>1 DEF Stepwise
  <2>2. QED
    BY <1>11, <2>1 DEF Stepwise
<1>13. Sunk(n, f, levels)
  <2>1. \A i \in 1..n : f[i] = f[i - 1] + levels[i].price * levels[i].size
    BY <1>0, <1>1, <1>12
  <2>2. QED
    BY <1>12, <2>1 DEF Sunk
<1>14. Depth(levels, m) = f[n]
  <2> HIDE DEF Op, Rule, first, base
  <2>1. QED
    BY <1>1, <1>9, <1>11
<1>15. QED
  BY <1>1, <1>13, <1>14

\* The depths of a side.
Depths(levels, d) ==
  /\ Sunk(Len(levels), d, levels)
  /\ \A k \in 0..Len(levels) : Depth(levels, k) = d[k]
  /\ \A j, k \in 0..Len(levels) : j <= k => d[j] <= d[k]

LEMMA DepthsAre ==
  ASSUME NEW levels \in Seq(Level)
  PROVE  \E d : Depths(levels, d)
<1>1. PICK n \in Nat : n = Len(levels)
  OBVIOUS
<1>2. PICK d : Sunk(n, d, levels)
  <2>1. n \in 0..Len(levels)
    BY <1>1
  <2>2. QED
    BY <2>1, DepthOfPrefix
<1>3. ASSUME NEW k \in 0..n PROVE Depth(levels, k) = d[k]
  <2>1. PICK g : Sunk(k, g, levels) /\ Depth(levels, k) = g[k]
    BY <1>1, DepthOfPrefix
  <2> DEFINE S == {i \in 0..k : g[i] = d[i]}
  <2>2. 0 \in S
    BY <1>2, <2>1 DEF Sunk
  <2>3. ASSUME NEW i \in 1..k, i - 1 \in S PROVE i \in S
    <3>1. i \in 1..n /\ i \in 0..k
      OBVIOUS
    <3>2. /\ g[i] = g[i - 1] + levels[i].price * levels[i].size
          /\ d[i] = d[i - 1] + levels[i].price * levels[i].size
      BY <1>2, <2>1, <3>1 DEF Sunk
    <3>3. g[i - 1] = d[i - 1]
      BY <2>3
    <3>4. QED
      BY <3>1, <3>2, <3>3
  <2>4. 0..k \subseteq S
    <3> HIDE DEF S
    <3>1. k \in Nat
      OBVIOUS
    <3>2. QED
      BY <2>2, <2>3, <3>1, InductTo
  <2>5. k \in S
    BY <2>4
  <2>6. QED
    BY <2>1, <2>5
<1>4. ASSUME NEW j \in 0..n, NEW k \in 0..n, j <= k PROVE d[j] <= d[k]
  <2> DEFINE S == {i \in 0..n : j <= i => d[j] <= d[i]}
  <2>1. 0 \in S
    <3>1. j <= 0 => j = 0
      OBVIOUS
    <3>2. d[0] <= d[0]
      BY <1>2 DEF Sunk
    <3>3. QED
      BY <3>1, <3>2
  <2>2. ASSUME NEW i \in 1..n, i - 1 \in S PROVE i \in S
    <3>1. PICK p \in Nat : d[i] = d[i - 1] + p
      <4>1. levels[i].price * levels[i].size \in Nat
        BY <1>1, LevelIsWhole
      <4>2. QED
        BY <1>2, <4>1 DEF Sunk
    <3>2. i - 1 \in 0..n /\ i \in 0..n /\ d[i - 1] \in Nat /\ d[j] \in Nat /\ d[i] \in Nat
      BY <1>2 DEF Sunk
    <3>3. CASE j = i
      BY <3>2, <3>3
    <3>4. CASE j # i
      <4>1. j <= i => j <= i - 1
        BY <3>4
      <4>2. j <= i - 1 => d[j] <= d[i - 1]
        BY <2>2
      <4>3. QED
        BY <3>1, <3>2, <4>1, <4>2
    <3>5. QED
      BY <3>3, <3>4
  <2>3. 0..n \subseteq S
    <3> HIDE DEF S
    <3>1. QED
      BY <2>1, <2>2, InductTo
  <2>4. QED
    BY <1>4, <2>3
<1>5. QED
  BY <1>1, <1>2, <1>3, <1>4 DEF Depths

\* The quantity a leg buys of its size.
Bought(levels, size) ==
  FoldLeft(LAMBDA q, k: q + Taken(levels, size, k) * (Unit \div levels[k].price),
           0, [k \in 1..Len(levels) |-> k])

\* The quantities bought from the levels, one after the other.
Buying(levels, size, q) ==
  /\ q \in [0..Len(levels) -> Nat]
  /\ q[0] = 0
  /\ \A k \in 1..Len(levels) :
       q[k] = q[k - 1] + Taken(levels, size, k) * (Unit \div levels[k].price)

LEMMA TakenIsWhole ==
  ASSUME NEW levels \in Seq(Level), NEW size \in Nat, NEW k \in 1..Len(levels)
  PROVE  Taken(levels, size, k) \in Nat /\ (Unit \div levels[k].price) \in Nat
<1>1. PICK d : Depths(levels, d)
  BY DepthsAre
<1>2. PICK p \in Nat \ {0}, whole \in Nat :
        p = levels[k].price /\ whole = levels[k].price * levels[k].size
  BY LevelIsWhole
<1>3. PICK x \in Nat : x = Depth(levels, k - 1)
  <2>1. k - 1 \in 0..Len(levels)
    OBVIOUS
  <2>2. QED
    BY <1>1, <2>1 DEF Depths, Sunk
<1>4. Taken(levels, size, k) = IF size - x <= 0 THEN 0 ELSE Least(size - x, whole)
  BY <1>2, <1>3 DEF Taken
<1>5. PICK u \in Nat \ {0} : u = Unit
  BY SizingAssumption
<1>6. (u \div p) \in Nat
  OBVIOUS
<1>7. QED
  BY <1>2, <1>4, <1>5, <1>6 DEF Least

LEMMA BuyingOne ==
  ASSUME NEW levels \in Seq(Level), NEW size \in Nat
  PROVE  \E q : Buying(levels, size, q) /\ Bought(levels, size) = q[Len(levels)]
<1>1. PICK n \in Nat : n = Len([k \in 1..Len(levels) |-> k]) /\ DOMAIN ([k \in 1..Len(levels) |-> k]) = 1..n
  OBVIOUS
<1> DEFINE Op(s, x) == s + Taken(levels, size, x) * (Unit \div levels[x].price)
           V == Nat
           base == 0
<1>2. base \in V /\ \A s \in V, i \in 1..n : Op(s, ([k \in 1..Len(levels) |-> k])[i]) \in V
  <2>1. ASSUME NEW s \in V, NEW i \in 1..n PROVE Op(s, ([k \in 1..Len(levels) |-> k])[i]) \in V
    <3>1. ([k \in 1..Len(levels) |-> k])[i] = i /\ i \in 1..Len(levels)
      BY <1>1
    <3>2. PICK t \in Nat, u \in Nat :
            t = Taken(levels, size, i) /\ u = (Unit \div levels[i].price)
      BY <3>1, TakenIsWhole
    <3>3. s + t * u \in Nat
      OBVIOUS
    <3>4. QED
      BY <3>1, <3>2, <3>3
  <2>2. QED
    <3> HIDE DEF Op
    <3>1. QED
      BY <2>1
<1>3. PICK F : F = [p \in V \X (1..n) |-> Op(p[1], ([k \in 1..Len(levels) |-> k])[p[2]])]
  OBVIOUS
<1>4. F \in [V \X (1..n) -> V] /\ \A s \in V, i \in 1..n : F[<<s, i>>] = Op(s, ([k \in 1..Len(levels) |-> k])[i])
  <2> HIDE DEF Op, V, base
  <2>1. \A p \in V \X (1..n) : p[1] \in V /\ p[2] \in 1..n
    OBVIOUS
  <2>2. QED
    BY <1>2, <1>3, <2>1
<1>5. PICK g \in [SUBSET (1..n) -> V] : FoldRule(g, F, base, n)
  <2> HIDE DEF Op, V, base
  <2>1. QED
    BY <1>2, <1>4, FoldExists
<1> DEFINE Rule(it) == it = [s \in SUBSET (DOMAIN ([k \in 1..Len(levels) |-> k])) |->
                               IF s = {} THEN base ELSE Op(it[s \ {Max(s)}], ([k \in 1..Len(levels) |-> k])[Max(s)])]
<1>6. Rule(g)
  <2> HIDE DEF Op, V, base
  <2>1. ASSUME NEW s \in SUBSET (1..n)
        PROVE  g[s] = IF s = {} THEN base ELSE Op(g[s \ {Max(s)}], ([k \in 1..Len(levels) |-> k])[Max(s)])
    <3>1. CASE s = {}
      BY <1>5, <3>1 DEF FoldRule
    <3>2. CASE s # {}
      <4>1. Max(s) \in 1..n /\ s \ {Max(s)} \in SUBSET (1..n)
        BY <3>2, LargestOf
      <4>2. g[s \ {Max(s)}] \in V
        BY <4>1
      <4>3. F[<<g[s \ {Max(s)}], Max(s)>>] = Op(g[s \ {Max(s)}], ([k \in 1..Len(levels) |-> k])[Max(s)])
        BY <1>4, <4>1, <4>2
      <4>4. QED
        BY <1>5, <3>2, <4>3 DEF FoldRule
    <3>3. QED
      BY <3>1, <3>2
  <2>2. QED
    BY <1>1, <2>1
<1>7. PICK h : h = CHOOSE it : Rule(it)
  OBVIOUS
<1>8. Rule(h)
  <2> HIDE DEF Rule
  <2>1. QED
    BY <1>6, <1>7, Zenon
<1>9. Bought(levels, size) = h[DOMAIN ([k \in 1..Len(levels) |-> k])]
  BY <1>7, Zenon DEF Bought, FoldLeft, MapThenFoldSet
<1>10. FoldsLike(h, V, F, base, n)
  <2> HIDE DEF Op, V, base
  <2>1. ASSUME NEW T \in SUBSET (1..n), T # {}, h[T \ {Max(T)}] \in V
        PROVE  h[T] = F[<<h[T \ {Max(T)}], Max(T)>>]
    <3>1. Max(T) \in 1..n
      BY <2>1, LargestOf
    <3>2. h[T] = Op(h[T \ {Max(T)}], ([k \in 1..Len(levels) |-> k])[Max(T)])
      BY <1>1, <1>8, <2>1
    <3>3. QED
      BY <1>4, <2>1, <3>1, <3>2
  <2>2. ASSUME NEW T \in SUBSET (1..n), T = {} PROVE h[T] = base
    BY <1>1, <1>8, <2>2
  <2>3. QED
    BY <1>2, <1>4, <2>1, <2>2 DEF FoldsLike
<1>11. PICK f \in [0..n -> V] : Stepwise(f, F, base, n) /\ h[1..n] = f[n]
  <2> HIDE DEF Op, V, base
  <2>1. QED
    BY <1>10, FoldValue DEF Followed
<1>12. f[0] = base /\ \A i \in 1..n : f[i] = Op(f[i - 1], ([k \in 1..Len(levels) |-> k])[i])
  <2> HIDE DEF Op, V, base
  <2>1. ASSUME NEW i \in 1..n PROVE f[i] = Op(f[i - 1], ([k \in 1..Len(levels) |-> k])[i])
    <3>1. i - 1 \in 0..n
      OBVIOUS
    <3>2. QED
      BY <1>4, <1>11, <3>1 DEF Stepwise
  <2>2. QED
    BY <1>11, <2>1 DEF Stepwise
<1>13. ASSUME NEW i \in 1..n
       PROVE  f[i] = f[i - 1] + Taken(levels, size, i) * (Unit \div levels[i].price)
  <2>1. ([k \in 1..Len(levels) |-> k])[i] = i
    BY <1>1
  <2>2. QED
    BY <1>12, <2>1
<1>14. Buying(levels, size, f)
  BY <1>1, <1>12, <1>13 DEF Buying
<1>15. Bought(levels, size) = f[n]
  <2> HIDE DEF Op, Rule, base
  <2>1. QED
    BY <1>1, <1>9, <1>11
<1>16. n = Len(levels)
  BY <1>1
<1>17. QED
  BY <1>14, <1>15, <1>16

\* The fill of a leg, and the price its last level has.
LEMMA FillIs ==
  ASSUME NEW levels, NEW size
  PROVE  SimulateLegFill(levels, size) =
           [filled |-> Depth(levels, Len(levels)) >= size /\ Bought(levels, size) > 0,
            quantity |-> Bought(levels, size)]
  BY DEF SimulateLegFill, Bought

LEMMA WorstIs ==
  ASSUME NEW levels \in Seq(Level), NEW size \in Nat \ {0}, NEW m \in 0..Len(levels),
         size <= Depth(levels, m)
  PROVE  \E w \in 1..m :
           /\ size <= Depth(levels, w)
           /\ \A k \in 0..(w - 1) : Depth(levels, k) < size
           /\ WalkWorstPrice(levels, size).filled
           /\ WalkWorstPrice(levels, size).worst = levels[w].price
<1>1. PICK n \in Nat : n = Len(levels) /\ DOMAIN levels = 1..n /\ m \in 0..n
  OBVIOUS
<1>2. PICK d : Depths(levels, d)
  BY DepthsAre
<1>3. /\ d \in [0..n -> Nat] /\ d[0] = 0
      /\ \A k \in 0..n : Depth(levels, k) = d[k]
      /\ \A j, k \in 0..n : j <= k => d[j] <= d[k]
  BY <1>1, <1>2 DEF Depths, Sunk
<1> DEFINE reached == {k \in DOMAIN levels : Depth(levels, k) >= size}
<1>4. reached = {k \in 1..n : d[k] >= size}
  BY <1>1, <1>3
<1>5. m \in reached
  <2>1. d[m] >= size /\ d[m] \in Nat
    BY <1>1, <1>3
  <2>2. m # 0
    BY <1>3, <2>1
  <2>3. QED
    BY <1>1, <1>4, <2>1, <2>2
<1>6. PICK w \in reached : \A j \in reached : w <= j
  <2>1. reached \subseteq Nat /\ reached # {}
    BY <1>1, <1>4, <1>5
  <2>2. QED
    <3> HIDE DEF reached
    <3>1. QED
      BY <2>1, LeastOfNaturals
<1>7. w = CHOOSE k \in reached : \A j \in reached : k <= j
  <2>1. ASSUME NEW k \in reached, \A j \in reached : k <= j PROVE k = w
    <3>1. k \in Nat /\ w \in Nat
      BY <1>1, <1>4
    <3>2. QED
      BY <1>6, <2>1, <3>1
  <2>2. QED
    <3> HIDE DEF reached
    <3>1. QED
      BY <1>6, <2>1
<1>8. w \in 1..m
  BY <1>1, <1>4, <1>5, <1>6
<1>9. size <= Depth(levels, w)
  BY <1>1, <1>3, <1>4, <1>6
<1>10. ASSUME NEW k \in 0..(w - 1) PROVE Depth(levels, k) < size
  <2>1. k \in 0..n /\ w \in 1..n /\ k < w
    BY <1>1, <1>8
  <2>2. CASE k = 0
    BY <1>3, <2>1, <2>2
  <2>3. CASE k # 0
    <3>1. k \notin reached /\ k \in 1..n
      BY <1>6, <2>1, <2>3
    <3>2. d[k] < size
      BY <1>3, <1>4, <2>1, <3>1
    <3>3. QED
      BY <1>3, <2>1, <3>2
  <2>4. QED
    BY <2>2, <2>3
<1>11. WalkWorstPrice(levels, size) = [filled |-> TRUE, worst |-> levels[w].price]
  <2>1. WalkWorstPrice(levels, size) =
          [filled |-> reached # {},
           worst |-> IF reached = {} THEN levels[Len(levels)].price
                     ELSE levels[CHOOSE k \in reached : \A j \in reached : k <= j].price]
    BY DEF WalkWorstPrice
  <2>2. reached # {}
    BY <1>5
  <2>3. QED
    <3> HIDE DEF reached
    <3>1. QED
      BY <1>7, <2>1, <2>2
<1>12. QED
  BY <1>8, <1>9, <1>10, <1>11

\* The prices of a side go one way.
Ordered(levels) ==
  \/ \A i, j \in DOMAIN levels : i <= j => levels[i].price <= levels[j].price
  \/ \A i, j \in DOMAIN levels : i <= j => levels[i].price >= levels[j].price

LEMMA StepBetween ==
  ASSUME NEW lo \in Nat, NEW hi \in Nat, NEW p \in Nat, NEW u \in Nat, NEW whole \in Nat,
         NEW q \in Nat, NEW s \in Nat, NEW t \in Nat,
         whole = p * u, lo <= p, p <= hi,
         lo * q <= whole * s, whole * s <= hi * q
  PROVE  /\ lo * (q + t * u) <= whole * (s + t)
         /\ whole * (s + t) <= hi * (q + t * u)
<1>1. PICK v \in Nat : v = t * u
  OBVIOUS
<1>2. lo * v <= p * v /\ p * v <= hi * v
  <2>1. ASSUME NEW a \in Nat, NEW b \in Nat, a <= b PROVE a * v <= b * v
    <3>1. PICK c \in Nat : c = b - a
      BY <2>1
    <3>2. b * v = (a + c) * v /\ (a + c) * v = a * v + c * v
      BY <3>1
    <3>3. a * v \in Nat /\ c * v \in Nat
      OBVIOUS
    <3>4. QED
      BY <3>2, <3>3
  <2>2. QED
    BY <2>1
<1>3. lo * (q + v) = lo * q + lo * v /\ hi * (q + v) = hi * q + hi * v
  OBVIOUS
<1>4. whole * (s + t) = whole * s + whole * t
  OBVIOUS
<1>5. whole * t = p * v
  BY <1>1
<1>6. lo * q \in Nat /\ lo * v \in Nat /\ hi * q \in Nat /\ hi * v \in Nat
      /\ whole * s \in Nat /\ p * v \in Nat
  OBVIOUS
<1>7. lo * (q + v) <= whole * (s + t) /\ whole * (s + t) <= hi * (q + v)
  BY <1>2, <1>3, <1>4, <1>5, <1>6
<1>8. QED
  BY <1>1, <1>7

LEMMA PaidWithin ==
  ASSUME NEW b \in Nat, NEW v \in Nat, NEW q \in Nat, NEW worth \in Nat,
         \/ b <= v /\ b * q <= worth /\ worth <= v * q
         \/ v <= b /\ v * q <= worth /\ worth <= b * q
  PROVE  Distance(worth, b * q) <= Distance(v, b) * q
<1>1. b * q \in Nat /\ v * q \in Nat
  OBVIOUS
<1>2. CASE b <= v /\ b * q <= worth /\ worth <= v * q
  <2>1. (v - b) * q = v * q - b * q
    OBVIOUS
  <2>2. Distance(v, b) = v - b
    BY <1>2 DEF Distance
  <2>3. Distance(worth, b * q) = worth - b * q
    BY <1>1, <1>2 DEF Distance
  <2>4. QED
    BY <1>1, <1>2, <2>1, <2>2, <2>3
<1>3. CASE v <= b /\ v * q <= worth /\ worth <= b * q
  <2>1. (b - v) * q = b * q - v * q
    OBVIOUS
  <2>2. Distance(v, b) = b - v
    BY <1>3 DEF Distance
  <2>3. Distance(worth, b * q) = b * q - worth
    BY <1>1, <1>3 DEF Distance
  <2>4. QED
    BY <1>1, <1>3, <2>1, <2>2, <2>3
<1>4. QED
  BY <1>2, <1>3

\* A size that the levels before the first hole can take is filled near the
\* best price.
LEMMA FillIsNear ==
  ASSUME NEW levels \in Seq(Level), Ordered(levels),
         \A k \in DOMAIN levels : (Unit % levels[k].price) = 0,
         NEW size \in Nat \ {0}, NEW m \in 0..Len(levels), size <= Depth(levels, m),
         \A k \in 1..m : ~TooFar(levels[k], Best(levels))
  PROVE  FillsNear(levels, size) /\ SimulateLegFill(levels, size).filled = TRUE
<1>1. PICK n \in Nat : n = Len(levels) /\ DOMAIN levels = 1..n /\ m \in 0..n
  OBVIOUS
<1>2. PICK d : Depths(levels, d)
  BY DepthsAre
<1>3. /\ d \in [0..n -> Nat] /\ d[0] = 0
      /\ \A k \in 1..n : d[k] = d[k - 1] + levels[k].price * levels[k].size
      /\ \A k \in 0..n : Depth(levels, k) = d[k]
      /\ \A j, k \in 0..n : j <= k => d[j] <= d[k]
  BY <1>1, <1>2 DEF Depths, Sunk
<1>4. PICK w \in 1..m :
        /\ size <= Depth(levels, w)
        /\ \A k \in 0..(w - 1) : Depth(levels, k) < size
        /\ WalkWorstPrice(levels, size).filled
        /\ WalkWorstPrice(levels, size).worst = levels[w].price
  BY WorstIs
<1>5. w \in 1..n /\ 1 \in 1..n
  BY <1>1
<1>6. PICK q : Buying(levels, size, q) /\ Bought(levels, size) = q[n]
  BY <1>1, BuyingOne
<1>7. /\ q \in [0..n -> Nat] /\ q[0] = 0
      /\ \A k \in 1..n : q[k] = q[k - 1] + Taken(levels, size, k) * (Unit \div levels[k].price)
  BY <1>1, <1>6 DEF Buying
<1>8. PICK b \in Nat \ {0}, v \in Nat \ {0} : b = levels[1].price /\ v = levels[w].price
  BY <1>1, <1>5, LevelIsWhole
<1>9. PICK whole \in Nat \ {0} : whole = Unit
  BY SizingAssumption
<1> DEFINE t == [k \in 0..n |-> IF size <= d[k] THEN size ELSE d[k]]
<1>10. t \in [0..n -> Nat] /\ t[0] = 0
  BY <1>3
<1>11. ASSUME NEW k \in 1..n
       PROVE  /\ Taken(levels, size, k) = t[k] - t[k - 1]
              /\ k > w => t[k] = t[k - 1]
  <2>1. k - 1 \in 0..n /\ k \in 0..n /\ w \in 0..n
    BY <1>5
  <2>2. PICK x \in Nat, y \in Nat, z \in Nat :
          x = d[k - 1] /\ y = d[k] /\ z = levels[k].price * levels[k].size
    BY <1>1, <1>3, <2>1, LevelIsWhole
  <2>3. y = x + z /\ Depth(levels, k - 1) = x
    BY <1>3, <2>1, <2>2
  <2>4. Taken(levels, size, k) = IF size - x <= 0 THEN 0 ELSE Least(size - x, z)
    BY <2>2, <2>3 DEF Taken
  <2>5. t[k] = (IF size <= y THEN size ELSE y) /\ t[k - 1] = IF size <= x THEN size ELSE x
    BY <2>1, <2>2
  <2>6. Taken(levels, size, k) = t[k] - t[k - 1]
    <3> HIDE DEF t
    <3>1. QED
      BY <2>3, <2>4, <2>5 DEF Least
  <2>7. k > w => size <= x
    <3>1. k > w => w <= k - 1
      BY <1>5
    <3>2. size <= d[w] /\ d[w] \in Nat
      BY <1>3, <1>4, <2>1
    <3>3. k > w => d[w] <= d[k - 1]
      BY <1>3, <2>1, <3>1
    <3>4. QED
      BY <2>2, <3>2, <3>3
  <2>8. k > w => t[k] = t[k - 1]
    <3> HIDE DEF t
    <3>1. QED
      BY <2>3, <2>5, <2>7
  <2>9. QED
    BY <2>6, <2>8
<1>12. ASSUME NEW lo \in Nat, NEW hi \in Nat,
              \A k \in 1..w : lo <= levels[k].price /\ levels[k].price <= hi
       PROVE  lo * q[n] <= whole * size /\ whole * size <= hi * q[n]
  <2> DEFINE S == {k \in 0..n : lo * q[k] <= whole * t[k] /\ whole * t[k] <= hi * q[k]}
  <2>1. 0 \in S
    <3> HIDE DEF t
    <3>1. lo * 0 <= whole * 0 /\ whole * 0 <= hi * 0
      OBVIOUS
    <3>2. QED
      BY <1>7, <1>10, <3>1
  <2>2. ASSUME NEW k \in 1..n, k - 1 \in S PROVE k \in S
    <3>1. PICK p \in Nat \ {0}, u \in Nat, x \in Nat :
            p = levels[k].price /\ u = (Unit \div levels[k].price) /\ x = Taken(levels, size, k)
      BY <1>1, LevelIsWhole, TakenIsWhole
    <3>2. k - 1 \in 0..n /\ k \in 0..n
      OBVIOUS
    <3>3. PICK c \in Nat, s \in Nat : c = q[k - 1] /\ s = t[k - 1]
      <4> HIDE DEF t
      <4>1. QED
        BY <1>7, <1>10, <3>2
    <3>4. q[k] = c + x * u
      BY <1>7, <3>1, <3>3
    <3>5. t[k] = s + x
      <4>1. t[k] \in Nat
        <5> HIDE DEF t
        <5>1. QED
          BY <1>10, <3>2
      <4>2. x = t[k] - s
        <5> HIDE DEF t
        <5>1. QED
          BY <1>11, <3>1, <3>3, Zenon
      <4>3. QED
        <5> HIDE DEF t
        <5>1. PICK z \in Nat : z = t[k]
          BY <4>1
        <5>2. z = s + x
          BY ONLY <4>2, <5>1, z \in Nat, s \in Nat, x \in Nat
        <5>3. QED
          BY <5>1, <5>2
    <3>6. lo * c <= whole * s /\ whole * s <= hi * c
      <4> HIDE DEF t
      <4>1. QED
        BY <2>2, <3>3
    <3>7. lo * (c + x * u) <= whole * (s + x) /\ whole * (s + x) <= hi * (c + x * u)
      <4>1. CASE k > w
        <5>1. x = 0
          <6> HIDE DEF t
          <6>1. QED
            BY <1>11, <3>3, <3>5, <4>1
        <5>2. c + x * u = c /\ s + x = s
          BY <5>1
        <5>3. QED
          BY <3>6, <5>2
      <4>2. CASE k <= w
        <5>1. lo <= p /\ p <= hi
          BY <1>12, <3>1, <4>2
        <5>2. whole = p * u
          <6>1. (whole % p) = 0 /\ u = (whole \div p)
            BY <1>1, <1>9, <3>1
          <6>2. QED
            BY ONLY <6>1, whole \in Nat \ {0}, p \in Nat \ {0}, u \in Nat
        <5>3. QED
          BY <3>6, <5>1, <5>2, StepBetween
      <4>3. QED
        BY <1>5, <4>1, <4>2
    <3>8. QED
      <4> HIDE DEF t
      <4>1. QED
        BY <3>2, <3>4, <3>5, <3>7
  <2>3. n \in S
    <3>1. 0..n \subseteq S
      <4> HIDE DEF S
      <4>1. QED
        BY <2>1, <2>2, InductTo
    <3>2. QED
      BY <3>1
  <2>4. t[n] = size
    <3>1. d[w] <= d[n] /\ size <= d[w] /\ d[w] \in Nat /\ d[n] \in Nat
      BY <1>3, <1>4, <1>5
    <3>2. QED
      BY <3>1
  <2>5. QED
    <3> HIDE DEF t
    <3>1. QED
      BY <2>3, <2>4
<1>13. PICK g \in Nat : g = q[n]
  BY <1>7
<1>14. \/ b <= v /\ b * g <= whole * size /\ whole * size <= v * g
       \/ v <= b /\ v * g <= whole * size /\ whole * size <= b * g
  <2> HIDE DEF t
  <2>1. CASE \A i, j \in DOMAIN levels : i <= j => levels[i].price <= levels[j].price
    <3>1. \A k \in 1..w : b <= levels[k].price /\ levels[k].price <= v
      BY <1>1, <1>5, <1>8, <2>1
    <3>2. b <= v
      BY <1>5, <1>8, <3>1
    <3>3. QED
      BY <1>12, <1>13, <3>1, <3>2
  <2>2. CASE \A i, j \in DOMAIN levels : i <= j => levels[i].price >= levels[j].price
    <3>1. \A k \in 1..w : v <= levels[k].price /\ levels[k].price <= b
      <4>1. ASSUME NEW k \in 1..w PROVE v <= levels[k].price /\ levels[k].price <= b
        <5>1. k \in 1..n /\ levels[k].price \in Nat
          BY <1>1, <1>5, LevelIsWhole
        <5>2. levels[k].price >= levels[w].price
          <6>1. k \in DOMAIN levels /\ w \in DOMAIN levels /\ k <= w
            BY <1>1, <1>5, <5>1
          <6>2. QED
            BY <2>2, <6>1, Zenon
        <5>3. levels[1].price >= levels[k].price
          <6>1. k \in DOMAIN levels /\ 1 \in DOMAIN levels /\ 1 <= k
            BY <1>1, <1>5, <5>1
          <6>2. QED
            BY <2>2, <6>1, Zenon
        <5>4. levels[k].price >= v /\ b >= levels[k].price
          BY <1>8, <5>2, <5>3, Zenon
        <5>5. QED
          BY <5>1, <5>4
      <4>2. QED
        BY <4>1
    <3>2. v <= b
      BY <1>5, <1>8, <3>1
    <3>3. QED
      BY <1>12, <1>13, <3>1, <3>2
  <2>3. QED
    BY <2>1, <2>2 DEF Ordered
<1>15. g > 0
  <2> HIDE DEF t
  <2>1. whole * size \in Nat \ {0}
    OBVIOUS
  <2>2. g = 0 => v * g = 0 /\ b * g = 0
    OBVIOUS
  <2>3. QED
    BY <1>14, <2>1, <2>2
<1>16. SimulateLegFill(levels, size) = [filled |-> TRUE, quantity |-> g]
  <2> HIDE DEF t
  <2>1. d[w] <= d[n] /\ size <= d[w] /\ d[w] \in Nat /\ d[n] \in Nat /\ Depth(levels, n) = d[n]
    BY <1>3, <1>4, <1>5
  <2>2. Depth(levels, n) >= size
    BY <2>1
  <2>3. QED
    BY <1>1, <1>6, <1>13, <1>15, <2>2, FillIs
<1>17. Best(levels) = b
  BY <1>8 DEF Best
<1>18. Distance(size * Unit, b * g) <= Distance(v, b) * g
  <2> HIDE DEF t
  <2>1. PICK worth \in Nat : worth = whole * size /\ worth = size * Unit
    BY <1>9
  <2>2. QED
    BY <1>14, <2>1, PaidWithin
<1>19. Distance(v, b) * 10000 <= SlipBps * b
  <2>1. ~TooFar(levels[w], b)
    BY <1>17
  <2>2. Distance(v, b) \in Nat /\ SlipBps \in Nat
    BY SizingAssumption DEF Distance
  <2>3. Distance(v, b) * 10000 \in Nat /\ SlipBps * b \in Nat
    BY <2>2
  <2>4. QED
    BY <1>8, <2>1, <2>3 DEF TooFar
<1>20. QED
  <2> HIDE DEF t
  <2>1. QED
    BY <1>4, <1>8, <1>16, <1>17, <1>18, <1>19 DEF FillsNear

LEMMA PrefixIs ==
  ASSUME NEW levels \in Seq(Level), NEW m \in 0..Len(levels)
  PROVE  \E s \in Seq(Level) :
           /\ s = SubSeq(levels, 1, m) /\ Len(s) = m /\ DOMAIN s = 1..m
           /\ \A i \in 1..m : s[i] = levels[i]
           /\ s = [i \in 1..m |-> levels[i]]
<1>1. PICK s : s = SubSeq(levels, 1, m)
  OBVIOUS
<1>2. s \in Seq(Level) /\ Len(s) = m /\ \A i \in 1..m : s[i] = levels[i]
  BY <1>1
<1>3. DOMAIN s = 1..m /\ s = [i \in 1..m |-> levels[i]]
  BY <1>2
<1>4. QED
  BY <1>1, <1>2, <1>3

LEMMA SamePrefix ==
  ASSUME NEW levels \in Seq(Level), NEW m \in 0..Len(levels), NEW k \in 0..m
  PROVE  SubSeq(SubSeq(levels, 1, m), 1, k) = SubSeq(levels, 1, k)
<1>1. PICK s \in Seq(Level) :
        s = SubSeq(levels, 1, m) /\ Len(s) = m /\ \A i \in 1..m : s[i] = levels[i]
  BY PrefixIs
<1>2. k \in 0..Len(s) /\ k \in 0..Len(levels)
  BY <1>1
<1>3. SubSeq(s, 1, k) = [i \in 1..k |-> s[i]]
  BY <1>2, PrefixIs
<1>4. SubSeq(levels, 1, k) = [i \in 1..k |-> levels[i]]
  BY <1>2, PrefixIs
<1>5. [i \in 1..k |-> s[i]] = [i \in 1..k |-> levels[i]]
  BY <1>1
<1>6. QED
  BY <1>1, <1>3, <1>4, <1>5

\* The levels that count are those of a prefix without a hole.
LEMMA NearIs ==
  ASSUME NEW levels \in Seq(Level), NEW count \in Nat
  PROVE  \E m \in 0..Len(levels) :
           /\ NearDepth(levels, count) = Depth(levels, m)
           /\ \A k \in 1..m : ~TooFar(levels[k], Best(levels))
<1>1. PICK n \in Nat : n = Len(levels) /\ DOMAIN levels = 1..n
  OBVIOUS
<1>2. PICK l \in 0..n : l = Least(count, n)
  BY DEF Least
<1>3. PICK top \in Seq(Level) :
        /\ top = SubSeq(levels, 1, l) /\ Len(top) = l /\ DOMAIN top = 1..l
        /\ \A k \in 1..l : top[k] = levels[k]
        /\ top = [k \in 1..l |-> levels[k]]
  BY <1>1, PrefixIs
<1>4. Len(top) = l /\ DOMAIN top = 1..l /\ \A k \in 1..l : top[k] = levels[k]
  BY <1>3
<1> DEFINE far == {k \in DOMAIN top : TooFar(top[k], Best(levels))}
<1>5. far = {k \in 1..l : TooFar(levels[k], Best(levels))}
  BY <1>4
<1>6. Near(levels, count) =
        IF far = {} THEN top ELSE SubSeq(top, 1, (CHOOSE k \in far : \A j \in far : k <= j) - 1)
  BY <1>1, <1>2, <1>3 DEF Near
<1>7. PICK m \in 0..l :
        /\ Near(levels, count) = SubSeq(top, 1, m)
        /\ \A k \in 1..m : k \notin far
  <2> HIDE DEF far
  <2>1. CASE far = {}
    <3>1. top = SubSeq(top, 1, l)
      <4>1. l \in 0..Len(top) /\ l \in Nat
        BY <1>4
      <4>2. SubSeq(top, 1, l) = [k \in 1..l |-> top[k]]
        BY <4>1, PrefixIs
      <4>3. [k \in 1..l |-> top[k]] = [k \in 1..l |-> levels[k]]
        BY <1>4
      <4>4. QED
        BY <1>3, <4>2, <4>3
    <3>2. Near(levels, count) = SubSeq(top, 1, l)
      BY <1>6, <2>1, <3>1
    <3>3. l \in 0..l /\ \A k \in 1..l : k \notin far
      BY <2>1
    <3>4. QED
      BY <3>2, <3>3
  <2>2. CASE far # {}
    <3>1. far \subseteq Nat
      BY <1>5
    <3>2. PICK c \in far : \A j \in far : c <= j
      BY <2>2, <3>1, LeastOfNaturals
    <3>3. c = CHOOSE k \in far : \A j \in far : k <= j
      <4>1. ASSUME NEW k \in far, \A j \in far : k <= j PROVE k = c
        <5>1. k \in Nat /\ c \in Nat
          BY <3>1
        <5>2. QED
          BY <3>2, <4>1, <5>1
      <4>2. QED
        BY <3>2, <4>1
    <3>4. c \in 1..l
      BY <1>5
    <3>5. c - 1 \in 0..l /\ \A k \in 1..(c - 1) : k \notin far
      BY <3>2, <3>4
    <3>6. Near(levels, count) = SubSeq(top, 1, c - 1)
      BY <1>6, <2>2, <3>3
    <3>7. QED
      BY <3>5, <3>6
  <2>3. QED
    BY <2>1, <2>2
<1>8. m \in 0..n /\ l \in 0..Len(levels) /\ m \in 0..Len(levels)
  BY <1>1
<1>9. PICK near \in Seq(Level) : near = SubSeq(levels, 1, m) /\ Len(near) = m
  BY <1>8, PrefixIs
<1>10. near = Near(levels, count)
  <2>1. SubSeq(SubSeq(levels, 1, l), 1, m) = SubSeq(levels, 1, m)
    BY <1>8, SamePrefix
  <2>2. QED
    BY <1>3, <1>7, <1>9, <2>1
<1>11. Depth(near, m) = Depth(levels, m)
  <2>1. SubSeq(near, 1, m) = SubSeq(levels, 1, m)
    BY <1>8, <1>9, SamePrefix
  <2>2. QED
    BY <2>1, Zenon DEF Depth
<1>12. NearDepth(levels, count) = Depth(levels, m)
  BY <1>9, <1>10, <1>11 DEF NearDepth
<1>13. ASSUME NEW k \in 1..m PROVE ~TooFar(levels[k], Best(levels))
  <2>1. k \notin far /\ k \in 1..l
    BY <1>7
  <2>2. QED
    <3> DEFINE hole == TooFar(levels[k], Best(levels))
    <3>1. hole => k \in far
      <4> HIDE DEF far
      <4>1. QED
        BY <1>5, <2>1
    <3>2. QED
      BY <2>1, <3>1
<1>14. QED
  BY <1>8, <1>12, <1>13

\* A side of a book: its prices go one way and divide the unit.
Side(levels) ==
  /\ levels \in Seq(Level)
  /\ Ordered(levels)
  /\ \A k \in DOMAIN levels : (Unit % levels[k].price) = 0

\* A size within the depth that counts is filled.
LEMMA SizeFills ==
  ASSUME NEW levels, Side(levels), NEW count \in Nat,
         NEW size \in Nat \ {0}, size <= NearDepth(levels, count)
  PROVE  FillsNear(levels, size) /\ SimulateLegFill(levels, size).filled = TRUE
<1>1. levels \in Seq(Level)
  BY DEF Side
<1>2. PICK m \in 0..Len(levels) :
           /\ NearDepth(levels, count) = Depth(levels, m)
           /\ \A k \in 1..m : ~TooFar(levels[k], Best(levels))
  BY <1>1, NearIs
<1>3. Ordered(levels) /\ \A k \in DOMAIN levels : (Unit % levels[k].price) = 0
  BY DEF Side
<1>4. size <= Depth(levels, m)
  BY <1>2
<1>5. QED
  BY <1>1, <1>2, <1>3, <1>4, FillIsNear

LEMMA NearIsWhole ==
  ASSUME NEW levels \in Seq(Level), NEW count \in Nat
  PROVE  NearDepth(levels, count) \in Nat
<1>1. PICK m \in 0..Len(levels) : NearDepth(levels, count) = Depth(levels, m)
  BY NearIs
<1>2. PICK d : Depths(levels, d)
  BY DepthsAre
<1>3. Depth(levels, m) = d[m] /\ d[m] \in Nat
  BY <1>2 DEF Depths, Sunk
<1>4. QED
  BY <1>1, <1>3

-----------------------------------------------------------------------------
(* Sizes                                                                     *)

\* A share of a depth is no more than the depth.
LEMMA ShareFits ==
  ASSUME NEW a \in Nat
  PROVE  ((a * Percent) \div 100) \in Nat /\ ((a * Percent) \div 100) <= a
<1>1. PICK p \in 1..100 : p = Percent
  BY SizingAssumption
<1>2. PICK r \in Nat : r = 100 - p
  OBVIOUS
<1>3. a * 100 = a * p + a * r
  BY <1>2
<1>4. PICK x \in Nat, y \in Nat : x = a * p /\ y = a * r
  OBVIOUS
<1>5. x <= 100 * a
  BY <1>3, <1>4
<1>6. (x \div 100) \in Nat /\ 100 * (x \div 100) <= x
  OBVIOUS
<1>7. (x \div 100) <= a
  BY <1>5, <1>6
<1>8. QED
  BY <1>1, <1>4, <1>6, <1>7

LEMMA DynamicSizeFits ==
  ASSUME NEW asks, Side(asks), NEW bids, Side(bids), DynamicSize(asks, bids) # 0
  PROVE  /\ DynamicSize(asks, bids) \in Nat \ {0}
         /\ DynamicSize(asks, bids) <= NearDepth(asks, TopLevels)
         /\ DynamicSize(asks, bids) <= NearDepth(bids, TopLevels)
<1>1. PICK a \in Nat, b \in Nat :
        a = NearDepth(asks, TopLevels) /\ b = NearDepth(bids, TopLevels)
  BY NearIsWhole, SizingAssumption DEF Side
<1>2. PICK x \in Nat : x = ((Least(a, b) * Percent) \div 100) /\ x <= Least(a, b)
  <2>1. Least(a, b) \in Nat
    BY DEF Least
  <2>2. QED
    BY <2>1, ShareFits
<1>3. PICK lo \in Nat \ {0}, hi \in Nat \ {0} : lo = MinSize /\ hi = MaxSize
  BY SizingAssumption
<1>4. DynamicSize(asks, bids) = IF Least(a, b) > 0 /\ Least(x, hi) >= lo THEN Least(x, hi) ELSE 0
  BY <1>1, <1>2, <1>3 DEF DynamicSize
<1>5. QED
  BY <1>1, <1>2, <1>3, <1>4 DEF Least

LEMMA DirSizeFits ==
  ASSUME NEW levels, Side(levels), DirSize(levels) # 0
  PROVE  /\ DirSize(levels) \in Nat \ {0}
         /\ DirSize(levels) <= NearDepth(levels, Len(levels))
<1>1. Len(levels) \in Nat /\ levels \in Seq(Level)
  BY DEF Side
<1>2. PICK a \in Nat : a = NearDepth(levels, Len(levels))
  BY <1>1, NearIsWhole
<1>3. PICK x \in Nat : x = ((a * Percent) \div 100) /\ x <= a
  BY ShareFits
<1>4. PICK lo \in Nat \ {0}, hi \in Nat \ {0} : lo = MinSize /\ hi = MaxSize
  BY SizingAssumption
<1>5. DirSize(levels) = IF Least(x, hi) >= lo THEN Least(x, hi) ELSE 0
  BY <1>2, <1>3, <1>4 DEF DirSize
<1>6. QED
  BY <1>2, <1>3, <1>4, <1>5 DEF Least

\* The slices of a target reach it but for less than the smallest order.
LEMMA ChunksReach ==
  ASSUME NEW slice \in Nat \ {0}, NEW target \in Nat, target > slice
  PROVE  /\ slice * Chunks(slice, target) + MinSize > target
         /\ slice * (Chunks(slice, target) - 1) < target
<1>1. PICK lo \in Nat \ {0} : lo = MinSize
  BY SizingAssumption
<1>2. PICK k \in Nat, r \in Nat : /\ k = (target \div slice) /\ r = (target % slice)
                                  /\ target = slice * k + r /\ r < slice
  OBVIOUS
<1>3. k # 0
  <2>1. k = 0 => slice * k = 0
    OBVIOUS
  <2>2. QED
    BY <1>2, <2>1
<1>4. slice * (k + 1) = slice * k + slice /\ slice * (k - 1) = slice * k - slice
      /\ slice * k \in Nat
  OBVIOUS
<1>5. CASE r >= lo
  <2>1. Chunks(slice, target) = k + 1
    BY <1>1, <1>2, <1>5 DEF Chunks
  <2>2. slice * (k + 1) + lo > target /\ slice * ((k + 1) - 1) < target
    BY <1>2, <1>4, <1>5
  <2>3. QED
    BY <1>1, <2>1, <2>2
<1>6. CASE r < lo
  <2>1. Chunks(slice, target) = k
    BY <1>1, <1>2, <1>3, <1>6 DEF Chunks
  <2>2. slice * k + lo > target /\ slice * (k - 1) < target
    BY <1>2, <1>4, <1>6
  <2>3. QED
    BY <1>1, <2>1, <2>2
<1>7. QED
  BY <1>1, <1>2, <1>5, <1>6

LEMMA SliceFits ==
  ASSUME NEW asks, Side(asks), NEW bids, Side(bids), NEW target \in Nat
  PROVE  LET s == OptimalEntry(asks, bids, target)
         IN /\ s.slice # 0 => /\ s.slice \in Nat \ {0}
                              /\ s.slice <= NearDepth(asks, TopLevels)
                              /\ s.slice <= NearDepth(bids, TopLevels)
            /\ s.chunks > 0 => /\ s.slice * s.chunks + MinSize > target
                               /\ s.slice * (s.chunks - 1) < target
<1>1. PICK a \in Nat, b \in Nat :
        a = NearDepth(asks, TopLevels) /\ b = NearDepth(bids, TopLevels)
  BY NearIsWhole, SizingAssumption DEF Side
<1>2. PICK x \in Nat, y \in Nat :
        /\ x = ((a * Percent) \div 100) /\ x <= a
        /\ y = ((b * Percent) \div 100) /\ y <= b
  BY ShareFits
<1>3. PICK lo \in Nat \ {0}, hi \in Nat \ {0} : lo = MinSize /\ hi = MaxSize
  BY SizingAssumption
<1>4. PICK s : s = OptimalEntry(asks, bids, target)
  OBVIOUS
<1>5. CASE asks = <<>> \/ bids = <<>> \/ Least(x, y) < lo
  <2>1. s.slice = 0 /\ s.chunks = 0
    BY <1>1, <1>2, <1>3, <1>4, <1>5 DEF OptimalEntry, NotTradable
  <2>2. QED
    BY <1>4, <2>1
<1>6. CASE ~(asks = <<>> \/ bids = <<>> \/ Least(x, y) < lo)
  <2>1. PICK z \in Nat \ {0} : z = Least(Least(x, y), hi) /\ z <= x /\ z <= y
    BY <1>2, <1>3, <1>6 DEF Least
  <2>2. s.slice = z /\ s.chunks = IF target > z THEN Chunks(z, target) ELSE 0
    BY <1>1, <1>2, <1>3, <1>4, <1>6, <2>1 DEF OptimalEntry
  <2>3. s.slice \in Nat \ {0} /\ s.slice <= a /\ s.slice <= b
    BY <1>2, <2>1, <2>2
  <2>4. s.chunks > 0 => /\ s.slice * s.chunks + MinSize > target
                        /\ s.slice * (s.chunks - 1) < target
    BY <2>1, <2>2, ChunksReach
  <2>5. QED
    BY <1>1, <1>4, <2>3, <2>4
<1>7. QED
  BY <1>5, <1>6

LEMMA BothSides ==
  ASSUME NEW levels \in AskSides \cup BidSides
  PROVE  Side(levels)
  BY BooksAssumption DEF Side, Ordered

\* A size that Emulator.calc_dynamic_size, calc_dir_size or the slicing of
\* OrderBookSizer chooses from the books fills on both legs, at an average
\* price within the slippage limit and no worse than the price that
\* _walk_worst_price charges, and the slices add up to their target, for every
\* book and every choice of the limits.
THEOREM SizesFill == Spec => []SizedEntriesFill
<1>1. Called => SizedEntriesFill
  <2> SUFFICES ASSUME Called, Returned("size") PROVE SizedEntriesFill
    BY DEF SizedEntriesFill
  <2>1. /\ input.asks \in AskSides /\ input.bids \in BidSides /\ input.target \in Targets
        /\ outcome.result =
             [dynamic |-> DynamicSize(input.asks, input.bids),
              directional |-> [buy |-> DirSize(input.asks), sell |-> DirSize(input.bids)],
              slice |-> OptimalEntry(input.asks, input.bids, input.target)]
    BY ReturnedRight DEF Argued, Right
  <2>2. PICK asks, bids, target :
          asks = input.asks /\ bids = input.bids /\ target = input.target /\ target \in Nat
    BY <2>1, BooksAssumption
  <2>3. Side(asks) /\ Side(bids)
    BY <2>1, <2>2, BothSides
  <2>4. PICK dynamic, buy, sell, s :
          /\ dynamic = DynamicSize(asks, bids) /\ dynamic = outcome.result.dynamic
          /\ buy = DirSize(asks) /\ buy = outcome.result.directional.buy
          /\ sell = DirSize(bids) /\ sell = outcome.result.directional.sell
          /\ s = OptimalEntry(asks, bids, target) /\ s = outcome.result.slice
    BY <2>1, <2>2
  <2>5. ASSUME NEW size \in Nat \ {0},
               size <= NearDepth(asks, TopLevels), size <= NearDepth(bids, TopLevels)
        PROVE  /\ FillsNear(asks, size) /\ FillsNear(bids, size)
               /\ ~Orphan(SimulateLegFill(asks, size), SimulateLegFill(bids, size))
    <3>1. TopLevels \in Nat
      BY SizingAssumption
    <3>2. FillsNear(asks, size) /\ SimulateLegFill(asks, size).filled = TRUE
      BY <2>3, <2>5, <3>1, SizeFills
    <3>3. FillsNear(bids, size) /\ SimulateLegFill(bids, size).filled = TRUE
      BY <2>3, <2>5, <3>1, SizeFills
    <3>4. QED
      BY <3>2, <3>3 DEF Orphan
  <2>6. ASSUME NEW size \in {dynamic, s.slice} \ {0}
        PROVE  /\ FillsNear(asks, size) /\ FillsNear(bids, size)
               /\ ~Orphan(SimulateLegFill(asks, size), SimulateLegFill(bids, size))
    <3>1. CASE size = dynamic
      <4>1. /\ size \in Nat \ {0}
            /\ size <= NearDepth(asks, TopLevels) /\ size <= NearDepth(bids, TopLevels)
        BY <2>3, <2>4, <3>1, DynamicSizeFits
      <4>2. QED
        BY <2>5, <4>1
    <3>2. CASE size = s.slice
      <4>1. /\ size \in Nat \ {0}
            /\ size <= NearDepth(asks, TopLevels) /\ size <= NearDepth(bids, TopLevels)
        BY <2>2, <2>3, <2>4, <3>2, SliceFits
      <4>2. QED
        BY <2>5, <4>1
    <3>3. QED
      BY <3>1, <3>2
  <2>7. ASSUME NEW levels, Side(levels), DirSize(levels) > 0
        PROVE  FillsNear(levels, DirSize(levels))
    <3>1. Len(levels) \in Nat
      BY <2>7 DEF Side
    <3>2. DirSize(levels) # 0
      BY <2>7
    <3>3. DirSize(levels) \in Nat \ {0} /\ DirSize(levels) <= NearDepth(levels, Len(levels))
      BY <2>7, <3>2, DirSizeFits
    <3>4. QED
      BY <2>7, <3>1, <3>3, SizeFills
  <2>8. buy > 0 => FillsNear(asks, buy)
    BY <2>3, <2>4, <2>7
  <2>9. sell > 0 => FillsNear(bids, sell)
    BY <2>3, <2>4, <2>7
  <2>10. s.chunks > 0 => /\ s.slice * s.chunks + MinSize > target
                         /\ s.slice * (s.chunks - 1) < target
    BY <2>2, <2>3, <2>4, SliceFits
  <2>11. QED
    BY <2>2, <2>4, <2>6, <2>8, <2>9, <2>10 DEF SizedEntriesFill
<1>2. QED
  BY <1>1, AlwaysCalled, PTL
=============================================================================
