----------------------------- MODULE OBIProofs -----------------------------
(***************************************************************************)
(* The types of the OBI engine, the age of its live trades, the distance   *)
(* between them and what its deque forgets, for all symbols, books, limits *)
(* and timeouts.                                                           *)
(***************************************************************************)
EXTENDS OBI, FiniteSetTheorems, TLAPS

\* Every stamp lies in the past, and a live trade is no younger than the last
\* signal of its key: what makes the properties inductive.
Stamps ==
  /\ \A s \in Symbols : quoted[s] <= clock /\ books[s].ts <= clock
  /\ \A k \in Keys : cooldowns[k] <= clock
  /\ \A i \in DOMAIN trades : LET t == trades[i] IN
       Live(t) => /\ t.entry <= clock
                  /\ <<t.sym, t.side>> \in Keys
                  /\ t.entry <= cooldowns[<<t.sym, t.side>>]

IInv == TypeOK /\ Stamps /\ LiveIsYoung /\ LiveAreSpaced

-----------------------------------------------------------------------------
\* What a push does to the deque: the new trade is the last, the others keep
\* their order and move by at most one.
LEMMA PushedShape ==
  ASSUME TypeOK, NEW t \in TradeType
  PROVE  /\ Pushed(t) \in Seq(TradeType)
         /\ Len(Pushed(t)) <= Cap
         /\ Len(Pushed(t)) >= 1
         /\ Pushed(t)[Len(Pushed(t))] = t
         /\ \E d \in {0, 1} : \A i \in 1 .. Len(Pushed(t)) - 1 :
              i + d \in DOMAIN trades /\ Pushed(t)[i] = trades[i + d]
<1>1. trades \in Seq(TradeType) /\ Len(trades) \in Nat /\ Len(trades) <= Cap /\ Cap \in Nat \ {0}
  BY TimesAssumption DEF TypeOK
<1>2. CASE Len(trades) < Cap
  <2>1. Pushed(t) = Append(trades, t) BY <1>2 DEF Pushed
  <2>2. \A i \in 1 .. Len(Append(trades, t)) - 1 :
          i + 0 \in DOMAIN trades /\ Append(trades, t)[i] = trades[i + 0]
    BY <1>1
  <2> QED BY <1>1, <1>2, <2>1, <2>2
<1>3. CASE ~(Len(trades) < Cap)
  <2>1. Pushed(t) = Append(Tail(trades), t) BY <1>3 DEF Pushed
  <2>2. trades # <<>> /\ Len(trades) = Cap BY <1>1, <1>3
  <2>3. Tail(trades) \in Seq(TradeType) /\ Len(Tail(trades)) = Cap - 1 BY <1>1, <2>2
  <2>4. \A i \in 1 .. Len(Append(Tail(trades), t)) - 1 :
          i + 1 \in DOMAIN trades /\ Append(Tail(trades), t)[i] = trades[i + 1]
    BY <1>1, <2>2, <2>3
  <2> QED BY <1>1, <2>1, <2>3, <2>4
<1> QED BY <1>2, <1>3

\* The parts of a deque are finite.
LEMMA PartsAreFinite ==
  ASSUME TypeOK, NEW S \in SUBSET DOMAIN trades
  PROVE  Cardinality(S) \in Nat
<1>1. trades \in Seq(TradeType) BY DEF TypeOK
<1>2. DOMAIN trades = 1 .. Len(trades) /\ Len(trades) \in Nat BY <1>1
<1>3. IsFiniteSet(1 .. Len(trades)) BY <1>2, FS_Interval
<1>4. IsFiniteSet(S) BY <1>2, <1>3, FS_Subset
<1> QED BY <1>4, FS_CardinalityType

\* A book leaves a trade as it is, ends it, or fills it now.
LEMMA UpdatedShape ==
  ASSUME TypeOK, NEW t \in TradeType, NEW b
  PROVE  /\ Updated(t, b) \in TradeType
         /\ \/ Updated(t, b) = t /\ ~Expires(t, b) /\ ~Closes(t, b)
            \/ ~Live(Updated(t, b))
            \/ /\ Updated(t, b).status = "FILLED"
               /\ Updated(t, b).fill = clock
               /\ t.status = "PENDING" /\ clock - t.entry <= Timeout
               /\ Updated(t, b).sym = t.sym
               /\ Updated(t, b).side = t.side
               /\ Updated(t, b).entry = t.entry
<1>1. clock \in Nat /\ Timeout \in Nat BY TimesAssumption DEF TypeOK
<1>2. /\ t.sym \in Symbols /\ t.side \in Sides /\ t.limit \in Nat /\ t.entry \in Nat
      /\ t.fill \in Nat
  BY DEF TradeType
<1>3. \A st \in {"EXPIRED", "CLOSED"} : Ended(t, st) \in TradeType /\ ~Live(Ended(t, st))
  BY <1>2 DEF Ended, TradeType, Live
<1>4. CASE Expires(t, b)
  BY <1>3, <1>4 DEF Updated
<1>5. CASE ~Expires(t, b) /\ Fills(t, b)
  <2>1. Updated(t, b) = Filled(t) BY <1>5 DEF Updated
  <2>2. t.status = "PENDING" /\ ~(clock - t.entry > Timeout)
    BY <1>5 DEF Fills, Expires
  <2>3. /\ Filled(t) \in TradeType
        /\ Filled(t).status = "FILLED" /\ Filled(t).fill = clock
        /\ Filled(t).sym = t.sym /\ Filled(t).side = t.side /\ Filled(t).entry = t.entry
    BY <1>1, <1>2 DEF Filled, TradeType
  <2> QED BY <1>1, <1>2, <2>1, <2>2, <2>3
<1>6. CASE ~Expires(t, b) /\ ~Fills(t, b) /\ Closes(t, b)
  BY <1>3, <1>6 DEF Updated
<1>7. CASE ~Expires(t, b) /\ ~Fills(t, b) /\ ~Closes(t, b)
  BY <1>7 DEF Updated
<1> QED BY <1>4, <1>5, <1>6, <1>7

-----------------------------------------------------------------------------
\* The invariant holds at the start and is kept by every step.

LEMMA InitIInv == Init => IInv
<1> SUFFICES ASSUME Init PROVE IInv
  OBVIOUS
<1>1. Epoch \in Nat /\ Cap \in Nat BY TimesAssumption
<1>2. trades = <<>> /\ <<>> \in Seq(TradeType) /\ Len(<<>>) = 0 /\ DOMAIN <<>> = {}
  BY DEF Init
<1>3. TypeOK
  BY <1>1, <1>2 DEF Init, TypeOK, Venues
<1>4. Stamps /\ LiveIsYoung /\ LiveAreSpaced
  BY <1>1, <1>2 DEF Init, Stamps, LiveIsYoung, LiveAreSpaced
<1> QED BY <1>3, <1>4 DEF IInv

LEMMA FeedsIInv ==
  ASSUME IInv, UNCHANGED <<clock, engine>>, running' \in BOOLEAN,
         connected' \in [Venues -> BOOLEAN]
  PROVE  IInv'
BY DEF IInv, TypeOK, Stamps, LiveIsYoung, LiveAreSpaced, engine, Live

LEMMA TickIInv == IInv /\ Tick => IInv'
<1> SUFFICES ASSUME IInv, Tick PROVE IInv'
  OBVIOUS
<1> USE DEF IInv
<1>1. clock \in Nat /\ clock' = clock + 1 /\ Epoch \in Nat
  BY TimesAssumption DEF TypeOK, Tick
<1>2. UNCHANGED <<feeds, engine>> BY DEF Tick
<1>3. TypeOK' BY <1>1, <1>2 DEF TypeOK, feeds, engine
<1>4. Stamps'
  <2>1. \A s \in Symbols : quoted[s] \in Nat /\ books[s].ts \in Nat BY DEF TypeOK
  <2>2. \A k \in Keys : cooldowns[k] \in Nat BY DEF TypeOK
  <2>3. \A i \in DOMAIN trades : trades[i].entry \in Nat
    <3>1. \A i \in DOMAIN trades : trades[i] \in TradeType BY DEF TypeOK
    <3> QED BY <3>1 DEF TradeType
  <2> QED BY <1>1, <1>2, <2>1, <2>2, <2>3 DEF Stamps, engine, Live
<1>5. LiveIsYoung' /\ LiveAreSpaced'
  BY <1>2 DEF engine, LiveIsYoung, LiveAreSpaced, Live
<1> QED BY <1>3, <1>4, <1>5

LEMMA LagIInv ==
  ASSUME IInv, NEW b \in Books, LagUpdate(b)
  PROVE  IInv'
<1> USE DEF IInv
<1>1. /\ clock' = clock /\ clock \in Nat /\ UNCHANGED feeds
      /\ cooldowns' = cooldowns /\ lost' = lost
  BY DEF LagUpdate, TypeOK
<1>2. b.sym \in Symbols /\ b.bid \in Nat /\ b.ask \in Nat
  BY BooksAssumption
<1>3. trades' = [i \in DOMAIN trades |-> Updated(trades[i], b)]
  BY DEF LagUpdate
<1>4. trades \in Seq(TradeType) /\ DOMAIN trades = 1 .. Len(trades) /\ Len(trades) \in Nat
  BY DEF TypeOK
<1>5. \A i \in DOMAIN trades : trades[i] \in TradeType BY <1>4
<1>6. \A i \in DOMAIN trades : Updated(trades[i], b) \in TradeType BY <1>5, UpdatedShape
<1>7. /\ DOMAIN trades' = DOMAIN trades
      /\ \A i \in DOMAIN trades : trades'[i] = Updated(trades[i], b)
      /\ trades' \in Seq(TradeType) /\ Len(trades') = Len(trades)
  <2>1. DOMAIN trades' = 1 .. Len(trades) BY <1>3, <1>4
  <2>2. \A i \in DOMAIN trades : trades'[i] = Updated(trades[i], b) BY <1>3
  <2>3. trades' = [i \in 1 .. Len(trades) |-> trades'[i]] BY <1>3, <1>4
  <2> QED BY <1>4, <1>6, <2>1, <2>2, <2>3
<1>8. /\ \A s \in Symbols : quoted[s] \in Nat /\ quoted[s] <= clock
      /\ quoted' \in [Symbols -> Nat]
      /\ \A s \in Symbols : \/ quoted'[s] = quoted[s]
                            \/ (quoted'[s] = clock /\ s = b.sym /\ TwoSided(b))
  <2>1. quoted \in [Symbols -> Nat] BY DEF TypeOK
  <2>2. \A s \in Symbols : quoted[s] <= clock BY DEF Stamps
  <2>3. quoted' = IF TwoSided(b) THEN [quoted EXCEPT ![b.sym] = clock] ELSE quoted
    BY DEF LagUpdate
  <2> QED BY <1>1, <1>2, <2>1, <2>2, <2>3
<1>9. /\ books' \in [Symbols -> [bid : Nat, ask : Nat, ts : Nat]]
      /\ \A s \in Symbols : books'[s].ts <= clock
  <2> DEFINE nb == [bid |-> b.bid, ask |-> b.ask, ts |-> clock]
  <2>1. nb \in [bid : Nat, ask : Nat, ts : Nat] /\ nb.ts = clock BY <1>1, <1>2
  <2>2. books' = [books EXCEPT ![b.sym] = nb] BY DEF LagUpdate
  <2>3. books \in [Symbols -> [bid : Nat, ask : Nat, ts : Nat]] BY DEF TypeOK
  <2>4. \A s \in Symbols : books[s].ts <= clock BY DEF Stamps
  <2> HIDE DEF nb
  <2>5. \A s \in Symbols : books'[s] = IF s = b.sym THEN nb ELSE books[s]
    BY <1>2, <2>2, <2>3
  <2>6. books' \in [Symbols -> [bid : Nat, ask : Nat, ts : Nat]]
    BY <1>2, <2>1, <2>2, <2>3
  <2> QED BY <1>1, <2>1, <2>4, <2>5, <2>6
<1>10. count' \in [signals : Nat, filled : Nat, won : Nat, lost : Nat]
  <2> DEFINE F == Cardinality({i \in DOMAIN trades : Fills(trades[i], b)})
             C == {i \in DOMAIN trades : Closes(trades[i], b)}
             W == {i \in DOMAIN trades : Wins(trades[i], b)}
  <2>1. F \in Nat /\ Cardinality(W) \in Nat /\ Cardinality(C \ W) \in Nat
    BY PartsAreFinite
  <2>2. count' = [signals |-> count.signals, filled |-> count.filled + F,
                  won |-> count.won + Cardinality(W),
                  lost |-> count.lost + Cardinality(C \ W)]
    BY DEF LagUpdate
  <2>3. count \in [signals : Nat, filled : Nat, won : Nat, lost : Nat] BY DEF TypeOK
  <2> HIDE DEF F, C, W
  <2> QED BY <2>1, <2>2, <2>3
<1>11. TypeOK'
  BY <1>1, <1>7, <1>8, <1>9, <1>10 DEF TypeOK, feeds
\* a live trade of the new deque was live, with the same key and entry
<1>12. \A i \in DOMAIN trades : Live(trades'[i]) =>
         /\ Live(trades[i])
         /\ trades'[i].sym = trades[i].sym /\ trades'[i].side = trades[i].side
         /\ trades'[i].entry = trades[i].entry
  BY <1>5, <1>7, UpdatedShape DEF Live
<1>13. Stamps'
  <2>1. \A s \in Symbols : quoted'[s] <= clock BY <1>1, <1>8
  <2>2. \A k \in Keys : cooldowns'[k] <= clock' BY <1>1 DEF Stamps
  <2>3. \A i \in DOMAIN trades' : Live(trades'[i]) =>
          /\ trades'[i].entry <= clock
          /\ <<trades'[i].sym, trades'[i].side>> \in Keys
          /\ trades'[i].entry <= cooldowns[<<trades'[i].sym, trades'[i].side>>]
    BY <1>7, <1>12 DEF Stamps
  <2> QED BY <1>1, <1>9, <2>1, <2>2, <2>3 DEF Stamps
<1>14. LiveAreSpaced'
  BY <1>7, <1>12 DEF LiveAreSpaced
<1>15. LiveIsYoung'
  <2> SUFFICES ASSUME NEW i \in DOMAIN trades
      PROVE  /\ trades'[i].status = "PENDING"
                  => quoted'[trades'[i].sym] <= trades'[i].entry + Timeout
             /\ trades'[i].status = "FILLED"
                  => /\ trades'[i].entry <= trades'[i].fill
                     /\ trades'[i].fill <= trades'[i].entry + Timeout
                     /\ quoted'[trades'[i].sym] < trades'[i].fill + MaxHold
    BY <1>7 DEF LiveIsYoung
  <2> DEFINE t == trades[i]
             u == Updated(t, b)
  <2>1. /\ t \in TradeType /\ u \in TradeType /\ trades'[i] = u
        /\ Timeout \in Nat /\ MaxHold \in Nat \ {0}
    BY <1>5, <1>6, <1>7, TimesAssumption
  <2>2. /\ t.sym \in Symbols /\ t.entry \in Nat /\ t.fill \in Nat
    BY <2>1 DEF TradeType
  <2>3. /\ t.status = "PENDING" => quoted[t.sym] <= t.entry + Timeout
        /\ t.status = "FILLED" => /\ t.entry <= t.fill /\ t.fill <= t.entry + Timeout
                                  /\ quoted[t.sym] < t.fill + MaxHold
    BY DEF LiveIsYoung
  <2>4. Live(t) => t.entry <= clock BY DEF Stamps
  <2>5. /\ u = t /\ ~Expires(t, b) /\ ~Closes(t, b)
        \/ ~Live(u)
        \/ /\ u.status = "FILLED" /\ u.fill = clock
           /\ t.status = "PENDING" /\ clock - t.entry <= Timeout
           /\ u.sym = t.sym /\ u.side = t.side /\ u.entry = t.entry
    BY <2>1, UpdatedShape
  <2> HIDE DEF t, u
  <2>6. CASE u = t /\ ~Expires(t, b) /\ ~Closes(t, b)
    <3>1. CASE t.status = "PENDING"
      <4>1. quoted'[t.sym] = quoted[t.sym] \/ (quoted'[t.sym] = clock /\ t.sym = b.sym)
        BY <1>8, <2>2
      <4>2. t.sym = b.sym => ~(clock - t.entry > Timeout) BY <2>6, <3>1 DEF Expires
      <4> QED BY <1>1, <2>1, <2>2, <2>3, <2>6, <3>1, <4>1, <4>2
    <3>2. CASE t.status = "FILLED"
      <4>1. \/ quoted'[t.sym] = quoted[t.sym]
            \/ (quoted'[t.sym] = clock /\ t.sym = b.sym /\ TwoSided(b))
        BY <1>8, <2>2
      <4>2. TwoSided(b) => Mid(b) > 0 BY <1>2 DEF TwoSided, Mid
      <4>3. t.sym = b.sym /\ TwoSided(b) => ~(clock - t.fill >= MaxHold)
        BY <2>6, <3>2, <4>2 DEF Closes
      <4> QED BY <1>1, <2>1, <2>2, <2>3, <2>6, <3>2, <4>1, <4>3
    <3>3. CASE ~Live(t)
      BY <2>1, <2>6, <3>3 DEF Live
    <3> QED BY <3>1, <3>2, <3>3 DEF Live
  <2>7. CASE ~Live(u)
    BY <2>1, <2>7 DEF Live
  <2>8. CASE /\ u.status = "FILLED" /\ u.fill = clock
             /\ t.status = "PENDING" /\ clock - t.entry <= Timeout
             /\ u.sym = t.sym /\ u.side = t.side /\ u.entry = t.entry
    <3>1. quoted'[t.sym] = quoted[t.sym] \/ quoted'[t.sym] = clock BY <1>8, <2>2
    <3>2. quoted[t.sym] <= clock /\ quoted[t.sym] \in Nat BY <1>8, <2>2
    <3>3. t.entry <= clock BY <2>4, <2>8 DEF Live
    <3> QED BY <1>1, <2>1, <2>2, <2>8, <3>1, <3>2, <3>3
  <2> QED BY <2>5, <2>6, <2>7, <2>8
<1> QED BY <1>11, <1>13, <1>14, <1>15

LEMMA LeadIInv ==
  ASSUME IInv, NEW m \in Moves, LeadUpdate(m)
  PROVE  IInv'
<1> USE DEF IInv
<1> DEFINE lag == books[m.sym]
           price == IF Side(m) = "BUY" THEN lag.bid ELSE lag.ask
           k == Key(m)
           n == Trade(m.sym, Side(m), price, clock)
<1>1. m.sym \in Symbols /\ Side(m) \in Sides /\ k = <<m.sym, Side(m)>> /\ k \in Keys
  BY MovesAssumption DEF LeadUpdate, Side, Sides, Key, Keys
<1>2. clock' = clock /\ clock \in Nat /\ UNCHANGED <<feeds, books, quoted>>
  BY DEF LeadUpdate, TypeOK
<1>3. price \in Nat BY <1>1 DEF TypeOK
<1>4. /\ n \in TradeType /\ n.sym = m.sym /\ n.side = Side(m) /\ n.entry = clock
      /\ n.status = "PENDING" /\ Live(n)
  BY <1>1, <1>2, <1>3 DEF Trade, TradeType, Live
<1>5. trades' = Pushed(n) /\ cooldowns' = [cooldowns EXCEPT ![k] = clock]
  BY DEF LeadUpdate
<1>6. clock - cooldowns[k] >= Cooldown BY DEF LeadUpdate, CooledDown
<1>7. /\ cooldowns \in [Keys -> Nat] /\ Cooldown \in Nat \ {0}
      /\ \A j \in Keys : cooldowns[j] \in Nat /\ cooldowns[j] <= clock
  BY TimesAssumption DEF TypeOK, Stamps
<1>8. \A s \in Symbols : quoted[s] \in Nat /\ quoted[s] <= clock
  BY DEF TypeOK, Stamps
<1>9. lost' \subseteq [trade : TradeType, silent : BOOLEAN]
  <2>1. trades \in Seq(TradeType) /\ Len(trades) \in Nat BY DEF TypeOK
  <2>2. CASE Len(trades) < Cap \/ ~Live(Head(trades))
    BY <2>2 DEF LeadUpdate, Forgotten, TypeOK
  <2>3. CASE ~(Len(trades) < Cap) /\ Live(Head(trades))
    <3>1. Head(trades) \in TradeType BY <2>1, <2>3, TimesAssumption
    <3> DEFINE l == [trade |-> Head(trades), silent |-> clock - quoted[Head(trades).sym] > Stale]
    <3>2. l \in [trade : TradeType, silent : BOOLEAN] BY <3>1
    <3>3. lost' = lost \union {l} BY <2>3 DEF LeadUpdate, Forgotten
    <3>4. lost \subseteq [trade : TradeType, silent : BOOLEAN] BY DEF TypeOK
    <3> HIDE DEF l
    <3> QED BY <3>2, <3>3, <3>4
  <2> QED BY <2>2, <2>3
<1> HIDE DEF n, price, lag, k
<1>10. /\ trades' \in Seq(TradeType) /\ Len(trades') <= Cap /\ Len(trades') >= 1
       /\ trades'[Len(trades')] = n
       /\ \E d \in {0, 1} : \A i \in 1 .. Len(trades') - 1 :
             i + d \in DOMAIN trades /\ trades'[i] = trades[i + d]
  BY <1>4, <1>5, PushedShape
<1>11. PICK d \in {0, 1} : \A i \in 1 .. Len(trades') - 1 :
             i + d \in DOMAIN trades /\ trades'[i] = trades[i + d]
  BY <1>10
<1>12. Len(trades') \in Nat /\ DOMAIN trades' = 1 .. Len(trades') BY <1>10
<1>13. count' \in [signals : Nat, filled : Nat, won : Nat, lost : Nat]
  <2>1. count' = [signals |-> count.signals + 1, filled |-> count.filled,
                  won |-> count.won, lost |-> count.lost] BY DEF LeadUpdate
  <2>2. count \in [signals : Nat, filled : Nat, won : Nat, lost : Nat] BY DEF TypeOK
  <2> QED BY <2>1, <2>2
<1>14. TypeOK'
  BY <1>1, <1>2, <1>5, <1>7, <1>9, <1>10, <1>13 DEF TypeOK, feeds
<1>15. \A j \in Keys : cooldowns'[j] <= clock /\ cooldowns'[j] >= cooldowns[j]
  BY <1>1, <1>2, <1>5, <1>7
<1>16. cooldowns'[k] = clock BY <1>1, <1>5, <1>7
<1>17. ASSUME NEW i \in DOMAIN trades', Live(trades'[i])
       PROVE  /\ trades'[i].entry <= clock
              /\ <<trades'[i].sym, trades'[i].side>> \in Keys
              /\ trades'[i].entry <= cooldowns'[<<trades'[i].sym, trades'[i].side>>]
  <2>1. CASE i = Len(trades')
    BY <1>1, <1>2, <1>4, <1>10, <1>16, <2>1
  <2>2. CASE i # Len(trades')
    <3>1. i \in 1 .. Len(trades') - 1 BY <1>12, <1>17, <2>2
    <3>2. i + d \in DOMAIN trades /\ trades'[i] = trades[i + d] BY <1>11, <3>1
    <3>3. /\ trades[i + d].entry <= clock /\ trades[i + d].entry \in Nat
          /\ <<trades[i + d].sym, trades[i + d].side>> \in Keys
          /\ trades[i + d].entry <= cooldowns[<<trades[i + d].sym, trades[i + d].side>>]
      <4>1. Live(trades[i + d]) BY <1>17, <3>2
      <4>2. trades[i + d] \in TradeType BY <3>2 DEF TypeOK
      <4>3. trades[i + d].entry \in Nat BY <4>2 DEF TradeType
      <4> QED BY <3>2, <4>1, <4>3 DEF Stamps
    <3> DEFINE j == <<trades[i + d].sym, trades[i + d].side>>
    <3>4. cooldowns'[j] >= cooldowns[j] /\ cooldowns[j] \in Nat /\ cooldowns'[j] \in Nat
      BY <1>7, <1>14, <1>15, <3>3 DEF TypeOK
    <3> QED BY <3>2, <3>3, <3>4
  <2> QED BY <2>1, <2>2
<1>18. Stamps'
  BY <1>2, <1>15, <1>17 DEF Stamps
<1>19. LiveIsYoung'
  <2> SUFFICES ASSUME NEW i \in DOMAIN trades'
      PROVE  /\ trades'[i].status = "PENDING"
                  => quoted'[trades'[i].sym] <= trades'[i].entry + Timeout
             /\ trades'[i].status = "FILLED"
                  => /\ trades'[i].entry <= trades'[i].fill
                     /\ trades'[i].fill <= trades'[i].entry + Timeout
                     /\ quoted'[trades'[i].sym] < trades'[i].fill + MaxHold
    BY DEF LiveIsYoung
  <2>1. CASE i = Len(trades')
    <3>1. trades'[i] = n /\ quoted'[n.sym] <= clock /\ quoted'[n.sym] \in Nat
      BY <1>1, <1>2, <1>4, <1>8, <1>10, <2>1
    <3>2. Timeout \in Nat BY TimesAssumption
    <3> QED BY <1>2, <1>4, <3>1, <3>2
  <2>2. CASE i # Len(trades')
    <3>1. i \in 1 .. Len(trades') - 1 BY <1>12, <2>2
    <3>2. i + d \in DOMAIN trades /\ trades'[i] = trades[i + d] BY <1>11, <3>1
    <3> QED BY <1>2, <3>2 DEF LiveIsYoung
  <2> QED BY <2>1, <2>2
<1>20. LiveAreSpaced'
  <2> SUFFICES ASSUME NEW i \in DOMAIN trades', NEW j \in DOMAIN trades', i < j,
                      Live(trades'[i]), Live(trades'[j]),
                      trades'[i].sym = trades'[j].sym, trades'[i].side = trades'[j].side
               PROVE  trades'[j].entry - trades'[i].entry >= Cooldown
    BY DEF LiveAreSpaced
  <2>1. i \in 1 .. Len(trades') - 1 BY <1>12
  <2>2. i + d \in DOMAIN trades /\ trades'[i] = trades[i + d] BY <1>11, <2>1
  <2>3. CASE j = Len(trades')
    <3>1. /\ trades[i + d].entry \in Nat /\ <<trades[i + d].sym, trades[i + d].side>> = k
          /\ trades[i + d].entry <= cooldowns[k]
      <4>1. trades'[j] = n BY <1>10, <2>3
      <4>2. trades[i + d].entry \in Nat
        <5>1. trades[i + d] \in TradeType BY <2>2 DEF TypeOK
        <5> QED BY <5>1 DEF TradeType
      <4>3. <<trades[i + d].sym, trades[i + d].side>> = k BY <1>1, <1>4, <2>2, <4>1
      <4> QED BY <2>2, <4>2, <4>3 DEF Stamps
    <3> QED BY <1>1, <1>2, <1>4, <1>6, <1>7, <1>10, <2>2, <2>3, <3>1
  <2>4. CASE j # Len(trades')
    <3>1. j \in 1 .. Len(trades') - 1 BY <1>12, <2>4
    <3>2. j + d \in DOMAIN trades /\ trades'[j] = trades[j + d] BY <1>11, <3>1
    <3>3. i + d < j + d BY <1>12, <2>1, <3>1
    <3> QED BY <2>2, <3>2, <3>3 DEF LiveAreSpaced
  <2> QED BY <2>3, <2>4
<1> QED BY <1>14, <1>18, <1>19, <1>20

LEMMA StepIInv == IInv /\ [Next]_vars => IInv'
<1> SUFFICES ASSUME IInv, [Next]_vars PROVE IInv'
  OBVIOUS
<1>1. ASSUME NEW v \in Venues, Connect(v) \/ Disconnect(v) PROVE IInv'
  <2>1. connected' \in [Venues -> BOOLEAN] /\ running' \in BOOLEAN
    BY <1>1 DEF Connect, Disconnect, IInv, TypeOK
  <2>2. UNCHANGED <<clock, engine>> BY <1>1 DEF Connect, Disconnect
  <2> QED BY <2>1, <2>2, FeedsIInv
<1>2. CASE Shutdown
  BY <1>2, FeedsIInv DEF Shutdown
<1>3. ASSUME NEW b \in Books, LagUpdate(b) PROVE IInv'
  BY <1>3, LagIInv
<1>4. ASSUME NEW m \in Moves, LeadUpdate(m) PROVE IInv'
  BY <1>4, LeadIInv
<1>5. CASE Tick
  BY <1>5, TickIInv
<1>6. CASE UNCHANGED vars
  <2>1. UNCHANGED <<clock, engine>> /\ connected' \in [Venues -> BOOLEAN] /\ running' \in BOOLEAN
    BY <1>6 DEF vars, feeds, IInv, TypeOK
  <2> QED BY <2>1, FeedsIInv
<1> QED BY <1>1, <1>2, <1>3, <1>4, <1>5, <1>6 DEF Next

\* The invariant of the OBI engine.
THEOREM Invariance == Spec => []IInv
<1>1. Init => IInv BY InitIInv
<1>2. IInv /\ [Next]_vars => IInv' BY StepIInv
<1> QED BY <1>1, <1>2, PTL DEF Spec

\* Type correctness of the service, with the bound of the deque.
THEOREM TypeCorrect == Spec => []TypeOK
<1>1. IInv => TypeOK BY DEF IInv
<1> QED BY <1>1, Invariance, PTL

\* No trade outlives its timeout and holding limit at a venue that quotes.
THEOREM NoTradeOutlivesItsTime == Spec => []LiveIsYoung
<1>1. IInv => LiveIsYoung BY DEF IInv
<1> QED BY <1>1, Invariance, PTL

\* Live trades of a symbol and side are a cooldown apart.
THEOREM SignalsAreSpaced == Spec => []LiveAreSpaced
<1>1. IInv => LiveAreSpaced BY DEF IInv
<1> QED BY <1>1, Invariance, PTL

-----------------------------------------------------------------------------
\* What the deque forgets.  An ended trade no longer says when it was
\* signalled, so the invariant asserts that such times exist: they grow along
\* the deque, and those of one key are a cooldown apart.
KeyOf(t) == <<t.sym, t.side>>
SignalTimes(f) ==
  /\ \A i \in DOMAIN trades :
       /\ KeyOf(trades[i]) \in Keys
       /\ f[i] <= clock /\ f[i] <= cooldowns[KeyOf(trades[i])]
       /\ Live(trades[i]) => f[i] = trades[i].entry
  /\ \A i, j \in DOMAIN trades : i < j =>
       /\ f[i] <= f[j]
       /\ KeyOf(trades[i]) = KeyOf(trades[j]) => f[j] - f[i] >= Cooldown
Deque == \E f \in [DOMAIN trades -> Nat] : SignalTimes(f)

DInv == IInv /\ Deque /\ LostOnlyWhenSilent

\* The keys are finitely many.
LEMMA KeysAreFinite == IsFiniteSet(Keys) /\ Cardinality(Keys) \in Nat
<1>1. IsFiniteSet(Sides)
  <2>1. IsFiniteSet({"BUY"}) /\ IsFiniteSet({"SELL"}) BY FS_Singleton
  <2>2. IsFiniteSet({"BUY"} \union {"SELL"}) BY <2>1, FS_Union
  <2>3. Sides = {"BUY"} \union {"SELL"} BY DEF Sides
  <2> QED BY <2>2, <2>3
<1>2. IsFiniteSet(Symbols \X Sides) BY <1>1, SymbolsAssumption, FS_Product
<1>3. \A m \in Moves : Side(m) # "NONE" => Key(m) \in Symbols \X Sides
  BY MovesAssumption DEF Side, Sides, Key
<1>4. Keys \subseteq Symbols \X Sides BY <1>3 DEF Keys
<1> QED BY <1>2, <1>4, FS_Subset, FS_CardinalityType

\* The quotient of two times within a window, and that a cooldown between
\* them makes it grow.
LEMMA Quotient ==
  ASSUME NEW n \in Nat, NEW c \in Nat \ {0}
  PROVE  n \div c \in Nat /\ c * (n \div c) <= n /\ n < c * (n \div c) + c
<1>1. n = c * (n \div c) + (n % c) /\ (n % c) \in 0 .. c - 1 /\ n \div c \in Int
  OBVIOUS
<1>2. n \div c >= 0 OBVIOUS
<1>3. c * (n \div c) \in Int BY <1>1
<1> QED BY <1>1, <1>2, <1>3

LEMMA QuotientGrows ==
  ASSUME NEW a \in Nat, NEW b \in Nat, NEW c \in Nat \ {0}
  PROVE  /\ a <= b => a \div c <= b \div c
         /\ b - a >= c => a \div c # b \div c
<1> DEFINE p == a \div c
           q == b \div c
<1>1. /\ p \in Nat /\ c * p <= a /\ a < c * p + c
      /\ q \in Nat /\ c * q <= b /\ b < c * q + c
  BY Quotient
<1> HIDE DEF p, q
<1>2. ASSUME a <= b, ~(p <= q) PROVE FALSE
  <2>1. p >= q + 1 BY <1>1, <1>2
  <2>2. c * p >= c * (q + 1) BY ONLY <1>1, <2>1, c \in Nat \ {0}
  <2>3. c * (q + 1) = c * q + c BY ONLY <1>1, c \in Nat \ {0}
  <2>4. c * p \in Int /\ c * q \in Int BY <1>1
  <2> QED BY <1>1, <1>2, <2>2, <2>3, <2>4
<1>3. ASSUME b - a >= c, p = q PROVE FALSE
  <2>1. c * p \in Int BY <1>1
  <2> QED BY <1>1, <1>3, <2>1
<1> QED BY <1>2, <1>3 DEF p, q

\* More than Cap times within a window, those of a key a cooldown apart,
\* cannot be: Cap has room for every one.
Spaced(n, e, f, key) ==
  /\ \A i \in 1 .. n : e <= f[i] /\ f[i] - e <= Window - 1
  /\ \A i, j \in 1 .. n : i < j /\ key[i] = key[j] => f[j] - f[i] >= Cooldown
LEMMA WindowsFit ==
  ASSUME NEW n \in Nat, NEW e \in Nat,
         NEW f \in [1 .. n -> Nat], NEW key \in [1 .. n -> Keys],
         Spaced(n, e, f, key)
  PROVE  n <= Cap
<1> USE DEF Spaced
<1> DEFINE w == (Window - 1) \div Cooldown
           g == [i \in 1 .. n |-> <<key[i], (f[i] - e) \div Cooldown>>]
           T == Keys \X (0 .. w)
<1>1. Cooldown \in Nat \ {0} /\ Window \in Nat \ {0} /\ Window - 1 \in Nat
  BY SMTT(30), TimesAssumption DEF Window
<1>2. w \in Nat BY <1>1, Quotient
<1>3. \A i \in 1 .. n : f[i] - e \in Nat /\ (f[i] - e) \div Cooldown \in 0 .. w
  <2> TAKE i \in 1 .. n
  <2>1. f[i] \in Nat /\ e <= f[i] /\ f[i] - e <= Window - 1 OBVIOUS
  <2>2. f[i] - e \in Nat BY <2>1
  <2>3. (f[i] - e) \div Cooldown \in Nat BY <1>1, <2>2, Quotient
  <2>4. (f[i] - e) \div Cooldown <= w BY <1>1, <2>1, <2>2, QuotientGrows
  <2> QED BY <1>2, <2>2, <2>3, <2>4
<1>4. g \in [1 .. n -> T] BY <1>3
<1>5. ASSUME NEW i \in 1 .. n, NEW j \in 1 .. n, i < j PROVE g[i] # g[j]
  <2>1. CASE key[i] # key[j] BY <2>1
  <2>2. CASE key[i] = key[j]
    <3>1. f[j] - f[i] >= Cooldown BY <1>5, <2>2
    <3>2. f[i] \in Nat /\ f[j] \in Nat OBVIOUS
    <3>3. (f[j] - e) - (f[i] - e) >= Cooldown BY <1>1, <3>1, <3>2
    <3>4. (f[i] - e) \div Cooldown # (f[j] - e) \div Cooldown
      BY <1>1, <1>3, <3>3, QuotientGrows
    <3> QED BY <3>4
  <2> QED BY <2>1, <2>2
<1>6. g \in Injection(1 .. n, T)
  <2>1. \A i, j \in 1 .. n : g[i] = g[j] => i = j
    <3> SUFFICES ASSUME NEW i \in 1 .. n, NEW j \in 1 .. n, i # j PROVE g[i] # g[j]
      OBVIOUS
    <3>1. i < j \/ j < i OBVIOUS
    <3> HIDE DEF g
    <3> QED BY <1>5, <3>1
  <2> HIDE DEF g
  <2> QED BY <1>4, <2>1 DEF Injection, IsInjective
<1>7. IsFiniteSet(T) /\ Cardinality(T) = Cardinality(Keys) * (w + 1)
  <2>1. IsFiniteSet(0 .. w) /\ Cardinality(0 .. w) = w + 1 BY <1>2, FS_Interval
  <2> QED BY <2>1, KeysAreFinite, FS_Product
<1>8. IsFiniteSet(1 .. n) /\ Cardinality(1 .. n) = n BY FS_Interval
<1>9. Cardinality(1 .. n) <= Cardinality(T)
  <2> HIDE DEF g, T
  <2> QED BY <1>6, <1>7, <1>8, FS_Injection
<1>10. Cap >= Cardinality(Keys) * (w + 1) BY CapAssumption
<1>11. Cardinality(Keys) * (w + 1) \in Nat BY <1>2, KeysAreFinite
<1>12. Cap \in Nat BY TimesAssumption
<1> HIDE DEF w, T
<1> QED BY <1>7, <1>8, <1>9, <1>10, <1>11, <1>12

\* A live head that is quoted is young: it was signalled within the window.
LEMMA QuotedHeadIsYoung ==
  ASSUME IInv, NEW t \in TradeType, NEW i \in DOMAIN trades, t = trades[i], Live(t),
         ~(clock - quoted[t.sym] > Stale)
  PROVE  clock - t.entry <= Window - 1
<1>1. t.sym \in Symbols /\ t.entry \in Nat /\ t.fill \in Nat BY DEF TradeType
<1>2. clock \in Nat /\ quoted[t.sym] \in Nat BY <1>1 DEF IInv, TypeOK
<1>3. /\ t.status = "PENDING" => quoted[t.sym] <= t.entry + Timeout
      /\ t.status = "FILLED" => /\ t.entry <= t.fill /\ t.fill <= t.entry + Timeout
                                /\ quoted[t.sym] < t.fill + MaxHold
  BY DEF IInv, LiveIsYoung
<1>4. Timeout \in Nat /\ MaxHold \in Nat \ {0} /\ Stale \in Nat BY TimesAssumption
<1>5. Live(t) <=> t.status = "PENDING" \/ t.status = "FILLED" BY DEF Live
<1> QED BY <1>1, <1>2, <1>3, <1>4, <1>5 DEF Window

\* A book of the lag venue ends and fills trades, but keeps their keys.
LEMMA UpdatedKey ==
  ASSUME NEW t, NEW b PROVE KeyOf(Updated(t, b)) = KeyOf(t)
BY DEF Updated, Ended, Filled, KeyOf

LEMMA InitDeque == Init => Deque /\ LostOnlyWhenSilent
<1> SUFFICES ASSUME Init PROVE Deque /\ LostOnlyWhenSilent
  OBVIOUS
<1>1. DOMAIN trades = {} BY DEF Init
<1>2. PICK f : f = [i \in DOMAIN trades |-> 0] OBVIOUS
<1>3. f \in [DOMAIN trades -> Nat] BY <1>2
<1>4. SignalTimes(f) BY <1>1 DEF SignalTimes
<1> QED BY <1>3, <1>4 DEF Deque, LostOnlyWhenSilent, Init

\* Steps that leave the deque alone.
LEMMA ClockDeque ==
  ASSUME DInv, UNCHANGED engine, clock' \in Nat, clock <= clock'
  PROVE  Deque' /\ LostOnlyWhenSilent'
<1>1. PICK f \in [DOMAIN trades -> Nat] : SignalTimes(f) BY DEF DInv, Deque
<1>2. trades' = trades /\ cooldowns' = cooldowns /\ lost' = lost BY DEF engine
<1>3. clock \in Nat /\ \A i \in DOMAIN trades : f[i] \in Nat BY DEF DInv, IInv, TypeOK
<1>4. \A i \in DOMAIN trades : f[i] <= clock' BY <1>1, <1>3 DEF SignalTimes
<1>5. SignalTimes(f)' BY <1>1, <1>2, <1>4 DEF SignalTimes, Live
<1> QED BY <1>2, <1>5 DEF Deque, LostOnlyWhenSilent, DInv

LEMMA LagDeque ==
  ASSUME DInv, NEW b \in Books, LagUpdate(b)
  PROVE  Deque' /\ LostOnlyWhenSilent'
<1> USE DEF DInv, IInv
<1>1. PICK f \in [DOMAIN trades -> Nat] : SignalTimes(f) BY DEF Deque
<1>2. clock' = clock /\ cooldowns' = cooldowns /\ lost' = lost BY DEF LagUpdate
<1>3. trades' = [i \in DOMAIN trades |-> Updated(trades[i], b)] BY DEF LagUpdate
<1>4. /\ DOMAIN trades' = DOMAIN trades
      /\ \A i \in DOMAIN trades : trades'[i] = Updated(trades[i], b)
  BY <1>3
<1>5. \A i \in DOMAIN trades : trades[i] \in TradeType BY DEF TypeOK
<1>6. \A i \in DOMAIN trades : KeyOf(trades'[i]) = KeyOf(trades[i])
  BY <1>4, UpdatedKey
<1>7. \A i \in DOMAIN trades : Live(trades'[i]) =>
        Live(trades[i]) /\ trades'[i].entry = trades[i].entry
  BY <1>4, <1>5, UpdatedShape DEF Live
<1>8. SignalTimes(f)' BY <1>1, <1>2, <1>4, <1>6, <1>7 DEF SignalTimes
<1> QED BY <1>2, <1>4, <1>8 DEF Deque, LostOnlyWhenSilent

\* A signal that pushes the head out: the times of the deque and its own are
\* more than Cap, so a live head is out of the window and not quoted.
LEMMA ForgottenIsSilent ==
  ASSUME DInv, NEW m \in Moves, LeadUpdate(m), NEW l \in Forgotten
  PROVE  l.silent
<1> USE DEF DInv, IInv
<1> DEFINE t == Head(trades)
<1>1. /\ trades \in Seq(TradeType) /\ Len(trades) \in Nat /\ Len(trades) <= Cap
      /\ Cap \in Nat \ {0} /\ DOMAIN trades = 1 .. Len(trades) /\ clock \in Nat
      /\ Cooldown \in Nat \ {0}
  BY TimesAssumption DEF TypeOK
<1>2. /\ ~(Len(trades) < Cap) /\ Live(t)
      /\ l.silent = (clock - quoted[t.sym] > Stale)
  <2>1. Len(trades) < Cap \/ ~Live(t) => Forgotten = {} BY DEF Forgotten
  <2>2. ~(Len(trades) < Cap \/ ~Live(t)) BY <2>1
  <2>3. Forgotten = {[trade |-> t, silent |-> clock - quoted[t.sym] > Stale]}
    BY <2>2 DEF Forgotten
  <2> QED BY <2>2, <2>3
<1>3. Len(trades) = Cap /\ 1 \in DOMAIN trades /\ t = trades[1] /\ t \in TradeType
  <2>1. Len(trades) = Cap /\ Len(trades) >= 1
    <3>1. ~(Len(trades) < Cap) BY <1>2
    <3>2. Len(trades) \in Nat /\ Len(trades) <= Cap /\ Cap \in Nat \ {0} BY <1>1
    <3> QED BY ONLY <3>1, <3>2
  <2>2. 1 \in DOMAIN trades BY <1>1, <2>1
  <2>3. Head(trades) = trades[1] BY <1>1, <2>1
  <2>4. trades[1] \in TradeType BY <1>1, <2>2
  <2> QED BY <2>1, <2>2, <2>3, <2>4
<1> SUFFICES ASSUME ~(clock - quoted[t.sym] > Stale) PROVE FALSE
  BY <1>2
<1>4. clock - t.entry <= Window - 1 BY <1>2, <1>3, QuotedHeadIsYoung
<1>5. PICK f \in [DOMAIN trades -> Nat] : SignalTimes(f) BY DEF Deque
<1>6. f[1] = t.entry /\ f[1] \in Nat BY <1>2, <1>3, <1>5 DEF SignalTimes
<1>7. Key(m) \in Keys /\ clock - cooldowns[Key(m)] >= Cooldown
  BY DEF LeadUpdate, CooledDown, Keys
<1>8. \A i \in DOMAIN trades :
        /\ KeyOf(trades[i]) \in Keys /\ cooldowns[KeyOf(trades[i])] \in Nat
        /\ f[i] \in Nat /\ f[i] <= clock /\ f[i] <= cooldowns[KeyOf(trades[i])]
        /\ f[1] <= f[i]
  <2> TAKE i \in DOMAIN trades
  <2>1. /\ KeyOf(trades[i]) \in Keys /\ f[i] <= clock /\ f[i] <= cooldowns[KeyOf(trades[i])]
    BY <1>5 DEF SignalTimes
  <2>2. cooldowns[KeyOf(trades[i])] \in Nat BY <2>1 DEF TypeOK
  <2>3. i = 1 \/ 1 < i BY <1>1
  <2>4. 1 < i => f[1] <= f[i] BY <1>3, <1>5 DEF SignalTimes
  <2>5. f[i] \in Nat OBVIOUS
  <2> QED BY <1>6, <2>1, <2>2, <2>3, <2>4, <2>5
<1>9. PICK g : g = [i \in 1 .. Cap + 1 |-> IF i = Cap + 1 THEN clock ELSE f[i]]
  OBVIOUS
<1>10. PICK key : key = [i \in 1 .. Cap + 1 |->
                           IF i = Cap + 1 THEN Key(m) ELSE KeyOf(trades[i])]
  OBVIOUS
<1>11. \A i \in 1 .. Cap + 1 : i # Cap + 1 => i \in DOMAIN trades
  BY <1>1, <1>3
<1>12. /\ g[Cap + 1] = clock /\ key[Cap + 1] = Key(m)
       /\ \A i \in DOMAIN trades : g[i] = f[i] /\ key[i] = KeyOf(trades[i])
       /\ \A i \in DOMAIN trades : i \in 1 .. Cap + 1 /\ i # Cap + 1
  BY <1>1, <1>3, <1>9, <1>10
<1>13. g \in [1 .. Cap + 1 -> Nat] BY <1>1, <1>8, <1>9, <1>11
<1>14. key \in [1 .. Cap + 1 -> Keys] BY <1>7, <1>8, <1>10, <1>11
<1>15. \A i \in 1 .. Cap + 1 : f[1] <= g[i] /\ g[i] <= clock
  BY SMTT(30), <1>1, <1>3, <1>8, <1>11, <1>12
<1>16. \A i \in 1 .. Cap + 1 : f[1] <= g[i] /\ g[i] - f[1] <= Window - 1
  <2>1. Window \in Nat BY TimesAssumption DEF Window
  <2> TAKE i \in 1 .. Cap + 1
  <2>2. g[i] \in Nat /\ f[1] <= g[i] /\ g[i] <= clock BY <1>13, <1>15
  <2> QED BY <1>1, <1>4, <1>6, <2>1, <2>2
<1>17. ASSUME NEW i \in 1 .. Cap + 1, NEW j \in 1 .. Cap + 1, i < j, key[i] = key[j]
       PROVE  g[j] - g[i] >= Cooldown
  <2>1. i \in DOMAIN trades BY <1>1, <1>11, <1>17
  <2>2. CASE j = Cap + 1
    <3>1. KeyOf(trades[i]) = Key(m) /\ g[j] = clock /\ g[i] = f[i]
      BY <1>12, <1>17, <2>1, <2>2
    <3>2. f[i] <= cooldowns[Key(m)] /\ f[i] \in Nat /\ cooldowns[Key(m)] \in Nat
      BY <1>8, <2>1, <3>1
    <3> QED BY <1>1, <1>7, <3>1, <3>2
  <2>3. CASE j # Cap + 1
    <3>1. j \in DOMAIN trades BY <1>11, <2>3
    <3>2. KeyOf(trades[i]) = KeyOf(trades[j]) BY <1>12, <1>17, <2>1, <3>1
    <3>3. f[j] - f[i] >= Cooldown BY <1>5, <1>17, <2>1, <3>1, <3>2 DEF SignalTimes
    <3> QED BY <1>12, <2>1, <3>1, <3>3
  <2> QED BY <2>2, <2>3
<1>18. Spaced(Cap + 1, f[1], g, key)
  BY <1>16, <1>17 DEF Spaced
<1>19. Cap + 1 <= Cap
  <2>1. PICK N \in Nat : N = Cap + 1 BY <1>1
  <2>2. PICK e \in Nat : e = f[1] BY <1>6
  <2>3. g \in [1 .. N -> Nat] /\ key \in [1 .. N -> Keys] /\ Spaced(N, e, g, key)
    BY <1>13, <1>14, <1>18, <2>1, <2>2
  <2>4. N <= Cap BY <2>3, WindowsFit
  <2> QED BY <2>1, <2>4
<1> QED BY <1>1, <1>19

LEMMA LeadDeque ==
  ASSUME DInv, NEW m \in Moves, LeadUpdate(m)
  PROVE  Deque' /\ LostOnlyWhenSilent'
<1> USE DEF DInv, IInv
<1>1. LostOnlyWhenSilent'
  <2>1. lost' = lost \union Forgotten BY DEF LeadUpdate
  <2> QED BY <2>1, ForgottenIsSilent DEF LostOnlyWhenSilent
<1>2. PICK f \in [DOMAIN trades -> Nat] : SignalTimes(f) BY DEF Deque
<1>3. PICK n \in TradeType : /\ trades' = Pushed(n) /\ n.entry = clock
                             /\ KeyOf(n) = Key(m) /\ Live(n)
  <2> DEFINE lag == books[m.sym]
             price == IF Side(m) = "BUY" THEN lag.bid ELSE lag.ask
             t == Trade(m.sym, Side(m), price, clock)
  <2>1. m.sym \in Symbols /\ Side(m) \in Sides
    BY MovesAssumption DEF LeadUpdate, Side, Sides
  <2>2. price \in Nat /\ clock \in Nat BY <2>1 DEF TypeOK
  <2>3. t \in TradeType /\ t.entry = clock /\ KeyOf(t) = Key(m) /\ Live(t)
    BY <2>1, <2>2 DEF Trade, TradeType, KeyOf, Key, Live
  <2>4. trades' = Pushed(t) BY DEF LeadUpdate
  <2> QED BY <2>3, <2>4
<1>4. /\ clock' = clock /\ clock \in Nat /\ Cooldown \in Nat \ {0}
      /\ cooldowns' = [cooldowns EXCEPT ![Key(m)] = clock]
      /\ cooldowns \in [Keys -> Nat]
  BY TimesAssumption DEF LeadUpdate, TypeOK
<1>5. Key(m) \in Keys /\ clock - cooldowns[Key(m)] >= Cooldown
  BY DEF LeadUpdate, CooledDown, Keys
<1>6. \A k \in Keys : cooldowns[k] <= clock /\ cooldowns[k] \in Nat
  BY <1>4 DEF Stamps
<1>7. \A k \in Keys : /\ cooldowns'[k] \in Nat /\ cooldowns[k] <= cooldowns'[k]
                      /\ k = Key(m) => cooldowns'[k] = clock
  BY <1>4, <1>6
<1>8. /\ trades' \in Seq(TradeType) /\ Len(trades') \in Nat /\ Len(trades') >= 1
      /\ trades'[Len(trades')] = n /\ DOMAIN trades' = 1 .. Len(trades')
      /\ \E d \in {0, 1} : \A i \in 1 .. Len(trades') - 1 :
            i + d \in DOMAIN trades /\ trades'[i] = trades[i + d]
  <2>1. /\ Pushed(n) \in Seq(TradeType) /\ Len(Pushed(n)) >= 1
        /\ Pushed(n)[Len(Pushed(n))] = n
        /\ \E d \in {0, 1} : \A i \in 1 .. Len(Pushed(n)) - 1 :
              i + d \in DOMAIN trades /\ Pushed(n)[i] = trades[i + d]
    BY PushedShape
  <2>2. Len(Pushed(n)) \in Nat /\ DOMAIN Pushed(n) = 1 .. Len(Pushed(n)) BY <2>1
  <2> QED BY <1>3, <2>1, <2>2
<1> DEFINE last == Len(trades')
<1>9. PICK d \in {0, 1} : \A i \in 1 .. last - 1 :
            i + d \in DOMAIN trades /\ trades'[i] = trades[i + d]
  BY <1>8
<1>10. PICK g : g = [i \in 1 .. last |-> IF i = last THEN clock ELSE f[i + d]]
  OBVIOUS
<1>11. /\ g[last] = clock
       /\ \A i \in 1 .. last - 1 : g[i] = f[i + d]
  <2>1. last \in Nat /\ last >= 1 BY <1>8
  <2>2. last \in 1 .. last /\ \A i \in 1 .. last - 1 : i \in 1 .. last /\ i # last
    BY <2>1
  <2> HIDE DEF last
  <2> QED BY <1>10, <2>2
<1>12. \A i \in DOMAIN trades' : i = last \/ i \in 1 .. last - 1
  BY <1>8
<1>13. \A i \in DOMAIN trades : f[i] \in Nat /\ f[i] <= clock
  BY <1>2 DEF SignalTimes
<1>14. g \in [DOMAIN trades' -> Nat]
  BY <1>4, <1>8, <1>9, <1>10, <1>12, <1>13
<1>15. ASSUME NEW i \in DOMAIN trades'
       PROVE  /\ KeyOf(trades'[i]) \in Keys
              /\ g[i] <= clock' /\ g[i] <= cooldowns'[KeyOf(trades'[i])]
              /\ Live(trades'[i]) => g[i] = trades'[i].entry
  <2>1. CASE i = last
    BY <1>3, <1>4, <1>5, <1>7, <1>8, <1>11, <2>1
  <2>2. CASE i \in 1 .. last - 1
    <3>1. i + d \in DOMAIN trades /\ trades'[i] = trades[i + d] /\ g[i] = f[i + d]
      BY <1>9, <1>11, <2>2
    <3>2. /\ KeyOf(trades[i + d]) \in Keys /\ f[i + d] <= cooldowns[KeyOf(trades[i + d])]
          /\ Live(trades[i + d]) => f[i + d] = trades[i + d].entry
      BY <1>2, <3>1 DEF SignalTimes
    <3>3. PICK k \in Keys : k = KeyOf(trades[i + d]) BY <3>2
    <3>4. /\ cooldowns[k] <= cooldowns'[k]
          /\ cooldowns[k] \in Nat /\ cooldowns'[k] \in Nat
      BY <1>6, <1>7
    <3>5. f[i + d] \in Nat /\ f[i + d] <= clock BY <1>13, <3>1
    <3> QED BY <1>4, <3>1, <3>2, <3>3, <3>4, <3>5
  <2> QED BY <1>12, <2>1, <2>2
<1>16. ASSUME NEW i \in DOMAIN trades', NEW j \in DOMAIN trades', i < j
       PROVE  /\ g[i] <= g[j]
              /\ KeyOf(trades'[i]) = KeyOf(trades'[j]) => g[j] - g[i] >= Cooldown
  <2>1. i \in 1 .. last - 1 BY <1>8, <1>16
  <2>2. i + d \in DOMAIN trades /\ trades'[i] = trades[i + d] /\ g[i] = f[i + d]
    BY <1>9, <1>11, <2>1
  <2>3. CASE j = last
    <3>1. f[i + d] \in Nat /\ f[i + d] <= clock BY <1>13, <2>2
    <3>2. KeyOf(trades[i + d]) = Key(m) => f[i + d] <= cooldowns[Key(m)]
      BY <1>2, <2>2 DEF SignalTimes
    <3>3. cooldowns[Key(m)] \in Nat BY <1>5, <1>6
    <3> QED BY <1>3, <1>4, <1>5, <1>8, <1>11, <2>2, <2>3, <3>1, <3>2, <3>3
  <2>4. CASE j \in 1 .. last - 1
    <3>1. j + d \in DOMAIN trades /\ trades'[j] = trades[j + d] /\ g[j] = f[j + d]
      BY <1>9, <1>11, <2>4
    <3>2. i + d < j + d BY <1>8, <1>16, <2>1, <2>4
    <3> QED BY <1>2, <2>2, <3>1, <3>2 DEF SignalTimes
  <2> QED BY <1>12, <2>3, <2>4
<1>17. SignalTimes(g)' BY <1>15, <1>16 DEF SignalTimes
<1> QED BY <1>1, <1>14, <1>17 DEF Deque

LEMMA StepDInv == DInv /\ [Next]_vars => DInv'
<1> SUFFICES ASSUME DInv, [Next]_vars PROVE DInv'
  OBVIOUS
<1>1. IInv' BY StepIInv DEF DInv
<1>2. clock \in Nat BY DEF DInv, IInv, TypeOK
<1>3. Deque' /\ LostOnlyWhenSilent'
  <2>1. ASSUME NEW v \in Venues, Connect(v) \/ Disconnect(v)
        PROVE  Deque' /\ LostOnlyWhenSilent'
    BY <1>2, <2>1, ClockDeque DEF Connect, Disconnect
  <2>2. CASE Shutdown
    BY <1>2, <2>2, ClockDeque DEF Shutdown
  <2>3. ASSUME NEW b \in Books, LagUpdate(b) PROVE Deque' /\ LostOnlyWhenSilent'
    BY <2>3, LagDeque
  <2>4. ASSUME NEW m \in Moves, LeadUpdate(m) PROVE Deque' /\ LostOnlyWhenSilent'
    BY <2>4, LeadDeque
  <2>5. CASE Tick
    BY <1>2, <2>5, ClockDeque DEF Tick
  <2>6. CASE UNCHANGED vars
    BY <1>2, <2>6, ClockDeque DEF vars
  <2> QED BY <2>1, <2>2, <2>3, <2>4, <2>5, <2>6 DEF Next
<1> QED BY <1>1, <1>3 DEF DInv

\* The deque is long enough: what it forgets while pending or filled, the lag
\* venue has stopped quoting.
THEOREM DequeForgetsOnlyTheSilent == Spec => []LostOnlyWhenSilent
<1>1. Init => DInv BY InitIInv, InitDeque DEF DInv
<1>2. DInv /\ [Next]_vars => DInv' BY StepDInv
<1>3. DInv => LostOnlyWhenSilent BY DEF DInv
<1> QED BY <1>1, <1>2, <1>3, PTL DEF Spec
=============================================================================
