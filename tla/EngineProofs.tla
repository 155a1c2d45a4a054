---------------------------- MODULE EngineProofs ----------------------------
(***************************************************************************)
(* Machine-checked proofs about the emulator and the engine's two tasks,   *)
(* for every value of the constants.                                       *)
(*                                                                         *)
(* The emulator's inductive invariant is                                   *)
(*     TypeOK /\ JournalMatchesTable /\ StampsCoverJournal                 *)
(* The last conjunct is what makes two time stamps per key as good as the  *)
(* whole history of the key: no journal record is newer than its stamp.    *)
(***************************************************************************)
EXTENDS Scanner, FiniteSetTheorems, TLAPS

(* Every record is dated in the past, and the stamps of its key are not    *)
(* older than its entry and, for a losing exit, its exit.                  *)
StampsCoverJournal ==
  /\ \A k \in Keys : last_open[k] <= now /\ last_loss[k] <= now
  /\ \A t \in Trades \ Fresh :
       /\ journal[t].openTs <= now /\ journal[t].closeTs <= now
       /\ journal[t].openTs <= last_open[journal[t].key]
       /\ Loser(t) => journal[t].closeTs <= last_loss[journal[t].key]

IInv == TypeOK /\ JournalMatchesTable /\ StampsCoverJournal

(* What any entry does to the journal and the stamps.                      *)
EntryStep(t, key, status, at) ==
  /\ t \in Fresh /\ key \in Keys /\ at \in Nat /\ at <= now
  /\ ~CooldownActive(key, at)
  /\ journal' = [journal EXCEPT ![t] = Record(key, status, at)]
  /\ last_open' = [last_open EXCEPT ![key] = at]
  /\ UNCHANGED <<now, last_loss>>

(* What any exit does to them.                                             *)
ExitStep(t, win) ==
  /\ t \in Open
  /\ journal' = [journal EXCEPT ![t].status = "closed", ![t].closeTs = now, ![t].win = win]
  /\ last_loss' = IF win THEN last_loss
                  ELSE [last_loss EXCEPT ![KeyOf(open_positions[t])] = now]
  /\ UNCHANGED <<now, last_open>>

-----------------------------------------------------------------------------
LEMMA PairKeyParts ==
  ASSUME NEW k \in PairKeys
  PROVE  /\ k[1] \in Symbols /\ k[2] \in Exchanges /\ k[3] \in Exchanges
         /\ k = <<k[1], k[2], k[3]>> /\ k[2] # k[3] /\ k \in Keys
BY DEF PairKeys, Keys

LEMMA DirKeyParts ==
  ASSUME NEW k \in DirKeys
  PROVE  /\ k[1] \in Symbols /\ k[2] \in Exchanges /\ k[3] \in Sides
         /\ k = <<k[1], k[2], k[3]>> /\ k \in Keys
BY DEF DirKeys, Keys

LEMMA CountType ==
  ASSUME TypeOK, NEW s \in StatKeys
  PROVE  /\ CountOpened(s) \in [StatKeys -> Counters]
         /\ CountOrphan(s) \in [StatKeys -> Counters]
<1>1. stats \in [StatKeys -> Counters] /\ stats[s] \in Counters
  BY DEF TypeOK
<1>2. /\ [stats[s] EXCEPT !.opened = @ + 1] \in Counters
      /\ [stats[s] EXCEPT !.orphan_aborts = @ + 1] \in Counters
  BY <1>1 DEF Counters
<1>3. CountOpened(s) = [stats EXCEPT ![s] = [stats[s] EXCEPT !.opened = @ + 1]]
  BY <1>1 DEF CountOpened
<1>4. CountOrphan(s) = [stats EXCEPT ![s] = [stats[s] EXCEPT !.orphan_aborts = @ + 1]]
  BY <1>1 DEF CountOrphan
<1>5. QED
  BY <1>1, <1>2, <1>3, <1>4

LEMMA SettleType ==
  ASSUME NEW c \in Counters, NEW win \in BOOLEAN
  PROVE  /\ Settle(c, win) \in Counters
         /\ Settle(c, win).opened = c.opened
         /\ Settle(c, win).closed = c.closed + 1
<1> DEFINE m == c.closed + 1  w == c.wins + 1  l == c.losses + 1
<1>1. m \in Nat /\ w \in Nat /\ l \in Nat
  BY DEF Counters
<1>2. Settle(c, win) = IF win THEN [c EXCEPT !.closed = m, !.wins = w]
                              ELSE [c EXCEPT !.closed = m, !.losses = l]
  BY DEF Settle
<1> HIDE DEF m, w, l
<1>3. /\ [c EXCEPT !.closed = m, !.wins = w] \in Counters
      /\ [c EXCEPT !.closed = m, !.wins = w].opened = c.opened
      /\ [c EXCEPT !.closed = m, !.wins = w].closed = m
  BY <1>1 DEF Counters
<1>4. /\ [c EXCEPT !.closed = m, !.losses = l] \in Counters
      /\ [c EXCEPT !.closed = m, !.losses = l].opened = c.opened
      /\ [c EXCEPT !.closed = m, !.losses = l].closed = m
  BY <1>1 DEF Counters
<1>5. Settle(c, win) \in Counters /\ Settle(c, win).opened = c.opened /\ Settle(c, win).closed = m
  BY <1>2, <1>3, <1>4
<1>6. QED
  BY <1>5 DEF m

LEMMA CountCloseType ==
  ASSUME TypeOK, NEW p, NEW win \in BOOLEAN
  PROVE  CountClose(p, win) \in [StatKeys -> Counters]
<1>1. \A k \in StatKeys : stats[k] \in Counters
  BY DEF TypeOK
<1>2. \A k \in StatKeys : Settle(stats[k], win) \in Counters
  BY <1>1, SettleType
<1>3. QED
  BY <1>1, <1>2 DEF CountClose

(* appendleft keeps a sequence of trades.                                  *)
LEMMA RememberType ==
  ASSUME TypeOK, NEW t \in Trades
  PROVE  Remember(t) \in Seq(Trades)
<1>1. /\ closed_trades \in Seq(Trades) /\ <<t>> \in Seq(Trades)
      /\ Len(closed_trades) \in Nat /\ Len(<<t>>) = 1
  BY DEF TypeOK
<1> DEFINE s == <<t>> \o closed_trades
           n == IF Len(closed_trades) < HistoryLimit THEN Len(closed_trades) + 1
                ELSE HistoryLimit
<1>2. s \in Seq(Trades) /\ Len(s) = Len(closed_trades) + 1
  BY <1>1
<1>3. n \in Nat /\ n <= Len(s)
  BY <1>1, <1>2, EmulatorAssumption
<1>4. \A i \in 1 .. n : s[i] \in Trades
  BY <1>2, <1>3
<1> HIDE DEF s, n
<1>5. SubSeq(s, 1, n) \in Seq(Trades)
  BY <1>2, <1>3, <1>4
<1>6. QED
  BY <1>5 DEF Remember, s, n

-----------------------------------------------------------------------------
LEMMA RecordType ==
  ASSUME NEW key \in Keys, NEW status \in {"open", "orphan_aborted"}, NEW at \in Nat
  PROVE  Record(key, status, at) \in JournalRecord
BY DEF Record, JournalRecord

LEMMA PositionKey ==
  ASSUME TypeOK, JournalMatchesTable, NEW t \in Open
  PROVE  /\ open_positions[t] \in Position
         /\ journal[t] \in JournalRecord /\ journal[t].status = "open"
         /\ KeyOf(open_positions[t]) = journal[t].key
         /\ KeyOf(open_positions[t]) \in Keys
BY DEF TypeOK, JournalMatchesTable, Open, JournalRecord

(* The two ways to enter and the two ways to exit keep types and journal.  *)
LEMMA AdmitStep ==
  ASSUME TypeOK, JournalMatchesTable, NEW t \in Fresh, NEW p \in Position,
         KeyOf(p) \in Keys, Admit(t, p)
  PROVE  TypeOK' /\ JournalMatchesTable'
<1>1. p.strategy \in StatKeys /\ p.open_ts \in Nat
  BY EmulatorAssumption DEF Position, StatKeys
<1>2. Record(KeyOf(p), "open", p.open_ts) \in JournalRecord
  BY <1>1, RecordType
<1>3. TypeOK'
  <2>1. stats' \in [StatKeys -> Counters]
    BY <1>1, CountType DEF Admit
  <2>2. last_open' \in [Keys -> Nat \cup {Never}]
    BY <1>1 DEF Admit, TypeOK
  <2>3. QED
    BY <1>2, <2>1, <2>2 DEF Admit, TypeOK
<1>4. JournalMatchesTable'
  <2> SUFFICES ASSUME NEW u \in Trades
               PROVE  IF open_positions'[u] # None
                      THEN /\ journal'[u] # None /\ journal'[u].status = "open"
                           /\ journal'[u].key = KeyOf(open_positions'[u])
                           /\ journal'[u].openTs = open_positions'[u].open_ts
                      ELSE journal'[u] = None \/ journal'[u].status # "open"
    BY DEF JournalMatchesTable, Open, Fresh
  <2>1. CASE u = t
    <3>1. journal'[t] = Record(KeyOf(p), "open", p.open_ts) /\ open_positions'[t] = p
      BY DEF Admit, TypeOK, Fresh
    <3>2. journal'[t] # None
      BY <1>2, <3>1, NoneAssumption
    <3>3. QED
      BY <2>1, <3>1, <3>2, NoneAssumption DEF Record
  <2>2. CASE u # t
    <3>1. journal'[u] = journal[u] /\ open_positions'[u] = open_positions[u]
      BY <2>2 DEF Admit, TypeOK
    <3>2. QED
      BY <3>1 DEF JournalMatchesTable, Open, Fresh
  <2>3. QED
    BY <2>1, <2>2
<1>5. QED
  BY <1>3, <1>4

LEMMA AbortStep ==
  ASSUME TypeOK, JournalMatchesTable, NEW t \in Fresh, NEW s \in PairStrategies,
         NEW key \in Keys, AbortOrphan(t, s, key)
  PROVE  TypeOK' /\ JournalMatchesTable'
<1>1. s \in StatKeys /\ now \in Nat
  BY EmulatorAssumption DEF StatKeys, TypeOK
<1>2. Record(key, "orphan_aborted", now) \in JournalRecord
  BY <1>1, RecordType
<1>3. TypeOK'
  <2>1. stats' \in [StatKeys -> Counters]
    BY <1>1, CountType DEF AbortOrphan
  <2>2. QED
    BY <1>1, <1>2, <2>1 DEF AbortOrphan, TypeOK
<1>4. open_positions[t] = None
  BY DEF JournalMatchesTable, Open, Fresh
<1>5. JournalMatchesTable'
  BY <1>2, <1>4, NoneAssumption
     DEF AbortOrphan, JournalMatchesTable, Open, Fresh, TypeOK, Record
<1>6. QED
  BY <1>3, <1>5

LEMMA CloseStep ==
  ASSUME TypeOK, JournalMatchesTable, NEW t \in Open, NEW win \in BOOLEAN,
         Close(t, win, KeyOf(open_positions[t]))
  PROVE  TypeOK' /\ JournalMatchesTable' /\ ExitStep(t, win)
<1>1. /\ t \in Trades /\ now \in Nat
      /\ journal[t] \in JournalRecord /\ KeyOf(open_positions[t]) \in Keys
  BY PositionKey DEF Open, TypeOK
<1> DEFINE r == [journal[t] EXCEPT !.status = "closed", !.closeTs = now, !.win = win]
<1>2. r \in JournalRecord /\ r.status = "closed"
  BY <1>1 DEF JournalRecord
<1>3. journal' = [journal EXCEPT ![t] = r]
  BY <1>1 DEF Close, TypeOK
<1>4. open_positions' = [open_positions EXCEPT ![t] = None]
  BY DEF Close
<1> HIDE DEF r
<1>5. stats' \in [StatKeys -> Counters]
  BY CountCloseType DEF Close
<1>6. closed_trades' \in Seq(Trades)
  BY <1>1, RememberType DEF Close
<1>7. last_loss' \in [Keys -> Nat \cup {Never}]
  BY <1>1 DEF Close, TypeOK
<1>8. TypeOK'
  BY <1>2, <1>3, <1>4, <1>5, <1>6, <1>7 DEF Close, TypeOK
<1>9. JournalMatchesTable'
  BY <1>1, <1>2, <1>3, <1>4 DEF JournalMatchesTable, Open, Fresh, TypeOK
<1>10. ExitStep(t, win)
  BY DEF Close, ExitStep
<1>11. QED
  BY <1>8, <1>9, <1>10

(* Every step is a stutter, a tick, an entry or an exit.                   *)
LEMMA StepShapes ==
  ASSUME TypeOK, JournalMatchesTable, [Next]_vars
  PROVE  /\ TypeOK' /\ JournalMatchesTable'
         /\ \/ UNCHANGED <<now, last_open, last_loss, journal>>
            \/ now' = now + 1 /\ UNCHANGED <<last_open, last_loss, journal>>
            \/ \E t \in Trades, key \in Keys, at \in 0 .. now :
                  \/ EntryStep(t, key, "open", at)
                  \/ EntryStep(t, key, "orphan_aborted", at) /\ key \in PairKeys
            \/ \E t \in Trades, win \in BOOLEAN : ExitStep(t, win)
<1>1. CASE UNCHANGED vars
  BY <1>1 DEF vars, TypeOK, JournalMatchesTable, Open, Fresh
<1>2. CASE Tick
  BY <1>2 DEF Tick, TypeOK, JournalMatchesTable, Open, Fresh
<1>3. ASSUME NEW s \in PairStrategies, NEW k \in PairKeys, NEW z4 \in BOOLEAN,
             NEW lf \in BOOLEAN, NEW sf \in BOOLEAN, TryOpen(s, k, z4, lf, sf)
      PROVE  /\ TypeOK' /\ JournalMatchesTable'
             /\ \E t \in Trades, at \in 0 .. now :
                  \/ EntryStep(t, k, "open", at)
                  \/ EntryStep(t, k, "orphan_aborted", at)
  <2>1. now \in Nat /\ now \in 0 .. now /\ k \in Keys
    BY PairKeyParts DEF TypeOK
  <2> DEFINE p == [strategy |-> s, symbol |-> k[1], exch_long |-> k[2], exch_short |-> k[3],
                   side |-> "long", open_ts |-> now, z4 |-> z4]
  <2>2. p \in Position /\ p.open_ts = now
    BY <2>1, PairKeyParts DEF Position, Sides
  <2>3. KeyOf(p) = k
    <3>1. p.strategy # "dir" /\ p.symbol = k[1] /\ p.exch_long = k[2] /\ p.exch_short = k[3]
      BY EmulatorAssumption
    <3>2. QED
      BY <3>1, PairKeyParts DEF KeyOf, Triple
  <2>4. PICK t \in Fresh : AbortOrphan(t, s, k) \/ Admit(t, p)
    BY <1>3 DEF TryOpen
  <2>5. ~CooldownActive(k, now) /\ t \in Trades
    BY <1>3 DEF TryOpen, Fresh
  <2> HIDE DEF p
  <2>6. CASE AbortOrphan(t, s, k)
    <3>1. TypeOK' /\ JournalMatchesTable'
      BY <2>1, <2>6, AbortStep
    <3>2. EntryStep(t, k, "orphan_aborted", now)
      BY <2>1, <2>5, <2>6 DEF AbortOrphan, EntryStep
    <3>3. QED
      BY <2>1, <2>5, <3>1, <3>2
  <2>7. CASE Admit(t, p)
    <3>1. TypeOK' /\ JournalMatchesTable'
      BY <2>1, <2>2, <2>3, <2>7, AdmitStep
    <3>2. EntryStep(t, k, "open", now)
      BY <2>1, <2>2, <2>3, <2>5, <2>7 DEF Admit, EntryStep
    <3>3. QED
      BY <2>1, <2>5, <3>1, <3>2
  <2>8. QED
    BY <2>4, <2>6, <2>7
<1>4. ASSUME NEW k \in DirKeys, NEW at \in 0 .. now, TryOpenDir(k[1], k[2], k[3], at)
      PROVE  /\ TypeOK' /\ JournalMatchesTable'
             /\ \E t \in Trades : EntryStep(t, k, "open", at)
  <2>1. now \in Nat /\ at \in Nat /\ at <= now /\ k \in Keys
    BY DirKeyParts DEF TypeOK
  <2> DEFINE p == [strategy |-> "dir", symbol |-> k[1], exch_long |-> k[2], exch_short |-> k[2],
                   side |-> k[3], open_ts |-> at, z4 |-> FALSE]
  <2>2. p \in Position /\ p.open_ts = at
    BY <2>1, DirKeyParts DEF Position, Sides
  <2>3. KeyOf(p) = k
    BY DirKeyParts DEF KeyOf
  <2>4. PICK t \in Fresh : Admit(t, p)
    BY <1>4 DEF TryOpenDir
  <2>5. ~CooldownActive(k, at) /\ t \in Trades
    BY <1>4, DirKeyParts DEF TryOpenDir, Fresh
  <2> HIDE DEF p
  <2>6. QED
    BY <2>1, <2>2, <2>3, <2>4, <2>5, AdmitStep DEF Admit, EntryStep
<1>5. ASSUME NEW t \in Trades, NEW win \in BOOLEAN,
             TryClose(t, win) \/ TryCloseDir(t, win)
      PROVE  TypeOK' /\ JournalMatchesTable' /\ ExitStep(t, win)
  <2>1. t \in Open /\ Close(t, win, KeyOf(open_positions[t]))
    BY <1>5 DEF TryClose, TryCloseDir, KeyOf
  <2>2. QED
    BY <2>1, CloseStep
<1>6. PairKeys \subseteq Keys /\ DirKeys \subseteq Keys
  BY DEF Keys
<1>7. QED
  BY <1>1, <1>2, <1>3, <1>4, <1>5, <1>6 DEF Next, Tick, vars

-----------------------------------------------------------------------------
LEMMA InitIInv == Init => IInv
<1> SUFFICES ASSUME Init PROVE IInv
  OBVIOUS
<1>1. TypeOK
  BY DEF Init, TypeOK, Counters
<1>2. JournalMatchesTable /\ StampsCoverJournal
  BY <1>1 DEF Init, JournalMatchesTable, StampsCoverJournal, Open, Fresh, Never
<1>3. QED
  BY <1>1, <1>2 DEF IInv

LEMMA EntryKeepsStamps ==
  ASSUME IInv, NEW t \in Trades, NEW key \in Keys, NEW status \in {"open", "orphan_aborted"},
         NEW at \in Nat, EntryStep(t, key, status, at), TypeOK'
  PROVE  StampsCoverJournal'
<1>1. journal' = [journal EXCEPT ![t] = Record(key, status, at)] /\ t \in Fresh
  BY DEF EntryStep
<1>2. \A k \in Keys : last_open'[k] = IF k = key THEN at ELSE last_open[k]
  BY DEF EntryStep, IInv, TypeOK
<1>3. last_open[key] <= at
  <2>1. last_open[key] = Never \/ at - last_open[key] >= CooldownSec
    BY EmulatorAssumption DEF EntryStep, CooldownActive, WithinWindow, IInv, TypeOK, Never
  <2>2. QED
    BY <2>1, EmulatorAssumption DEF IInv, TypeOK, Never
<1>4. \A k \in Keys : last_open'[k] <= now' /\ last_loss'[k] <= now'
  BY <1>2 DEF EntryStep, IInv, StampsCoverJournal
<1>5. ASSUME NEW u \in Trades \ Fresh'
      PROVE  /\ journal'[u].openTs <= now' /\ journal'[u].closeTs <= now'
             /\ journal'[u].openTs <= last_open'[journal'[u].key]
             /\ Loser(u)' => journal'[u].closeTs <= last_loss'[journal'[u].key]
  <2>1. CASE u = t
    <3>1. journal'[u] = Record(key, status, at)
      BY <1>1, <2>1 DEF IInv, TypeOK
    <3>2. /\ journal'[u].openTs = at /\ journal'[u].closeTs = 0 /\ journal'[u].key = key
          /\ journal'[u].status = status
      BY <3>1 DEF Record
    <3>3. now' \in Nat /\ now' = now
      BY DEF EntryStep, IInv, TypeOK
    <3>4. QED
      BY <1>2, <3>2, <3>3 DEF EntryStep, Loser
  <2>2. CASE u # t
    <3>1. journal'[u] = journal[u] /\ u \in Trades \ Fresh
      BY <1>1, <1>5, <2>2 DEF IInv, TypeOK, Fresh
    <3>2. journal[u].key \in Keys /\ journal[u].openTs \in Nat
      BY <3>1 DEF IInv, TypeOK, Fresh, JournalRecord
    <3>3. last_open[journal[u].key] <= last_open'[journal[u].key]
      <4>1. \A k \in Keys : last_open[k] \in Int
        BY DEF IInv, TypeOK, Never
      <4>2. \A k \in Keys : last_open[k] <= last_open'[k]
        BY <1>2, <1>3, <4>1
      <4>3. QED
        BY <3>2, <4>2
    <3>4. journal[u].openTs <= last_open'[journal[u].key]
      <4>1. journal[u].openTs <= last_open[journal[u].key]
        BY <3>1 DEF IInv, StampsCoverJournal
      <4>2. /\ last_open[journal[u].key] \in Int
            /\ last_open'[journal[u].key] \in Int
        BY <3>2 DEF IInv, TypeOK, Never
      <4>3. QED
        BY <3>2, <3>3, <4>1, <4>2
    <3>5. QED
      BY <3>1, <3>4 DEF EntryStep, IInv, StampsCoverJournal, Loser, Fresh
  <2>3. QED
    BY <2>1, <2>2
<1>6. QED
  BY <1>4, <1>5 DEF StampsCoverJournal

LEMMA ExitKeepsStamps ==
  ASSUME IInv, NEW t \in Trades, NEW win \in BOOLEAN, ExitStep(t, win)
  PROVE  StampsCoverJournal'
<1>1. /\ journal[t] \in JournalRecord /\ journal[t] # None /\ now \in Nat
      /\ KeyOf(open_positions[t]) = journal[t].key
  BY PositionKey, NoneAssumption DEF ExitStep, IInv, TypeOK
<1> DEFINE r == [journal[t] EXCEPT !.status = "closed", !.closeTs = now, !.win = win]
<1>2. journal' = [journal EXCEPT ![t] = r]
  BY DEF ExitStep, IInv, TypeOK
<1>3. /\ r.openTs = journal[t].openTs /\ r.closeTs = now /\ r.key = journal[t].key
      /\ r.win = win /\ r.openTs \in Nat
  BY <1>1 DEF JournalRecord
<1> HIDE DEF r
<1>4. /\ \A k \in Keys : last_loss'[k] = IF ~win /\ k = journal[t].key THEN now ELSE last_loss[k]
      /\ now' = now /\ last_open' = last_open
  BY <1>1 DEF ExitStep, IInv, TypeOK
<1>5. \A k \in Keys : last_open'[k] <= now' /\ last_loss'[k] <= now'
  BY <1>1, <1>4 DEF IInv, StampsCoverJournal
<1>6. ASSUME NEW u \in Trades \ Fresh'
      PROVE  /\ journal'[u].openTs <= now' /\ journal'[u].closeTs <= now'
             /\ journal'[u].openTs <= last_open'[journal'[u].key]
             /\ Loser(u)' => journal'[u].closeTs <= last_loss'[journal'[u].key]
  <2>1. CASE u = t
    <3>1. journal'[u] = r /\ t \in Trades \ Fresh /\ journal[t].key \in Keys
      BY <1>1, <1>2, <2>1 DEF IInv, TypeOK, Fresh, JournalRecord
    <3>2. QED
      BY <1>1, <1>3, <1>4, <3>1 DEF IInv, StampsCoverJournal, Loser
  <2>2. CASE u # t
    <3>1. journal'[u] = journal[u] /\ u \in Trades \ Fresh
      BY <1>2, <1>6, <2>2 DEF IInv, TypeOK, Fresh
    <3>2. journal[u].key \in Keys /\ journal[u].closeTs \in Nat
      BY <3>1 DEF IInv, TypeOK, Fresh, JournalRecord
    <3>3. Loser(u)' => Loser(u)
      BY <3>1 DEF Loser, Fresh
    <3>4. QED
      BY <1>1, <1>4, <3>1, <3>2, <3>3 DEF IInv, StampsCoverJournal
  <2>3. QED
    BY <2>1, <2>2
<1>7. QED
  BY <1>5, <1>6 DEF StampsCoverJournal

LEMMA NextIInv == IInv /\ [Next]_vars => IInv'
<1> SUFFICES ASSUME IInv, [Next]_vars PROVE IInv'
  OBVIOUS
<1>1. TypeOK' /\ JournalMatchesTable'
  BY StepShapes DEF IInv
<1>2. CASE UNCHANGED <<now, last_open, last_loss, journal>>
  BY <1>1, <1>2 DEF IInv, StampsCoverJournal, Loser, Fresh
<1>3. CASE now' = now + 1 /\ UNCHANGED <<last_open, last_loss, journal>>
  <2>1. \A x \in Int : x <= now => x <= now'
    BY <1>3 DEF IInv, TypeOK
  <2>2. \A u \in Trades \ Fresh : journal[u].openTs \in Nat /\ journal[u].closeTs \in Nat
    BY DEF IInv, TypeOK, Fresh, JournalRecord
  <2>3. \A k \in Keys : last_open[k] \in Int /\ last_loss[k] \in Int
    BY DEF IInv, TypeOK, Never
  <2>4. StampsCoverJournal'
    BY <1>3, <2>1, <2>2, <2>3 DEF IInv, StampsCoverJournal, Loser, Fresh
  <2>5. QED
    BY <1>1, <2>4 DEF IInv
<1>4. ASSUME NEW t \in Trades, NEW key \in Keys, NEW at \in 0 .. now,
             EntryStep(t, key, "open", at) \/ EntryStep(t, key, "orphan_aborted", at)
      PROVE  IInv'
  <2>1. at \in Nat
    BY DEF IInv, TypeOK
  <2>2. QED
    BY <1>1, <1>4, <2>1, EntryKeepsStamps DEF IInv
<1>5. ASSUME NEW t \in Trades, NEW win \in BOOLEAN, ExitStep(t, win)
      PROVE  IInv'
  BY <1>1, <1>5, ExitKeepsStamps DEF IInv
<1>6. QED
  BY <1>2, <1>3, <1>4, <1>5, StepShapes DEF IInv

(* Types, and the agreement of the journal with the table of positions, in *)
(* every reachable state and for every size of the system.                 *)
THEOREM Correctness == Spec => [](TypeOK /\ JournalMatchesTable /\ StampsCoverJournal)
<1>1. IInv => TypeOK /\ JournalMatchesTable /\ StampsCoverJournal
  BY DEF IInv
<1>2. QED
  BY <1>1, InitIInv, NextIInv, PTL DEF Spec

-----------------------------------------------------------------------------
(* Spacing of entries.  An entry is admitted a cooldown after the stamp of *)
(* its key, and no record of the key is newer than that stamp.             *)
LEMMA EntryRests ==
  ASSUME IInv, NEW t \in Trades, NEW key \in Keys, NEW status, NEW at \in Nat,
         EntryStep(t, key, status, at), NEW u \in Trades \ Fresh, journal[u].key = key
  PROVE  /\ at - journal[u].openTs >= CooldownSec
         /\ Loser(u) => at - journal[u].closeTs >= LossCooldownSec
<1>1. journal[u].openTs \in Nat /\ journal[u].closeTs \in Nat
  BY DEF IInv, TypeOK, Fresh, JournalRecord
<1>2. journal[u].openTs <= last_open[key] /\ last_open[key] \in Nat \cup {Never}
  BY DEF IInv, TypeOK, StampsCoverJournal
<1>3. last_open[key] # Never /\ last_open[key] \in Nat
  BY <1>1, <1>2 DEF Never
<1>4. at - last_open[key] >= CooldownSec
  BY <1>3, EmulatorAssumption DEF EntryStep, CooldownActive, WithinWindow
<1>5. at - journal[u].openTs >= CooldownSec
  BY <1>1, <1>2, <1>3, <1>4, EmulatorAssumption
<1>6. ASSUME Loser(u) PROVE at - journal[u].closeTs >= LossCooldownSec
  <2>1. journal[u].closeTs <= last_loss[key] /\ last_loss[key] \in Nat \cup {Never}
    BY <1>6 DEF IInv, TypeOK, StampsCoverJournal
  <2>2. last_loss[key] # Never /\ last_loss[key] \in Nat
    BY <1>1, <2>1 DEF Never
  <2>3. at - last_loss[key] >= LossCooldownSec
    BY <2>2, EmulatorAssumption DEF EntryStep, CooldownActive, WithinWindow
  <2>4. QED
    BY <1>1, <2>1, <2>2, <2>3, EmulatorAssumption
<1>7. QED
  BY <1>5, <1>6

Spaced == EntriesSpaced /\ LossBan

LEMMA EntryKeepsSpaced ==
  ASSUME IInv, Spaced, NEW t \in Trades, NEW key \in Keys,
         NEW status \in {"open", "orphan_aborted"}, NEW at \in Nat, EntryStep(t, key, status, at)
  PROVE  Spaced'
<1>1. /\ journal' = [journal EXCEPT ![t] = Record(key, status, at)] /\ t \in Fresh
      /\ Record(key, status, at).key = key /\ Record(key, status, at).openTs = at
      /\ Record(key, status, at).status = status
  BY DEF EntryStep, Record
<1>2. journal'[t] = Record(key, status, at) /\ ~Loser(t)'
  BY <1>1 DEF IInv, TypeOK, Loser
<1>3. \A u \in Trades \ Fresh' : u # t => /\ u \in Trades \ Fresh /\ journal'[u] = journal[u]
                                        /\ (Loser(u)' => Loser(u))
  BY <1>1 DEF IInv, TypeOK, Fresh, Loser
<1>4. \A u \in Trades \ Fresh : journal[u].key = key =>
        /\ at - journal[u].openTs >= CooldownSec
        /\ Loser(u) => at - journal[u].closeTs >= LossCooldownSec
  BY EntryRests
<1>5. \A u \in Trades \ Fresh : journal[u].openTs \in Nat /\ journal[u].closeTs \in Nat
  BY DEF IInv, TypeOK, Fresh, JournalRecord
<1>6. EntriesSpaced'
  <2> SUFFICES ASSUME NEW u \in Trades \ Fresh', NEW v \in Trades \ Fresh', u # v,
                      journal'[u].key = journal'[v].key, journal'[u].openTs <= journal'[v].openTs
               PROVE  journal'[v].openTs - journal'[u].openTs >= CooldownSec
    BY DEF EntriesSpaced
  <2>1. CASE v = t
    BY <1>1, <1>2, <1>3, <1>4, <2>1
  <2>2. CASE u = t
    <3>1. v # t /\ v \in Trades \ Fresh /\ journal'[v] = journal[v] /\ journal[v].key = key
      BY <1>1, <1>2, <1>3, <2>2
    <3>2. at - journal[v].openTs >= CooldownSec /\ at <= journal[v].openTs
      BY <1>1, <1>2, <1>4, <2>2, <3>1
    <3>3. QED
      BY <1>1, <1>2, <1>5, <2>2, <3>1, <3>2, EmulatorAssumption
  <2>3. CASE u # t /\ v # t
    BY <1>3, <2>3 DEF Spaced, EntriesSpaced
  <2>4. QED
    BY <2>1, <2>2, <2>3
<1>7. LossBan'
  <2> SUFFICES ASSUME NEW u \in Trades \ Fresh', NEW v \in Trades \ Fresh', Loser(u)',
                      journal'[u].key = journal'[v].key, journal'[v].openTs > journal'[u].closeTs
               PROVE  journal'[v].openTs - journal'[u].closeTs >= LossCooldownSec
    BY DEF LossBan
  <2>1. u # t
    BY <1>2
  <2>2. CASE v = t
    BY <1>1, <1>2, <1>3, <1>4, <2>1, <2>2
  <2>3. CASE v # t
    BY <1>3, <2>1, <2>3 DEF Spaced, LossBan
  <2>4. QED
    BY <2>2, <2>3
<1>8. QED
  BY <1>6, <1>7 DEF Spaced

LEMMA ExitKeepsSpaced ==
  ASSUME IInv, Spaced, NEW t \in Trades, NEW win \in BOOLEAN, ExitStep(t, win)
  PROVE  Spaced'
<1>1. journal[t] \in JournalRecord /\ journal[t] # None /\ now \in Nat
  BY PositionKey, NoneAssumption DEF ExitStep, IInv, TypeOK
<1> DEFINE r == [journal[t] EXCEPT !.status = "closed", !.closeTs = now, !.win = win]
<1>2. journal' = [journal EXCEPT ![t] = r]
  BY DEF ExitStep, IInv, TypeOK
<1>3. r.openTs = journal[t].openTs /\ r.closeTs = now /\ r.key = journal[t].key
  BY <1>1 DEF JournalRecord
<1> HIDE DEF r
<1>4. /\ Fresh' \subseteq Fresh /\ Fresh \subseteq Fresh'
      /\ \A u \in Trades \ Fresh : /\ journal'[u].openTs = journal[u].openTs
                                   /\ journal'[u].key = journal[u].key
                                   /\ u # t => journal'[u] = journal[u]
  <2>1. r # None
    <3>1. r \in JournalRecord
      BY <1>1 DEF r, JournalRecord
    <3>2. QED
      BY <3>1, NoneAssumption
  <2>2. QED
    BY <1>1, <1>2, <1>3, <2>1 DEF IInv, TypeOK, Fresh
<1>5. EntriesSpaced'
  BY <1>4 DEF Spaced, EntriesSpaced
<1>6. LossBan'
  <2> SUFFICES ASSUME NEW u \in Trades \ Fresh, NEW v \in Trades \ Fresh, Loser(u)',
                      journal'[u].key = journal'[v].key, journal'[v].openTs > journal'[u].closeTs
               PROVE  journal'[v].openTs - journal'[u].closeTs >= LossCooldownSec
    BY <1>4 DEF LossBan
  <2>1. CASE u = t
    <3>1. journal'[u].closeTs = now /\ journal'[v].openTs = journal[v].openTs
      BY <1>2, <1>3, <1>4, <2>1 DEF IInv, TypeOK
    <3>2. journal[v].openTs <= now /\ journal[v].openTs \in Nat
      BY DEF IInv, StampsCoverJournal, TypeOK, Fresh, JournalRecord
    <3>3. QED
      BY <1>1, <3>1, <3>2
  <2>2. CASE u # t
    <3>1. Loser(u) /\ journal'[u] = journal[u]
      BY <1>4, <2>2 DEF Loser, Fresh
    <3>2. journal[u].key = journal[v].key /\ journal[v].openTs > journal[u].closeTs
      BY <1>4, <3>1
    <3>3. QED
      BY <1>4, <3>1, <3>2 DEF Spaced, LossBan
  <2>3. QED
    BY <2>1, <2>2
<1>7. QED
  BY <1>5, <1>6 DEF Spaced

LEMMA NextSpaced == IInv /\ Spaced /\ [Next]_vars => Spaced'
<1> SUFFICES ASSUME IInv, Spaced, [Next]_vars PROVE Spaced'
  OBVIOUS
<1>1. CASE UNCHANGED journal
  BY <1>1 DEF Spaced, EntriesSpaced, LossBan, Loser, Fresh
<1>2. ASSUME NEW t \in Trades, NEW key \in Keys, NEW at \in 0 .. now,
             EntryStep(t, key, "open", at) \/ EntryStep(t, key, "orphan_aborted", at)
      PROVE  Spaced'
  <2>1. at \in Nat
    BY DEF IInv, TypeOK
  <2>2. QED
    BY <1>2, <2>1, EntryKeepsSpaced
<1>3. ASSUME NEW t \in Trades, NEW win \in BOOLEAN, ExitStep(t, win)
      PROVE  Spaced'
  BY <1>3, ExitKeepsSpaced
<1>4. QED
  BY <1>1, <1>2, <1>3, StepShapes DEF IInv

(* cooldown_sec and loss_cooldown_sec hold over the whole history of every *)
(* key although the emulator keeps one stamp of each kind per key.         *)
THEOREM EntriesRespectCooldowns == Spec => [](EntriesSpaced /\ LossBan)
<1>1. Init => Spaced
  BY DEF Init, Spaced, EntriesSpaced, LossBan, Fresh
<1>2. Spaced <=> EntriesSpaced /\ LossBan
  BY DEF Spaced
<1>3. QED
  BY <1>1, <1>2, InitIInv, NextIInv, NextSpaced, PTL DEF Spec

-----------------------------------------------------------------------------
(* What needs cardinalities: the limit of open positions per pair, the     *)
(* balance of the statistics, and the refinement of TradeBook.             *)

LEMMA FiniteTrades ==
  ASSUME NEW S \in SUBSET Trades
  PROVE  IsFiniteSet(S) /\ Cardinality(S) \in Nat
BY EmulatorAssumption, FS_Subset, FS_CardinalityType

Counted(k) == {t \in Open : Triple(open_positions[t]) = k}

(* The emulator counts positions by exchange pair: every trade the journal *)
(* shows open on a pair key is counted, because a dir position's key ends  *)
(* in a side and never is a pair key.                                      *)
LEMMA OpenIsCounted ==
  ASSUME TypeOK, JournalMatchesTable, NEW k \in PairKeys
  PROVE  OpenOnKey(k) \subseteq Counted(k)
<1> SUFFICES ASSUME NEW t \in OpenOnKey(k) PROVE t \in Counted(k)
  OBVIOUS
<1>1. t \in Open
  BY DEF OpenOnKey, JournalMatchesTable, Open, Fresh
<1>2. KeyOf(open_positions[t]) = k /\ open_positions[t] \in Position
  BY <1>1, PositionKey DEF OpenOnKey
<1>3. open_positions[t].strategy # "dir"
  <2>1. k[3] \in Exchanges
    BY PairKeyParts
  <2>2. open_positions[t].side \in Sides
    BY <1>2 DEF Position
  <2>3. open_positions[t].strategy = "dir" => k[3] = open_positions[t].side
    BY <1>2 DEF KeyOf
  <2>4. QED
    BY <2>1, <2>2, <2>3, EmulatorAssumption DEF Sides
<1>4. QED
  BY <1>1, <1>2, <1>3 DEF KeyOf, Counted

LEMMA EntryHasRoom ==
  ASSUME TypeOK, JournalMatchesTable, NEW k \in PairKeys, NEW at, ~CooldownActive(k, at)
  PROVE  Cardinality(OpenOnKey(k)) + 1 <= MaxOpenPerPair
<1>1. Counted(k) \in SUBSET Trades /\ OpenOnKey(k) \in SUBSET Counted(k)
  BY OpenIsCounted DEF Counted, Open
<1>2. /\ Cardinality(Counted(k)) \in Nat /\ Cardinality(OpenOnKey(k)) \in Nat
      /\ Cardinality(OpenOnKey(k)) <= Cardinality(Counted(k))
  BY <1>1, FiniteTrades, FS_Subset
<1>3. ~(Cardinality(Counted(k)) >= MaxOpenPerPair)
  BY DEF CooldownActive, Counted
<1>4. QED
  BY <1>2, <1>3, EmulatorAssumption

-----------------------------------------------------------------------------
LEMMA EntryKeepsPairLimit ==
  ASSUME IInv, PairLimit, NEW t \in Trades, NEW key \in Keys,
         NEW status \in {"open", "orphan_aborted"}, NEW at \in Nat, EntryStep(t, key, status, at)
  PROVE  PairLimit'
<1>1. /\ journal' = [journal EXCEPT ![t] = Record(key, status, at)] /\ t \in Fresh
      /\ Record(key, status, at).key = key
  BY DEF EntryStep, Record
<1> SUFFICES ASSUME NEW k \in PairKeys PROVE Cardinality(OpenOnKey(k)') <= MaxOpenPerPair
  BY DEF PairLimit
<1>2. OpenOnKey(k) \in SUBSET Trades /\ OpenOnKey(k)' \in SUBSET Trades
  BY DEF OpenOnKey
<1>3. CASE k # key
  <2>1. OpenOnKey(k)' \subseteq OpenOnKey(k)
    BY <1>1, <1>3 DEF OpenOnKey, Fresh, IInv, TypeOK
  <2>2. Cardinality(OpenOnKey(k)') <= Cardinality(OpenOnKey(k))
    BY <1>2, <2>1, FiniteTrades, FS_Subset
  <2>3. QED
    BY <1>2, <2>2, FiniteTrades, EmulatorAssumption DEF PairLimit
<1>4. CASE k = key
  <2>1. OpenOnKey(k)' \subseteq OpenOnKey(k) \cup {t}
    BY <1>1 DEF OpenOnKey, Fresh, IInv, TypeOK
  <2>2. /\ IsFiniteSet(OpenOnKey(k)) /\ Cardinality(OpenOnKey(k)) \in Nat
        /\ Cardinality(OpenOnKey(k)') \in Nat
    BY <1>2, FiniteTrades
  <2>3. /\ IsFiniteSet(OpenOnKey(k) \cup {t})
        /\ Cardinality(OpenOnKey(k) \cup {t}) <= Cardinality(OpenOnKey(k)) + 1
    BY SMTT(30), <2>2, FS_AddElement
  <2>4. Cardinality(OpenOnKey(k) \cup {t}) \in Nat
    BY <2>3, FS_CardinalityType
  <2>5. Cardinality(OpenOnKey(k)') <= Cardinality(OpenOnKey(k) \cup {t})
    BY <2>1, <2>3, FS_Subset
  <2>6. Cardinality(OpenOnKey(k)) + 1 <= MaxOpenPerPair
    BY <1>4, EntryHasRoom DEF EntryStep, IInv
  <2>7. QED
    BY <2>2, <2>3, <2>4, <2>5, <2>6, EmulatorAssumption
<1>5. QED
  BY <1>3, <1>4

LEMMA ExitKeepsPairLimit ==
  ASSUME IInv, PairLimit, NEW t \in Trades, NEW win \in BOOLEAN, ExitStep(t, win)
  PROVE  PairLimit'
<1> SUFFICES ASSUME NEW k \in PairKeys PROVE Cardinality(OpenOnKey(k)') <= MaxOpenPerPair
  BY DEF PairLimit
<1>1. journal[t] \in JournalRecord /\ t \notin Fresh
  BY PositionKey, NoneAssumption DEF ExitStep, IInv, Fresh
<1> DEFINE r == [journal[t] EXCEPT !.status = "closed", !.closeTs = now, !.win = win]
<1>2. journal' = [journal EXCEPT ![t] = r] /\ r.status = "closed"
  BY <1>1 DEF ExitStep, IInv, TypeOK, JournalRecord
<1> HIDE DEF r
<1>3. OpenOnKey(k)' \subseteq OpenOnKey(k)
  BY <1>1, <1>2 DEF OpenOnKey, Fresh, IInv, TypeOK
<1>4. OpenOnKey(k) \in SUBSET Trades /\ OpenOnKey(k)' \in SUBSET Trades
  BY DEF OpenOnKey
<1>5. Cardinality(OpenOnKey(k)') <= Cardinality(OpenOnKey(k))
  BY <1>3, <1>4, FiniteTrades, FS_Subset
<1>6. QED
  BY <1>4, <1>5, FiniteTrades, EmulatorAssumption DEF PairLimit

LEMMA NextPairLimit == IInv /\ PairLimit /\ [Next]_vars => PairLimit'
<1> SUFFICES ASSUME IInv, PairLimit, [Next]_vars PROVE PairLimit'
  OBVIOUS
<1>1. CASE UNCHANGED journal
  BY <1>1 DEF PairLimit, OpenOnKey, Fresh
<1>2. ASSUME NEW t \in Trades, NEW key \in Keys, NEW at \in 0 .. now,
             EntryStep(t, key, "open", at) \/ EntryStep(t, key, "orphan_aborted", at)
      PROVE  PairLimit'
  <2>1. at \in Nat
    BY DEF IInv, TypeOK
  <2>2. QED
    BY <1>2, <2>1, EntryKeepsPairLimit
<1>3. ASSUME NEW t \in Trades, NEW win \in BOOLEAN, ExitStep(t, win)
      PROVE  PairLimit'
  BY <1>3, ExitKeepsPairLimit
<1>4. QED
  BY <1>1, <1>2, <1>3, StepShapes DEF IInv

(* max_open_per_pair bounds the positions open on every exchange pair.     *)
THEOREM PairLimitHolds == Spec => []PairLimit
<1>1. Init => PairLimit
  <2> SUFFICES ASSUME Init, NEW k \in PairKeys PROVE Cardinality(OpenOnKey(k)) <= MaxOpenPerPair
    BY DEF PairLimit
  <2>1. OpenOnKey(k) = {}
    BY DEF Init, OpenOnKey, Fresh
  <2>2. QED
    BY <2>1, FS_EmptySet, EmulatorAssumption
<1>2. QED
  BY <1>1, InitIInv, NextIInv, NextPairLimit, PTL DEF Spec

-----------------------------------------------------------------------------
(* The balance of the statistics, action by action.                        *)
Accounts == PairStrategies \cup {"dir"}

LEMMA BalanceAdmit ==
  ASSUME IInv, StatsBalance, NEW t \in Fresh, NEW p \in Position, Admit(t, p)
  PROVE  StatsBalance'
<1>1. t \in Trades /\ t \notin Open /\ p # None
  BY NoneAssumption DEF IInv, JournalMatchesTable, Open, Fresh
<1>2. open_positions' = [open_positions EXCEPT ![t] = p] /\ stats' = CountOpened(p.strategy)
  BY DEF Admit
<1>3. ASSUME NEW s \in Accounts
      PROVE  stats'[s].opened - stats'[s].closed = Cardinality(OpenWith(s)')
  <2>1. s \in StatKeys /\ stats[s] \in Counters /\ p.strategy \in StatKeys
    BY EmulatorAssumption DEF Accounts, StatKeys, IInv, TypeOK, Position
  <2>2. /\ stats[s].opened \in Nat /\ stats[s].closed \in Nat
        /\ stats[s].opened - stats[s].closed = Cardinality(OpenWith(s))
    BY <1>3, <2>1 DEF Accounts, StatsBalance, Counters
  <2>3. IsFiniteSet(OpenWith(s)) /\ Cardinality(OpenWith(s)) \in Nat
    BY FiniteTrades DEF OpenWith, Open
  <2>4. CASE s = p.strategy
    <3>1. OpenWith(s)' = OpenWith(s) \cup {t} /\ t \notin OpenWith(s)
      BY <1>1, <1>2, <2>4 DEF OpenWith, Open, IInv, TypeOK
    <3>2. Cardinality(OpenWith(s)') = Cardinality(OpenWith(s)) + 1
      BY <2>3, <3>1, FS_AddElement
    <3>3. stats'[s].opened = stats[s].opened + 1 /\ stats'[s].closed = stats[s].closed
      BY <1>2, <2>1, <2>4 DEF CountOpened, IInv, TypeOK, Counters
    <3>4. QED
      BY <2>2, <2>3, <3>2, <3>3
  <2>5. CASE s # p.strategy
    <3>1. OpenWith(s)' = OpenWith(s)
      BY <1>1, <1>2, <2>5 DEF OpenWith, Open, IInv, TypeOK
    <3>2. stats'[s] = stats[s]
      BY <1>2, <2>1, <2>5 DEF CountOpened, IInv, TypeOK
    <3>3. QED
      BY <2>2, <3>1, <3>2
  <2>6. QED
    BY <2>4, <2>5
<1>4. QED
  BY <1>3 DEF StatsBalance, Accounts

LEMMA BalanceAbort ==
  ASSUME IInv, StatsBalance, NEW t, NEW s \in PairStrategies, NEW key, AbortOrphan(t, s, key)
  PROVE  StatsBalance'
<1>1. /\ stats' = CountOrphan(s) /\ s \in StatKeys /\ open_positions' = open_positions
  BY EmulatorAssumption DEF AbortOrphan, StatKeys
<1>2. \A a \in StatKeys : stats'[a].opened = stats[a].opened /\ stats'[a].closed = stats[a].closed
  BY <1>1 DEF CountOrphan, IInv, TypeOK, Counters
<1>3. Accounts \subseteq StatKeys
  BY EmulatorAssumption DEF Accounts, StatKeys
<1>4. QED
  BY <1>1, <1>2, <1>3 DEF StatsBalance, Accounts, OpenWith, Open

LEMMA BalanceClose ==
  ASSUME IInv, StatsBalance, NEW t \in Open, NEW win \in BOOLEAN, NEW k, Close(t, win, k)
  PROVE  StatsBalance'
<1> DEFINE p == open_positions[t]
<1>1. t \in Trades /\ p \in Position
  BY PositionKey DEF IInv, Open
<1>2. open_positions' = [open_positions EXCEPT ![t] = None] /\ stats' = CountClose(p, win)
  BY DEF Close
<1> HIDE DEF p
<1>3. ASSUME NEW s \in Accounts
      PROVE  stats'[s].opened - stats'[s].closed = Cardinality(OpenWith(s)')
  <2>1. s \in StatKeys /\ stats[s] \in Counters /\ s \notin {"arb_z4", "arb_z35"}
    BY EmulatorAssumption DEF Accounts, StatKeys, IInv, TypeOK
  <2>2. /\ stats[s].opened \in Nat /\ stats[s].closed \in Nat
        /\ stats[s].opened - stats[s].closed = Cardinality(OpenWith(s))
    BY <1>3, <2>1 DEF Accounts, StatsBalance, Counters
  <2>3. IsFiniteSet(OpenWith(s)) /\ Cardinality(OpenWith(s)) \in Nat
    BY FiniteTrades DEF OpenWith, Open
  <2>4. s \in StatsOf(p) <=> s = p.strategy
    BY <2>1 DEF StatsOf
  <2>5. CASE s = p.strategy
    <3>1. OpenWith(s)' = OpenWith(s) \ {t} /\ t \in OpenWith(s)
      BY <1>1, <1>2, <2>5 DEF OpenWith, Open, IInv, TypeOK, p
    <3>2. Cardinality(OpenWith(s)') = Cardinality(OpenWith(s)) - 1
      BY <2>3, <3>1, FS_RemoveElement
    <3>3. stats'[s] = Settle(stats[s], win)
      BY <1>2, <2>1, <2>4, <2>5 DEF CountClose
    <3>4. stats'[s].opened = stats[s].opened /\ stats'[s].closed = stats[s].closed + 1
      BY <2>1, <3>3, SettleType
    <3>5. QED
      BY <2>2, <2>3, <3>2, <3>4
  <2>6. CASE s # p.strategy
    <3>1. OpenWith(s)' = OpenWith(s)
      BY <1>1, <1>2, <2>6 DEF OpenWith, Open, IInv, TypeOK, p
    <3>2. stats'[s] = stats[s]
      BY <1>2, <2>1, <2>4, <2>6 DEF CountClose
    <3>3. QED
      BY <2>2, <3>1, <3>2
  <2>7. QED
    BY <2>5, <2>6
<1>4. QED
  BY <1>3 DEF StatsBalance, Accounts

LEMMA NextStatsBalance == IInv /\ StatsBalance /\ [Next]_vars => StatsBalance'
<1> SUFFICES ASSUME IInv, StatsBalance, [Next]_vars PROVE StatsBalance'
  OBVIOUS
<1>1. CASE UNCHANGED vars \/ Tick
  BY <1>1 DEF vars, Tick, StatsBalance, OpenWith, Open
<1>2. ASSUME NEW s \in PairStrategies, NEW k \in PairKeys, NEW z4 \in BOOLEAN,
             NEW lf \in BOOLEAN, NEW sf \in BOOLEAN, TryOpen(s, k, z4, lf, sf)
      PROVE  StatsBalance'
  <2> DEFINE p == [strategy |-> s, symbol |-> k[1], exch_long |-> k[2], exch_short |-> k[3],
                   side |-> "long", open_ts |-> now, z4 |-> z4]
  <2>1. p \in Position
    BY PairKeyParts DEF Position, Sides, IInv, TypeOK
  <2>2. PICK t \in Fresh : AbortOrphan(t, s, k) \/ Admit(t, p)
    BY <1>2 DEF TryOpen
  <2> HIDE DEF p
  <2>3. QED
    BY <2>1, <2>2, BalanceAdmit, BalanceAbort
<1>3. ASSUME NEW k \in DirKeys, NEW at \in 0 .. now, TryOpenDir(k[1], k[2], k[3], at)
      PROVE  StatsBalance'
  <2> DEFINE p == [strategy |-> "dir", symbol |-> k[1], exch_long |-> k[2], exch_short |-> k[2],
                   side |-> k[3], open_ts |-> at, z4 |-> FALSE]
  <2>1. p \in Position
    BY DirKeyParts DEF Position, Sides, IInv, TypeOK
  <2>2. PICK t \in Fresh : Admit(t, p)
    BY <1>3 DEF TryOpenDir
  <2> HIDE DEF p
  <2>3. QED
    BY <2>1, <2>2, BalanceAdmit
<1>4. ASSUME NEW t \in Trades, NEW win \in BOOLEAN, TryClose(t, win) \/ TryCloseDir(t, win)
      PROVE  StatsBalance'
  BY <1>4, BalanceClose DEF TryClose, TryCloseDir
<1>5. QED
  BY <1>1, <1>2, <1>3, <1>4 DEF Next

(* For every strategy, opened minus closed is the size of its table.       *)
THEOREM StatsBalanceHolds == Spec => []StatsBalance
<1>1. Init => StatsBalance
  <2> SUFFICES ASSUME Init, NEW s \in Accounts
               PROVE  stats[s].opened - stats[s].closed = Cardinality(OpenWith(s))
    BY DEF StatsBalance, Accounts
  <2>1. OpenWith(s) = {} /\ s \in StatKeys
    BY EmulatorAssumption DEF Init, OpenWith, Open, Accounts, StatKeys
  <2>2. QED
    BY <2>1, FS_EmptySet DEF Init
<1>2. QED
  BY <1>1, InitIInv, NextIInv, NextStatsBalance, PTL DEF Spec

-----------------------------------------------------------------------------
(* Refinement of the abstract book.                                        *)
LEMMA EntryIsBookEntry ==
  ASSUME IInv, NEW t \in Trades, NEW key \in Keys, NEW at \in 0 .. now,
         \/ EntryStep(t, key, "open", at)
         \/ EntryStep(t, key, "orphan_aborted", at) /\ key \in PairKeys
  PROVE  Book!Enter(t, key, at)
<1>1. at \in Nat /\ t \in Fresh /\ ~CooldownActive(key, at)
  BY DEF IInv, TypeOK, EntryStep
<1>2. t \notin Book!Used
  BY <1>1 DEF Book!Used, Fresh
<1>3. Book!Rested(key, at)
  <2> SUFFICES ASSUME NEW u \in Trades \ Fresh, journal[u].key = key
               PROVE  /\ at - journal[u].openTs >= CooldownSec
                      /\ Loser(u) => at - journal[u].closeTs >= LossCooldownSec
    BY DEF Book!Rested, Book!On, Book!Used, Fresh, Loser
  <2>1. QED
    BY <1>1, EntryRests
<1>4. Book!HasRoom(key)
  <2> SUFFICES ASSUME key \in PairKeys
               PROVE  Cardinality(Book!OpenOn(key)) < MaxOpenPerPair
    <3>1. \A S : Book!Cardinality(S) = Cardinality(S)
      BY DEF Book!Cardinality, Cardinality
    <3>2. QED
      BY <3>1 DEF Book!HasRoom
  <2>1. Book!OpenOn(key) = OpenOnKey(key)
    BY DEF Book!OpenOn, Book!On, Book!Used, OpenOnKey, Fresh
  <2>2. Cardinality(OpenOnKey(key)) + 1 <= MaxOpenPerPair
    BY <1>1, EntryHasRoom DEF IInv
  <2>3. Cardinality(OpenOnKey(key)) \in Nat
    BY FiniteTrades DEF OpenOnKey
  <2>4. QED
    BY <2>1, <2>2, <2>3, EmulatorAssumption
<1>5. QED
  BY <1>2, <1>3, <1>4 DEF Book!Enter, Book!Entry, EntryStep, Record

LEMMA ExitIsBookExit ==
  ASSUME IInv, NEW t \in Trades, NEW win \in BOOLEAN, ExitStep(t, win)
  PROVE  Book!Exit(t, win)
<1>1. journal[t] \in JournalRecord /\ journal[t].status = "open" /\ journal[t] # None
  BY PositionKey, NoneAssumption DEF ExitStep, IInv
<1>2. QED
  BY <1>1 DEF ExitStep, Book!Exit, Book!Used, IInv, TypeOK

(* Whatever the strategies call and in whatever order, the journal is a    *)
(* behaviour of the abstract book: each entry obeys the limit, the         *)
(* cooldown and the loss ban computed from the full history of its key.    *)
THEOREM EmulatorRefinesBook == Spec => ImplementsBook
<1>1. Init => Book!BookInit
  BY DEF Init, Book!BookInit
<1>2. IInv /\ [Next]_vars => [Book!BookNext]_(Book!bookVars)
  <2> SUFFICES ASSUME IInv, [Next]_vars PROVE [Book!BookNext]_(Book!bookVars)
    OBVIOUS
  <2>1. CASE UNCHANGED <<now, last_open, last_loss, journal>>
    BY <2>1 DEF Book!bookVars
  <2>2. CASE now' = now + 1 /\ UNCHANGED <<last_open, last_loss, journal>>
    BY <2>2 DEF Book!BookNext, Book!Pass
  <2>3. ASSUME NEW t \in Trades, NEW key \in Keys, NEW at \in 0 .. now,
               \/ EntryStep(t, key, "open", at)
               \/ EntryStep(t, key, "orphan_aborted", at) /\ key \in PairKeys
        PROVE  Book!BookNext
    BY <2>3, EntryIsBookEntry DEF Book!BookNext, Keys
  <2>4. ASSUME NEW t \in Trades, NEW win \in BOOLEAN, ExitStep(t, win)
        PROVE  Book!BookNext
    BY <2>4, ExitIsBookExit DEF Book!BookNext
  <2>5. QED
    BY <2>1, <2>2, <2>3, <2>4, StepShapes DEF IInv
<1>3. QED
  BY <1>1, <1>2, InitIInv, NextIInv, PTL DEF Spec, ImplementsBook, Book!BookSpec

-----------------------------------------------------------------------------
(* The engine's two tasks only ever use the emulator as its specification  *)
(* allows.  All that is established of the emulator above therefore holds  *)
(* of the running engine, however the tasks interleave at their awaits.    *)
(* The invariant is the type invariant: what matters in it is that the     *)
(* locals a task holds across an await name a real symbol and a real pair  *)
(* key.                                                                    *)

Local == [pc: Pc, at: Nat, i: Nat, todo: SUBSET Trades, pairs: SUBSET SUBSET Exchanges,
          quoted: SUBSET Exchanges, key: PairKeys \cup {None}]

(* What ScannerTypeOK says of the locals of one task.                      *)
LocalOK(l) ==
  /\ l \in Local
  /\ l.at <= now
  /\ l.pc \in {"quotes", "f_quotes"} => l.i \in 1 .. Len(SymbolOrder) + 1
  /\ l.pc \in AtSymbol => l.i \in 1 .. Len(SymbolOrder)
  /\ l.pc = "f_books" => l.key \in PairKeys

LEMMA ScannerTypeIsLocal ==
  ScannerTypeOK <=> TypeOK /\ task \in [Tasks -> Local] /\ \A w \in Tasks : LocalOK(task[w])
BY DEF ScannerTypeOK, LocalOK, Local

LEMMA OrderLength == Len(SymbolOrder) \in Nat /\ \A i \in 1 .. Len(SymbolOrder) : SymbolOrder[i] \in Symbols
BY ScannerAssumption

LEMMA PairsType == \A S \in SUBSET Exchanges : Pairs(S) \in SUBSET SUBSET Exchanges
BY DEF Pairs

(* A distinct pair of exchanges on the task's symbol is a pair key.        *)
LEMMA KeyOfPair ==
  ASSUME ScannerTypeOK, NEW w \in Tasks, Me(w).pc \in AtSymbol,
         NEW a \in Exchanges, NEW b \in Exchanges, a # b
  PROVE  <<Symbol(w), a, b>> \in PairKeys
<1>1. Symbol(w) \in Symbols
  BY OrderLength DEF ScannerTypeOK, Me, Symbol
<1>2. QED
  BY <1>1 DEF PairKeys

(* What a step of a task is: it replaces its locals by good ones and calls *)
(* the emulator at most once.                                              *)
TaskStep ==
  \E w \in Tasks, l \in Local :
    LocalOK(l) /\ Become(w, l) /\ (Emulating \/ Next) /\ now' = now

LEMMA EmulatorCalls ==
  /\ \A s \in PairStrategies, k \in PairKeys, z4, long, short \in BOOLEAN :
       (z4 => s = "arb") /\ TryOpen(s, k, z4, long, short) => Next /\ now' = now
  /\ \A k \in DirKeys, at \in 0 .. now : TryOpenDir(k[1], k[2], k[3], at) => Next /\ now' = now
  /\ \A t \in Trades, win \in BOOLEAN : TryClose(t, win) => Next /\ now' = now
  /\ Emulating => now' = now
<1>1. \A s, k, z4, long, short : TryOpen(s, k, z4, long, short) => now' = now
  BY DEF TryOpen, AbortOrphan, Admit
<1>2. \A a, b, c, at : TryOpenDir(a, b, c, at) => now' = now
  BY DEF TryOpenDir, Admit
<1>3. \A t, win : TryClose(t, win) => now' = now
  BY DEF TryClose, Close
<1>4. QED
  BY <1>1, <1>2, <1>3 DEF Next, Emulating, vars

LEMMA IdleOK == ASSUME ScannerTypeOK PROVE Idle \in Local /\ LocalOK(Idle)
BY DEF ScannerTypeOK, TypeOK, Idle, At, Local, LocalOK, Pc, AtSymbol

(* The loop goes on to the next symbol, or past the last one.              *)
LEMMA NextSymbolOK ==
  ASSUME ScannerTypeOK, NEW w \in Tasks, Me(w).pc \in AtSymbol \cup {"quotes", "f_quotes"},
         Me(w).i <= Len(SymbolOrder), NEW pc \in {"quotes", "f_quotes"},
         NextSymbol(w, pc)
  PROVE  \E l \in Local : LocalOK(l) /\ Become(w, l)
<1> DEFINE n == Me(w).i + 1
           l == At(pc, Me(w).at, n)
<1>1. Len(SymbolOrder) \in Nat
  BY OrderLength
<1>2. /\ Me(w).i \in Nat /\ Me(w).i <= Len(SymbolOrder) /\ Me(w).i >= 1
      /\ Me(w).at \in Nat /\ Me(w).at <= now
  BY <1>1 DEF ScannerTypeOK, Me, AtSymbol
<1>3. n \in 1 .. Len(SymbolOrder) + 1 /\ n \in Nat
  BY <1>1, <1>2
<1> HIDE DEF n
<1>4. l \in Local /\ LocalOK(l)
  BY <1>2, <1>3 DEF At, Local, LocalOK, Pc, AtSymbol
<1>5. Become(w, l)
  BY DEF NextSymbol, n
<1>6. QED
  BY <1>4, <1>5

-----------------------------------------------------------------------------
(* Every action of either task is a step in that sense.                    *)
USE DEF TaskStep

LEMMA LocalType ==
  ASSUME ScannerTypeOK, NEW w \in Tasks
  PROVE  /\ Me(w) \in Local /\ LocalOK(Me(w)) /\ now \in Nat
         /\ Me(w).at \in 0 .. now
BY DEF ScannerTypeOK, TypeOK, LocalOK, Local, Me

LEMMA InRange ==
  ASSUME ScannerTypeOK, NEW w \in Tasks, Me(w).pc \in AtSymbol \cup {"quotes", "f_quotes"},
         Me(w).i <= Len(SymbolOrder)
  PROVE  Me(w).i \in 1 .. Len(SymbolOrder)
<1>1. Len(SymbolOrder) \in Nat /\ LocalOK(Me(w))
  BY OrderLength, LocalType
<1>2. CASE Me(w).pc \in AtSymbol
  BY <1>1, <1>2 DEF LocalOK
<1>3. CASE Me(w).pc \in {"quotes", "f_quotes"}
  <2>1. Me(w).i \in 1 .. Len(SymbolOrder) + 1
    BY <1>1, <1>3 DEF LocalOK
  <2>2. QED
    BY <1>1, <2>1
<1>4. QED
  BY <1>2, <1>3

(* New locals for the same place in the loop.                              *)
LEMMA SamePlaceOK ==
  ASSUME ScannerTypeOK, NEW w \in Tasks, Me(w).i \in 1 .. Len(SymbolOrder),
         NEW l \in Local, l.pc \in AtSymbol \cup {"tail"}, l.i = Me(w).i, l.at = Me(w).at,
         l.pc = "f_books" => l.key \in PairKeys
  PROVE  LocalOK(l)
<1>1. l.at <= now
  BY LocalType DEF LocalOK
<1>2. l.pc \notin {"quotes", "f_quotes"}
  BY DEF AtSymbol
<1>3. QED
  BY <1>1, <1>2 DEF LocalOK

LEMMA StartSteps ==
  ASSUME ScannerTypeOK, NEW w \in Tasks,
         BeginPass \/ BeginFundingScan(w) \/ Rest \/ EndFundingScan(w)
  PROVE  TaskStep
<1>1. /\ At("quotes", now, 1) \in Local /\ LocalOK(At("quotes", now, 1))
      /\ At("f_quotes", now, 1) \in Local /\ LocalOK(At("f_quotes", now, 1))
  BY OrderLength, LocalType DEF At, Local, LocalOK, Pc, AtSymbol
<1>2. "scanner" \in Tasks
  BY DEF Tasks
<1>3. QED
  BY <1>1, <1>2, IdleOK, EmulatorCalls
     DEF BeginPass, BeginFundingScan, Rest, EndFundingScan

LEMMA LoopSteps ==
  ASSUME ScannerTypeOK, NEW w \in Tasks,
         \/ EndPass \/ ArbEntriesDone \/ FundingPairsDone(w)
         \/ \E fresh \in SUBSET Exchanges : ReadQuotes(fresh) \/ ReadFundingQuotes(w, fresh)
  PROVE  TaskStep
<1>1. "scanner" \in Tasks /\ Len(SymbolOrder) \in Nat
  BY OrderLength DEF Tasks
<1>2. CASE EndPass
  <2>1. LocalOK([Me("scanner") EXCEPT !.pc = "tail"]) /\ [Me("scanner") EXCEPT !.pc = "tail"] \in Local
    BY <1>1, LocalType DEF Local, LocalOK, Pc, AtSymbol
  <2>2. QED
    BY <1>1, <1>2, <2>1, EmulatorCalls DEF EndPass, Goto
<1>3. CASE ArbEntriesDone
  <2>1. Me("scanner").i <= Len(SymbolOrder) /\ Me("scanner").pc \in AtSymbol
    BY <1>1, <1>3, LocalType DEF ArbEntriesDone, LocalOK, Local, AtSymbol
  <2>2. CASE Goto("scanner", "legacy")
    <3>1. /\ LocalOK([Me("scanner") EXCEPT !.pc = "legacy"])
          /\ [Me("scanner") EXCEPT !.pc = "legacy"] \in Local
      BY <1>1, <2>1, LocalType DEF Local, LocalOK, Pc, AtSymbol
    <3>2. QED
      BY <1>1, <1>3, <2>2, <3>1, EmulatorCalls DEF ArbEntriesDone, Goto
  <2>3. CASE NextSymbol("scanner", "quotes")
    BY <1>1, <1>3, <2>1, <2>3, NextSymbolOK, EmulatorCalls DEF ArbEntriesDone
  <2>4. QED
    BY <1>3, <2>2, <2>3 DEF ArbEntriesDone
<1>4. CASE FundingPairsDone(w)
  <2>1. Me(w).i <= Len(SymbolOrder) /\ Me(w).pc \in AtSymbol
    BY <1>1, <1>4, LocalType DEF FundingPairsDone, LocalOK, Local, AtSymbol
  <2>2. QED
    BY <1>4, <2>1, NextSymbolOK, EmulatorCalls DEF FundingPairsDone
<1>5. ASSUME NEW fresh \in SUBSET Exchanges, ReadQuotes(fresh)
      PROVE  TaskStep
  <2>1. CASE NextSymbol("scanner", "quotes")
    BY <1>1, <1>5, <2>1, NextSymbolOK, EmulatorCalls DEF ReadQuotes
  <2> DEFINE T == IF ZscoreEnabled THEN OpenOf("arb", Symbol("scanner")) ELSE {}
             l == [Me("scanner") EXCEPT !.pc = "arb_exits", !.quoted = fresh, !.todo = T]
  <2>2. T \in SUBSET Trades
    BY DEF OpenOf, OpenWith, Open
  <2> HIDE DEF T
  <2>3. l \in Local /\ LocalOK(l)
    <3>1. Me("scanner").pc = "quotes" /\ Me("scanner").i <= Len(SymbolOrder)
      BY <1>5 DEF ReadQuotes
    <3>2. Me("scanner").i \in 1 .. Len(SymbolOrder) /\ Me("scanner") \in Local
      BY <1>1, <3>1, InRange, LocalType
    <3>3. l \in Local /\ l.pc = "arb_exits" /\ l.i = Me("scanner").i /\ l.at = Me("scanner").at
      BY <2>2, <3>2 DEF Local, Pc
    <3> HIDE DEF l
    <3>4. QED
      BY <1>1, <3>2, <3>3, SamePlaceOK DEF AtSymbol
  <2>4. CASE Become("scanner", l)
    BY <1>1, <1>5, <2>3, <2>4, EmulatorCalls DEF ReadQuotes
  <2>5. QED
    BY <1>5, <2>1, <2>4 DEF ReadQuotes, T
<1>6. ASSUME NEW fresh \in SUBSET Exchanges, ReadFundingQuotes(w, fresh)
      PROVE  TaskStep
  <2>1. CASE NextSymbol(w, "f_quotes")
    BY <1>6, <2>1, NextSymbolOK, EmulatorCalls DEF ReadFundingQuotes
  <2> DEFINE l == [Me(w) EXCEPT !.pc = "f_pairs", !.pairs = Pairs(fresh)]
  <2>2. Pairs(fresh) \in SUBSET SUBSET Exchanges
    BY PairsType
  <2>3. l \in Local /\ LocalOK(l)
    <3>1. Me(w).pc = "f_quotes" /\ Me(w).i <= Len(SymbolOrder)
      BY <1>6 DEF ReadFundingQuotes
    <3>2. Me(w).i \in 1 .. Len(SymbolOrder) /\ Me(w) \in Local
      BY <3>1, InRange, LocalType
    <3> DEFINE P == Pairs(fresh)
    <3> HIDE DEF P
    <3>3. /\ [Me(w) EXCEPT !.pc = "f_pairs", !.pairs = P] \in Local
          /\ [Me(w) EXCEPT !.pc = "f_pairs", !.pairs = P].pc = "f_pairs"
          /\ [Me(w) EXCEPT !.pc = "f_pairs", !.pairs = P].i = Me(w).i
          /\ [Me(w) EXCEPT !.pc = "f_pairs", !.pairs = P].at = Me(w).at
      <4>1. P \in SUBSET SUBSET Exchanges
        BY <2>2 DEF P
      <4>2. QED
        BY <3>2, <4>1 DEF Local, Pc
    <3>4. l \in Local /\ l.pc = "f_pairs" /\ l.i = Me(w).i /\ l.at = Me(w).at
      BY <3>3 DEF P
    <3> HIDE DEF l
    <3>5. QED
      BY <3>2, <3>4, SamePlaceOK DEF AtSymbol
  <2>4. CASE Become(w, l)
    BY <1>6, <2>3, <2>4, EmulatorCalls DEF ReadFundingQuotes
  <2>5. QED
    BY <1>6, <2>1, <2>4 DEF ReadFundingQuotes
<1>7. QED
  BY <1>2, <1>3, <1>4, <1>5, <1>6

LEMMA AtSymbolInRange ==
  ASSUME ScannerTypeOK, NEW w \in Tasks, Me(w).pc \in AtSymbol
  PROVE  Me(w).i \in 1 .. Len(SymbolOrder) /\ Me(w).i <= Len(SymbolOrder)
<1>1. Me(w).i \in 1 .. Len(SymbolOrder)
  BY LocalType DEF LocalOK
<1>2. QED
  BY <1>1, OrderLength

LEMMA ExitSteps ==
  ASSUME ScannerTypeOK, NEW t \in Trades, NEW market, NEW win \in BOOLEAN,
         ExamineArb(t, market) \/ ExamineFunding(t, market, win)
  PROVE  TaskStep
<1>1. "scanner" \in Tasks /\ Me("scanner").pc \in AtSymbol
  BY DEF Tasks, ExamineArb, ExamineFunding, AtSymbol
<1>2. Me("scanner").i \in 1 .. Len(SymbolOrder) /\ Me("scanner") \in Local
  BY <1>1, AtSymbolInRange, LocalType
<1>3. CASE ExamineArb(t, market)
  <2>1. /\ [Me("scanner") EXCEPT !.pc = "tail"] \in Local
        /\ LocalOK([Me("scanner") EXCEPT !.pc = "tail"])
    BY <1>1, <1>2, SamePlaceOK DEF Local, Pc
  <2>2. Checked(t) \in Local /\ LocalOK(Checked(t))
    BY <1>1, <1>2, <1>3, SamePlaceOK DEF Local, ExamineArb, Checked
  <2>3. QED
    BY <1>1, <1>3, <2>1, <2>2, EmulatorCalls DEF ExamineArb, Goto
<1>4. CASE ExamineFunding(t, market, win)
  <2>1. Checked(t) \in Local /\ LocalOK(Checked(t))
    BY <1>1, <1>2, <1>4, SamePlaceOK DEF Local, ExamineFunding, Checked
  <2>2. TryClose(t, win) \/ Emulating
    BY <1>4 DEF ExamineFunding
  <2>3. QED
    BY <1>1, <1>4, <2>1, <2>2, EmulatorCalls DEF ExamineFunding
<1>5. QED
  BY <1>3, <1>4

LEMMA ExitsDoneSteps ==
  ASSUME ScannerTypeOK, ArbExitsDone \/ FundingExitsDone
  PROVE  TaskStep
<1>1. "scanner" \in Tasks /\ Me("scanner").pc \in AtSymbol
  BY DEF Tasks, ArbExitsDone, FundingExitsDone, AtSymbol
<1>2. Me("scanner").i \in 1 .. Len(SymbolOrder) /\ Me("scanner") \in Local
  BY <1>1, AtSymbolInRange, LocalType
<1>3. CASE ArbExitsDone
  <2> DEFINE T == OpenOf("funding", Symbol("scanner"))
             l == [Me("scanner") EXCEPT !.pc = "funding_exits", !.todo = T]
  <2>1. T \in SUBSET Trades
    BY DEF OpenOf, OpenWith, Open
  <2> HIDE DEF T
  <2>2. l \in Local /\ LocalOK(l)
    BY <1>1, <1>2, <2>1, SamePlaceOK DEF Local, Pc, AtSymbol
  <2>3. Become("scanner", l)
    BY <1>3 DEF ArbExitsDone, T
  <2>4. QED
    BY <1>1, <1>3, <2>2, <2>3, EmulatorCalls DEF ArbExitsDone
<1>4. CASE FundingExitsDone
  <2> DEFINE P == IF ZscoreEnabled THEN Pairs(Me("scanner").quoted) ELSE {}
             l == [Me("scanner") EXCEPT !.pc = "arb_entries", !.pairs = P]
  <2>1. P \in SUBSET SUBSET Exchanges
    BY <1>2, PairsType DEF Local
  <2> HIDE DEF P
  <2>2. l \in Local /\ LocalOK(l)
    BY <1>1, <1>2, <2>1, SamePlaceOK DEF Local, Pc, AtSymbol
  <2>3. Become("scanner", l)
    BY <1>4 DEF FundingExitsDone, P
  <2>4. QED
    BY <1>1, <1>4, <2>2, <2>3, EmulatorCalls DEF FundingExitsDone
<1>5. QED
  BY <1>3, <1>4

LEMMA EntrySteps ==
  ASSUME ScannerTypeOK, NEW a \in Exchanges, NEW b \in Exchanges, NEW z4 \in BOOLEAN,
         EnterArb(a, b, z4)
  PROVE  TaskStep
<1>1. "scanner" \in Tasks /\ Me("scanner").pc \in AtSymbol
  BY DEF Tasks, EnterArb, AtSymbol
<1>2. /\ Me("scanner").i \in 1 .. Len(SymbolOrder) /\ Me("scanner").i <= Len(SymbolOrder)
      /\ Me("scanner") \in Local /\ Me("scanner").at \in 0 .. now
  BY <1>1, AtSymbolInRange, LocalType
<1>3. CASE EnterArb(a, b, z4)
  <2> DEFINE l == [Me("scanner") EXCEPT !.pairs = @ \ {{a, b}}]
  <2>1. l \in Local /\ LocalOK(l)
    BY <1>1, <1>2, <1>3, SamePlaceOK DEF Local, EnterArb, AtSymbol
  <2>2. Become("scanner", l)
    BY <1>3 DEF EnterArb
  <2> HIDE DEF l
  <2>3. Emulating \/ TryOpen("arb", <<Symbol("scanner"), a, b>>, z4, TRUE, TRUE)
    BY <1>3 DEF EnterArb
  <2>4. <<Symbol("scanner"), a, b>> \in PairKeys
    BY <1>1, <1>3, KeyOfPair DEF EnterArb
  <2>5. (Emulating \/ Next) /\ now' = now
    <3>1. "arb" \in PairStrategies
      BY <1>3, ScannerAssumption DEF EnterArb
    <3>2. QED
      BY <2>3, <2>4, <3>1, EmulatorCalls
  <2>6. QED
    BY <1>1, <2>1, <2>2, <2>5
<1>4. QED
  BY <1>3

LEMMA LegacyStep ==
  ASSUME ScannerTypeOK, Legacy
  PROVE  TaskStep
<1>1. "scanner" \in Tasks /\ Me("scanner").pc \in AtSymbol
  BY DEF Tasks, Legacy, AtSymbol
<1>2. /\ Me("scanner").i \in 1 .. Len(SymbolOrder) /\ Me("scanner").i <= Len(SymbolOrder)
      /\ Me("scanner") \in Local /\ Me("scanner").at \in 0 .. now
  BY <1>1, AtSymbolInRange, LocalType
<1>3. \E l \in Local : LocalOK(l) /\ Become("scanner", l)
  BY <1>1, <1>2, NextSymbolOK DEF Legacy
<1>4. ASSUME NEW s \in LegacyStrategies, NEW c \in Me("scanner").quoted,
             NEW d \in Me("scanner").quoted, NEW long \in BOOLEAN, NEW short \in BOOLEAN,
             c # d, TryOpen(s, <<Symbol("scanner"), c, d>>, FALSE, long, short)
      PROVE  Next /\ now' = now
  <2>1. c \in Exchanges /\ d \in Exchanges
    BY <1>2 DEF Local
  <2>2. <<Symbol("scanner"), c, d>> \in PairKeys
    BY <1>1, <1>4, <2>1, KeyOfPair
  <2>3. s \in PairStrategies
    BY ScannerAssumption
  <2>4. QED
    BY <1>4, <2>2, <2>3, EmulatorCalls
<1>5. ASSUME NEW c \in Me("scanner").quoted, NEW side \in Sides,
             TryOpenDir(Symbol("scanner"), c, side, Me("scanner").at)
      PROVE  Next /\ now' = now
  <2> DEFINE k == <<Symbol("scanner"), c, side>>
  <2>1. c \in Exchanges /\ Symbol("scanner") \in Symbols
    BY <1>2, OrderLength DEF Local, Symbol
  <2>2. k \in DirKeys /\ k[1] = Symbol("scanner") /\ k[2] = c /\ k[3] = side
    BY <2>1 DEF DirKeys
  <2> HIDE DEF k
  <2>3. TryOpenDir(k[1], k[2], k[3], Me("scanner").at)
    BY <1>5, <2>2
  <2>4. QED
    BY <1>2, <2>2, <2>3, EmulatorCalls
<1>6. (Emulating \/ Next) /\ now' = now
  <2>1. CASE Emulating
    BY <2>1, EmulatorCalls
  <2>2. CASE \E s \in LegacyStrategies, c, d \in Me("scanner").quoted, long, short \in BOOLEAN :
               c # d /\ TryOpen(s, <<Symbol("scanner"), c, d>>, FALSE, long, short)
    BY ZenonT(40), <1>4, <2>2
  <2>3. CASE TryDirEntry
    BY <1>5, <2>3 DEF TryDirEntry
  <2>4. QED
    BY <2>1, <2>2, <2>3 DEF Legacy
<1>7. QED
  BY <1>1, <1>3, <1>6

LEMMA FundingScanSteps ==
  ASSUME ScannerTypeOK, NEW w \in Tasks,
         (\E a, b \in Exchanges : CheckFunding(w, a, b)) \/ OpenFunding(w)
  PROVE  TaskStep
<1>1. Me(w).pc \in AtSymbol
  BY DEF CheckFunding, OpenFunding, AtSymbol
<1>2. Me(w).i \in 1 .. Len(SymbolOrder) /\ Me(w) \in Local
  BY <1>1, AtSymbolInRange, LocalType
<1>3. ASSUME NEW a \in Exchanges, NEW b \in Exchanges, CheckFunding(w, a, b)
      PROVE  TaskStep
  <2> DEFINE key == <<Symbol(w), a, b>>
             rest == Me(w).pairs \ {{a, b}}
  <2>1. key \in PairKeys
    BY <1>1, <1>3, KeyOfPair DEF CheckFunding
  <2>2. rest \in SUBSET SUBSET Exchanges
    BY <1>2 DEF Local
  <2>3. \/ Become(w, [Me(w) EXCEPT !.pairs = rest])
        \/ Become(w, [Me(w) EXCEPT !.pairs = rest, !.pc = "f_books", !.key = key])
    BY <1>3 DEF CheckFunding
  <2> HIDE DEF key, rest
  <2>4. /\ [Me(w) EXCEPT !.pairs = rest] \in Local
        /\ LocalOK([Me(w) EXCEPT !.pairs = rest])
    BY <1>1, <1>2, <1>3, <2>2, SamePlaceOK DEF Local, CheckFunding
  <2> DEFINE l == [Me(w) EXCEPT !.pairs = rest, !.pc = "f_books", !.key = key]
  <2>5. l \in Local /\ l.pc = "f_books" /\ l.key = key /\ l.i = Me(w).i /\ l.at = Me(w).at
    BY <1>2, <2>1, <2>2 DEF Local, Pc
  <2> HIDE DEF l
  <2>6. LocalOK(l)
    BY <1>2, <2>1, <2>5, SamePlaceOK DEF AtSymbol
  <2>7. QED
    BY <1>3, <2>3, <2>4, <2>5, <2>6, EmulatorCalls DEF CheckFunding, l
<1>4. CASE OpenFunding(w)
  <2> DEFINE l == [Me(w) EXCEPT !.pc = "f_pairs", !.key = None]
  <2>1. l \in Local /\ LocalOK(l)
    BY <1>2, SamePlaceOK DEF Local, Pc, AtSymbol
  <2>2. Become(w, l)
    BY <1>4 DEF OpenFunding
  <2> HIDE DEF l
  <2>3. Me(w).key \in PairKeys /\ "funding" \in PairStrategies
    BY <1>4, LocalType, ScannerAssumption DEF OpenFunding, LocalOK
  <2>4. (Emulating \/ Next) /\ now' = now
    BY <1>4, <2>3, EmulatorCalls DEF OpenFunding
  <2>5. QED
    BY <2>1, <2>2, <2>4
<1>5. QED
  BY <1>3, <1>4

-----------------------------------------------------------------------------
ScanInv == ScannerTypeOK /\ IInv

LEMMA TaskStepKeepsType ==
  ASSUME ScanInv, TaskStep PROVE ScannerTypeOK' /\ [Next]_vars
<1>1. PICK w \in Tasks, l \in Local :
        LocalOK(l) /\ Become(w, l) /\ (Emulating \/ Next) /\ now' = now
  BY Zenon DEF TaskStep
<1>2. [Next]_vars /\ TypeOK'
  BY <1>1, NextIInv DEF Emulating, ScanInv, IInv
<1>3. task' = [task EXCEPT ![w] = l] /\ task \in [Tasks -> Local]
  BY <1>1, ScannerTypeIsLocal DEF Become, ScanInv
<1>4. ASSUME NEW v \in Tasks PROVE LocalOK(task[v])'
  <2>1. LocalOK(task'[v])
    BY <1>1, <1>3, ScannerTypeIsLocal DEF ScanInv
  <2>2. QED
    BY <1>1, <2>1 DEF LocalOK
<1>5. (task \in [Tasks -> Local])'
  BY <1>3 DEF Local
<1>6. QED
  BY <1>2, <1>4, <1>5 DEF ScannerTypeOK, LocalOK, Local
LEMMA PassSteps ==
  ASSUME ScannerTypeOK, Pass \/ \E w \in Tasks : FundingScan(w) PROVE TaskStep
<1>1. "scanner" \in Tasks
  BY DEF Tasks
<1>2. CASE BeginPass \/ Rest
  BY <1>1, <1>2, StartSteps
<1>3. CASE EndPass \/ ArbEntriesDone \/ \E fresh \in SUBSET Exchanges : ReadQuotes(fresh)
  BY <1>1, <1>3, LoopSteps
<1>4. CASE \/ ArbExitsDone \/ FundingExitsDone
           \/ \E t \in Trades, market \in Markets : ExamineArb(t, market)
           \/ \E t \in Trades, market \in Markets, win \in BOOLEAN : ExamineFunding(t, market, win)
  <2>1. CASE \E t \in Trades, market \in Markets : ExamineArb(t, market)
    <3>1. PICK t \in Trades, market \in Markets : ExamineArb(t, market)
      BY <2>1
    <3>2. QED
      BY <3>1, ExitSteps
  <2>2. CASE \E t \in Trades, market \in Markets, win \in BOOLEAN : ExamineFunding(t, market, win)
    <3>1. PICK t \in Trades, market \in Markets, win \in BOOLEAN : ExamineFunding(t, market, win)
      BY <2>2
    <3>2. QED
      BY <3>1, ExitSteps
  <2>3. CASE ArbExitsDone \/ FundingExitsDone
    BY <2>3, ExitsDoneSteps
  <2>4. QED
    BY <1>4, <2>1, <2>2, <2>3
<1>5. CASE \E a, b \in Exchanges, z4 \in BOOLEAN : EnterArb(a, b, z4)
  <2>1. PICK a \in Exchanges, b \in Exchanges, z4 \in BOOLEAN : EnterArb(a, b, z4)
    BY <1>5
  <2>2. QED
    BY <2>1, EntrySteps
<1>6. CASE Legacy
  BY <1>6, LegacyStep
<1>7. ASSUME NEW w \in Tasks, FundingScan(w) PROVE TaskStep
  <2>1. CASE BeginFundingScan(w) \/ EndFundingScan(w)
    BY <2>1, StartSteps
  <2>2. CASE FundingPairsDone(w) \/ \E fresh \in SUBSET Exchanges : ReadFundingQuotes(w, fresh)
    BY <2>2, LoopSteps
  <2>3. CASE \E a, b \in Exchanges : CheckFunding(w, a, b)
    BY <2>3, FundingScanSteps
  <2>4. CASE OpenFunding(w)
    BY <2>4, FundingScanSteps
  <2>5. QED
    BY <1>7, <2>1, <2>2, <2>3, <2>4 DEF FundingScan
<1>8. QED
  BY <1>2, <1>3, <1>4, <1>5, <1>6, <1>7 DEF Pass

(* One step of the engine is a step of the emulator or leaves it alone.    *)
LEMMA ScanStep == ScanInv /\ [ScanNext]_scanVars => ScanInv' /\ [Next]_vars
<1> SUFFICES ASSUME ScanInv, [ScanNext]_scanVars PROVE ScanInv' /\ [Next]_vars
  OBVIOUS
<1>1. CASE Clock
  <2>1. Next
    BY <1>1 DEF Clock, Next
  <2>2. IInv'
    BY <2>1, NextIInv DEF ScanInv
  <2>3. now' = now + 1 /\ task' = task /\ now \in Nat
    BY <1>1 DEF Clock, Tick, ScanInv, IInv, TypeOK
  <2>4. \A w \in Tasks : task[w].at <= now'
    BY <2>3 DEF ScanInv, ScannerTypeOK
  <2>5. ScannerTypeOK'
    BY <2>2, <2>3, <2>4 DEF ScanInv, ScannerTypeOK, IInv
  <2>6. QED
    BY <2>1, <2>2, <2>5 DEF ScanInv
<1>2. CASE Pass \/ \E w \in Tasks : FundingScan(w)
  <2>1. ScannerTypeOK' /\ [Next]_vars
    BY <1>2, PassSteps, TaskStepKeepsType DEF ScanInv
  <2>2. QED
    BY <2>1, NextIInv DEF ScanInv
<1>3. CASE UNCHANGED scanVars
  <2>1. UNCHANGED vars /\ UNCHANGED task /\ UNCHANGED now
    BY <1>3 DEF scanVars, vars
  <2>2. IInv'
    BY <2>1, NextIInv DEF ScanInv
  <2>3. ScannerTypeOK'
    BY <2>1, <2>2 DEF ScanInv, ScannerTypeOK, IInv
  <2>4. QED
    BY <2>1, <2>2, <2>3 DEF ScanInv
<1>4. QED
  BY <1>1, <1>2, <1>3 DEF ScanNext

LEMMA ScanStart == ScanInit => ScanInv /\ Init
<1> SUFFICES ASSUME ScanInit PROVE ScanInv
  BY DEF ScanInit
<1>1. IInv /\ now = 0
  BY InitIInv DEF ScanInit, Init
<1>2. ScannerTypeOK
  BY <1>1 DEF ScanInit, ScannerTypeOK, IInv, Idle, At, Pc, AtSymbol
<1>3. QED
  BY <1>1, <1>2 DEF ScanInv

-----------------------------------------------------------------------------
(* Whatever the scanner and the funding task do, and however they          *)
(* interleave, they use the emulator as its specification allows           *)
(* (engine.py's _scanner_loop and _funding_loop over one Emulator).        *)
THEOREM ScannerUsesEmulator == ScanSpec => EmulatorSpec
<1>1. [Next]_vars => [UNCHANGED vars \/ Next]_vars
  OBVIOUS
<1>2. QED
  BY <1>1, ScanStart, ScanStep, PTL DEF ScanSpec, EmulatorSpec

(* The locals the tasks hold across awaits stay meaningful: a real symbol, *)
(* a real pair key, a time that has passed.                                *)
THEOREM ScannerTypeCorrect == ScanSpec => []ScannerTypeOK
<1>1. ScanInv => ScannerTypeOK
  BY DEF ScanInv
<1>2. QED
  BY <1>1, ScanStart, ScanStep, PTL DEF ScanSpec

(* max_open_per_pair holds of the running engine, though funding entries   *)
(* are checked before an await and opened after it, by two tasks.          *)
THEOREM EnginePairLimit == ScanSpec => []PairLimit
<1>1. [UNCHANGED vars \/ Next]_vars => [Next]_vars
  OBVIOUS
<1>2. EmulatorSpec => Spec
  BY <1>1, PTL DEF EmulatorSpec, Spec
<1>3. QED
  BY <1>2, ScannerUsesEmulator, PairLimitHolds, PTL
=============================================================================
