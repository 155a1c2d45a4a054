------------------------------ MODULE Emulator ------------------------------
(***************************************************************************)
(* The trade emulator (cryptoarb/emulator.py): the table of virtual        *)
(* positions, the cooldown and loss-ban stamps, the statistics, the deque  *)
(* of closed trades and the row it hands to the journal for each trade.    *)
(*                                                                         *)
(* One action per public operation that changes state.  Calls that return  *)
(* early (cooldown active, no leg filled, no liquidity to exit, unknown    *)
(* trade) change nothing and are stuttering steps.  Prices, sizes, fees    *)
(* and funding are abstracted to what the operations branch on: which legs *)
(* the order books fill, whether |z_in| >= 4, and the sign of the PnL.     *)
(***************************************************************************)
EXTENDS Integers, Sequences, FiniteSets

CONSTANTS Symbols, Exchanges,
          PairStrategies,   \* strategies that open pairs
          Trades,           \* the uuid4 values; a bound on the number of trades
          CooldownSec,      \* emulator.cooldown_sec
          LossCooldownSec,  \* emulator.loss_cooldown_sec
          MaxOpenPerPair,   \* emulator.max_open_per_pair
          HistoryLimit,     \* deque(maxlen=200)
          MaxTime,          \* bound on the clock
          None              \* "absent" for dictionary entries

ASSUME EmulatorAssumption ==
  /\ IsFiniteSet(Trades)
  /\ CooldownSec \in Nat /\ LossCooldownSec \in Nat
  /\ MaxOpenPerPair \in Nat \ {0}
  /\ HistoryLimit \in Nat \ {0}
  /\ MaxTime \in Nat
  /\ PairStrategies \subseteq {"arb", "scalp", "funding"}
  /\ Exchanges \cap {"long", "short"} = {}

VARIABLES now,             \* time.time()
          open_positions,  \* trade id -> VirtualPosition, None if not open
          last_open,       \* _last_open: key -> time of the last entry
          last_loss,       \* _last_loss: key -> time of the last losing exit
          stats,           \* per strategy counters
          closed_trades,   \* deque of closed trades, newest first
          journal          \* last record written to log and storage per trade

vars == <<now, open_positions, last_open, last_loss, stats, closed_trades, journal>>

Sides == {"long", "short"}
StatKeys == {"arb", "arb_z4", "arb_z35", "scalp", "dir", "funding"}
Never == -1

PairKeys == {k \in Symbols \X Exchanges \X Exchanges : k[2] # k[3]}
DirKeys == Symbols \X Exchanges \X Sides
Keys == PairKeys \cup DirKeys

Position == [strategy: PairStrategies \cup {"dir"}, symbol: Symbols, exch_long: Exchanges,
             exch_short: Exchanges, side: Sides, open_ts: Nat, z4: BOOLEAN]

JournalRecord == [status: {"open", "closed", "orphan_aborted"}, key: Keys,
                  openTs: Nat, closeTs: Nat, win: BOOLEAN]

Counters == [opened: Nat, closed: Nat, wins: Nat, losses: Nat, orphan_aborts: Nat]

ASSUME NoneAssumption == None \notin Position /\ None \notin JournalRecord

TypeOK ==
  /\ now \in Nat
  /\ open_positions \in [Trades -> Position \cup {None}]
  /\ last_open \in [Keys -> Nat \cup {Never}]
  /\ last_loss \in [Keys -> Nat \cup {Never}]
  /\ stats \in [StatKeys -> Counters]
  /\ closed_trades \in Seq(Trades)
  /\ journal \in [Trades -> JournalRecord \cup {None}]

-----------------------------------------------------------------------------
Open == {t \in Trades : open_positions[t] # None}
Fresh == {t \in Trades : journal[t] = None}
Triple(p) == <<p.symbol, p.exch_long, p.exch_short>>

(* The key a position's stamps are kept under.                             *)
KeyOf(p) == IF p.strategy = "dir" THEN <<p.symbol, p.exch_long, p.side>> ELSE Triple(p)

WithinWindow(stamp, window, at) == stamp # Never /\ at - stamp < window

(* Mutants: the limit is not consulted; the loss ban is not consulted.     *)
CooldownActive_NoLimit(key, at) ==
  \/ WithinWindow(last_open[key], CooldownSec, at)
  \/ WithinWindow(last_loss[key], LossCooldownSec, at)

CooldownActive_NoBan(key, at) ==
  \/ Cardinality({t \in Open : Triple(open_positions[t]) = key}) >= MaxOpenPerPair
  \/ WithinWindow(last_open[key], CooldownSec, at)

(* _cooldown_active: the limit counts positions by their exchange pair     *)
(* whatever key it is asked about.                                         *)
CooldownActive(key, at) ==
  \/ Cardinality({t \in Open : Triple(open_positions[t]) = key}) >= MaxOpenPerPair
  \/ WithinWindow(last_open[key], CooldownSec, at)
  \/ WithinWindow(last_loss[key], LossCooldownSec, at)

Record(key, status, at) ==
  [key |-> key, status |-> status, openTs |-> at, closeTs |-> 0, win |-> FALSE]

CountOpened(strategy) == [stats EXCEPT ![strategy].opened = @ + 1]
CountOrphan(strategy) == [stats EXCEPT ![strategy].orphan_aborts = @ + 1]

(* Both open operations end alike once the legs are filled.                *)
Admit(t, p) ==
  /\ open_positions' = [open_positions EXCEPT ![t] = p]
  /\ last_open' = [last_open EXCEPT ![KeyOf(p)] = p.open_ts]
  /\ stats' = CountOpened(p.strategy)
  /\ journal' = [journal EXCEPT ![t] = Record(KeyOf(p), "open", p.open_ts)]
  /\ UNCHANGED <<now, last_loss, closed_trades>>

(* Mutants: an aborted entry is not stamped; it is recorded as open.       *)
AbortOrphan_NoStamp(t, strategy, key) ==
  /\ stats' = CountOrphan(strategy)
  /\ journal' = [journal EXCEPT ![t] = Record(key, "orphan_aborted", now)]
  /\ UNCHANGED <<now, open_positions, last_open, last_loss, closed_trades>>

AbortOrphan_AsOpen(t, strategy, key) ==
  /\ last_open' = [last_open EXCEPT ![key] = now]
  /\ stats' = CountOrphan(strategy)
  /\ journal' = [journal EXCEPT ![t] = Record(key, "open", now)]
  /\ UNCHANGED <<now, open_positions, last_loss, closed_trades>>

(* Exactly one leg filled: nothing is opened, but the entry is counted,    *)
(* written down and stamped.                                               *)
AbortOrphan(t, strategy, key) ==
  /\ last_open' = [last_open EXCEPT ![key] = now]
  /\ stats' = CountOrphan(strategy)
  /\ journal' = [journal EXCEPT ![t] = Record(key, "orphan_aborted", now)]
  /\ UNCHANGED <<now, open_positions, last_loss, closed_trades>>

(* The books decide which legs fill; with neither filled nothing happens.  *)
TryOpen(strategy, key, z4, longFilled, shortFilled) ==
  /\ ~CooldownActive(key, now)
  /\ \E t \in Fresh :
       \/ longFilled # shortFilled /\ AbortOrphan(t, strategy, key)
       \/ /\ longFilled /\ shortFilled
          /\ Admit(t, [strategy |-> strategy, symbol |-> key[1], exch_long |-> key[2],
                       exch_short |-> key[3], side |-> "long", open_ts |-> now, z4 |-> z4])

(* The engine passes the time its scan pass began.                         *)
TryOpenDir(symbol, exchange, side, at) ==
  /\ ~CooldownActive(<<symbol, exchange, side>>, at)
  /\ \E t \in Fresh :
       Admit(t, [strategy |-> "dir", symbol |-> symbol, exch_long |-> exchange,
                 exch_short |-> exchange, side |-> side, open_ts |-> at, z4 |-> FALSE])

-----------------------------------------------------------------------------
(* Mutant: every close is counted under arb.                               *)
StatsOf_AlwaysArb(p) == {"arb"}

(* The counters a closing trade moves: its strategy's, and for "arb" those *)
(* of its z-score class as well.                                           *)
StatsOf(p) ==
  {p.strategy} \cup {k \in {"arb_z4", "arb_z35"} :
                       p.strategy = "arb" /\ (k = "arb_z4" <=> p.z4)}

Settle(c, win) ==
  IF win THEN [c EXCEPT !.closed = @ + 1, !.wins = @ + 1]
         ELSE [c EXCEPT !.closed = @ + 1, !.losses = @ + 1]

CountClose(p, win) ==
  [k \in StatKeys |-> IF k \in StatsOf(p) THEN Settle(stats[k], win) ELSE stats[k]]

(* deque.appendleft on a deque with maxlen                                 *)
Remember(t) ==
  SubSeq(<<t>> \o closed_trades, 1,
         IF Len(closed_trades) < HistoryLimit THEN Len(closed_trades) + 1 ELSE HistoryLimit)

Close(t, win, lossKey) ==
  LET p == open_positions[t]
  IN  /\ open_positions' = [open_positions EXCEPT ![t] = None]
      /\ stats' = CountClose(p, win)
      /\ last_loss' = IF win THEN last_loss ELSE [last_loss EXCEPT ![lossKey] = now]
      /\ closed_trades' = Remember(t)
      /\ journal' = [journal EXCEPT ![t].status = "closed", ![t].closeTs = now, ![t].win = win]
      /\ UNCHANGED <<now, last_open>>

TryClose(t, win) ==
  /\ t \in Open /\ open_positions[t].strategy # "dir"
  /\ Close(t, win, Triple(open_positions[t]))

TryCloseDir(t, win) ==
  /\ t \in Open /\ open_positions[t].strategy = "dir"
  /\ Close(t, win, <<open_positions[t].symbol, open_positions[t].exch_long,
                     open_positions[t].side>>)

-----------------------------------------------------------------------------
Init ==
  /\ now = 0
  /\ open_positions = [t \in Trades |-> None]
  /\ last_open = [k \in Keys |-> Never]
  /\ last_loss = [k \in Keys |-> Never]
  /\ stats = [k \in StatKeys |->
                [opened |-> 0, closed |-> 0, wins |-> 0, losses |-> 0, orphan_aborts |-> 0]]
  /\ closed_trades = <<>>
  /\ journal = [t \in Trades |-> None]

Tick ==
  /\ now < MaxTime
  /\ now' = now + 1
  /\ UNCHANGED <<open_positions, last_open, last_loss, stats, closed_trades, journal>>

Next ==
  \/ Tick
  \/ \E s \in PairStrategies, k \in PairKeys, z4, longFilled, shortFilled \in BOOLEAN :
       (z4 => s = "arb") /\ TryOpen(s, k, z4, longFilled, shortFilled)
  \/ \E k \in DirKeys, at \in 0 .. now : TryOpenDir(k[1], k[2], k[3], at)
  \/ \E t \in Trades, win \in BOOLEAN : TryClose(t, win)
  \/ \E t \in Trades, win \in BOOLEAN : TryCloseDir(t, win)

Spec == Init /\ [][Next]_vars

-----------------------------------------------------------------------------
(* PROPERTIES                                                              *)

OpenWith(strategy) == {t \in Open : open_positions[t].strategy = strategy}

(* The dashboard's counters are an account of the trades: per strategy,    *)
(* opened minus closed is the number of positions in the table, whatever   *)
(* order try_open, try_open_dir, try_close and try_close_dir come in.      *)
StatsBalance ==
  \A s \in PairStrategies \cup {"dir"} :
    stats[s].opened - stats[s].closed = Cardinality(OpenWith(s))

(* The journal and the position table agree: a trade whose last record     *)
(* says "open" is a position under the recorded key, and no other is.      *)
JournalMatchesTable ==
  \A t \in Trades :
    IF t \in Open
    THEN /\ journal[t] # None /\ journal[t].status = "open"
         /\ journal[t].key = KeyOf(open_positions[t])
         /\ journal[t].openTs = open_positions[t].open_ts
    ELSE t \in Fresh \/ journal[t].status # "open"

OpenOnKey(k) == {t \in Trades \ Fresh : journal[t].key = k /\ journal[t].status = "open"}

(* max_open_per_pair: never more than that many positions on one           *)
(* (symbol, long exchange, short exchange), whatever strategies asked.     *)
PairLimit == \A k \in PairKeys : Cardinality(OpenOnKey(k)) <= MaxOpenPerPair

(* cooldown_sec: any two entries on one key, orphan aborts included, are   *)
(* at least a cooldown apart (one living spread does not breed duplicates).*)
EntriesSpaced ==
  \A t, u \in Trades \ Fresh :
    (t # u /\ journal[t].key = journal[u].key /\ journal[t].openTs <= journal[u].openTs)
      => journal[u].openTs - journal[t].openTs >= CooldownSec

Loser(t) == t \notin Fresh /\ journal[t].status = "closed" /\ ~journal[t].win

(* loss_cooldown_sec: no entry on a key within the ban that follows any    *)
(* losing exit on it, even when later exits on the same key were wins.     *)
LossBan ==
  \A t, u \in Trades \ Fresh :
    (Loser(t) /\ journal[t].key = journal[u].key /\ journal[u].openTs > journal[t].closeTs)
      => journal[u].openTs - journal[t].closeTs >= LossCooldownSec

(* The emulator implements the abstract book: the stamps and the table     *)
(* enforce on every entry what the whole history of its key demands.       *)
Book == INSTANCE TradeBook WITH book <- journal
ImplementsBook == Book!BookSpec
=============================================================================
