------------------------------ MODULE TradeBook ------------------------------
(***************************************************************************)
(* What the emulator promises to the strategies, with none of its          *)
(* dictionaries: a book of trades, each of which is entered once on a key, *)
(* may be closed once, and is entered only when the whole past of its key  *)
(* allows it.  The admission rule looks at the history itself; module      *)
(* Emulator keeps two time stamps per key and a table of positions, and is *)
(* shown to implement this module.                                         *)
(***************************************************************************)
EXTENDS Integers, FiniteSets

CONSTANTS Trades,           \* identifiers the book may use
          PairKeys,         \* keys of two-legged trades, at most MaxOpenPerPair open
          DirKeys,          \* keys of one-legged trades, without that limit
          CooldownSec,      \* least time between two entries on a key
          LossCooldownSec,  \* least time between a losing exit and an entry
          MaxOpenPerPair,
          None              \* an unused identifier

VARIABLES now, book

bookVars == <<now, book>>

Used == {t \in Trades : book[t] # None}
On(key) == {t \in Used : book[t].key = key}
OpenOn(key) == {t \in On(key) : book[t].status = "open"}

(* Every earlier entry on the key (an aborted one too) is at least a       *)
(* cooldown old, and every losing exit at least a loss cooldown.           *)
Rested(key, at) ==
  \A t \in On(key) :
    /\ at - book[t].openTs >= CooldownSec
    /\ book[t].status = "closed" /\ ~book[t].win
         => at - book[t].closeTs >= LossCooldownSec

HasRoom(key) == key \in PairKeys => Cardinality(OpenOn(key)) < MaxOpenPerPair

Entry(key, status, at) ==
  [key |-> key, status |-> status, openTs |-> at, closeTs |-> 0, win |-> FALSE]

BookInit == now = 0 /\ book = [t \in Trades |-> None]

Pass == now' = now + 1 /\ UNCHANGED book

(* The caller may date an entry at the start of its scan pass.             *)
Enter(t, key, at) ==
  /\ t \notin Used /\ Rested(key, at) /\ HasRoom(key)
  /\ \/ book' = [book EXCEPT ![t] = Entry(key, "open", at)]
     \/ key \in PairKeys /\ book' = [book EXCEPT ![t] = Entry(key, "orphan_aborted", at)]
  /\ UNCHANGED now

Exit(t, win) ==
  /\ t \in Used /\ book[t].status = "open"
  /\ book' = [book EXCEPT ![t] = [@ EXCEPT !.status = "closed", !.closeTs = now, !.win = win]]
  /\ UNCHANGED now

BookNext ==
  \/ Pass
  \/ \E t \in Trades, key \in PairKeys \cup DirKeys, at \in 0 .. now : Enter(t, key, at)
  \/ \E t \in Trades, win \in BOOLEAN : Exit(t, win)

BookSpec == BookInit /\ [][BookNext]_bookVars
=============================================================================
