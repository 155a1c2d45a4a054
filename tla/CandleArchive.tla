--------------------------- MODULE CandleArchive ---------------------------
(***************************************************************************)
(* The candle file of one coin on one exchange (candle_updater.py), as the *)
(* maintenance loop of the engine keeps it: fetched on, merged, trimmed,   *)
(* written in place.  Time and the file count in slots: a slot is what one *)
(* request brings (1000 minutes).                                          *)
(***************************************************************************)
EXTENDS Integers, FiniteSets, FiniteSetsExt

CONSTANTS
  Retention,  \* slots kept (30 days)
  Window,     \* slots fetched between two chances to go on (5 days)
  MaxGap,     \* a younger file is left alone
  Every,      \* period of the maintenance loop (12 hours)
  MaxTime     \* bound on the clock

ASSUME ArchiveAssumption ==
  /\ {Retention, Window, MaxGap, Every} \subseteq Nat \ {0}
  /\ MaxTime \in Nat

VARIABLES
  clock,
  due,       \* when the maintenance loop looks again
  file,      \* [kind, rows]; rows: the slots it has candles of
  pending,   \* what the write in progress will leave, or None
  resumed,   \* history: the slots at which a sync went on with a further window
  got,       \* history: the newest slot ever written
  interrupted \* history: a write was cut short
archiveVars == <<due, file, pending, resumed, got, interrupted>>

None == [kind |-> "none", rows |-> {}]
Torn == [kind |-> "torn", rows |-> {}]
File(rows) == [kind |-> "rows", rows |-> rows]

ArchiveInit ==
  /\ due = 0 /\ file = None /\ pending = None
  /\ resumed = {} /\ got = 0 /\ interrupted = FALSE

-----------------------------------------------------------------------------
Newest == IF file.rows = {} THEN 0 ELSE Max(file.rows)
Young_Unit(rows) == {s \in rows : s >= clock - 1}
Young(rows) == {s \in rows : s >= clock - Retention}

\* sync_candles: a missing file is always worth a sync, a young one never
WorthASync == file = None \/ Newest = 0 \/ clock - Newest >= MaxGap

\* fetch_1m_safe: a request that fails twice gives up its window; the next
\* window is tried all the same
SameWindow(since, s, t) == (s - since) \div Window = (t - since) \div Window
Replies_Skipping(since) == SUBSET (since..clock)
Replies(since) ==
  {S \in SUBSET (since..clock) :
     \A s \in S : \A t \in since..s : SameWindow(since, s, t) => t \in S}

Since == IF file = None THEN IF clock > Retention THEN clock - Retention ELSE 1 ELSE Newest + 1

\* update_exchange.  The newest row of a file without rows is null, that of a
\* torn file cannot be read: both raise, count as one more failure and change
\* nothing, as does a file that does not open for writing or a sync that brings
\* nothing new.  The write ends in a step of its own
Merged(new) == Young(file.rows \union new)

Rewrites(new) == new # {} \/ Merged(new) # file.rows
BeginWrite(new) ==
  /\ pending' = File(Merged(new)) /\ file' = Torn
  /\ resumed' = resumed \union {s \in (Since + 1)..clock : (s - Since) % Window = 0}
  /\ got' = IF new = {} THEN got ELSE Max(new)
  /\ UNCHANGED interrupted
NoWrite == UNCHANGED <<pending, file, resumed, got, interrupted>>
Sync ==
  /\ pending = None /\ clock >= due
  /\ due' = clock + Every
  /\ \/ NoWrite
     \/ /\ WorthASync /\ (file = None \/ file.rows # {})
        /\ \E new \in Replies(Since) : Rewrites(new) /\ BeginWrite(new)

\* write_parquet is over
Written ==
  /\ pending # None
  /\ file' = pending
  /\ pending' = None
  /\ UNCHANGED <<due, resumed, got, interrupted>>

\* what is told of the file's past ends with it
Lost == resumed' = {} /\ got' = 0

\* Mutant: the write goes to another file, which replaces this one at its end.
WriteFails_Aside ==
  /\ pending # None
  /\ file' = None /\ pending' = None
  /\ interrupted' = TRUE /\ Lost
  /\ UNCHANGED due

\* write_parquet raises, the disk is full say: the handler counts a failure and
\* leaves the file as it is
WriteFails ==
  /\ pending # None
  /\ pending' = None
  /\ interrupted' = TRUE /\ Lost
  /\ UNCHANGED <<due, file>>

\* the process ends, in the middle of a write perhaps; the next one syncs at
\* its start
KillArchive ==
  /\ pending' = None /\ due' = 0
  /\ interrupted' = (interrupted \/ pending # None)
  /\ IF pending # None THEN Lost ELSE UNCHANGED <<resumed, got>>
  /\ UNCHANGED file

-----------------------------------------------------------------------------
\* A sync begins after the newest row, so that no later one fills a hole.  A
\* file goes on after a hole only where some sync went on with a further window
\* of requests (candle_updater.py, 42-69): one that loses contact within its
\* first window makes none, as it is continued from there the next time.
HolesEndAtWindows ==
  \A s \in file.rows : s - 1 \in file.rows \/ s = Min(file.rows) \/ s \in resumed

\* The file cannot be read once a write of it was cut short, by a kill or by an
\* error such as a full disk (candle_updater.py, 137, 140, 156, 160), and then
\* no sync ever repairs it (112-113); and the rows are never all trimmed, after
\* which their null maximum raises as well, unless the newest candle the
\* program ever saved is older than the retention.
StuckIsExplained ==
  pending = None =>
    /\ file = Torn <=> interrupted
    /\ file \notin {None, Torn} /\ file.rows = {} => got + Retention < clock
=============================================================================
