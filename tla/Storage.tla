------------------------------ MODULE Storage ------------------------------
(***************************************************************************)
(* The SQLite storage (cryptoarb/storage.py) over one run of the process:  *)
(* the engine's thread puts rows on a bounded queue, a writer thread takes *)
(* them off, buffers them and flushes the buffers in one transaction, and  *)
(* close() ends it.  Statements and commits may fail, and the process may  *)
(* crash.  What is tracked is the status of the row of each emulated       *)
(* trade; quotes, signals and scalp statistics are there for the room they *)
(* take in the queue and for the way they fail.                            *)
(***************************************************************************)
EXTENDS Integers, Sequences, FiniteSetsExt

CONSTANTS Trades,    \* trade ids
          Capacity,  \* maxsize of the queue
          None

ASSUME StorageAssumption == Capacity \in Nat \ {0} /\ None \notin Trades

VARIABLES sent,     \* per trade, the status the engine last saved
          dropped,  \* the trades whose last save found the queue full
          queue,    \* _q
          trades,   \* buf_t of the writer
          others,   \* buf_q and buf_s hold something
          txn,      \* per trade, the row as the open transaction sees it
          db,       \* per trade, the row as last committed
          writer,   \* where the writer thread is
          owner     \* where the thread that owns the storage is

vars == <<sent, dropped, queue, trades, others, txn, db, writer, owner>>

Status == {"open", "closed", "orphan_aborted"}
Plain(kind) == [kind |-> kind, trade |-> None, status |-> None]

-----------------------------------------------------------------------------
(* The engine's thread                                                     *)

Full == Len(queue) >= Capacity

(* _put drops the item when the queue is full.                             *)
Put(item) == queue' = IF Full THEN queue ELSE Append(queue, item)

(* The emulator saves a trade when it opens or is aborted, and again when  *)
(* it closes.                                                              *)
SaveTrade(t, status) ==
  /\ owner = "running"
  /\ \/ sent[t] = None /\ status \in {"open", "orphan_aborted"}
     \/ sent[t] = "open" /\ status = "closed"
  /\ sent' = [sent EXCEPT ![t] = status]
  /\ Put([kind |-> "trade", trade |-> t, status |-> status])
  /\ dropped' = IF Full THEN dropped \cup {t} ELSE dropped \ {t}
  /\ UNCHANGED <<trades, others, txn, db, writer, owner>>

SaveOther(kind) ==
  /\ owner = "running"
  /\ Put(Plain(kind))
  /\ UNCHANGED <<sent, dropped, trades, others, txn, db, writer, owner>>

(* close(): a put that waits for room, then a join of at most 5 s, then    *)
(* the connection is closed and takes the open transaction with it.        *)
BeginClose ==
  /\ owner = "running" /\ owner' = "closing"
  /\ UNCHANGED <<sent, dropped, queue, trades, others, txn, db, writer>>

(* Mutant: the sentinel overtakes the rows that wait.                      *)
PutStop_First ==
  /\ owner = "closing" /\ ~Full
  /\ queue' = <<Plain("stop")>> \o queue
  /\ owner' = "joining"
  /\ UNCHANGED <<sent, dropped, trades, others, txn, db, writer>>

PutStop ==
  /\ owner = "closing" /\ ~Full
  /\ queue' = Append(queue, Plain("stop"))
  /\ owner' = "joining"
  /\ UNCHANGED <<sent, dropped, trades, others, txn, db, writer>>

Join ==
  /\ owner = "joining"
  /\ owner' = "closed"
  /\ txn' = db
  /\ UNCHANGED <<sent, dropped, queue, trades, others, db, writer>>

Crash ==
  /\ owner # "closed" /\ owner' = "crashed"
  /\ txn' = db
  /\ UNCHANGED <<sent, dropped, queue, trades, others, db, writer>>

-----------------------------------------------------------------------------
(* The writer thread                                                       *)

Alive == owner \notin {"closed", "crashed"}

(* An item is taken.  A flush follows if it is due by the clock or by the  *)
(* size of the buffers, and always after a scalp statistic, whose insert   *)
(* is made here and now, outside any handler.                              *)
Get(due) ==
  /\ Alive /\ writer = "get" /\ queue # <<>>
  /\ queue' = Tail(queue)
  /\ LET item == Head(queue)
     IN  \/ /\ item.kind = "trade"
            /\ trades' = Append(trades, item)
            /\ writer' = IF due THEN "flush" ELSE "get"
            /\ UNCHANGED others
         \/ /\ item.kind = "quote"
            /\ others' = TRUE
            /\ writer' = IF due THEN "flush" ELSE "get"
            /\ UNCHANGED trades
         \/ /\ item.kind = "scalpstat"
            /\ writer' \in {"flush", "dead"}
            /\ UNCHANGED <<trades, others>>
         \/ /\ item.kind = "stop"
            /\ writer' = "last_flush"
            /\ UNCHANGED <<trades, others>>
  /\ UNCHANGED <<sent, dropped, txn, db, owner>>

(* get(timeout=0.5) found nothing, and a second has passed since the last  *)
(* flush.                                                                  *)
GetNothing ==
  /\ Alive /\ writer = "get" /\ queue = <<>> /\ (trades # <<>> \/ others \/ txn # db)
  /\ writer' = "flush"
  /\ UNCHANGED <<sent, dropped, queue, trades, others, txn, db, owner>>

(* The status the last row of a trade gives, if there is one.              *)
LastOr(t, rows, status) ==
  LET own == {i \in DOMAIN rows : rows[i].trade = t}
  IN  IF own = {} THEN status ELSE rows[Max(own)].status

(* INSERT OR REPLACE of the rows, one after the other.                     *)
Apply(rows, table) == [t \in Trades |-> LastOr(t, rows, table[t])]

Flushing == Alive /\ writer \in {"flush", "last_flush"}

AfterFlush(ok) ==
  writer' = IF writer = "flush" THEN "get" ELSE IF ok THEN "stopped" ELSE "dead"

(* Mutant: the transaction is not committed.                               *)
Flush_NoCommit ==
  /\ Flushing
  /\ txn' = Apply(trades, txn) /\ db' = db
  /\ trades' = <<>> /\ others' = FALSE
  /\ AfterFlush(TRUE)
  /\ UNCHANGED <<sent, dropped, queue, owner>>

Flush ==
  /\ Flushing
  /\ txn' = Apply(trades, txn) /\ db' = txn'
  /\ trades' = <<>> /\ others' = FALSE
  /\ AfterFlush(TRUE)
  /\ UNCHANGED <<sent, dropped, queue, owner>>

(* Mutant: the buffers are emptied whether or not the statement succeeds.  *)
FlushFails_Clears ==
  /\ Flushing
  /\ others' = FALSE /\ trades' = <<>> /\ txn' = txn
  /\ AfterFlush(FALSE)
  /\ UNCHANGED <<sent, dropped, queue, db, owner>>

(* A statement or the commit fails: the quotes, or the trades after some   *)
(* rows, or the commit after them all.  A buffer is emptied only when its  *)
(* statement has succeeded; what was inserted stays in the transaction.    *)
FlushFails ==
  /\ Flushing
  /\ \/ others /\ UNCHANGED <<others, trades, txn>>
     \/ /\ others' = FALSE /\ trades' = trades
        /\ trades # <<>> /\ \E n \in 0 .. Len(trades) - 1 : txn' = Apply(SubSeq(trades, 1, n), txn)
     \/ others' = FALSE /\ trades' = <<>> /\ txn' = Apply(trades, txn)
  /\ AfterFlush(FALSE)
  /\ UNCHANGED <<sent, dropped, queue, db, owner>>

(* The hourly deletion of old quotes and signals commits what is pending.  *)
Retention ==
  /\ Alive /\ writer = "get" /\ txn # db
  /\ db' = txn
  /\ UNCHANGED <<sent, dropped, queue, trades, others, txn, writer, owner>>

-----------------------------------------------------------------------------
Init ==
  /\ sent = [t \in Trades |-> None] /\ dropped = {}
  /\ queue = <<>> /\ trades = <<>> /\ others = FALSE
  /\ txn = [t \in Trades |-> None] /\ db = [t \in Trades |-> None]
  /\ writer = "get" /\ owner = "running"

Due == Get(TRUE) \/ GetNothing

Next ==
  \/ \E t \in Trades, status \in Status : SaveTrade(t, status)
  \/ \E kind \in {"quote", "scalpstat"} : SaveOther(kind)
  \/ BeginClose \/ PutStop \/ Join \/ Crash
  \/ Due \/ Get(FALSE) \/ Flush \/ FlushFails \/ Retention

Spec == Init /\ [][Next]_vars

(* The threads run, a second passes now and then, and the disk does not    *)
(* refuse every flush for ever.                                            *)
Fairness ==
  /\ WF_vars(Due \/ Get(FALSE)) /\ SF_vars(Due)
  /\ WF_vars(Flush \/ FlushFails) /\ SF_vars(Flush)
  /\ WF_vars(PutStop) /\ WF_vars(Join)

FairSpec == Spec /\ Fairness

-----------------------------------------------------------------------------
(* PROPERTIES                                                              *)

(* The last word on a trade that is on its way to the database.            *)
Latest(t) == LastOr(t, queue, LastOr(t, trades, txn[t]))

(* Whatever statements fail in a flush, half of one included, the writer   *)
(* neither loses nor reorders a row it was given: the last record on its   *)
(* way is the last one saved, unless the full queue dropped it.            *)
PipelineKeepsLast ==
  Alive => \A t \in Trades \ dropped : Latest(t) = sent[t]

(* close() that comes back with the writer done leaves every trade's last  *)
(* record committed.                                                       *)
CloseKeepsAll ==
  (owner = "closed" /\ writer = "stopped") => \A t \in Trades \ dropped : db[t] = sent[t]

(* A closed trade becomes closed in the database, though flushes fail,     *)
(* while the writer lives.                                                 *)
ClosedIsCommitted ==
  \A t \in Trades :
    (sent[t] = "closed" /\ t \notin dropped) ~>
      (db[t] = "closed" \/ writer = "dead" \/ ~Alive)
=============================================================================
