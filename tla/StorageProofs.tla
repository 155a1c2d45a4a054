--------------------------- MODULE StorageProofs ---------------------------
(***************************************************************************)
(* What the writer is given reaches the database, for any trades and any   *)
(* size of the queue: whatever fails on the way, the last record of a      *)
(* trade is the last one saved, and close() leaves it committed.           *)
(***************************************************************************)
EXTENDS Storage, WellFoundedInduction, TLAPS

Item ==
  [kind : {"trade"}, trade : Trades, status : Status]
    \union {Plain(kind) : kind \in {"quote", "scalpstat", "stop"}}
Row == [kind : {"trade"}, trade : Trades, status : Status]
Table == [Trades -> Status \union {None}]

TypeOK ==
  /\ sent \in Table /\ txn \in Table /\ db \in Table
  /\ queue \in Seq(Item) /\ trades \in Seq(Row)
  /\ writer \in {"get", "flush", "last_flush", "stopped", "dead"}
  /\ owner \in {"running", "closing", "joining", "closed", "crashed"}

\* The sentinel is put once, and nothing is put behind it.
StopIsLast ==
  /\ owner \in {"running", "closing"} =>
       /\ writer \notin {"last_flush", "stopped"}
       /\ \A i \in DOMAIN queue : queue[i].kind # "stop"
  /\ \A i \in DOMAIN queue : queue[i].kind = "stop" => i = Len(queue)
  /\ writer \in {"last_flush", "stopped"} => queue = <<>>

\* A writer that has stopped has written everything, and no row is open.
StoppedIsDone == writer = "stopped" => trades = <<>> /\ (Alive => txn = db)

IInv == TypeOK /\ StopIsLast /\ StoppedIsDone /\ PipelineKeepsLast /\ CloseKeepsAll

-----------------------------------------------------------------------------
(* The last row of a trade                                                 *)

LEMMA LeastOfNaturals ==
  ASSUME NEW S \in SUBSET Nat, S # {}
  PROVE  \E n \in S : \A m \in S : n <= m
<1> DEFINE R == {ss \in Nat \X Nat : ss[1] < ss[2]}
<1>1. IsWellFoundedOn(R, Nat)
  BY NatLessThanWellFounded DEF OpToRel
<1>2. \E x \in S : \A y \in S : ~ (<<y, x>> \in R)
  <2> HIDE DEF R
  <2> QED BY <1>1, WFMin
<1>3. PICK x \in S : \A y \in S : ~ (<<y, x>> \in R)
  BY <1>2
<1>4. \A y \in S : ~ (y < x)
  BY <1>3
<1>5. QED
  BY <1>4

LEMMA MaxOfInterval ==
  ASSUME NEW n \in Nat, NEW S \in SUBSET (1 .. n), S # {}
  PROVE  Max(S) \in S /\ \A x \in S : x <= Max(S)
<1> DEFINE T == {k \in Nat : n - k \in S}
<1>1. \A x \in S : n - x \in T /\ n - (n - x) = x
  OBVIOUS
<1>2. T \in SUBSET Nat /\ T # {}
  BY <1>1
<1>3. PICK k \in T : \A m \in T : k <= m
  BY <1>2, LeastOfNaturals
<1>4. n - k \in S /\ \A y \in S : n - k >= y
  <2>1. k \in Nat /\ n - k \in S
    OBVIOUS
  <2>2. ASSUME NEW y \in S PROVE n - k >= y
    <3>1. k <= n - y
      BY <1>1, <1>3
    <3>2. QED
      BY <2>1, <3>1
  <2>3. QED
    BY <2>1, <2>2
<1>5. Max(S) \in S /\ \A y \in S : Max(S) >= y
  <2>1. \E z \in S : \A y \in S : z >= y
    BY <1>4
  <2>2. QED
    BY <2>1 DEF Max
<1>6. QED
  BY <1>5

Own(t, rows) == {i \in DOMAIN rows : rows[i].trade = t}
NoRow(t, rows) == \A i \in DOMAIN rows : rows[i].trade # t
LastRow(i, t, rows) ==
  /\ i \in DOMAIN rows /\ rows[i].trade = t
  /\ \A j \in DOMAIN rows : j > i => rows[j].trade # t

LEMMA LastOrNone ==
  ASSUME NEW rows, NEW t, NEW status, NoRow(t, rows)
  PROVE  LastOr(t, rows, status) = status
BY DEF LastOr, NoRow

LEMMA LastOrAt ==
  ASSUME NEW S, NEW rows \in Seq(S), NEW t, NEW status, NEW i, LastRow(i, t, rows)
  PROVE  LastOr(t, rows, status) = rows[i].status
<1>1. Len(rows) \in Nat /\ DOMAIN rows = 1 .. Len(rows)
  OBVIOUS
<1>2. i \in Own(t, rows) /\ Own(t, rows) \in SUBSET (1 .. Len(rows))
  BY <1>1 DEF Own, LastRow
<1>3. Max(Own(t, rows)) \in Own(t, rows) /\ i <= Max(Own(t, rows))
  BY <1>1, <1>2, MaxOfInterval
<1>4. Max(Own(t, rows)) = i
  BY <1>1, <1>2, <1>3 DEF Own, LastRow
<1>5. QED
  BY <1>2, <1>4 DEF LastOr, Own

\* Rows either have none of a trade or a last one.
LEMMA LastExists ==
  ASSUME NEW S, NEW rows \in Seq(S), NEW t
  PROVE  NoRow(t, rows) \/ \E i \in DOMAIN rows : LastRow(i, t, rows)
<1>1. Len(rows) \in Nat /\ DOMAIN rows = 1 .. Len(rows)
  OBVIOUS
<1>2. CASE Own(t, rows) = {}
  BY <1>2 DEF Own, NoRow
<1>3. CASE Own(t, rows) # {}
  <2>1. Own(t, rows) \in SUBSET (1 .. Len(rows))
    BY <1>1 DEF Own
  <2>2. PICK i \in Own(t, rows) : \A x \in Own(t, rows) : x <= i
    BY <1>1, <1>3, <2>1, MaxOfInterval
  <2>3. i \in DOMAIN rows /\ rows[i].trade = t
    BY DEF Own
  <2>4. ASSUME NEW j \in DOMAIN rows, j > i PROVE rows[j].trade # t
    BY <1>1, <2>2, <2>3, <2>4 DEF Own
  <2>5. QED
    BY <2>3, <2>4 DEF LastRow
<1>4. QED
  BY <1>2, <1>3

LEMMA LastOrAppend ==
  ASSUME NEW S, NEW rows \in Seq(S), NEW row \in S, NEW t, NEW status
  PROVE  LastOr(t, Append(rows, row), status) =
           IF row.trade = t THEN row.status ELSE LastOr(t, rows, status)
<1>1. PICK all : all = Append(rows, row)
  OBVIOUS
<1>2. /\ all \in Seq(S) /\ Len(rows) \in Nat
      /\ DOMAIN all = 1 .. Len(rows) + 1 /\ DOMAIN rows = 1 .. Len(rows)
      /\ all[Len(rows) + 1] = row /\ \A i \in DOMAIN rows : all[i] = rows[i]
  BY <1>1
<1>3. CASE row.trade = t
  <2>1. LastRow(Len(rows) + 1, t, all)
    BY <1>2, <1>3 DEF LastRow
  <2>2. LastOr(t, all, status) = all[Len(rows) + 1].status
    BY <1>2, <2>1, LastOrAt
  <2>3. QED
    BY <1>1, <1>2, <1>3, <2>2
<1>4. CASE row.trade # t /\ NoRow(t, rows)
  <2>1. NoRow(t, all)
    BY <1>2, <1>4 DEF NoRow
  <2>2. QED
    BY <1>1, <1>4, <2>1, LastOrNone
<1>5. ASSUME row.trade # t, NEW i \in DOMAIN rows, LastRow(i, t, rows)
      PROVE  LastOr(t, all, status) = LastOr(t, rows, status)
  <2>1. LastRow(i, t, all) /\ all[i] = rows[i]
    BY <1>2, <1>5 DEF LastRow
  <2>2. LastOr(t, all, status) = all[i].status
    BY <1>2, <2>1, LastOrAt
  <2>3. LastOr(t, rows, status) = rows[i].status
    BY <1>5, LastOrAt
  <2>4. QED
    BY <2>1, <2>2, <2>3
<1>6. QED
  BY <1>1, <1>3, <1>4, <1>5, LastExists

LEMMA LastOrTail ==
  ASSUME NEW S, NEW rows \in Seq(S), rows # <<>>, NEW t, NEW status
  PROVE  LastOr(t, rows, status) =
           LastOr(t, Tail(rows), IF Head(rows).trade = t THEN Head(rows).status ELSE status)
<1>1. PICK rest : rest = Tail(rows)
  OBVIOUS
<1>2. PICK first : first = IF Head(rows).trade = t THEN Head(rows).status ELSE status
  OBVIOUS
<1>3. /\ rest \in Seq(S) /\ Len(rows) \in Nat \ {0}
      /\ DOMAIN rest = 1 .. Len(rows) - 1 /\ DOMAIN rows = 1 .. Len(rows)
      /\ rows[1] = Head(rows) /\ 1 \in DOMAIN rows
  BY <1>1
<1>4. /\ \A i \in DOMAIN rest : i + 1 \in DOMAIN rows /\ rest[i] = rows[i + 1]
      /\ \A j \in DOMAIN rows : j > 1 => j - 1 \in DOMAIN rest /\ rest[j - 1] = rows[j]
  BY <1>1, <1>3
<1>5. ASSUME NoRow(t, rest)
      PROVE  LastOr(t, rows, status) = LastOr(t, rest, first)
  <2>1. LastOr(t, rest, first) = first
    BY <1>5, LastOrNone
  <2>2. \A j \in DOMAIN rows : j > 1 => rows[j].trade # t
    BY <1>4, <1>5 DEF NoRow
  <2>3. CASE rows[1].trade = t
    <3>1. LastRow(1, t, rows)
      BY <1>3, <2>2, <2>3 DEF LastRow
    <3>2. LastOr(t, rows, status) = rows[1].status
      BY <3>1, LastOrAt
    <3>3. QED
      BY <1>2, <1>3, <2>1, <2>3, <3>2
  <2>4. CASE rows[1].trade # t
    <3>1. NoRow(t, rows)
      BY <1>3, <2>2, <2>4 DEF NoRow
    <3>2. LastOr(t, rows, status) = status
      BY <3>1, LastOrNone
    <3>3. QED
      BY <1>2, <1>3, <2>1, <2>4, <3>2
  <2>5. QED
    BY <2>3, <2>4
<1>6. ASSUME NEW i \in DOMAIN rest, LastRow(i, t, rest)
      PROVE  LastOr(t, rows, status) = LastOr(t, rest, first)
  <2>1. \A j \in DOMAIN rows : j > i + 1 => j > 1 /\ j - 1 > i
    BY <1>3
  <2>2. \A j \in DOMAIN rows : j > i + 1 => rows[j].trade # t
    BY <1>4, <1>6, <2>1 DEF LastRow
  <2>3. i + 1 \in DOMAIN rows /\ rows[i + 1] = rest[i] /\ rest[i].trade = t
    BY <1>4, <1>6 DEF LastRow
  <2>4. LastRow(i + 1, t, rows)
    BY <2>2, <2>3 DEF LastRow
  <2>5. LastOr(t, rows, status) = rows[i + 1].status
    BY <2>4, LastOrAt
  <2>6. LastOr(t, rest, first) = rest[i].status
    BY <1>3, <1>6, LastOrAt
  <2>7. QED
    BY <2>3, <2>5, <2>6
<1>7. NoRow(t, rest) \/ \E i \in DOMAIN rest : LastRow(i, t, rest)
  BY <1>3, LastExists
<1>8. LastOr(t, rows, status) = LastOr(t, rest, first)
  BY <1>5, <1>6, <1>7
<1>9. QED
  BY <1>1, <1>2, <1>8

\* To write some of the rows and then all of them is to write them all.
LEMMA LastOrPrefix ==
  ASSUME NEW S, NEW rows \in Seq(S), NEW n \in 0 .. Len(rows), NEW t, NEW status
  PROVE  LastOr(t, rows, LastOr(t, SubSeq(rows, 1, n), status)) = LastOr(t, rows, status)
<1>1. PICK part : part = SubSeq(rows, 1, n)
  OBVIOUS
<1>2. /\ part \in Seq(S)
      /\ \A i \in DOMAIN part : i \in DOMAIN rows /\ part[i] = rows[i]
  BY <1>1
<1>3. CASE NoRow(t, rows)
  <2>1. NoRow(t, part)
    BY <1>2, <1>3 DEF NoRow
  <2>2. LastOr(t, part, status) = status
    BY <2>1, LastOrNone
  <2>3. QED
    BY <1>1, <2>2
<1>4. ASSUME NEW i \in DOMAIN rows, LastRow(i, t, rows)
      PROVE  LastOr(t, rows, LastOr(t, part, status)) = LastOr(t, rows, status)
  <2>1. LastOr(t, rows, status) = rows[i].status
    BY <1>4, LastOrAt
  <2>2. LastOr(t, rows, LastOr(t, part, status)) = rows[i].status
    BY <1>4, LastOrAt
  <2>3. QED
    BY <2>1, <2>2
<1>5. QED
  BY <1>1, <1>3, <1>4, LastExists

LEMMA LastOrType ==
  ASSUME NEW rows \in Seq(Row), NEW t, NEW status \in Status \union {None}
  PROVE  LastOr(t, rows, status) \in Status \union {None}
<1>1. ASSUME NEW i \in DOMAIN rows, LastRow(i, t, rows)
      PROVE  LastOr(t, rows, status) \in Status \union {None}
  <2>1. LastOr(t, rows, status) = rows[i].status
    BY <1>1, LastOrAt
  <2>2. rows[i] \in Row
    OBVIOUS
  <2>3. QED
    BY <2>1, <2>2 DEF Row
<1>2. QED
  BY <1>1, LastExists, LastOrNone

LEMMA ApplyType ==
  ASSUME NEW rows \in Seq(Row), NEW table \in Table
  PROVE  /\ Apply(rows, table) \in Table
         /\ \A t \in Trades : Apply(rows, table)[t] = LastOr(t, rows, table[t])
BY LastOrType DEF Apply, Table

LEMMA TradeItem ==
  ASSUME NEW t \in Trades, NEW status \in Status
  PROVE  \E item \in Item :
           /\ item = [kind |-> "trade", trade |-> t, status |-> status]
           /\ item.kind = "trade" /\ item.trade = t /\ item.status = status
<1>1. [kind |-> "trade", trade |-> t, status |-> status] \in Item
  BY DEF Item
<1>2. QED
  BY <1>1

LEMMA Items ==
  /\ Row \subseteq Item
  /\ \A kind \in {"quote", "scalpstat", "stop"} : Plain(kind) \in Item /\ Plain(kind).kind = kind
  /\ \A item \in Item :
       /\ item.kind = "trade" => item \in Row
       /\ item.kind # "trade" => item.trade \notin Trades
BY StorageAssumption DEF Item, Row, Plain

-----------------------------------------------------------------------------
(* The invariant is inductive                                              *)

LEMMA InitHolds == Init => IInv
<1> SUFFICES ASSUME Init PROVE IInv
  OBVIOUS
<1> USE DEF Init
<1>1. TypeOK
  BY DEF TypeOK, Table, Status
<1>2. StopIsLast /\ StoppedIsDone /\ CloseKeepsAll
  BY DEF StopIsLast, StoppedIsDone, CloseKeepsAll
<1>3. PipelineKeepsLast
  <2>1. \A t, status : LastOr(t, <<>>, status) = status
    BY LastOrNone DEF NoRow
  <2>2. QED
    BY <2>1 DEF PipelineKeepsLast, Latest
<1>4. QED
  BY <1>1, <1>2, <1>3 DEF IInv

LEMMA TypeStays == TypeOK /\ [Next]_vars => TypeOK'
<1> SUFFICES ASSUME TypeOK, [Next]_vars PROVE TypeOK'
  OBVIOUS
<1> USE DEF TypeOK
<1>1. ASSUME NEW t \in Trades, NEW status \in Status, SaveTrade(t, status) PROVE TypeOK'
  <2>1. [kind |-> "trade", trade |-> t, status |-> status] \in Item
    BY DEF Item
  <2>2. queue' \in Seq(Item)
    BY <1>1, <2>1 DEF SaveTrade, Put
  <2>3. sent' \in Table
    BY <1>1 DEF SaveTrade, Table
  <2>4. QED
    BY <1>1, <2>2, <2>3 DEF SaveTrade
<1>2. ASSUME NEW kind \in {"quote", "scalpstat"}, SaveOther(kind) PROVE TypeOK'
  <2>1. queue' \in Seq(Item)
    BY <1>2, Items DEF SaveOther, Put
  <2>2. QED
    BY <1>2, <2>1 DEF SaveOther
<1>3. CASE BeginClose
  BY <1>3 DEF BeginClose
<1>4. CASE PutStop
  <2>1. queue' \in Seq(Item)
    BY <1>4, Items DEF PutStop
  <2>2. QED
    BY <1>4, <2>1 DEF PutStop
<1>5. CASE Join
  BY <1>5 DEF Join
<1>6. CASE Crash
  BY <1>6 DEF Crash
<1>7. ASSUME NEW due \in BOOLEAN, Get(due) PROVE TypeOK'
  <2>1. queue' \in Seq(Item) /\ Head(queue) \in Item
    BY <1>7 DEF Get
  <2>2. trades' \in Seq(Row)
    BY SMTT(30), <1>7, <2>1, Items DEF Get
  <2>3. QED
    BY <1>7, <2>1, <2>2 DEF Get
<1>8. CASE GetNothing
  BY <1>8 DEF GetNothing
<1>9. CASE Flush
  BY <1>9, ApplyType DEF Flush, AfterFlush
<1>10. CASE FlushFails
  <2>1. \A n \in 0 .. Len(trades) - 1 : SubSeq(trades, 1, n) \in Seq(Row)
    OBVIOUS
  <2>2. trades' \in Seq(Row)
    <3>1. trades' = trades \/ trades' = <<>>
      BY <1>10 DEF FlushFails
    <3>2. <<>> \in Seq(Row) /\ trades \in Seq(Row)
      OBVIOUS
    <3>3. QED
      BY ONLY <3>1, <3>2
  <2>3. txn' = txn \/ txn' = Apply(trades, txn)
          \/ \E n \in 0 .. Len(trades) - 1 : txn' = Apply(SubSeq(trades, 1, n), txn)
    BY <1>10 DEF FlushFails
  <2>4. txn' \in Table
    BY <2>1, <2>3, ApplyType
  <2>5. QED
    BY <1>10, <2>2, <2>4 DEF FlushFails, AfterFlush
<1>11. CASE Retention
  BY <1>11 DEF Retention
<1>12. CASE UNCHANGED vars
  BY <1>12 DEF vars
<1>13. QED
  BY <1>1, <1>2, <1>3, <1>4, <1>5, <1>6, <1>7, <1>8, <1>9, <1>10, <1>11, <1>12 DEF Next, Due

LEMMA StopStays == IInv /\ [Next]_vars => StopIsLast' /\ StoppedIsDone'
<1> SUFFICES ASSUME IInv, [Next]_vars PROVE StopIsLast' /\ StoppedIsDone'
  OBVIOUS
<1> USE DEF IInv, TypeOK
<1>1. ASSUME NEW t \in Trades, NEW status \in Status, SaveTrade(t, status)
      PROVE  StopIsLast' /\ StoppedIsDone'
  <2>1. PICK item \in Item : /\ item = [kind |-> "trade", trade |-> t, status |-> status]
                             /\ item.kind = "trade"
    BY TradeItem
  <2>2. queue' = queue \/ queue' = Append(queue, item)
    BY <1>1, <2>1 DEF SaveTrade, Put
  <2>3. owner = "running" /\ owner' = "running" /\ writer' = writer
    BY <1>1 DEF SaveTrade
  <2>4. \A i \in DOMAIN queue' : queue'[i].kind # "stop"
    BY <2>1, <2>2, <2>3 DEF StopIsLast
  <2>5. StopIsLast'
    BY <2>3, <2>4 DEF StopIsLast
  <2>6. QED
    BY <1>1, <2>5 DEF SaveTrade, StoppedIsDone, StopIsLast, Alive
<1>2. ASSUME NEW kind \in {"quote", "scalpstat"}, SaveOther(kind)
      PROVE  StopIsLast' /\ StoppedIsDone'
  <2>1. Plain(kind).kind # "stop"
    BY DEF Plain
  <2>2. queue' = queue \/ queue' = Append(queue, Plain(kind))
    BY <1>2 DEF SaveOther, Put
  <2>3. StopIsLast'
    BY SMTT(30), <1>2, <2>1, <2>2 DEF SaveOther, StopIsLast
  <2>4. QED
    BY <1>2, <2>3 DEF SaveOther, StoppedIsDone, StopIsLast, Alive
<1>3. CASE BeginClose
  BY <1>3 DEF BeginClose, StopIsLast, StoppedIsDone, Alive
<1>4. CASE PutStop
  <2>1. StopIsLast'
    BY <1>4 DEF PutStop, StopIsLast
  <2>2. QED
    BY <1>4, <2>1 DEF PutStop, StoppedIsDone, StopIsLast, Alive
<1>5. CASE Join
  BY <1>5 DEF Join, StopIsLast, StoppedIsDone, Alive
<1>6. CASE Crash
  BY <1>6 DEF Crash, StopIsLast, StoppedIsDone, Alive
<1>7. ASSUME NEW due \in BOOLEAN, Get(due) PROVE StopIsLast' /\ StoppedIsDone'
  <2>1. /\ queue' = Tail(queue) /\ queue # <<>> /\ Len(queue) \in Nat \ {0}
        /\ Len(queue') = Len(queue) - 1 /\ DOMAIN queue' = 1 .. Len(queue) - 1
        /\ DOMAIN queue = 1 .. Len(queue) /\ queue[1] = Head(queue)
        /\ \A i \in DOMAIN queue' : queue'[i] = queue[i + 1]
    BY <1>7 DEF Get
  <2>2. \A i \in DOMAIN queue' : i + 1 \in DOMAIN queue /\ queue'[i] = queue[i + 1]
    BY <2>1
  <2>3. \A i \in DOMAIN queue' : queue'[i].kind = "stop" => i = Len(queue')
    <3>1. SUFFICES ASSUME NEW i \in DOMAIN queue', queue'[i].kind = "stop"
                   PROVE  i = Len(queue')
      OBVIOUS
    <3>2. i + 1 = Len(queue)
      BY <2>2, <3>1 DEF StopIsLast
    <3>3. QED
      BY <2>1, <3>2
  <2>4. writer' \in {"last_flush", "stopped"} => Head(queue).kind = "stop"
    BY <1>7 DEF Get
  <2>5. Head(queue).kind = "stop" => queue' = <<>>
    <3>1. SUFFICES ASSUME Head(queue).kind = "stop" PROVE queue' = <<>>
      OBVIOUS
    <3>2. Len(queue) = 1
      BY <2>1, <3>1 DEF StopIsLast
    <3>3. QED
      BY <2>1, <3>2
  <2>6. owner' \in {"running", "closing"} =>
          /\ writer' \notin {"last_flush", "stopped"}
          /\ \A i \in DOMAIN queue' : queue'[i].kind # "stop"
    BY <1>7, <2>1, <2>2, <2>4 DEF Get, StopIsLast
  <2>7. writer' # "stopped"
    BY <1>7 DEF Get
  <2>8. QED
    BY <2>3, <2>4, <2>5, <2>6, <2>7 DEF StopIsLast, StoppedIsDone
<1>8. CASE GetNothing
  BY <1>8 DEF GetNothing, StopIsLast, StoppedIsDone, Alive
<1>9. CASE Flush
  BY <1>9 DEF Flush, Flushing, AfterFlush, StopIsLast, StoppedIsDone, Alive
<1>10. CASE FlushFails
  BY <1>10 DEF FlushFails, Flushing, AfterFlush, StopIsLast, StoppedIsDone, Alive
<1>11. CASE Retention
  BY <1>11 DEF Retention, StopIsLast, StoppedIsDone, Alive
<1>12. CASE UNCHANGED vars
  BY <1>12 DEF vars, StopIsLast, StoppedIsDone, Alive
<1>13. QED
  BY <1>1, <1>2, <1>3, <1>4, <1>5, <1>6, <1>7, <1>8, <1>9, <1>10, <1>11, <1>12 DEF Next, Due

LEMMA PipelineStays == IInv /\ [Next]_vars => PipelineKeepsLast'
<1> SUFFICES ASSUME IInv, [Next]_vars, Alive' PROVE \A t \in Trades \ dropped' : Latest(t)' = sent'[t]
  BY DEF PipelineKeepsLast
<1> USE DEF IInv, TypeOK
<1>1. ASSUME NEW t \in Trades, NEW status \in Status, SaveTrade(t, status), NEW u \in Trades \ dropped'
      PROVE  Latest(u)' = sent'[u]
  <2>1. PICK item \in Item : /\ item = [kind |-> "trade", trade |-> t, status |-> status]
                             /\ item.trade = t /\ item.status = status
    BY TradeItem
  <2>2. Alive /\ UNCHANGED <<trades, txn>>
    BY <1>1 DEF SaveTrade, Alive
  <2>3. sent'[u] = IF u = t THEN status ELSE sent[u]
    BY <1>1 DEF SaveTrade, Table
  <2>4. CASE Full
    BY <1>1, <2>2, <2>3, <2>4 DEF SaveTrade, Put, PipelineKeepsLast, Latest
  <2>5. CASE ~Full
    <3>1. queue' = Append(queue, item)
      BY <1>1, <2>1, <2>5 DEF SaveTrade, Put
    <3>2. Latest(u)' = IF u = t THEN status ELSE Latest(u)
      BY <2>1, <2>2, <3>1, LastOrAppend DEF Latest
    <3>3. u = t \/ u \notin dropped
      BY <1>1, <2>5 DEF SaveTrade
    <3>4. QED
      BY <2>2, <2>3, <3>2, <3>3 DEF PipelineKeepsLast
  <2>6. QED
    BY <2>4, <2>5
<1>2. ASSUME NEW kind \in {"quote", "scalpstat", "stop"}, queue' = Append(queue, Plain(kind)),
             Alive, UNCHANGED <<sent, dropped, trades, txn>>, NEW u \in Trades \ dropped
      PROVE  Latest(u)' = sent'[u]
  <2>1. Plain(kind) \in Item /\ Plain(kind).trade # u
    BY StorageAssumption, Items DEF Plain
  <2>2. Latest(u)' = Latest(u)
    BY <1>2, <2>1, LastOrAppend DEF Latest
  <2>3. QED
    BY <1>2, <2>2 DEF PipelineKeepsLast
<1>3. ASSUME Alive, UNCHANGED <<sent, dropped, queue, trades, txn>>
      PROVE  \A t \in Trades \ dropped' : Latest(t)' = sent'[t]
  BY <1>3 DEF PipelineKeepsLast, Latest
<1>4. ASSUME NEW kind \in {"quote", "scalpstat"}, SaveOther(kind)
      PROVE  \A t \in Trades \ dropped' : Latest(t)' = sent'[t]
  <2>1. Alive /\ UNCHANGED <<sent, dropped, trades, txn>>
    BY <1>4 DEF SaveOther, Alive
  <2>2. queue' = queue \/ queue' = Append(queue, Plain(kind))
    BY <1>4 DEF SaveOther, Put
  <2>3. QED
    BY <1>2, <1>3, <2>1, <2>2
<1>5. CASE BeginClose
  BY <1>3, <1>5 DEF BeginClose, Alive
<1>6. CASE PutStop
  <2>1. /\ queue' = Append(queue, Plain("stop"))
        /\ Alive /\ UNCHANGED <<sent, dropped, trades, txn>>
    BY <1>6 DEF PutStop, Alive
  <2>2. QED
    BY <1>2, <2>1
<1>7. ~Join /\ ~Crash
  BY DEF Join, Crash, Alive
<1>8. ASSUME NEW due \in BOOLEAN, Get(due), NEW u \in Trades \ dropped'
      PROVE  Latest(u)' = sent'[u]
  <2>1. /\ Alive /\ queue # <<>> /\ queue' = Tail(queue) /\ Head(queue) \in Item
        /\ UNCHANGED <<sent, dropped, txn>>
    BY <1>8 DEF Get
  <2>2. PICK before : before = LastOr(u, trades, txn[u])
    OBVIOUS
  <2>3. Latest(u) = LastOr(u, Tail(queue), IF Head(queue).trade = u THEN Head(queue).status ELSE before)
    BY <2>1, <2>2, LastOrTail DEF Latest
  <2>4. CASE Head(queue).kind = "trade"
    <3>1. Head(queue) \in Row /\ trades' = Append(trades, Head(queue))
      BY <1>8, <2>1, <2>4, Items DEF Get
    <3>2. LastOr(u, trades', txn'[u]) = IF Head(queue).trade = u THEN Head(queue).status ELSE before
      BY <2>1, <2>2, <3>1, LastOrAppend
    <3>3. QED
      BY <1>8, <2>1, <2>3, <3>2 DEF PipelineKeepsLast, Latest
  <2>5. CASE Head(queue).kind # "trade"
    <3>1. Head(queue).trade # u /\ trades' = trades
      BY <1>8, <2>1, <2>5, Items DEF Get
    <3>2. QED
      BY <1>8, <2>1, <2>2, <2>3, <3>1 DEF PipelineKeepsLast, Latest
  <2>6. QED
    BY <2>4, <2>5
<1>9. CASE GetNothing
  BY <1>3, <1>9 DEF GetNothing, Alive
<1>10. ASSUME Alive, UNCHANGED <<sent, dropped, queue>>,
              \A t \in Trades : LastOr(t, trades', txn'[t]) = LastOr(t, trades, txn[t])
       PROVE  \A t \in Trades \ dropped' : Latest(t)' = sent'[t]
  BY <1>10 DEF PipelineKeepsLast, Latest
<1>11. ASSUME trades' = <<>>, txn' = Apply(trades, txn)
       PROVE  \A t \in Trades : LastOr(t, trades', txn'[t]) = LastOr(t, trades, txn[t])
  BY <1>11, ApplyType, LastOrNone DEF NoRow
<1>12. CASE Flush
  BY <1>10, <1>11, <1>12 DEF Flush, Flushing
<1>13. CASE FlushFails
  <2>1. Alive /\ UNCHANGED <<sent, dropped, queue>>
    BY <1>13 DEF FlushFails, Flushing
  <2>2. CASE trades' = trades /\ txn' = txn
    BY <1>3, <2>1, <2>2
  <2>3. ASSUME NEW n \in 0 .. Len(trades) - 1, trades' = trades, txn' = Apply(SubSeq(trades, 1, n), txn)
        PROVE  \A t \in Trades : LastOr(t, trades', txn'[t]) = LastOr(t, trades, txn[t])
    <3>1. SubSeq(trades, 1, n) \in Seq(Row) /\ n \in 0 .. Len(trades)
      OBVIOUS
    <3>2. \A t \in Trades : txn'[t] = LastOr(t, SubSeq(trades, 1, n), txn[t])
      BY <2>3, <3>1, ApplyType
    <3>3. QED
      BY <2>3, <3>1, <3>2, LastOrPrefix
  <2>4. \/ trades' = trades /\ txn' = txn
        \/ \E n \in 0 .. Len(trades) - 1 : trades' = trades /\ txn' = Apply(SubSeq(trades, 1, n), txn)
        \/ trades' = <<>> /\ txn' = Apply(trades, txn)
    BY <1>13 DEF FlushFails
  <2>5. QED
    BY <1>10, <1>11, <2>1, <2>2, <2>3, <2>4
<1>14. CASE Retention
  BY <1>3, <1>14 DEF Retention
<1>15. CASE UNCHANGED vars
  BY <1>3, <1>15 DEF vars, Alive
<1>16. QED
  BY <1>1, <1>4, <1>5, <1>6, <1>7, <1>8, <1>9, <1>12, <1>13, <1>14, <1>15 DEF Next, Due

LEMMA CloseStays == IInv /\ [Next]_vars => CloseKeepsAll'
<1> SUFFICES ASSUME IInv, [Next]_vars, owner' = "closed", writer' = "stopped"
             PROVE  \A t \in Trades \ dropped' : db'[t] = sent'[t]
  BY DEF CloseKeepsAll
<1> USE DEF IInv, TypeOK
<1>1. CASE Join
  <2>1. Alive /\ writer = "stopped" /\ UNCHANGED <<sent, dropped, db>>
    BY <1>1 DEF Join, Alive
  <2>2. queue = <<>> /\ trades = <<>> /\ txn = db
    BY <2>1 DEF StopIsLast, StoppedIsDone
  <2>3. \A t \in Trades : Latest(t) = txn[t]
    BY <2>2, LastOrNone DEF Latest, NoRow
  <2>4. QED
    BY <2>1, <2>2, <2>3 DEF PipelineKeepsLast
<1>2. CASE ~Join
  <2>1. owner = "closed" /\ UNCHANGED vars
    BY <1>2 DEF Next, Due, SaveTrade, SaveOther, BeginClose, PutStop, Crash, Get, GetNothing,
                Flush, FlushFails, Flushing, Retention, Alive, vars
  <2>2. QED
    BY <2>1 DEF CloseKeepsAll, vars
<1>3. QED
  BY <1>1, <1>2

THEOREM Inductive == Spec => []IInv
<1>1. IInv /\ [Next]_vars => IInv'
  BY TypeStays, StopStays, PipelineStays, CloseStays DEF IInv
<1>2. QED
  BY InitHolds, <1>1, PTL DEF Spec

\* Whatever statements fail in a flush, the last record of a trade on its way
\* through the queue, the buffer and the open transaction (_writer and _flush)
\* is the last one the emulator saved, unless the full queue dropped it.
THEOREM WriterLosesNothing == Spec => []PipelineKeepsLast
<1>1. IInv => PipelineKeepsLast
  BY DEF IInv
<1>2. QED
  BY Inductive, <1>1, PTL

\* When close() returns and the writer has stopped, the last record of every
\* trade that found room in the queue is committed.
THEOREM CloseCommitsAll == Spec => []CloseKeepsAll
<1>1. IInv => CloseKeepsAll
  BY DEF IInv
<1>2. QED
  BY Inductive, <1>1, PTL
=============================================================================
