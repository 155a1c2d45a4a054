------------------------ MODULE RecalibrationProofs ------------------------
(***************************************************************************)
(* A registry that does not parse takes two pipelines at a time, and the   *)
(* strategy knows when it does not have the newest; a candle file gets     *)
(* holes, or stuck, for the reasons given only; and the service keeps its  *)
(* schedule.  All of it for all pairs, calendars, durations and numbers of *)
(* runs, failures and restarts.                                            *)
(***************************************************************************)
EXTENDS Recalibration, WellFoundedInduction, TLAPS

Holding == {"write", "replace"}

RunType ==
  /\ DOMAIN run = Runners
  /\ \A r \in Runners :
       run[r] \in [at : {"idle", "open"} \union Holding, pairs : SUBSET Pairs,
                   fd : Inodes \union {NoInode}, began : Int]

FilesType ==
  /\ temp \in Inodes \union {NoInode} /\ active \in Inodes \union {NoInode}
  /\ data \in [Inodes -> [torn : BOOLEAN, pairs : SUBSET Pairs]]
  /\ overlap \in BOOLEAN

\* The two names never stand for one inode.
NamesDiffer == temp # NoInode => temp # active

\* While no two pipelines have met, one holds the temporary file at most, by
\* its name, nobody else has written to it, and it is whole once it is written.
OneWriter ==
  /\ \A r, q \in Runners : run[r].at \in Holding /\ run[q].at \in Holding => r = q
  /\ \A r \in Runners : run[r].at \in Holding => run[r].fd = temp /\ temp # NoInode
  /\ \A r \in Runners : run[r].at = "write" => r \notin touched
  /\ \A r \in Runners : run[r].at = "replace" => ~data[temp].torn

RegistryIsWhole == active # NoInode => ~data[active].torn

RegistryInv ==
  /\ RunType /\ FilesType
  /\ ~overlap => NamesDiffer /\ OneWriter /\ RegistryIsWhole

-----------------------------------------------------------------------------
LEMMA InodesAreNotNone == NoInode \notin Inodes
  BY DEF NoInode, Inodes

LEMMA IdleType ==
  Idle \in [at : {"idle", "open"} \union Holding, pairs : SUBSET Pairs,
            fd : Inodes \union {NoInode}, began : Int]
  BY DEF Idle

\* A pipeline that begins holds no file yet, and one that ends holds none.
LEMMA EmptyHanded ==
  ASSUME RegistryInv, NEW r \in Runners, NEW s,
         s \in [at : {"idle", "open"}, pairs : SUBSET Pairs, fd : Inodes \union {NoInode}, began : Int],
         run' = [run EXCEPT ![r] = s],
         touched' \subseteq touched,
         UNCHANGED <<temp, active, data, overlap>>
  PROVE  RegistryInv'
<1>1. RunType'
  BY DEF RegistryInv, RunType
<1>2. FilesType'
  BY DEF RegistryInv, FilesType
<1>3. \A q \in Runners : run'[q].at \in Holding => run'[q] = run[q]
  BY DEF RegistryInv, RunType, Holding
<1>4. ASSUME ~overlap' PROVE NamesDiffer' /\ OneWriter' /\ RegistryIsWhole'
  <2>1. NamesDiffer /\ OneWriter /\ RegistryIsWhole
    BY <1>4 DEF RegistryInv
  <2>2. NamesDiffer' /\ RegistryIsWhole'
    BY <2>1 DEF NamesDiffer, RegistryIsWhole
  <2>3. OneWriter'
    BY <2>1, <1>3 DEF OneWriter, Holding
  <2>4. QED
    BY <2>2, <2>3
<1>5. QED
  BY <1>1, <1>2, <1>4 DEF RegistryInv

LEMMA BeginStep ==
  ASSUME RegistryInv, clock \in Int, NEW r \in Runners, Begin(r), UNCHANGED registry
  PROVE  RegistryInv'
<1>1. Screened \subseteq Pairs
  BY DEF Screened
<1>2. PICK ps \in SUBSET Screened :
        run' = [run EXCEPT ![r] = [at |-> "open", pairs |-> ps, fd |-> NoInode, began |-> clock]]
  BY DEF Begin
<1>3. QED
  BY <1>1, <1>2, EmptyHanded DEF registry

LEMMA FailedStep ==
  ASSUME RegistryInv, NEW r \in Runners, Failed(r)
  PROVE  RegistryInv'
<1>1. Idle \in [at : {"idle", "open"}, pairs : SUBSET Pairs, fd : Inodes \union {NoInode}, began : Int]
  BY DEF Idle
<1>2. QED
  BY <1>1, EmptyHanded DEF Failed

\* The file a pipeline opens is not the registry.
LEMMA OpenTempStep ==
  ASSUME RegistryInv, NEW r \in Runners, OpenTemp(r)
  PROVE  RegistryInv'
<1>1. PICK i \in Inodes :
        /\ Opens(i) /\ temp' = i
        /\ run' = [run EXCEPT ![r].at = "write", ![r].fd = i]
        /\ data' = [data EXCEPT ![i] = Garbage]
        /\ overlap' = (overlap \/ \E q \in Runners : run[q].at \in {"write", "replace"})
  BY DEF OpenTemp
<1>2. active' = active /\ touched' = touched \ {r}
  BY DEF OpenTemp
<1>3. /\ DOMAIN run' = Runners
      /\ run'[r] \in [at : {"idle", "open"} \union Holding, pairs : SUBSET Pairs,
                      fd : Inodes \union {NoInode}, began : Int]
      /\ run'[r].at = "write" /\ run'[r].fd = i
      /\ \A q \in Runners \ {r} : run'[q] = run[q]
  BY <1>1 DEF RegistryInv, RunType, Holding
<1>4. RunType'
  BY <1>3 DEF RegistryInv, RunType
<1>5. FilesType'
  BY <1>1, <1>2 DEF RegistryInv, FilesType, Garbage
<1>6. ASSUME ~overlap' PROVE NamesDiffer' /\ OneWriter' /\ RegistryIsWhole'
  <2>1. NamesDiffer /\ OneWriter /\ RegistryIsWhole
    BY <1>1, <1>6 DEF RegistryInv
  <2>2. \A q \in Runners : run[q].at \notin Holding
    BY <1>1, <1>6 DEF Holding
  <2>3. i # active
    BY <1>1, <2>1 DEF Opens, Free, NamesDiffer
  <2>4. NamesDiffer'
    BY <1>1, <1>2, <2>3 DEF NamesDiffer
  <2>5. OneWriter'
    BY <1>1, <1>2, <1>3, <2>2, InodesAreNotNone DEF OneWriter, Holding
  <2>6. RegistryIsWhole'
    BY <1>1, <1>2, <2>1, <2>3 DEF RegistryIsWhole, RegistryInv, FilesType
  <2>7. QED
    BY <2>4, <2>5, <2>6
<1>7. QED
  BY <1>4, <1>5, <1>6 DEF RegistryInv

\* What a lone pipeline writes is whole, and not in the registry yet.
LEMMA WriteStep ==
  ASSUME RegistryInv, NEW r \in Runners, Write(r)
  PROVE  RegistryInv'
<1> DEFINE i == run[r].fd
<1>1. PICK d \in {Whole(run[r].pairs)} \union (IF r \in touched THEN {Garbage} ELSE {}) :
        data' = [data EXCEPT ![i] = d]
  BY DEF Write
<1>2. /\ run[r].at = "write"
      /\ touched' = touched \union {q \in Runners \ {r} : run[q].at = "write" /\ run[q].fd = i}
      /\ run' = [run EXCEPT ![r].at = "replace", ![r].pairs = {}]
      /\ temp' = temp /\ active' = active /\ overlap' = overlap
  BY DEF Write
<1>3. /\ DOMAIN run' = Runners
      /\ run'[r] \in [at : {"idle", "open"} \union Holding, pairs : SUBSET Pairs,
                      fd : Inodes \union {NoInode}, began : Int]
      /\ run'[r].at = "replace" /\ run'[r].fd = i
      /\ \A q \in Runners \ {r} : run'[q] = run[q]
  BY <1>2 DEF RegistryInv, RunType, Holding
<1>4. RunType'
  BY <1>3 DEF RegistryInv, RunType
<1>5. d \in [torn : BOOLEAN, pairs : SUBSET Pairs]
  <2>1. run[r].pairs \in SUBSET Pairs
    BY DEF RegistryInv, RunType
  <2>2. /\ Whole(run[r].pairs) \in [torn : BOOLEAN, pairs : SUBSET Pairs]
        /\ Garbage \in [torn : BOOLEAN, pairs : SUBSET Pairs]
    BY <2>1 DEF Whole, Garbage
  <2>3. QED
    BY <1>1, <2>2
<1>6. FilesType'
  BY <1>1, <1>2, <1>5 DEF RegistryInv, FilesType
<1>7. ASSUME ~overlap' PROVE NamesDiffer' /\ OneWriter' /\ RegistryIsWhole'
  <2>1. NamesDiffer /\ OneWriter /\ RegistryIsWhole
    BY <1>2, <1>7 DEF RegistryInv
  <2>2. i = temp /\ temp # NoInode /\ temp \in Inodes /\ temp # active
    BY <1>2, <2>1 DEF OneWriter, Holding, NamesDiffer, RegistryInv, FilesType
  <2>3. ~d.torn
    BY <1>2, <2>1 DEF OneWriter, Whole
  <2>4. data'[temp] = d /\ (active # NoInode => data'[active] = data[active])
    BY <1>1, <2>2 DEF RegistryInv, FilesType
  <2>5. \A q \in Runners \ {r} : run[q].at \notin Holding
    BY <1>2, <2>1 DEF OneWriter, Holding
  <2>6. OneWriter'
    BY <1>2, <1>3, <2>2, <2>3, <2>4, <2>5 DEF OneWriter, Holding
  <2>7. QED
    BY <1>2, <2>1, <2>4, <2>6 DEF NamesDiffer, RegistryIsWhole
<1>8. QED
  BY <1>4, <1>6, <1>7 DEF RegistryInv

\* A lone pipeline renames the file it has written.
LEMMA ReturnedStep ==
  ASSUME RegistryInv, NEW r \in Runners, Returned(r)
  PROVE  RegistryInv'
<1>1. /\ run[r].at = "replace" /\ active' = Replaced /\ temp' = NoInode
      /\ run' = [run EXCEPT ![r] = Idle]
      /\ data' = [j \in Inodes |-> IF Gone(r, j) THEN Garbage ELSE data[j]]
      /\ touched' = touched /\ overlap' = overlap
  BY DEF Returned
<1>2. /\ DOMAIN run' = Runners /\ run'[r] = Idle /\ Idle.at = "idle"
      /\ \A q \in Runners \ {r} : run'[q] = run[q]
  BY <1>1 DEF RegistryInv, RunType, Idle
<1>3. RunType'
  BY <1>2, IdleType DEF RegistryInv, RunType
<1>4. FilesType'
  BY <1>1 DEF RegistryInv, FilesType, Replaced, Garbage
<1>5. ASSUME ~overlap' PROVE NamesDiffer' /\ OneWriter' /\ RegistryIsWhole'
  <2>1. NamesDiffer /\ OneWriter /\ RegistryIsWhole
    BY <1>1, <1>5 DEF RegistryInv
  <2>2. temp # NoInode /\ ~data[temp].torn /\ Replaced = temp /\ temp \in Inodes
    BY <1>1, <2>1 DEF OneWriter, Holding, Replaced, RegistryInv, FilesType
  <2>3. data'[temp] = data[temp]
    BY <1>1, <2>2 DEF Gone
  <2>4. \A q \in Runners : run'[q].at \notin Holding
    BY <1>1, <1>2, <2>1 DEF OneWriter, Holding
  <2>5. QED
    BY <1>1, <2>2, <2>3, <2>4 DEF NamesDiffer, OneWriter, RegistryIsWhole, Holding
<1>6. QED
  BY <1>3, <1>4, <1>5 DEF RegistryInv

-----------------------------------------------------------------------------
IInv == RegistryInv /\ clock \in Int

LEMMA RegistryInit == Init => IInv
<1> SUFFICES ASSUME Init PROVE IInv
  OBVIOUS
<1>1. RunType
  BY IdleType DEF Init, RunType
<1>2. FilesType
  BY DEF Init, FilesType, Garbage
<1>3. NamesDiffer /\ OneWriter /\ RegistryIsWhole
  BY DEF Init, NamesDiffer, OneWriter, RegistryIsWhole, Holding, Idle
<1>4. QED
  BY <1>1, <1>2, <1>3 DEF Init, IInv, RegistryInv

LEMMA RegistryUnchanged ==
  ASSUME RegistryInv, UNCHANGED <<run, registry>>
  PROVE  RegistryInv'
  BY DEF registry, RegistryInv, RunType, FilesType, NamesDiffer, OneWriter, RegistryIsWhole

LEMMA RegistryStep == IInv /\ [Next]_vars => IInv'
<1> SUFFICES ASSUME IInv, [Next]_vars PROVE IInv'
  OBVIOUS
<1>0. RegistryInv /\ clock \in Int /\ "service" \in Runners /\ "hand" \in Runners
  BY DEF IInv, Runners
<1>1. CASE Wake
  BY <1>0, <1>1, BeginStep DEF Wake, IInv
<1>2. CASE Finish
  BY <1>0, <1>2, ReturnedStep, FailedStep DEF Finish, IInv
<1>3. CASE SleepAgain
  BY <1>0, <1>3, RegistryUnchanged DEF SleepAgain, IInv
<1>4. CASE BeginByHand
  BY <1>0, <1>4, BeginStep DEF BeginByHand, IInv
<1>5. CASE FinishByHand
  BY <1>0, <1>5, ReturnedStep, FailedStep DEF FinishByHand, IInv
<1>6. CASE \E r \in Runners : OpenTemp(r) \/ Write(r)
  <2>1. PICK r \in Runners : OpenTemp(r) \/ Write(r)
    BY <1>6
  <2>2. clock' = clock
    BY <2>1 DEF OpenTemp, Write
  <2>3. QED
    BY <1>0, <2>1, <2>2, OpenTempStep, WriteStep DEF IInv
<1>7. CASE Stat \/ Load \/ Maintain
  BY <1>0, <1>7, RegistryUnchanged DEF Stat, Load, Maintain, IInv
<1>8. CASE Restart
  <2>1. /\ run' = [run EXCEPT !["service"] = Idle] /\ touched' \subseteq touched
        /\ UNCHANGED <<temp, active, data, overlap>> /\ clock' = clock
    BY <1>8 DEF Restart
  <2>2. Idle \in [at : {"idle", "open"}, pairs : SUBSET Pairs, fd : Inodes \union {NoInode}, began : Int]
    BY DEF Idle
  <2>3. QED
    BY <1>0, <2>1, <2>2, EmptyHanded DEF IInv
<1>9. CASE Tick
  BY <1>0, <1>9, RegistryUnchanged DEF Tick, IInv
<1>10. CASE UNCHANGED vars
  BY <1>0, <1>10, RegistryUnchanged DEF vars, IInv
<1>11. QED
  BY <1>1, <1>2, <1>3, <1>4, <1>5, <1>6, <1>7, <1>8, <1>9, <1>10 DEF Next

\* The registry parses unless two pipelines have shared the temporary file
\* (pipeline.py, 154-160), whatever fails and whenever the process is killed.
THEOREM RegistryStaysWhole == Spec => []TornByTwoWriters
<1>1. Spec => []IInv
  BY RegistryInit, RegistryStep, PTL DEF Spec
<1>2. IInv => TornByTwoWriters
  BY DEF IInv, RegistryInv, RegistryIsWhole, TornByTwoWriters
<1>3. QED
  BY <1>1, <1>2, PTL
-----------------------------------------------------------------------------
\* The stamps: given out once each, they rise.
StampType ==
  /\ writes \in Nat /\ known \in Nat /\ seen \in Nat
  /\ mtime \in [Inodes -> Nat]
  /\ known <= writes /\ seen <= writes /\ \A i \in Inodes : mtime[i] <= writes

\* The temporary file's stamp is new to the strategy and not the registry's, so
\* that the strategy does not take it for the one it has read once it is renamed.
TempIsNew ==
  temp # NoInode =>
    /\ mtime[temp] \notin {0, known, seen}
    /\ active # NoInode => mtime[temp] # mtime[active] /\ temp # active

ActiveIsStamped ==
  /\ active = NoInode => known = 0 /\ seen = 0
  /\ active # NoInode => mtime[active] # 0

HoldersHold == \A r \in Runners : run[r].at \in Holding => run[r].fd \in Inodes

HasLatest ==
  active # NoInode /\ known = mtime[active] => pairs = data[active].pairs /\ ~data[active].torn

NothingNewerKnown ==
  ~overlap =>
    /\ active # NoInode => known <= mtime[active] /\ seen <= mtime[active]
    /\ \A r \in Runners : run[r].at \in Holding =>
         /\ known < mtime[temp] /\ seen < mtime[temp]
         /\ active # NoInode => mtime[active] < mtime[temp]

StampInv ==
  StampType /\ TempIsNew /\ ActiveIsStamped /\ HoldersHold /\ HasLatest /\ NothingNewerKnown

FullInv == IInv /\ StampInv

LEMMA EmptyHandedStamps ==
  ASSUME FullInv, NEW r \in Runners, NEW s,
         s \in [at : {"idle", "open"}, pairs : SUBSET Pairs, fd : Inodes \union {NoInode}, began : Int],
         run' = [run EXCEPT ![r] = s],
         UNCHANGED <<temp, active, data, overlap, mtime, writes, strategy>>
  PROVE  StampInv'
<1>1. \A q \in Runners : run'[q].at \in Holding => run'[q] = run[q]
  BY DEF FullInv, IInv, RegistryInv, RunType, Holding
<1>2. HoldersHold' /\ NothingNewerKnown'
  BY <1>1 DEF FullInv, StampInv, HoldersHold, NothingNewerKnown, strategy
<1>3. StampType' /\ TempIsNew' /\ ActiveIsStamped' /\ HasLatest'
  BY DEF FullInv, StampInv, StampType, TempIsNew, ActiveIsStamped, HasLatest, strategy
<1>4. QED
  BY <1>2, <1>3 DEF StampInv

LEMMA StampsUnchanged ==
  ASSUME FullInv, UNCHANGED <<run, registry, strategy>>
  PROVE  StampInv'
  BY DEF FullInv, StampInv, StampType, TempIsNew, ActiveIsStamped, HoldersHold, HasLatest,
         NothingNewerKnown, registry, strategy

LEMMA OpenTempStamps ==
  ASSUME FullInv, NEW r \in Runners, OpenTemp(r)
  PROVE  StampInv'
<1>1. PICK i \in Inodes :
        /\ Opens(i) /\ temp' = i
        /\ run' = [run EXCEPT ![r].at = "write", ![r].fd = i]
        /\ data' = [data EXCEPT ![i] = Garbage]
        /\ mtime' = [mtime EXCEPT ![i] = writes + 1]
        /\ overlap' = (overlap \/ \E q \in Runners : run[q].at \in {"write", "replace"})
  BY DEF OpenTemp
<1>2. /\ active' = active /\ writes' = writes + 1
      /\ pairs' = pairs /\ known' = known /\ seen' = seen
  BY DEF OpenTemp, strategy
<1>3. StampType
  BY DEF FullInv, StampInv
<1>4. i # active
  BY <1>1 DEF Opens, Free, FullInv, StampInv, TempIsNew, InodesAreNotNone
<1>5. StampType' /\ mtime'[i] = writes + 1 /\ \A j \in Inodes \ {i} : mtime'[j] = mtime[j] /\ data'[j] = data[j]
  BY <1>1, <1>2, <1>3 DEF StampType, FullInv, IInv, RegistryInv, FilesType
<1>6. active # NoInode => active \in Inodes /\ mtime'[active] = mtime[active] /\ data'[active] = data[active]
  BY <1>4, <1>5 DEF FullInv, IInv, RegistryInv, FilesType
<1>7. /\ run'[r].at = "write" /\ run'[r].fd = i
      /\ \A q \in Runners \ {r} : run'[q] = run[q]
  BY <1>1 DEF FullInv, IInv, RegistryInv, RunType
<1>8. TempIsNew'
  BY <1>1, <1>2, <1>3, <1>4, <1>5, <1>6 DEF TempIsNew, StampType
<1>9. ActiveIsStamped' /\ HasLatest'
  BY <1>2, <1>6 DEF FullInv, StampInv, ActiveIsStamped, HasLatest
<1>10. HoldersHold'
  BY <1>7 DEF FullInv, StampInv, HoldersHold
<1>11. ASSUME ~overlap' PROVE NothingNewerKnown'
  <2>1. NothingNewerKnown /\ ~overlap
    BY <1>1, <1>11 DEF FullInv, StampInv
  <2>2. active # NoInode => known <= mtime'[active] /\ seen <= mtime'[active]
    BY <1>6, <2>1 DEF NothingNewerKnown
  <2>3. /\ known < mtime'[temp'] /\ seen < mtime'[temp']
        /\ active # NoInode => mtime'[active] < mtime'[temp']
    BY <1>1, <1>3, <1>5, <1>6 DEF StampType
  <2>4. QED
    BY <1>2, <2>2, <2>3 DEF NothingNewerKnown
<1>12. NothingNewerKnown'
  BY <1>11 DEF NothingNewerKnown
<1>13. QED
  BY <1>5, <1>8, <1>9, <1>10, <1>12 DEF StampInv

LEMMA WriteStamps ==
  ASSUME FullInv, NEW r \in Runners, Write(r)
  PROVE  StampInv'
<1> DEFINE i == run[r].fd
<1>1. /\ run[r].at = "write" /\ mtime' = [mtime EXCEPT ![i] = writes + 1] /\ writes' = writes + 1
      /\ run' = [run EXCEPT ![r].at = "replace", ![r].pairs = {}]
      /\ \E d : data' = [data EXCEPT ![i] = d]
      /\ temp' = temp /\ active' = active /\ overlap' = overlap
      /\ pairs' = pairs /\ known' = known /\ seen' = seen
  BY DEF Write, strategy
<1>2. StampType /\ i \in Inodes
  BY <1>1 DEF FullInv, StampInv, HoldersHold, Holding
<1>3. StampType' /\ mtime'[i] = writes + 1 /\ \A j \in Inodes \ {i} : mtime'[j] = mtime[j] /\ data'[j] = data[j]
  BY <1>1, <1>2 DEF StampType, FullInv, IInv, RegistryInv, FilesType
<1>4. /\ run'[r].at = "replace" /\ run'[r].fd = i
      /\ \A q \in Runners \ {r} : run'[q] = run[q]
  BY <1>1 DEF FullInv, IInv, RegistryInv, RunType
<1>5. (temp # NoInode => temp \in Inodes) /\ (active # NoInode => active \in Inodes)
  BY DEF FullInv, IInv, RegistryInv, FilesType
<1>6. TempIsNew'
  BY <1>1, <1>2, <1>3, <1>5 DEF FullInv, StampInv, TempIsNew, StampType
<1>7. ActiveIsStamped' /\ HasLatest'
  BY <1>1, <1>2, <1>3, <1>5 DEF FullInv, StampInv, ActiveIsStamped, HasLatest, StampType
<1>8. HoldersHold'
  BY <1>2, <1>4 DEF FullInv, StampInv, HoldersHold
<1>9. ASSUME ~overlap' PROVE NothingNewerKnown'
  <2>1. OneWriter /\ NothingNewerKnown
    BY <1>1, <1>9 DEF FullInv, IInv, RegistryInv, StampInv
  <2>2. i = temp
    BY <1>1, <2>1 DEF OneWriter, Holding
  <2>3. \A q \in Runners : run'[q].at \in Holding => q = r
    BY <1>1, <1>4, <2>1 DEF OneWriter, Holding
  <2>4. active # NoInode => known <= mtime'[active] /\ seen <= mtime'[active]
    BY <1>1, <1>2, <1>3, <1>5, <1>9, <2>1 DEF NothingNewerKnown, StampType
  <2>5. /\ known < mtime'[temp] /\ seen < mtime'[temp]
        /\ active # NoInode => mtime'[active] < mtime'[temp]
    <3>1. temp # NoInode /\ (active # NoInode => active # temp)
      BY <1>1, <2>1 DEF OneWriter, Holding, FullInv, StampInv, TempIsNew
    <3>2. QED
      BY <1>2, <1>3, <1>5, <2>2, <3>1 DEF StampType
  <2>6. QED
    BY <1>1, <2>3, <2>4, <2>5 DEF NothingNewerKnown
<1>10. NothingNewerKnown'
  BY <1>9 DEF NothingNewerKnown
<1>11. QED
  BY <1>3, <1>6, <1>7, <1>8, <1>10 DEF StampInv

LEMMA ReturnedStamps ==
  ASSUME FullInv, NEW r \in Runners, Returned(r), UNCHANGED strategy
  PROVE  StampInv'
<1>1. /\ run[r].at = "replace" /\ active' = Replaced /\ temp' = NoInode
      /\ run' = [run EXCEPT ![r] = Idle]
      /\ data' = [j \in Inodes |-> IF Gone(r, j) THEN Garbage ELSE data[j]]
      /\ mtime' = [j \in Inodes |-> IF Gone(r, j) THEN 0 ELSE mtime[j]]
      /\ overlap' = overlap /\ writes' = writes
      /\ pairs' = pairs /\ known' = known /\ seen' = seen
  BY DEF Returned, strategy
<1>2. StampType
  BY DEF FullInv, StampInv
<1>3. StampType'
  BY <1>1, <1>2 DEF StampType
<1>4. Replaced # NoInode => /\ Replaced \in Inodes
                            /\ mtime'[Replaced] = mtime[Replaced] /\ data'[Replaced] = data[Replaced]
  BY <1>1 DEF Gone, Replaced, FullInv, IInv, RegistryInv, FilesType
<1>5. TempIsNew'
  BY <1>1 DEF TempIsNew
<1>6. /\ run'[r].at = "idle" /\ \A q \in Runners \ {r} : run'[q] = run[q]
  BY <1>1 DEF FullInv, IInv, RegistryInv, RunType, Idle
<1>7. HoldersHold'
  BY <1>6 DEF FullInv, StampInv, HoldersHold, Holding
<1>8. ASSUME ~overlap' PROVE NothingNewerKnown'
  <2>1. OneWriter /\ NothingNewerKnown
    BY <1>1, <1>8 DEF FullInv, IInv, RegistryInv, StampInv
  <2>2. temp # NoInode /\ Replaced = temp /\ known < mtime[temp] /\ seen < mtime[temp]
    BY <1>1, <1>8, <2>1 DEF OneWriter, NothingNewerKnown, Holding, Replaced
  <2>3. \A q \in Runners : run'[q].at \notin Holding
    BY <1>1, <1>6, <2>1 DEF OneWriter, Holding
  <2>4. mtime[temp] \in Nat /\ known \in Nat /\ seen \in Nat
    BY <1>2, <1>4, <2>2 DEF StampType
  <2>5. QED
    BY <1>1, <1>4, <2>2, <2>3, <2>4 DEF NothingNewerKnown
<1>9. NothingNewerKnown'
  BY <1>8 DEF NothingNewerKnown
<1>10. CASE temp = NoInode
  <2>1. Replaced = active
    BY <1>10 DEF Replaced
  <2>2. ActiveIsStamped' /\ HasLatest'
    BY <1>1, <1>4, <2>1 DEF FullInv, StampInv, ActiveIsStamped, HasLatest
  <2>3. QED
    BY <1>3, <1>5, <1>7, <1>9, <2>2 DEF StampInv
<1>11. CASE temp # NoInode
  <2>1. Replaced = temp
    BY <1>11 DEF Replaced
  <2>2. mtime[temp] \notin {0, known, seen}
    BY <1>11 DEF FullInv, StampInv, TempIsNew
  <2>3. ActiveIsStamped' /\ HasLatest'
    BY <1>1, <1>4, <1>11, <2>1, <2>2 DEF ActiveIsStamped, HasLatest
  <2>4. QED
    BY <1>3, <1>5, <1>7, <1>9, <2>3 DEF StampInv
<1>12. QED
  BY <1>10, <1>11

\* The strategy looks and reads: what it has is the registry it read, or, if
\* that was replaced in between, stamped older than the registry there is.
LEMMA StatStamps ==
  ASSUME FullInv, Stat
  PROVE  StampInv'
<1>1. /\ active # NoInode /\ seen' = mtime[active]
      /\ UNCHANGED <<pairs, known, run, registry>>
  BY DEF Stat
<1>2. active \in Inodes /\ mtime[active] \in Nat /\ mtime[active] <= writes
  BY <1>1 DEF FullInv, IInv, RegistryInv, FilesType, StampInv, StampType
<1>3. StampType' /\ TempIsNew' /\ ActiveIsStamped' /\ HoldersHold' /\ HasLatest'
  BY <1>1, <1>2 DEF FullInv, StampInv, StampType, TempIsNew, ActiveIsStamped, HoldersHold, HasLatest, registry
<1>4. UNCHANGED <<run, overlap, active, temp, mtime, known>>
  BY <1>1 DEF registry
<1>5. NothingNewerKnown'
  BY <1>1, <1>2, <1>4 DEF FullInv, StampInv, NothingNewerKnown
<1>6. QED
  BY <1>3, <1>5 DEF StampInv

LEMMA LoadStamps ==
  ASSUME FullInv, Load
  PROVE  StampInv'
<1>1. /\ seen # 0 /\ pairs' = Loaded.pairs /\ known' = Loaded.known /\ seen' = 0
      /\ UNCHANGED <<run, registry>>
  BY DEF Load
<1>2. active # NoInode /\ StampType
  BY <1>1 DEF FullInv, StampInv, ActiveIsStamped
<1>3. known' \in {known, seen}
  BY <1>1 DEF Loaded
<1>4. NothingNewerKnown'
  <2>1. UNCHANGED <<run, overlap, active, temp, mtime>>
    BY <1>1 DEF registry
  <2>2. ASSUME ~overlap, NEW r \in Runners, run[r].at \in Holding
        PROVE  0 < mtime[temp]
    BY <1>2, <2>2 DEF FullInv, IInv, RegistryInv, OneWriter, StampInv, TempIsNew, StampType, FilesType
  <2>3. active # NoInode => 0 <= mtime[active]
    BY <1>2 DEF StampType, FullInv, IInv, RegistryInv, FilesType
  <2>4. QED
    BY <1>1, <1>3, <2>1, <2>2, <2>3 DEF FullInv, StampInv, NothingNewerKnown
<1>5. CASE data[active].torn
  <2>1. known' = known
    BY <1>1, <1>5 DEF Loaded
  <2>2. HasLatest'
    BY <1>1, <1>2, <1>5, <2>1 DEF FullInv, StampInv, HasLatest, registry
  <2>3. StampType' /\ TempIsNew' /\ ActiveIsStamped' /\ HoldersHold'
    BY <1>1, <1>2, <2>1 DEF FullInv, StampInv, StampType, TempIsNew, ActiveIsStamped, HoldersHold, registry
  <2>4. QED
    BY <1>4, <2>2, <2>3 DEF StampInv
<1>6. CASE ~data[active].torn
  <2>1. known' = seen /\ pairs' = data[active].pairs
    BY <1>1, <1>6 DEF Loaded
  <2>2. StampType' /\ TempIsNew' /\ ActiveIsStamped' /\ HoldersHold' /\ HasLatest'
    BY <1>1, <1>2, <1>6, <2>1
    DEF FullInv, StampInv, StampType, TempIsNew, ActiveIsStamped, HoldersHold, HasLatest, registry
  <2>3. QED
    BY <1>4, <2>2 DEF StampInv
<1>7. QED
  BY <1>5, <1>6

-----------------------------------------------------------------------------
LEMMA StampInit == Init => StampInv
  BY DEF Init, StampInv, StampType, TempIsNew, ActiveIsStamped, HoldersHold, HasLatest,
         NothingNewerKnown, Idle, Holding

LEMMA RestartStamps ==
  ASSUME FullInv, Restart
  PROVE  StampInv'
<1>1. /\ run' = [run EXCEPT !["service"] = Idle] /\ seen' = 0
      /\ UNCHANGED <<temp, active, data, mtime, writes, overlap>>
  BY DEF Restart
<1>2. \/ /\ active # NoInode /\ ~data[active].torn
         /\ pairs' = data[active].pairs /\ known' = mtime[active]
      \/ known' = 0
  BY DEF Restart
<1>3. StampType /\ (active # NoInode => active \in Inodes) /\ (temp # NoInode => temp \in Inodes)
  BY DEF FullInv, IInv, RegistryInv, FilesType, StampInv
<1>4. \A q \in Runners : run'[q].at \in Holding => run'[q] = run[q]
  BY <1>1 DEF FullInv, IInv, RegistryInv, RunType, Holding, Idle
<1>5. HoldersHold'
  BY <1>4 DEF FullInv, StampInv, HoldersHold
<1>6. StampType' /\ TempIsNew' /\ ActiveIsStamped' /\ HasLatest'
  BY <1>1, <1>2, <1>3 DEF FullInv, StampInv, StampType, TempIsNew, ActiveIsStamped, HasLatest
<1>7. ASSUME ~overlap' PROVE NothingNewerKnown'
  <2>1. NothingNewerKnown /\ OneWriter /\ ~overlap
    BY <1>1, <1>7 DEF FullInv, IInv, RegistryInv, StampInv
  <2>2. active # NoInode => known' <= mtime[active] /\ 0 <= mtime[active]
    BY <1>2, <1>3 DEF StampType
  <2>3. ASSUME NEW q \in Runners, run'[q].at \in Holding
        PROVE  /\ known' < mtime[temp] /\ 0 < mtime[temp]
               /\ active # NoInode => mtime[active] < mtime[temp]
    <3>1. run[q].at \in Holding /\ temp # NoInode /\ mtime[temp] \in Nat
      BY <1>3, <1>4, <2>1, <2>3 DEF OneWriter, StampType
    <3>2. /\ known < mtime[temp] /\ active # NoInode => mtime[active] < mtime[temp]
      BY <2>1, <3>1 DEF NothingNewerKnown
    <3>3. 0 < mtime[temp]
      BY <1>3, <3>1 DEF FullInv, StampInv, TempIsNew
    <3>4. active # NoInode => mtime[active] < mtime[temp]
      BY <2>1, <3>1 DEF NothingNewerKnown
    <3>5. QED
      BY <1>2, <3>3, <3>4
  <2>4. QED
    BY <1>1, <2>2, <2>3 DEF NothingNewerKnown
<1>8. NothingNewerKnown'
  BY <1>7 DEF NothingNewerKnown
<1>9. QED
  BY <1>5, <1>6, <1>8 DEF StampInv

LEMMA StampStep == FullInv /\ [Next]_vars => StampInv'
<1> SUFFICES ASSUME FullInv, [Next]_vars PROVE StampInv'
  OBVIOUS
<1>1. ASSUME NEW r \in Runners, Begin(r), UNCHANGED <<registry, strategy>> PROVE StampInv'
  <2>1. Screened \subseteq Pairs /\ clock \in Int
    BY DEF Screened, FullInv, IInv
  <2>2. PICK ps \in SUBSET Screened :
          run' = [run EXCEPT ![r] = [at |-> "open", pairs |-> ps, fd |-> NoInode, began |-> clock]]
    BY <1>1 DEF Begin
  <2>3. QED
    BY <1>1, <2>1, <2>2, EmptyHandedStamps DEF registry
<1>2. ASSUME NEW r \in Runners, Failed(r), UNCHANGED strategy PROVE StampInv'
  <2>1. Idle \in [at : {"idle", "open"}, pairs : SUBSET Pairs, fd : Inodes \union {NoInode}, began : Int]
    BY DEF Idle
  <2>2. QED
    BY <1>2, <2>1, EmptyHandedStamps DEF Failed
<1>3. "service" \in Runners /\ "hand" \in Runners
  BY DEF Runners
<1>4. CASE Wake \/ BeginByHand
  BY <1>1, <1>3, <1>4 DEF Wake, BeginByHand
<1>5. CASE Finish \/ FinishByHand
  BY <1>2, <1>3, <1>5, ReturnedStamps DEF Finish, FinishByHand
<1>6. CASE \E r \in Runners : OpenTemp(r) \/ Write(r)
  BY <1>6, OpenTempStamps, WriteStamps
<1>7. CASE SleepAgain \/ Maintain \/ Tick \/ UNCHANGED vars
  BY <1>7, StampsUnchanged DEF SleepAgain, Maintain, Tick, vars
<1>8. CASE Stat \/ Load \/ Restart
  BY <1>8, StatStamps, LoadStamps, RestartStamps
<1>9. QED
  BY <1>4, <1>5, <1>6, <1>7, <1>8 DEF Next

\* A strategy that finds its registry the newest has the pairs that are in the
\* file, and none finds an older one the newest (cross_coin.py, 108-157 and
\* 173-186), however its look, its read and the replacements interleave.
THEOREM StrategySeesLatest == Spec => []SeesLatest
<1>1. Init => FullInv
  BY RegistryInit, StampInit DEF FullInv
<1>2. FullInv /\ [Next]_vars => FullInv'
  BY RegistryStep, StampStep DEF FullInv
<1>3. FullInv => SeesLatest
  BY DEF FullInv, StampInv, HasLatest, NothingNewerKnown, SeesLatest
<1>4. QED
  BY <1>1, <1>2, <1>3, PTL DEF Spec

-----------------------------------------------------------------------------
(* Bounds of finite sets of slots                                          *)

LEMMA LeastOfNaturals ==
  ASSUME NEW S \in SUBSET Nat, S # {}
  PROVE  \E n \in S : \A m \in S : n <= m
<1> DEFINE R == {ss \in Nat \X Nat : ss[1] < ss[2]}
<1>1. IsWellFoundedOn(R, Nat)
  BY NatLessThanWellFounded DEF OpToRel
<1>2. \E x \in S : \A y \in S : ~ (<<y, x>> \in R)
  <2> HIDE DEF R
  <2> QED BY <1>1, WFMin
<1>3. PICK x \in S : \A y \in S : ~ (<<y, x>> \in R)
  BY <1>2
<1>4. \A y \in S : ~ (y < x)
  BY <1>3
<1>5. QED
  BY <1>4

LEMMA Bounds ==
  ASSUME NEW n \in Nat, NEW S \in SUBSET (1 .. n), S # {}
  PROVE  /\ Max(S) \in S /\ \A x \in S : x <= Max(S)
         /\ Min(S) \in S /\ \A x \in S : Min(S) <= x
<1> DEFINE T == {k \in Nat : n - k \in S}
<1>1. \A x \in S : n - x \in T /\ n - (n - x) = x
  OBVIOUS
<1>2. T \in SUBSET Nat /\ T # {}
  BY <1>1
<1>3. PICK k \in T : \A m \in T : k <= m
  BY <1>2, LeastOfNaturals
<1>4. \E z \in S : \A y \in S : z >= y
  <2>1. k \in Nat /\ n - k \in S
    OBVIOUS
  <2>2. ASSUME NEW y \in S PROVE n - k >= y
    <3>1. k <= n - y
      BY <1>1, <1>3
    <3>2. QED
      BY <2>1, <3>1
  <2>3. QED
    BY <2>1, <2>2
<1>5. Max(S) \in S /\ \A y \in S : Max(S) >= y
  BY <1>4 DEF Max
<1>6. \E z \in S : \A y \in S : z <= y
  BY LeastOfNaturals
<1>7. Min(S) \in S /\ \A y \in S : Min(S) <= y
  BY <1>6 DEF Min
<1>8. QED
  BY <1>5, <1>7

-----------------------------------------------------------------------------
(* The candle file                                                         *)

\* A row after a hole is the first of a window that a sync went on with.
Linked(f) == \A s, a \in f.rows : a < s => s - 1 \in f.rows \/ s \in resumed

\* The newest row is the newest candle ever written, and is trimmed only of age.
Fresh(f) ==
  /\ f.rows # {} => got \in f.rows /\ \A s \in f.rows : s <= got
  /\ f \notin {None, Torn} /\ f.rows = {} => got + Retention < clock

\* What is about to be written is as good as what was there, and what was there
\* is torn meanwhile.
ArchiveInv ==
  /\ clock \in Nat \ {0} /\ got \in Nat
  /\ file.rows \in SUBSET (1 .. clock) /\ pending.rows \in SUBSET (1 .. clock)
  /\ Linked(file) /\ Linked(pending)
  /\ Fresh(file) /\ Fresh(pending)
  /\ pending # None => file = Torn /\ pending # Torn /\ ~interrupted
  /\ pending = None => (file = Torn <=> interrupted)

LEMMA FilesHaveRows ==
  /\ None.rows = {} /\ Torn.rows = {} /\ Torn # None
  /\ \A rows : File(rows).rows = rows /\ File(rows) # None /\ File(rows) # Torn
BY DEF None, Torn, File

\* Within a window, what comes before a slot came too.
LEMMA ReplyHasNoHoleWithinAWindow ==
  ASSUME NEW since \in Nat, clock \in Nat, NEW new \in Replies(since), NEW s \in new, s # since,
         (s - since) % Window # 0
  PROVE  s - 1 \in new
<1>1. Window \in Nat \ {0} /\ s \in since .. clock
  BY ArchiveAssumption DEF Replies
<1>2. PICK n \in Nat \ {0} : n = s - since /\ (s - 1) - since = n - 1
  BY <1>1
<1>3. (n - 1) \div Window = n \div Window
  <2>1. n % Window # 0
    BY <1>2
  <2>2. PICK q \in Nat, r \in 0 .. (Window - 1) : n = (Window * q) + r /\ q = n \div Window /\ r = n % Window
    <3>1. n \div Window \in Nat /\ n % Window \in 0 .. (Window - 1)
          /\ n = (Window * (n \div Window)) + (n % Window)
      BY <1>1, <1>2
    <3>2. QED
      BY <3>1
  <2>3. r - 1 \in 0 .. (Window - 1) /\ n - 1 = (Window * q) + (r - 1)
    BY <1>1, <2>1, <2>2
  <2>4. n - 1 \in Nat
    BY <1>2
  <2>5. (n - 1) \div Window = q
    BY <1>1, <2>3, <2>4
  <2>6. QED
    BY <2>2, <2>5
<1>4. SameWindow(since, s, s - 1)
  BY <1>2, <1>3 DEF SameWindow
<1>5. s - 1 \in since .. s
  BY <1>1
<1>6. QED
  BY <1>4, <1>5 DEF Replies

\* What a sync is about to write.
LEMMA MergedIsGood ==
  ASSUME ArchiveInv, pending = None, file = None \/ file.rows # {},
         NEW new \in Replies(Since), Rewrites(new), BeginWrite(new), UNCHANGED clock
  PROVE  /\ Merged(new) \in SUBSET (1 .. clock) /\ got' \in Nat
         /\ Linked(pending)' /\ Fresh(pending)'
<1> USE DEF ArchiveInv
<1>1. /\ Since \in Nat \ {0}
      /\ file.rows # {} =>
           /\ Since - 1 \in file.rows /\ \A s \in file.rows : s < Since
           /\ got \in file.rows /\ \A s \in file.rows : s <= got
      /\ Retention \in Nat
  <2>1. CASE file = None
    BY <2>1, ArchiveAssumption, FilesHaveRows DEF Since
  <2>2. CASE file # None
    <3>1. file.rows # {}
      BY <2>2
    <3>2. Max(file.rows) \in file.rows /\ \A s \in file.rows : s <= Max(file.rows)
      BY <3>1, Bounds
    <3>3. Since = Max(file.rows) + 1
      BY <2>2, <3>1 DEF Since, Newest
    <3>4. QED
      BY <3>1, <3>2, <3>3, ArchiveAssumption DEF Fresh
  <2>3. QED
    BY <2>1, <2>2
<1>2. new \subseteq Since .. clock /\ new \subseteq 1 .. clock
  <2>1. new \subseteq Since .. clock
    BY DEF Replies
  <2>2. QED
    BY <1>1, <2>1
<1> DEFINE rows == file.rows \union new
<1>3. rows \subseteq 1 .. clock
  BY <1>2
<1>4. Merged(new) \in SUBSET (1 .. clock) /\ Merged(new) = {s \in rows : s >= clock - Retention}
  BY <1>3 DEF Merged, Young
<1>5. pending'.rows = Merged(new)
  BY FilesHaveRows DEF BeginWrite
<1>6. resumed \subseteq resumed' /\ \A s \in (Since + 1) .. clock : (s - Since) % Window = 0 => s \in resumed'
  BY DEF BeginWrite
<1>7. ASSUME NEW s \in rows, NEW a \in rows, a < s
      PROVE  s - 1 \in rows \/ s \in resumed'
  <2>1. CASE s \in file.rows
    <3>1. s < Since /\ s \in Nat /\ a \in Nat
      BY <1>1, <1>3, <2>1
    <3>2. a \notin new
      BY <1>1, <1>2, <1>7, <3>1
    <3>3. a \in file.rows
      BY <3>2
    <3>4. QED
      BY <1>6, <1>7, <2>1, <3>3 DEF Linked
  <2>2. CASE s \in new /\ s = Since
    <3>1. a \in file.rows
      BY <1>1, <1>2, <1>7, <2>2
    <3>2. QED
      BY <1>1, <2>2, <3>1
  <2>3. CASE s \in new /\ s # Since /\ (s - Since) % Window # 0
    BY <1>1, <2>3, ReplyHasNoHoleWithinAWindow
  <2>4. CASE s \in new /\ s # Since /\ (s - Since) % Window = 0
    <3>1. s \in (Since + 1) .. clock
      BY <1>1, <1>2, <2>4
    <3>2. QED
      BY <1>6, <2>4, <3>1
  <2>5. QED
    BY <1>7, <2>1, <2>2, <2>3, <2>4
<1>8. Linked(pending)'
  <2>1. SUFFICES ASSUME NEW s \in Merged(new), NEW a \in Merged(new), a < s
                 PROVE  s - 1 \in Merged(new) \/ s \in resumed'
    BY <1>5 DEF Linked
  <2>2. s \in 1 .. clock /\ a \in 1 .. clock /\ s \in rows /\ a \in rows /\ a >= clock - Retention
    BY <1>3, <1>4
  <2>3. s - 1 >= clock - Retention
    BY <1>1, <2>1, <2>2
  <2>4. s - 1 \in rows \/ s \in resumed'
    BY <1>7, <2>1, <2>2
  <2>5. QED
    BY <1>4, <2>3, <2>4
<1>9. got' \in rows /\ \A s \in rows : s <= got'
  <2>1. CASE new = {}
    <3>1. file # None
      BY <2>1, FilesHaveRows DEF Rewrites, Merged, Young
    <3>2. got' = got
      BY <2>1 DEF BeginWrite
    <3>3. QED
      BY <1>1, <2>1, <3>1, <3>2
  <2>2. CASE new # {}
    <3>1. new \subseteq 1 .. clock /\ Max(new) \in new /\ \A s \in new : s <= Max(new)
      BY <1>2, <2>2, Bounds
    <3>2. got' = Max(new)
      BY <2>2 DEF BeginWrite
    <3>3. ASSUME NEW s \in file.rows PROVE s <= got'
      <4>1. s < Since /\ s \in Nat
        BY <1>1
      <4>2. got' >= Since /\ got' \in Nat
        BY <1>1, <1>2, <3>1, <3>2
      <4>3. QED
        BY <1>1, <4>1, <4>2
    <3>4. QED
      BY <3>1, <3>2, <3>3
  <2>3. QED
    BY <2>1, <2>2
<1>10. got' \in Nat /\ got' \in 1 .. clock
  BY <1>3, <1>9
<1>11. Fresh(pending)'
  <2>1. CASE Merged(new) # {}
    <3>1. PICK s \in rows : s >= clock - Retention
      BY <1>4, <2>1
    <3>2. got' >= clock - Retention
      BY <1>1, <1>3, <1>9, <1>10, <3>1
    <3>3. got' \in Merged(new) /\ \A x \in Merged(new) : x <= got'
      BY <1>4, <1>9, <3>2
    <3>4. QED
      BY <1>5, <2>1, <3>3 DEF Fresh
  <2>2. CASE Merged(new) = {}
    <3>1. ~ (got' >= clock - Retention)
      BY <1>4, <1>9, <2>2
    <3>2. got' + Retention < clock
      BY <1>1, <1>10, <3>1
    <3>3. QED
      BY <1>5, <2>2, <3>2 DEF Fresh
  <2>3. QED
    BY <2>1, <2>2
<1>12. QED
  BY <1>4, <1>8, <1>10, <1>11

LEMMA SyncKeeps ==
  ASSUME ArchiveInv, Sync, UNCHANGED clock
  PROVE  ArchiveInv'
<1>1. CASE NoWrite
  BY <1>1 DEF NoWrite, ArchiveInv, Linked, Fresh
<1>2. CASE ~NoWrite
  <2>1. PICK new \in Replies(Since) : Rewrites(new) /\ BeginWrite(new)
    BY <1>2 DEF Sync
  <2>2. pending = None /\ (file = None \/ file.rows # {})
    BY <1>2 DEF Sync
  <2>3. /\ Merged(new) \in SUBSET (1 .. clock) /\ got' \in Nat
        /\ Linked(pending)' /\ Fresh(pending)'
    BY <2>1, <2>2, MergedIsGood
  <2>4. file' = Torn /\ pending' = File(Merged(new)) /\ interrupted' = interrupted
    BY <2>1 DEF BeginWrite
  <2>5. pending'.rows \in SUBSET (1 .. clock') /\ file'.rows \in SUBSET (1 .. clock')
    BY <2>3, <2>4, FilesHaveRows
  <2>6. Linked(file)' /\ Fresh(file)'
    BY <2>4, FilesHaveRows DEF Linked, Fresh
  <2>7. ~interrupted
    BY <2>2, FilesHaveRows DEF ArchiveInv
  <2>8. pending' # None /\ pending' # Torn
    BY <2>4, FilesHaveRows
  <2>9. QED
    BY <2>3, <2>4, <2>5, <2>6, <2>7, <2>8 DEF ArchiveInv
<1>3. QED
  BY <1>1, <1>2

LEMMA ArchiveStart == Init => ArchiveInv
BY FilesHaveRows DEF Init, ArchiveInit, ArchiveInv, Linked, Fresh

LEMMA ArchiveStep == ArchiveInv /\ [Next]_vars => ArchiveInv'
<1> SUFFICES ASSUME ArchiveInv, [Next]_vars PROVE ArchiveInv'
  OBVIOUS
<1>1. CASE UNCHANGED <<clock, archiveVars>>
  BY <1>1 DEF archiveVars, ArchiveInv, Linked, Fresh
<1>2. CASE Sync /\ UNCHANGED clock
  BY <1>2, SyncKeeps
<1>3. CASE Written /\ UNCHANGED clock
  BY <1>3, FilesHaveRows DEF Written, ArchiveInv, Linked, Fresh
<1>4. CASE WriteFails /\ UNCHANGED clock
  BY <1>4, FilesHaveRows DEF WriteFails, Lost, ArchiveInv, Linked, Fresh
<1>5. CASE KillArchive /\ UNCHANGED clock
  <2>1. CASE pending = None
    <3>1. UNCHANGED <<clock, file, resumed, got>> /\ pending' = None
      BY <1>5, <2>1 DEF KillArchive
    <3>2. interrupted' <=> interrupted
      BY <1>5, <2>1 DEF KillArchive
    <3>3. QED
      BY <2>1, <3>1, <3>2 DEF ArchiveInv, Linked, Fresh
  <2>2. CASE pending # None
    <3>1. clock' = clock /\ file' = file /\ file = Torn /\ pending' = None /\ got' = 0
      BY <1>5, <2>2 DEF KillArchive, Lost, ArchiveInv
    <3>2. interrupted'
      BY <1>5, <2>2 DEF KillArchive
    <3>3. QED
      BY <3>1, <3>2, FilesHaveRows DEF ArchiveInv, Linked, Fresh
  <2>3. QED
    BY <2>1, <2>2
<1>6. CASE Tick
  <2>1. clock' = clock + 1 /\ UNCHANGED archiveVars
    BY <1>6 DEF Tick
  <2>2. 1 .. clock \subseteq 1 .. clock' /\ clock' \in Nat \ {0}
    BY <2>1 DEF ArchiveInv
  <2>3. got + Retention < clock => got + Retention < clock'
    BY <2>1, ArchiveAssumption DEF ArchiveInv
  <2>4. QED
    BY <2>1, <2>2, <2>3 DEF archiveVars, ArchiveInv, Linked, Fresh
<1>7. QED
  BY <1>1, <1>2, <1>3, <1>4, <1>5, <1>6
     DEF Next, Wake, Finish, SleepAgain, BeginByHand, FinishByHand, OpenTemp, Write, Stat, Load,
         Maintain, Restart, vars

LEMMA ArchiveHolds == Spec => []ArchiveInv
BY ArchiveStart, ArchiveStep, PTL DEF Spec

\* A sync begins after the newest row, so a hole is there for good; wherever one
\* ends, some sync went on with a further window after requests failed
\* (candle_updater.py, 42-69), whatever requests fail, whenever a write fails or
\* the process is killed.
THEOREM HolesAreWindowEdges == Spec => []HolesEndAtWindows
<1>1. ArchiveInv => HolesEndAtWindows
  <2>1. SUFFICES ASSUME ArchiveInv, NEW s \in file.rows, s # Min(file.rows)
                 PROVE  s - 1 \in file.rows \/ s \in resumed
    BY DEF HolesEndAtWindows
  <2>2. clock \in Nat /\ file.rows \in SUBSET (1 .. clock) /\ file.rows # {}
    BY <2>1 DEF ArchiveInv
  <2>3. Min(file.rows) \in file.rows /\ Min(file.rows) <= s
    BY <2>1, <2>2, Bounds
  <2>4. Min(file.rows) < s
    BY <2>1, <2>2, <2>3
  <2>5. QED
    BY <2>1, <2>3, <2>4 DEF ArchiveInv, Linked
<1>2. QED
  BY ArchiveHolds, <1>1, PTL

\* A file that no sync repairs (candle_updater.py, 110-113) comes from a write
\* that was cut short, by a kill or an error, or lost its rows because the newest
\* candle the program ever saved is older than the retention.
THEOREM StuckFilesAreExplained == Spec => []StuckIsExplained
<1>1. ArchiveInv => StuckIsExplained
  BY DEF ArchiveInv, Fresh, StuckIsExplained
<1>2. QED
  BY ArchiveHolds, <1>1, PTL

-----------------------------------------------------------------------------
(* Days and hours                                                          *)

LEMMA Division ==
  ASSUME NEW t \in Nat, NEW m \in Nat \ {0}
  PROVE  t \div m \in Nat /\ t % m \in 0 .. (m - 1) /\ t = (m * (t \div m)) + (t % m)
OBVIOUS

LEMMA DivisionIsUnique ==
  ASSUME NEW t \in Nat, NEW m \in Nat \ {0}, NEW q \in Nat, NEW r \in 0 .. (m - 1),
         t = (m * q) + r
  PROVE  t \div m = q /\ t % m = r
OBVIOUS

LEMMA Later ==
  ASSUME NEW t \in Nat, NEW m \in Nat \ {0}, NEW n \in Nat
  PROVE  /\ (t % m) + n < m =>
              (t + n) \div m = t \div m /\ (t + n) % m = (t % m) + n
         /\ m <= (t % m) + n /\ (t % m) + n < 2 * m =>
              (t + n) \div m = (t \div m) + 1 /\ (t + n) % m = ((t % m) + n) - m
<1>1. PICK q \in Nat, r \in 0 .. (m - 1) : t = (m * q) + r /\ q = t \div m /\ r = t % m
  BY Division
<1>2. PICK p \in Nat : p = m * q /\ p + m = m * (q + 1)
  OBVIOUS
<1>3. ASSUME r + n < m
      PROVE  (t + n) \div m = q /\ (t + n) % m = r + n
  <2>1. r + n \in 0 .. (m - 1) /\ t + n \in Nat
    BY <1>3
  <2>2. t + n = (m * q) + (r + n)
    BY ONLY <1>1, <1>2, p \in Nat, n \in Nat, r \in Nat
  <2>3. PICK u \in Nat, s \in 0 .. (m - 1) : u = t + n /\ s = r + n
    BY <2>1
  <2>4. u \div m = q /\ u % m = s
    BY <2>2, <2>3, DivisionIsUnique
  <2>5. QED
    BY <2>3, <2>4
<1>4. ASSUME m <= r + n, r + n < 2 * m
      PROVE  (t + n) \div m = q + 1 /\ (t + n) % m = (r + n) - m
  <2>1. (r + n) - m \in 0 .. (m - 1) /\ t + n \in Nat /\ q + 1 \in Nat
    BY <1>1, <1>4
  <2>2. t + n = (m * (q + 1)) + ((r + n) - m)
    BY ONLY <1>1, <1>2, p \in Nat, m \in Nat, n \in Nat, r \in Nat
  <2>3. PICK u \in Nat, s \in 0 .. (m - 1), v \in Nat : u = t + n /\ s = (r + n) - m /\ v = q + 1
    BY <2>1
  <2>4. u \div m = v /\ u % m = s
    BY ZenonT(40), <2>2, <2>3, DivisionIsUnique
  <2>5. QED
    BY <2>3, <2>4
<1>5. QED
  BY <1>1, <1>3, <1>4

DayOf(t) == t \div Day
First(d) == d % Month = 0
Last(d) == d % Month = Month - 1

LEMMA Calendar ==
  /\ Day \in Nat \ {0} /\ Month \in Nat \ {0} /\ RunAt \in 0 .. (Day - 1)
  /\ Retry \in Nat /\ MaxRun \in Nat
BY RecalibrationAssumption

LEMMA Clocks ==
  ASSUME NEW t \in Nat
  PROVE  /\ DayOf(t) \in Nat /\ Hour(t) \in 0 .. (Day - 1)
         /\ DayOfMonth(t) = 1 <=> First(DayOf(t))
         /\ LastDay(t) <=> Last(DayOf(t))
<1>1. DayOf(t) \in Nat /\ Hour(t) \in 0 .. (Day - 1)
  BY Calendar, Division DEF DayOf, Hour
<1>2. DayOf(t) % Month \in Nat /\ DayOfMonth(t) = (DayOf(t) % Month) + 1
  BY <1>1, Calendar, Division DEF DayOf, DayOfMonth
<1>3. QED
  BY <1>1, <1>2, Calendar DEF First, Last, LastDay

LEMMA HoursLater ==
  ASSUME NEW t \in Nat, NEW n \in Nat
  PROVE  /\ Hour(t) + n < Day => DayOf(t + n) = DayOf(t) /\ Hour(t + n) = Hour(t) + n
         /\ Day <= Hour(t) + n /\ Hour(t) + n < 2 * Day =>
              DayOf(t + n) = DayOf(t) + 1 /\ Hour(t + n) = (Hour(t) + n) - Day
BY Calendar, Later DEF DayOf, Hour

LEMMA DayAfter ==
  ASSUME NEW d \in Nat
  PROVE  /\ Last(d) => First(d + 1) /\ ~First(d) /\ d % Month > 1
         /\ First(d) => (d + 1) % Month = 1 /\ ~Last(d + 1)
<1>1. d % Month \in 0 .. (Month - 1) /\ Month > 2
  BY Calendar, Division, CalendarAssumption
<1>2. /\ (d % Month) + 1 < Month => (d + 1) % Month = (d % Month) + 1
      /\ (d % Month) + 1 = Month => (d + 1) % Month = 0
  <2>1. Month \in Nat \ {0} /\ 1 \in Nat
    BY Calendar
  <2>2. /\ (d % Month) + 1 < Month => (d + 1) % Month = (d % Month) + 1
        /\ Month <= (d % Month) + 1 /\ (d % Month) + 1 < 2 * Month => (d + 1) % Month = ((d % Month) + 1) - Month
    BY <2>1, Later
  <2>3. QED
    BY <1>1, <2>1, <2>2
<1>3. QED
  BY <1>1, <1>2, Calendar DEF First, Last

\* The next run is at the hour, today or tomorrow.
LEMMA UntilIs ==
  ASSUME NEW t \in Nat
  PROVE  /\ Until(t) \in 1 .. Day /\ Hour(t + Until(t)) = RunAt
         /\ DayOf(t + Until(t)) = IF Hour(t) < RunAt THEN DayOf(t) ELSE DayOf(t) + 1
<1>1. Hour(t) \in 0 .. (Day - 1)
  BY Clocks
<1>2. Until(t) \in 1 .. Day
  BY <1>1, Calendar DEF Until
<1>3. CASE Hour(t) < RunAt
  <2>1. Hour(t) + Until(t) = RunAt /\ RunAt < Day
    BY <1>1, <1>3, Calendar DEF Until
  <2>2. QED
    BY <1>2, <1>3, <2>1, HoursLater
<1>4. CASE ~ (Hour(t) < RunAt)
  <2>1. (Hour(t) + Until(t)) - Day = RunAt /\ Day <= Hour(t) + Until(t) /\ Hour(t) + Until(t) < 2 * Day
    BY <1>1, <1>4, Calendar DEF Until
  <2>2. QED
    BY <1>2, <1>4, <2>1, HoursLater
<1>5. QED
  BY <1>3, <1>4
-----------------------------------------------------------------------------
(* The schedule                                                            *)

\* Of the days before this one, those on which a run was due had one.
Kept(day) == \A d \in (DayOf(born) + 1) .. (day - 1) : d % Month > 1 => d \in served

\* A run is at its hour, or late after the error on the last day of a month; one
\* that is still on that day has slept so little that it will not sleep through
\* the next.
OnTime(t, delay) ==
  \/ Hour(t) = RunAt
  \/ First(DayOf(t))
  \/ Last(DayOf(t)) /\ delay + Retry <= Day

Punctual ==
  /\ clock \in Nat /\ born \in Nat
  /\ loop \in [at : {"dead", "sleeping", "running", "retrying"}, wake : Nat, delay : Nat]
  /\ loop.at = "dead" <=> Raises(born)
  /\ loop.at = "running" <=> run["service"].at # "idle"
  /\ loop.at # "running" <=> run["service"] = Idle
  /\ loop.at # "dead" => loop.delay \in 1 .. Day
  /\ loop.at = "sleeping" =>
       clock <= loop.wake /\ Kept(DayOf(loop.wake)) /\ OnTime(loop.wake, loop.delay)
  /\ loop.at = "retrying" =>
       LET next == loop.wake + loop.delay
       IN  clock <= loop.wake /\ Kept(DayOf(next)) /\ OnTime(next, loop.delay)
  /\ loop.at = "running" =>
       LET began == run["service"].began
       IN  /\ began \in Nat /\ began <= clock /\ clock <= began + MaxRun
           /\ DayOf(began) \in served /\ Kept(DayOf(began)) /\ OnTime(began, loop.delay)

LEMMA KeptNext ==
  ASSUME born \in Nat, NEW day \in Nat, Kept(day), day \in served \/ day % Month <= 1
  PROVE  Kept(day + 1)
<1>1. SUFFICES ASSUME NEW d \in (DayOf(born) + 1) .. day, d % Month > 1 PROVE d \in served
  BY Clocks DEF Kept
<1>2. CASE d = day
  BY <1>1, <1>2, Calendar, Division
<1>3. CASE d # day
  BY <1>1, <1>3, Clocks DEF Kept
<1>4. QED
  BY <1>2, <1>3

LEMMA KeptBefore ==
  ASSUME born \in Nat, NEW day \in Nat, Kept(day), NEW early \in Nat, early <= day
  PROVE  Kept(early)
BY Clocks DEF Kept

LEMMA DaysPass ==
  ASSUME NEW a \in Nat, NEW b \in Nat, a <= b
  PROVE  DayOf(a) <= DayOf(b)
BY Calendar DEF DayOf

\* A run ends on its day or before its hour on the next, or on a day whose run
\* was not due.
LEMMA EndOfRun ==
  ASSUME NEW b \in Nat, NEW f \in Nat, b <= f, f <= b + MaxRun, NEW delay \in 1 .. Day,
         OnTime(b, delay)
  PROVE  /\ DayOf(f) = DayOf(b) /\ Hour(f) = Hour(b) + (f - b)
         \/ /\ DayOf(f) = DayOf(b) + 1
            /\ Hour(f) < RunAt \/ (DayOf(f) % Month <= 1 /\ ~Last(DayOf(f)))
<1>1. PICK n \in Nat : f = b + n /\ n < Day
  <2>1. f - b \in Nat /\ f - b < Day /\ f = b + (f - b)
    BY Calendar, CalendarAssumption
  <2>2. QED
    BY <2>1
<1>2. Hour(b) \in 0 .. (Day - 1) /\ DayOf(b) \in Nat
  BY Clocks
<1>3. CASE Hour(b) + n < Day
  BY <1>1, <1>2, <1>3, HoursLater
<1>4. CASE ~ (Hour(b) + n < Day)
  <2>1. DayOf(f) = DayOf(b) + 1 /\ Hour(f) = (Hour(b) + n) - Day
    BY <1>1, <1>2, <1>4, Calendar, HoursLater
  <2>2. CASE Hour(b) = RunAt
    BY <1>1, <1>2, <2>1, <2>2, Calendar
  <2>3. CASE First(DayOf(b))
    BY <1>2, <2>1, <2>3, DayAfter
  <2>4. CASE Last(DayOf(b))
    BY <1>2, <2>1, <2>4, DayAfter, Calendar DEF First
  <2>5. QED
    BY <2>1, <2>2, <2>3, <2>4 DEF OnTime
<1>5. QED
  BY <1>3, <1>4

LEMMA EndKeeps ==
  ASSUME NEW b \in Nat, NEW f \in Nat, b <= f, f <= b + MaxRun, NEW delay \in 1 .. Day,
         OnTime(b, delay), born \in Nat, Kept(DayOf(b)), DayOf(b) \in served
  PROVE  Kept(DayOf(f)) /\ (Hour(f) >= RunAt => Kept(DayOf(f) + 1))
<1>1. DayOf(b) \in Nat /\ DayOf(f) \in Nat /\ Hour(f) \in Nat /\ RunAt \in Nat
  BY Clocks, Calendar
<1>2. Kept(DayOf(b) + 1)
  BY <1>1, KeptNext
<1>3. CASE DayOf(f) = DayOf(b)
  BY <1>2, <1>3
<1>4. CASE DayOf(f) = DayOf(b) + 1 /\ (Hour(f) < RunAt \/ DayOf(f) % Month <= 1)
  <2>1. DayOf(f) % Month <= 1 => Kept(DayOf(f) + 1)
    BY <1>1, <1>2, <1>4, KeptNext
  <2>2. QED
    BY <1>1, <1>2, <1>4, <2>1
<1>5. QED
  BY <1>3, <1>4, EndOfRun

\* The run after an error is on the same day or the next.
LEMMA AfterError ==
  ASSUME NEW b \in Nat, NEW f \in Nat, b <= f, f <= b + MaxRun, NEW delay \in 1 .. Day,
         OnTime(b, delay), born \in Nat, Kept(DayOf(b)), DayOf(b) \in served, Raises(f)
  PROVE  LET next == (f + Retry) + delay
         IN  next \in Nat /\ Kept(DayOf(next)) /\ OnTime(next, delay)
<1>1. /\ Hour(f) \in 0 .. (Day - 1) /\ DayOf(f) \in Nat /\ Hour(b) \in 0 .. (Day - 1)
      /\ Hour(f) >= RunAt /\ Last(DayOf(f))
  BY Clocks DEF Raises
<1>2. DayOf(f) = DayOf(b) /\ Hour(f) = Hour(b) + (f - b)
  BY <1>1, EndOfRun, Calendar
<1>3. ~First(DayOf(f)) /\ First(DayOf(f) + 1)
  BY <1>1, DayAfter
<1>4. PICK n \in Nat : n = Retry + delay /\ (f + Retry) + delay = f + n
  BY Calendar
<1>5. Hour(f) + n < 2 * Day
  <2>1. CASE Hour(b) = RunAt
    BY <1>1, <1>2, <1>4, <2>1, Calendar, CalendarAssumption
  <2>2. CASE delay + Retry <= Day
    BY <1>1, <1>4, <2>2, Calendar
  <2>3. QED
    BY <1>2, <1>3, <2>1, <2>2 DEF OnTime
<1>6. Kept(DayOf(f)) /\ Kept(DayOf(f) + 1)
  BY <1>1, EndKeeps
<1>7. CASE Hour(f) + n < Day
  <2>1. DayOf(f + n) = DayOf(f)
    BY <1>7, HoursLater
  <2>2. delay + Retry <= Day
    BY <1>1, <1>4, <1>7, Calendar
  <2>3. QED
    BY <1>1, <1>4, <1>6, <2>1, <2>2 DEF OnTime
<1>8. CASE ~ (Hour(f) + n < Day)
  <2>1. DayOf(f + n) = DayOf(f) + 1
    BY <1>1, <1>5, <1>8, HoursLater, Calendar
  <2>2. QED
    BY <1>3, <1>4, <1>6, <2>1 DEF OnTime
<1>9. QED
  BY <1>7, <1>8

\* The loop goes to sleep until its hour.
LEMMA StartKeeps ==
  ASSUME NEW t \in Nat, ~Raises(t), born \in Nat, Kept(DayOf(t)), Hour(t) >= RunAt => Kept(DayOf(t) + 1)
  PROVE  /\ Until(t) \in 1 .. Day /\ t + Until(t) \in Nat /\ t <= t + Until(t)
         /\ Kept(DayOf(t + Until(t))) /\ OnTime(t + Until(t), Until(t))
<1>1. Hour(t) \in Nat /\ RunAt \in Nat
  BY Clocks, Calendar
<1>2. QED
  BY <1>1, UntilIs DEF OnTime

LEMMA StartIsPunctual ==
  ASSUME clock \in Nat, loop' = Started(clock), born' = clock, served' = {},
         run'["service"] = Idle, clock' = clock
  PROVE  Punctual'
<1>1. DayOf(clock) \in Nat /\ Until(clock) \in 1 .. Day /\ Until(clock) \in Nat
  BY Clocks, UntilIs, Calendar
<1>2. Idle.at = "idle"
  BY DEF Idle
<1>3. CASE Raises(clock)
  BY <1>2, <1>3 DEF Started, Punctual
<1>4. CASE ~Raises(clock)
  <2>1. loop' = [at |-> "sleeping", wake |-> clock + Until(clock), delay |-> Until(clock)]
    BY <1>4 DEF Started
  <2>2. DayOf(clock + Until(clock)) <= DayOf(clock) + 1 /\ Hour(clock + Until(clock)) = RunAt
    BY <1>1, UntilIs
  <2>3. Kept(DayOf(clock + Until(clock)))'
    BY <1>1, <2>2, Clocks DEF Kept
  <2>4. OnTime(clock + Until(clock), Until(clock))
    BY <2>2 DEF OnTime
  <2>5. QED
    BY <1>1, <1>2, <1>4, <2>1, <2>3, <2>4 DEF Punctual, Kept, OnTime
<1>5. QED
  BY <1>3, <1>4

LEMMA SameSchedule ==
  ASSUME Punctual, UNCHANGED <<service, clock>>, run'["service"] = run["service"]
  PROVE  Punctual'
BY DEF Punctual, service, Kept

LEMMA StillRunning ==
  ASSUME Punctual, UNCHANGED <<service, clock>>,
         run["service"].at # "idle", run'["service"].at # "idle",
         run'["service"].began = run["service"].began
  PROVE  Punctual'
BY DEF Punctual, service, Kept, Idle

LEMMA WakeIsPunctual ==
  ASSUME Punctual, Wake, DOMAIN run = Runners
  PROVE  Punctual'
<1>1. /\ loop.at = "sleeping" /\ clock = loop.wake /\ clock' = clock /\ born' = born
      /\ loop' = [loop EXCEPT !.at = "running", !.wake = 0]
      /\ served' = served \union {DayOf(clock)}
      /\ run'["service"].at = "open" /\ run'["service"].began = clock
  BY DEF Wake, Begin, DayOf, Runners
<1>2. run'["service"] # Idle
  BY <1>1 DEF Idle
<1>3. Kept(DayOf(clock)) /\ OnTime(clock, loop.delay) /\ loop.delay \in 1 .. Day
  BY <1>1 DEF Punctual
<1>4. Kept(DayOf(clock))'
  BY <1>1, <1>3 DEF Kept
<1>5. /\ loop'.at = "running" /\ loop'.delay = loop.delay
      /\ loop' \in [at : {"dead", "sleeping", "running", "retrying"}, wake : Nat, delay : Nat]
  BY <1>1 DEF Punctual
<1>6. clock <= clock + MaxRun /\ clock \in Nat
  BY Calendar DEF Punctual
<1>7. QED
  BY <1>1, <1>2, <1>3, <1>4, <1>5, <1>6 DEF Punctual

LEMMA FinishIsPunctual ==
  ASSUME Punctual, Finish, DOMAIN run = Runners
  PROVE  Punctual'
<1>1. /\ run["service"].at # "idle" /\ run'["service"] = Idle /\ Idle.at = "idle"
      /\ loop' = Rescheduled /\ UNCHANGED <<born, served, clock>>
  BY DEF Finish, Returned, Failed, Idle, Runners
<1>2. PICK b : b = run["service"].began
  OBVIOUS
<1>3. /\ b \in Nat /\ b <= clock /\ clock <= b + MaxRun
      /\ DayOf(b) \in served /\ Kept(DayOf(b)) /\ OnTime(b, loop.delay)
      /\ clock \in Nat /\ born \in Nat /\ loop.delay \in 1 .. Day /\ ~Raises(born)
      /\ loop \in [at : {"dead", "sleeping", "running", "retrying"}, wake : Nat, delay : Nat]
  BY <1>1, <1>2 DEF Punctual
<1>4. CASE Raises(clock)
  <2>1. loop' = [loop EXCEPT !.at = "retrying", !.wake = clock + Retry]
    BY <1>1, <1>4 DEF Rescheduled
  <2>2. /\ loop'.at = "retrying" /\ loop'.wake = clock + Retry /\ loop'.delay = loop.delay
        /\ loop' \in [at : {"dead", "sleeping", "running", "retrying"}, wake : Nat, delay : Nat]
    <3>1. PICK next \in Nat : next = clock + Retry
      BY <1>3, Calendar
    <3>2. loop' = [loop EXCEPT !.at = "retrying", !.wake = next]
      BY <2>1, <3>1
    <3>3. QED
      BY <1>3, <3>1, <3>2
  <2>3. /\ Kept(DayOf((clock + Retry) + loop.delay))
        /\ OnTime((clock + Retry) + loop.delay, loop.delay)
    BY <1>3, <1>4, AfterError
  <2>4. Kept(DayOf((clock + Retry) + loop.delay))'
    BY <1>1, <2>2, <2>3 DEF Kept
  <2>5. clock <= clock + Retry
    BY <1>3, Calendar
  <2>6. QED
    BY <1>1, <1>3, <2>2, <2>3, <2>4, <2>5 DEF Punctual
<1>5. CASE ~Raises(clock)
  <2>1. loop' = [at |-> "sleeping", wake |-> clock + Until(clock), delay |-> Until(clock)]
    BY <1>1, <1>5 DEF Rescheduled
  <2>2. Kept(DayOf(clock)) /\ (Hour(clock) >= RunAt => Kept(DayOf(clock) + 1))
    BY <1>3, EndKeeps
  <2>3. /\ Until(clock) \in 1 .. Day /\ clock + Until(clock) \in Nat /\ clock <= clock + Until(clock)
        /\ Kept(DayOf(clock + Until(clock))) /\ OnTime(clock + Until(clock), Until(clock))
    BY <1>3, <1>5, <2>2, StartKeeps
  <2>4. Until(clock) \in Nat /\ Kept(DayOf(clock + Until(clock)))'
    BY <1>1, <2>3, Calendar DEF Kept
  <2>5. QED
    BY <1>1, <1>3, <2>1, <2>3, <2>4 DEF Punctual
<1>6. QED
  BY <1>4, <1>5

LEMMA SleepAgainIsPunctual ==
  ASSUME Punctual, SleepAgain
  PROVE  Punctual'
<1>1. /\ loop.at = "retrying" /\ clock = loop.wake
      /\ loop' = [loop EXCEPT !.at = "sleeping", !.wake = clock + loop.delay]
      /\ UNCHANGED <<born, served, run, clock>>
  BY DEF SleepAgain
<1>2. /\ loop'.at = "sleeping" /\ loop'.wake = clock + loop.delay /\ loop'.delay = loop.delay
      /\ loop' \in [at : {"dead", "sleeping", "running", "retrying"}, wake : Nat, delay : Nat]
      /\ clock <= clock + loop.delay
  <2>1. /\ clock \in Nat /\ loop.delay \in Nat
        /\ loop \in [at : {"dead", "sleeping", "running", "retrying"}, wake : Nat, delay : Nat]
    BY DEF Punctual
  <2>2. PICK next \in Nat : next = clock + loop.delay /\ clock <= next
    BY <2>1
  <2>3. loop' = [loop EXCEPT !.at = "sleeping", !.wake = next]
    BY <1>1, <2>2
  <2>4. QED
    BY <2>1, <2>2, <2>3
<1>3. Kept(DayOf(clock + loop.delay)) /\ OnTime(clock + loop.delay, loop.delay)
  BY <1>1 DEF Punctual
<1>4. Kept(DayOf(clock + loop.delay))'
  BY <1>1, <1>2, <1>3 DEF Kept
<1>5. QED
  BY <1>1, <1>2, <1>3, <1>4 DEF Punctual

LEMMA TickIsPunctual ==
  ASSUME Punctual, Tick
  PROVE  Punctual'
<1>1. /\ clock' = clock + 1 /\ UNCHANGED <<loop, born, served, run>>
      /\ loop.at \in {"sleeping", "retrying"} => clock < loop.wake
      /\ run["service"] # Idle => clock < run["service"].began + MaxRun
  BY DEF Tick, service, Runners
<1>2. QED
  BY <1>1, Calendar DEF Punctual, Kept

LEMMA ScheduleInit == Init => Punctual
<1> SUFFICES ASSUME Init PROVE Punctual
  OBVIOUS
<1>1. /\ clock = 1 /\ loop = Started(1) /\ born = 1 /\ served = {} /\ run["service"] = Idle
      /\ Idle.at = "idle"
  BY DEF Init, Runners, Idle
<1>2. DayOf(1) \in Nat /\ Until(1) \in 1 .. Day /\ Until(1) \in Nat
      /\ DayOf(1 + Until(1)) <= DayOf(1) + 1 /\ Hour(1 + Until(1)) = RunAt
      /\ DayOf(1 + Until(1)) \in Nat
  BY Clocks, UntilIs, Calendar
<1>3. CASE Raises(1)
  BY <1>1, <1>3 DEF Started, Punctual
<1>4. CASE ~Raises(1)
  <2>1. loop = [at |-> "sleeping", wake |-> 1 + Until(1), delay |-> Until(1)]
    BY <1>1, <1>4 DEF Started
  <2>2. Kept(DayOf(1 + Until(1))) /\ OnTime(1 + Until(1), Until(1))
    BY <1>1, <1>2 DEF Kept, OnTime
  <2>3. QED
    BY <1>1, <1>2, <1>4, <2>1, <2>2 DEF Punctual
<1>5. QED
  BY <1>3, <1>4

LEMMA ScheduleStep == IInv /\ Punctual /\ [Next]_vars => Punctual'
<1> SUFFICES ASSUME IInv, Punctual, [Next]_vars PROVE Punctual'
  OBVIOUS
<1>1. /\ DOMAIN run = Runners /\ "service" \in Runners
      /\ run["service"] \in [at : {"idle", "open"} \union Holding, pairs : SUBSET Pairs,
                             fd : Inodes \union {NoInode}, began : Int]
  BY DEF IInv, RegistryInv, RunType, Runners
<1>2. CASE Wake
  BY <1>1, <1>2, WakeIsPunctual
<1>3. CASE Finish
  BY <1>1, <1>3, FinishIsPunctual
<1>4. CASE SleepAgain
  BY <1>4, SleepAgainIsPunctual
<1>5. CASE BeginByHand \/ FinishByHand
  <2>1. UNCHANGED <<service, clock>> /\ run'["service"] = run["service"]
    BY <1>1, <1>5 DEF BeginByHand, Begin, FinishByHand, Returned, Failed
  <2>2. QED
    BY <2>1, SameSchedule
<1>6. ASSUME NEW r \in Runners, OpenTemp(r) \/ Write(r) PROVE Punctual'
  <2>1. UNCHANGED <<service, clock>>
    BY <1>6 DEF OpenTemp, Write
  <2>2. CASE r = "service"
    <3>1. /\ run["service"].at # "idle" /\ run'["service"].at # "idle"
          /\ run'["service"].began = run["service"].began
      BY <1>1, <1>6, <2>2 DEF OpenTemp, Write
    <3>2. QED
      BY <2>1, <3>1, StillRunning
  <2>3. CASE r # "service"
    <3>1. run'["service"] = run["service"]
      BY <1>1, <1>6, <2>3 DEF OpenTemp, Write
    <3>2. QED
      BY <2>1, <3>1, SameSchedule
  <2>4. QED
    BY <2>2, <2>3
<1>7. CASE Stat \/ Load \/ Maintain \/ UNCHANGED vars
  <2>1. UNCHANGED <<service, clock, run>>
    BY <1>7 DEF Stat, Load, Maintain, vars
  <2>2. QED
    BY <2>1, SameSchedule
<1>8. CASE Restart
  <2>1. /\ loop' = Started(clock) /\ born' = clock /\ served' = {} /\ clock' = clock
        /\ run'["service"] = Idle /\ clock \in Nat
    BY <1>1, <1>8 DEF Restart, Punctual
  <2>2. QED
    BY <2>1, StartIsPunctual
<1>9. CASE Tick
  BY <1>9, TickIsPunctual
<1>10. QED
  BY <1>2, <1>3, <1>4, <1>5, <1>6, <1>7, <1>8, <1>9 DEF Next

\* For any calendar, hour and duration below a day: the service runs at its hour
\* but for the error of _seconds_until_target_hour (service.py, 64-71) on the last
\* day of a month, and misses no day but the first two of a month.
THEOREM ServiceKeepsSchedule == Spec => []ScheduleKept
<1>1. ASSUME Punctual PROVE ScheduleKept
  <2>1. ASSUME run["service"] # Idle, Hour(run["service"].began) # RunAt
        PROVE  LastDay(run["service"].began) \/ DayOfMonth(run["service"].began) = 1
    BY <1>1, <2>1, Clocks DEF Punctual, OnTime
  <2>2. ASSUME loop.at # "dead" PROVE Kept(DayOf(clock))
    <3>1. clock \in Nat /\ born \in Nat /\ DayOf(clock) \in Nat /\ loop.delay \in 1 .. Day
          /\ loop.wake \in Nat
      BY <1>1, <2>2, Clocks DEF Punctual
    <3>2. CASE loop.at = "sleeping"
      <4>1. clock <= loop.wake /\ Kept(DayOf(loop.wake)) /\ DayOf(loop.wake) \in Nat
        BY <1>1, <3>1, <3>2, Clocks DEF Punctual
      <4>2. QED
        BY <3>1, <4>1, DaysPass, KeptBefore
    <3>3. CASE loop.at = "retrying"
      <4>1. PICK next \in Nat : clock <= next /\ Kept(DayOf(next))
        BY <1>1, <3>1, <3>3 DEF Punctual
      <4>2. QED
        BY <3>1, <4>1, Clocks, DaysPass, KeptBefore
    <3>4. CASE loop.at = "running"
      BY <1>1, <3>1, <3>4, EndKeeps DEF Punctual
    <3>5. QED
      BY <1>1, <2>2, <3>2, <3>3, <3>4 DEF Punctual
  <2>3. QED
    BY <1>1, <2>1, <2>2 DEF ScheduleKept, Punctual, Kept, DayOf
<1>2. Spec => [](IInv /\ Punctual)
  BY RegistryInit, RegistryStep, ScheduleInit, ScheduleStep, PTL DEF Spec
<1>3. QED
  BY <1>1, <1>2, PTL
=============================================================================
