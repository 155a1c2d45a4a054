--------------------------- MODULE Recalibration ---------------------------
(***************************************************************************)
(* The daily recalibration: RecalibrationService sleeps until the target   *)
(* hour and runs the pipeline in a thread; the pipeline reads the candle   *)
(* files, which the maintenance loop rewrites at the same time, and        *)
(* replaces the registry of pairs through a temporary file; the strategy   *)
(* reloads the registry when a snapshot finds it newer.  The pipeline can  *)
(* be run by hand as well, in a process of its own.                        *)
(*                                                                         *)
(* The temporary file and the registry are names of inodes: a writer holds *)
(* an inode, whatever name it gets meanwhile.  A pair's verdict (see       *)
(* PairResearch) is an input.                                              *)
(***************************************************************************)
EXTENDS CandleArchive

CONSTANTS
  Pairs,     \* candidate pairs
  Local,     \* those of the coin whose file is modelled
  Defaults,  \* DEFAULT_CROSS_PAIRS
  Day, Month,  \* ticks of a day, days of a month
  RunAt,     \* run_at_utc_hour
  Retry,     \* the pause after an exception in the loop
  MaxRun,    \* bound on the duration of a pipeline
  MaxRuns    \* bound on the runs by hand, and on the restarts

ASSUME RecalibrationAssumption ==
  /\ Local \subseteq Pairs /\ Defaults \subseteq Pairs
  /\ {Day, Month} \subseteq Nat \ {0}
  /\ RunAt \in 0..(Day - 1)
  /\ {Retry, MaxRun, MaxRuns} \subseteq Nat

\* A pipeline takes less than a day, and what is late after an error is not late
\* by one more.
ASSUME CalendarAssumption ==
  /\ Month > 2 /\ MaxRun < Day
  /\ Retry = 0 \/ RunAt + MaxRun + Retry < Day

Runners == {"service", "hand"}
Inodes == 1..4  \* two names and two writers
NoInode == 0

VARIABLES
  loop,    \* RecalibrationService._task: [at, wake, delay]
  born,    \* when it was started
  served,  \* days on which it ran the pipeline
  run,     \* of each runner: [at, pairs, fd, began]
  temp, active,  \* the inodes the two names stand for
  data,    \* of each inode: the pairs in it, or Garbage
  mtime,   \* of each inode
  writes,  \* the time stamps, given out once each
  touched, \* inodes another writer wrote to since the runner opened them
  pairs,   \* CrossCoinStrategy.pairs_map
  known,   \* last_registry_mtime
  seen,    \* the mtime of a reload in progress, or 0
  overlap, \* history: two pipelines held the temporary file
  byHand   \* history: runs by hand and restarts
service == <<loop, born, served>>
registry == <<temp, active, data, mtime, writes, touched, overlap>>
strategy == <<pairs, known, seen>>
vars == <<clock, archiveVars, service, run, registry, strategy, byHand>>

Garbage == [torn |-> TRUE, pairs |-> {}]
Whole(ps) == [torn |-> FALSE, pairs |-> ps]

-----------------------------------------------------------------------------
\* _seconds_until_target_hour: replace(day = day + 1) raises on the last day
\* of a month
DayOfMonth(t) == ((t \div Day) % Month) + 1
LastDay(t) == DayOfMonth(t) = Month
Hour(t) == t % Day
Raises(t) == Hour(t) >= RunAt /\ LastDay(t)
Until(t) == IF Hour(t) < RunAt THEN RunAt - Hour(t) ELSE Day - Hour(t) + RunAt

\* _run_loop: the first delay is computed outside the handler
Started(t) ==
  IF Raises(t) THEN [at |-> "dead", wake |-> t, delay |-> 0]
  ELSE [at |-> "sleeping", wake |-> t + Until(t), delay |-> Until(t)]

Idle == [at |-> "idle", pairs |-> {}, fd |-> NoInode, began |-> 0]

Init ==
  /\ clock = 1 /\ ArchiveInit
  /\ loop = Started(1) /\ born = 1 /\ served = {}
  /\ run = [r \in Runners |-> Idle]
  /\ temp = NoInode /\ active = NoInode
  /\ data = [i \in Inodes |-> Garbage] /\ mtime = [i \in Inodes |-> 0]
  /\ writes = 0 /\ touched = {} /\ overlap = FALSE
  /\ pairs = Defaults /\ known = 0 /\ seen = 0
  /\ byHand = 0

-----------------------------------------------------------------------------
\* RecalibrationPipeline.run: the screener and the walk-forward engine read the
\* files, and skip a coin whose file does not read
Readable == file.rows # {}
Screened == IF Readable THEN Pairs ELSE Pairs \ Local
Begin(r) ==
  /\ run[r] = Idle
  /\ \E ps \in SUBSET Screened :
       run' = [run EXCEPT ![r] = [at |-> "open", pairs |-> ps, fd |-> NoInode, began |-> clock]]

\* open(temp_file, "w"): the inode of that name is emptied, or a new one made
Free(i) == i # active /\ \A q \in Runners : run[q].fd # i
Opens_InPlace(i) == i = IF active = NoInode THEN 1 ELSE active
Opens(i) ==
  IF temp = NoInode THEN Free(i) /\ \A j \in Inodes : Free(j) => i <= j ELSE i = temp
OpenTemp(r) ==
  /\ run[r].at = "open"
  /\ \E i \in Inodes :
       /\ Opens(i)
       /\ temp' = i
       /\ run' = [run EXCEPT ![r].at = "write", ![r].fd = i]
       /\ data' = [data EXCEPT ![i] = Garbage]
       /\ mtime' = [mtime EXCEPT ![i] = writes + 1]
       /\ overlap' = (overlap \/ \E q \in Runners : run[q].at \in {"write", "replace"})
  /\ writes' = writes + 1
  /\ touched' = touched \ {r}
  /\ UNCHANGED <<active, clock, archiveVars, service, strategy, byHand>>

\* what two writers leave in one inode may be neither's
Write(r) ==
  /\ run[r].at = "write"
  /\ LET i == run[r].fd IN
     /\ \E d \in {Whole(run[r].pairs)} \union (IF r \in touched THEN {Garbage} ELSE {}) :
          data' = [data EXCEPT ![i] = d]
     /\ mtime' = [mtime EXCEPT ![i] = writes + 1]
     /\ touched' = touched \union {q \in Runners \ {r} : run[q].at = "write" /\ run[q].fd = i}
  /\ run' = [run EXCEPT ![r].at = "replace", ![r].pairs = {}]
  /\ writes' = writes + 1
  /\ UNCHANGED <<temp, active, overlap, clock, archiveVars, service, strategy, byHand>>

\* temp_file.replace(active_file) raises if the other pipeline was faster
Replaced == IF temp = NoInode THEN active ELSE temp
\* an inode ends with its last name and its last writer
Gone(r, i) == i # Replaced /\ \A q \in Runners \ {r} : run[q].fd # i
Returned(r) ==
  /\ run[r].at = "replace"
  /\ active' = Replaced
  /\ temp' = NoInode
  /\ run' = [run EXCEPT ![r] = Idle]
  /\ data' = [i \in Inodes |-> IF Gone(r, i) THEN Garbage ELSE data[i]]
  /\ mtime' = [i \in Inodes |-> IF Gone(r, i) THEN 0 ELSE mtime[i]]
  /\ UNCHANGED <<writes, touched, overlap>>

\* no coin is liquid enough, or any step before the replacement raises
Failed(r) ==
  /\ run[r].at \in {"open", "write"}
  /\ run' = [run EXCEPT ![r] = Idle]
  /\ touched' = touched \ {r}
  /\ UNCHANGED <<temp, active, data, mtime, writes, overlap>>

-----------------------------------------------------------------------------
\* RecalibrationService._run_loop
Wake ==
  /\ loop.at = "sleeping" /\ clock = loop.wake
  /\ Begin("service")
  /\ loop' = [loop EXCEPT !.at = "running", !.wake = 0]
  /\ served' = served \union {clock \div Day}
  /\ UNCHANGED <<born, clock, archiveVars, registry, strategy, byHand>>

\* whether the run succeeded or not, the next one is scheduled
Rescheduled_SameDelay == [at |-> "sleeping", wake |-> clock + loop.delay, delay |-> loop.delay]
Rescheduled ==
  IF Raises(clock) THEN [loop EXCEPT !.at = "retrying", !.wake = clock + Retry]
  ELSE [at |-> "sleeping", wake |-> clock + Until(clock), delay |-> Until(clock)]
Finish ==
  /\ Returned("service") \/ Failed("service")
  /\ loop' = Rescheduled
  /\ UNCHANGED <<born, served, clock, archiveVars, strategy, byHand>>

\* the delay of the last time is slept again
SleepAgain ==
  /\ loop.at = "retrying" /\ clock = loop.wake
  /\ loop' = [loop EXCEPT !.at = "sleeping", !.wake = clock + loop.delay]
  /\ UNCHANGED <<born, served, run, clock, archiveVars, registry, strategy, byHand>>

\* python -m cryptoarb.recalibration.pipeline
BeginByHand ==
  /\ byHand < MaxRuns /\ byHand' = byHand + 1
  /\ Begin("hand")
  /\ UNCHANGED <<clock, archiveVars, service, registry, strategy>>
FinishByHand ==
  /\ Returned("hand") \/ Failed("hand")
  /\ UNCHANGED <<clock, archiveVars, service, strategy, byHand>>

-----------------------------------------------------------------------------
\* CrossCoinStrategy._check_hot_reload, from snapshot: the time stamp is taken
\* before the file is opened, and the pipeline may replace it in between
Stat ==
  /\ seen = 0 /\ active # NoInode
  /\ mtime[active] > known
  /\ seen' = mtime[active]
  /\ UNCHANGED <<pairs, known, run, clock, archiveVars, service, registry, byHand>>

\* _load_registry: has_open_position is set nowhere, so every pair that is not
\* in the registry goes at once; a file that does not parse changes nothing but
\* an empty map
Loaded_StampedLate ==
  IF data[active].torn
  THEN [pairs |-> IF pairs = {} THEN Defaults ELSE pairs, known |-> known]
  ELSE [pairs |-> data[active].pairs, known |-> mtime[active] + 1]
Loaded ==
  IF data[active].torn
  THEN [pairs |-> IF pairs = {} THEN Defaults ELSE pairs, known |-> known]
  ELSE [pairs |-> data[active].pairs, known |-> seen]
Load ==
  /\ seen # 0
  /\ pairs' = Loaded.pairs /\ known' = Loaded.known
  /\ seen' = 0
  /\ UNCHANGED <<run, clock, archiveVars, service, registry, byHand>>

-----------------------------------------------------------------------------
\* the engine's maintenance loop and its start
Maintain ==
  /\ Sync \/ Written \/ WriteFails
  /\ UNCHANGED <<clock, service, run, registry, strategy, byHand>>

\* the process is killed and started again; _load_registry is called at once
Restart ==
  /\ byHand < MaxRuns /\ byHand' = byHand + 1
  /\ KillArchive
  /\ loop' = Started(clock) /\ born' = clock /\ served' = {}
  /\ run' = [run EXCEPT !["service"] = Idle]
  /\ touched' = touched \ {"service"}
  /\ IF active # NoInode /\ ~data[active].torn
     THEN pairs' = data[active].pairs /\ known' = mtime[active]
     ELSE pairs' = Defaults /\ known' = 0
  /\ seen' = 0
  /\ UNCHANGED <<clock, temp, active, data, mtime, writes, overlap>>

\* sleeps end in time, and a pipeline takes at most MaxRun
Tick ==
  /\ clock < MaxTime
  /\ loop.at \in {"sleeping", "retrying"} => clock < loop.wake
  /\ \A r \in Runners : run[r] # Idle => clock < run[r].began + MaxRun
  /\ clock' = clock + 1
  /\ UNCHANGED <<archiveVars, service, run, registry, strategy, byHand>>

Next ==
  \/ Wake \/ Finish \/ SleepAgain \/ BeginByHand \/ FinishByHand
  \/ \E r \in Runners : OpenTemp(r) \/ Write(r)
  \/ Stat \/ Load \/ Maintain \/ Restart \/ Tick

Spec == Init /\ [][Next]_vars

-----------------------------------------------------------------------------
\* What the documents say of the service (WALK_FORWARD_PAIRS_SYSTEM.md, 210,
\* volume_oi_momentum_strategy.md, 33, service.py, 3): it runs every day, exactly
\* at its hour.  The code does not: see service.py, 70.
DailyAtItsHour ==
  /\ run["service"] # Idle => Hour(run["service"].began) = RunAt
  /\ loop.at # "dead"
  /\ \A d \in (born \div Day + 1)..(clock \div Day - 1) : d \in served

\* What is left of it: another hour comes only from the error on the last day of
\* a month (service.py, 70), on that day or the next.  The service dies only
\* if it was started on such a day after the hour, and then for ever.  While it
\* lives, no day but the first two of a month passes without a run: the run that
\* is late on the first may end on the second, after its hour.
ScheduleKept ==
  /\ run["service"] # Idle /\ Hour(run["service"].began) # RunAt =>
       LastDay(run["service"].began) \/ DayOfMonth(run["service"].began) = 1
  /\ loop.at = "dead" <=> Raises(born)
  /\ loop.at # "dead" =>
       \A d \in (born \div Day + 1)..(clock \div Day - 1) : d % Month > 1 => d \in served

\* The strategy that thinks its registry is the newest has the pairs that are in
\* the file, whenever the pipeline replaced it (cross_coin.py, 110-157); and as
\* long as no two pipelines meet, no registry looks older than the one it read,
\* which it would never load.
SeesLatest ==
  /\ active # NoInode /\ known = mtime[active] => pairs = data[active].pairs /\ ~data[active].torn
  /\ active # NoInode /\ ~overlap => known <= mtime[active]

\* A registry that does not parse comes only from two pipelines at a time, which
\* share the temporary file (pipeline.py, 154-157); a kill leaves none.
TornByTwoWriters == active # NoInode /\ data[active].torn => overlap
=============================================================================
