------------------------------- MODULE LogrFile -------------------------------
(***************************************************************************)
(* The files of a logger: openLogrger and what a write does to them.       *)
(*                                                                         *)
(* _curFileIndex grows when the file is full and starts again with the     *)
(* day; a name is built of the index and, with _monthdir, of the month.    *)
(* Everything here happens in the one thread of run() or under _logrLock,  *)
(* so that a step is a record or a setting; LogrManager has the threads.   *)
(* The time of a record is when it was made, and its turn comes later,     *)
(* perhaps on the next day.                                                *)
(***************************************************************************)
EXTENDS Integers, Sequences

CONSTANTS
  Paths,        \* the values of _path and _name: directories, and what name leads to
  Default,      \* the one a process starts with
  Limits,       \* the limits that are asked for
  DefaultLimit,
  Unit,         \* 1024 * 1024
  Width,        \* 2^32
  RecordLens,   \* lengths of a record
  DaysPerMonth,
  LastDay,      \* bound: the days
  MaxRecords,   \* bound: the records
  MaxChanges,   \* bound: the settings changed and the starts of the program
  Builds,       \* the values of LOGR4Z_ALL_SYNCHRONOUS_OUTPUT
  DiskFails,    \* mkdir, fopen and fwrite may fail
  CleanUps,     \* somebody may remove the log directories
  Closed        \* _handle is not open

ASSUME FileAssumption ==
  /\ Paths \subseteq Seq(STRING) \ {<<>>} /\ Default \in Paths
  /\ Limits \subseteq 0 .. Width - 1 /\ DefaultLimit \in Limits \ {0}
  /\ Unit \in Nat \ {0} /\ Width \in Nat \ {0} /\ Width % Unit = 0
  /\ RecordLens \subseteq 1 .. Unit - 1
  /\ DaysPerMonth \in Nat \ {0}
  /\ {LastDay, MaxRecords, MaxChanges} \subseteq Nat
  /\ {DiskFails, CleanUps} \cup Builds \subseteq BOOLEAN

Days == 0 .. LastDay
Month(day) == <<"month 1", "month 2", "month 3">>[1 + (day \div DaysPerMonth)]
Dirs == Paths \cup {path \o <<Month(day)>> : path \in Paths, day \in Days}
Files == [dir : Dirs, index : 0 .. MaxRecords]

ASSUME FileConstants == Closed \notin Files

VARIABLES
  synchronous, \* LOGR4Z_ALL_SYNCHRONOUS_OUTPUT, for good
  today,     \* the day on the clock
  running,   \* _runing
  setting,   \* _path with _name, _monthdir, _limitsize
  logrger,   \* the runtime part of LogrgerInfo, and _outfile
  fs,        \* the directories, the length of each file, and that of the file opened last before it was (history)
  sinceOpen, \* the records given to _handle since it was opened (history)
  lastDay,   \* the day of the last record written (history)
  excused,   \* _outfile is off by request, or for a fault of the disk (history)
  records,   \* records so far
  changes    \* settings changed and starts so far

history == <<sinceOpen, lastDay, excused>>
vars == <<synchronous, today, running, setting, logrger, fs, history, records, changes>>

NeverDay == -1

\* LogrgerInfo(): _curFileCreateTime is in 1970.
Fresh == [created |-> NeverDay, index |-> 0, writeLen |-> 0, handle |-> Closed, outfile |-> TRUE]
Defaults == [path |-> Default, monthdir |-> FALSE, limit |-> DefaultLimit]

EmptyDisk == [dirs |-> {}, length |-> <<>>, opened |-> 0]

Init ==
  /\ synchronous \in Builds
  /\ today = 0 /\ running = TRUE
  /\ setting = Defaults /\ logrger = Fresh
  /\ fs = EmptyDisk
  /\ sinceOpen = 0 /\ lastDay = NeverDay /\ excused = FALSE
  /\ records = 0 /\ changes = 0

-----------------------------------------------------------------------------
Dir(day) == IF setting.monthdir THEN setting.path \o <<Month(day)>> ELSE setting.path
File(day, index) == [dir |-> Dir(day), index |-> index]
Prefixes(dir, k) == {SubSeq(dir, 1, i) : i \in 1 .. k}

\* What createRecursionDir may leave behind.
Made(dirs, faulty) == [dirs |-> dirs, faulty |-> faulty]

\* Faulty variant: mkdir for the whole path only.
createRecursionDirLast(dir) ==
  {Made(IF SubSeq(dir, 1, Len(dir) - 1) \in fs.dirs \cup {<<>>} THEN fs.dirs \cup {dir} ELSE fs.dirs, FALSE)}

\* Every directory on the way is made that is missing, up to one that mkdir
\* refuses.
createRecursionDir(dir) ==
  {Made(fs.dirs \cup Prefixes(dir, Len(dir)), FALSE)}
    \cup {Made(fs.dirs \cup Prefixes(dir, k - 1), TRUE) :
            k \in {i \in DOMAIN dir : DiskFails /\ SubSeq(dir, 1, i) \notin fs.dirs}}

\* _limitsize * 1024 * 1024, in 32 bits.
LimitBytes == (setting.limit * Unit) % Width

\* Faulty variant: the limit is in bytes.
RotatedEarly(day) ==
  LET sameday == day = logrger.created
      needChangeFile == logrger.writeLen > setting.limit
  IN  IF sameday /\ ~needChangeFile THEN logrger
      ELSE [logrger EXCEPT !.index = IF sameday THEN @ + 1 ELSE 0, !.handle = Closed]

\* A new day starts with the first file again, a full file is followed by
\* the next.
Rotated(day) ==
  LET sameday == day = logrger.created
      needChangeFile == logrger.writeLen > LimitBytes
  IN  IF sameday /\ ~needChangeFile THEN logrger
      ELSE [logrger EXCEPT !.index = IF sameday THEN @ + 1 ELSE 0, !.handle = Closed]

Grown(len, file, n) ==
  [f \in DOMAIN len \cup {file} |-> (IF f \in DOMAIN len THEN len[f] ELSE 0) + (IF f = file THEN n ELSE 0)]

\* fopen, mode "ab": the file is made if it is not there, and else kept.
fopen(dirs, file) ==
  LET length == Grown(fs.length, file, 0) IN [dirs |-> dirs, length |-> length, opened |-> length[file]]

Outcome(lg, disk, faulty, before) == [logrger |-> lg, fs |-> disk, faulty |-> faulty, before |-> before]

(***************************************************************************)
(* The ways openLogrger may end: with _handle open, or with _outfile off   *)
(* for good.  It makes the directories that are missing, without a look at *)
(* the result.                                                             *)
(***************************************************************************)
openLogrger(day) ==
  LET before == Rotated(day)
      file == File(day, before.index)
      now == [before EXCEPT !.created = day, !.writeLen = 0]
      ways == IF file.dir \in fs.dirs THEN {Made(fs.dirs, FALSE)} ELSE createRecursionDir(file.dir)
      opened == {Outcome([now EXCEPT !.handle = file], fopen(made.dirs, file), FALSE, 0) :
                   made \in {m \in ways : file.dir \in m.dirs}}
      failed == {Outcome([now EXCEPT !.outfile = FALSE], [fs EXCEPT !.dirs = made.dirs], made.faulty \/ file.dir \in made.dirs, 0) :
                   made \in {m \in ways : DiskFails \/ file.dir \notin m.dirs}}
  IN  IF before.handle # Closed THEN {Outcome(before, fs, FALSE, sinceOpen)} ELSE opened \cup failed

-----------------------------------------------------------------------------
\* The next record, and how it finds its file.
Recording(day, result) ==
  /\ records < MaxRecords /\ records' = records + 1
  /\ logrger.outfile
  /\ day \in {today, today - 1}
  /\ result \in openLogrger(day)
  /\ UNCHANGED <<synchronous, today, running, setting, changes>>

openFails ==
  /\ synchronous => running
  /\ \E day \in Days : \E result \in openLogrger(day) :
       /\ Recording(day, result)
       /\ result.logrger.handle = Closed
       /\ logrger' = result.logrger /\ fs' = result.fs
       /\ excused' = (excused \/ result.faulty)
  /\ UNCHANGED <<sinceOpen, lastDay>>

\* fwrite of len bytes, of which n are stored.
Writes(day, len, n, result) ==
  LET file == result.logrger.handle IN
    /\ file # Closed
    /\ fs' = [result.fs EXCEPT !.length = Grown(@, file, n)]
    /\ sinceOpen' = result.before + len
    /\ lastDay' = day

\* Of a record only a part may be stored (all but a byte stands for any
\* part): then write() closes the file.
Stores(len) == IF DiskFails THEN {len - 1, len} ELSE {len}

\* pushLogr: the file is closed behind each record, the length is not kept.
pushLogr ==
  /\ synchronous /\ running
  /\ \E day \in Days, len \in RecordLens : \E n \in Stores(len), result \in openLogrger(day) :
       /\ Recording(day, result)
       /\ Writes(day, len, n, result)
       /\ logrger' = [result.logrger EXCEPT !.handle = Closed]
  /\ UNCHANGED excused

\* Faulty variant: _curWriteLen is not counted.
handleLogrUncounted ==
  /\ ~synchronous
  /\ \E day \in Days, len \in RecordLens : \E n \in Stores(len), result \in openLogrger(day) :
       /\ Recording(day, result)
       /\ Writes(day, len, n, result)
       /\ logrger' = [result.logrger EXCEPT !.handle = IF n = len THEN @ ELSE Closed]
  /\ UNCHANGED excused

\* Faulty variant: write() has no look at what fwrite returns.
handleLogrGoesOn ==
  /\ ~synchronous
  /\ \E day \in Days, len \in RecordLens : \E n \in Stores(len), result \in openLogrger(day) :
       /\ Recording(day, result)
       /\ Writes(day, len, n, result)
       /\ logrger' = [result.logrger EXCEPT !.writeLen = (@ + len) % Width]
  /\ UNCHANGED excused

\* run(), with a record from the queue: the file stays open.
handleLogr ==
  /\ ~synchronous
  /\ \E day \in Days, len \in RecordLens : \E n \in Stores(len), result \in openLogrger(day) :
       /\ Recording(day, result)
       /\ Writes(day, len, n, result)
       /\ logrger' = [result.logrger EXCEPT !.handle = IF n = len THEN @ ELSE Closed,
                                            !.writeLen = (@ + len) % Width]
  /\ UNCHANGED excused

-----------------------------------------------------------------------------
Changing == changes < MaxChanges /\ changes' = changes + 1

\* No limit is the largest one.
setLogrgerLimitsize(limitsize) == IF limitsize = 0 THEN Width - 1 ELSE limitsize

NewSettings ==
  {[setting EXCEPT !.path = path] : path \in Paths}
    \cup {[setting EXCEPT !.limit = setLogrgerLimitsize(limit)] : limit \in Limits}
    \cup {[setting EXCEPT !.monthdir = ~@]}

\* Faulty variant: run() does not close the file.
hotChangeKeepsFile ==
  /\ Changing
  /\ setting' \in NewSettings \ {setting}
  /\ UNCHANGED <<synchronous, today, running, logrger, fs, history, records>>

\* run() closes the file behind a setting from the queue.  When it has been
\* told to stop a setting no longer queues, and an open file stays open.
hotChange ==
  /\ Changing
  /\ setting' \in NewSettings \ {setting}
  /\ logrger' = [logrger EXCEPT !.handle = IF running THEN Closed ELSE @]
  /\ UNCHANGED <<synchronous, today, running, fs, history, records>>

setLogrgerOutFile ==
  /\ Changing
  /\ \E enable \in BOOLEAN :
       /\ logrger' = [logrger EXCEPT !.outfile = enable, !.handle = IF running THEN Closed ELSE @]
       /\ excused' = ~enable
  /\ UNCHANGED <<synchronous, today, running, setting, fs, sinceOpen, lastDay, records>>

midnight ==
  /\ today < LastDay /\ today' = today + 1
  /\ UNCHANGED <<synchronous, running, setting, logrger, fs, history, records, changes>>

stop ==
  /\ running /\ running' = FALSE
  /\ UNCHANGED <<synchronous, today, setting, logrger, fs, history, records, changes>>

\* run() has ended and closed the file; the program is started again.
restart ==
  /\ ~running /\ Changing
  /\ running' = TRUE
  /\ setting' = Defaults /\ logrger' = Fresh /\ excused' = FALSE
  /\ UNCHANGED <<synchronous, today, fs, sinceOpen, lastDay, records>>

cleanUp ==
  /\ CleanUps /\ logrger.handle = Closed /\ fs.dirs # {}
  /\ fs' = EmptyDisk
  /\ UNCHANGED <<synchronous, today, running, setting, logrger, history, records, changes>>

\* The program is not started again.
Over == ~running /\ UNCHANGED vars

Next ==
  \/ pushLogr \/ handleLogr \/ openFails
  \/ hotChange \/ setLogrgerOutFile
  \/ midnight \/ stop \/ restart \/ cleanUp
  \/ Over

Spec == Init /\ [][Next]_vars

-----------------------------------------------------------------------------
(***************************************************************************)
(* While run() goes on, the file that is open is the one the settings, the *)
(* index and the day of the record written last ask for: no setting, and   *)
(* no record that comes late over midnight, is written past.               *)
(***************************************************************************)
HandleIsCurrent ==
  running /\ logrger.handle # Closed => logrger.handle = File(lastDay, logrger.index)

(***************************************************************************)
(* With the queue, a file takes no more between its opening and its change *)
(* than the limit and one record, also where the limit in bytes passes     *)
(* 2^32; the count never wraps.                                            *)
(***************************************************************************)
SinceOpenLimited ==
  logrger.handle # Closed =>
    /\ logrger.writeLen = sinceOpen
    /\ running => \E len \in RecordLens : sinceOpen <= setting.limit * Unit + len

(***************************************************************************)
(* With the queue, an open file has all that was in it when it was opened, *)
(* and behind it every record it was given since then, whole: what a       *)
(* failing disk cuts off is the end of what one opening gave it, and a     *)
(* file that is come back to, on the next day, after a failed write or a   *)
(* start of the program, is continued.                                     *)
(***************************************************************************)
OpenFileWhole ==
  logrger.handle # Closed => fs.length[logrger.handle] = fs.opened + sinceOpen

(***************************************************************************)
(* The file output goes off only by request or when the disk refuses: what *)
(* openLogrger needs, it makes, whatever the path, and again after the     *)
(* directories were removed.                                               *)
(***************************************************************************)
OnlyDiskStops == ~logrger.outfile => excused

(***************************************************************************)
(* The number of the file grows only when the file is as long as the limit *)
(* says, for the limits (below 4096) whose length in bytes is less than    *)
(* 2^32; of the others, "no limit" among them, only a remainder counts.    *)
(***************************************************************************)
ChangesWhenFull ==
  [][setting.limit * Unit < Width /\ logrger'.index > logrger.index
       => sinceOpen > setting.limit * Unit]_vars

\* No file is longer than the limit, by more than its last record.
FilesLimited ==
  \A f \in DOMAIN fs.length : \E len \in RecordLens : fs.length[f] <= setting.limit * Unit + len

=============================================================================
