---------------------------- MODULE LogrFileProofs ----------------------------
(***************************************************************************)
(* Theorems about LogrFile, for any paths, limits and lengths of records   *)
(* that are shorter than the unit of a limit.                              *)
(*                                                                         *)
(* That the file that is open is the right one depends on the day of       *)
(* _curFileCreateTime being that of the last record, and that the limit is *)
(* kept, and the number grows only when it is reached, on _curWriteLen     *)
(* being what was written since the file was opened: IInv says so.  That a *)
(* file as a whole keeps to the limit takes a program that opens no file   *)
(* twice; LimitsHoldForADay has it under the conditions that make it so.   *)
(***************************************************************************)
EXTENDS LogrFile, SequenceTheorems, TLAPS

Handles == {Closed} \cup Files

FileTypes ==
  /\ setting \in [path : Paths, monthdir : BOOLEAN, limit : 0 .. Width - 1]
  /\ logrger \in [created : Int, index : Nat, writeLen : Nat, handle : Handles, outfile : BOOLEAN]
  /\ {running, excused, synchronous} \subseteq BOOLEAN
  /\ sinceOpen \in Nat

\* A disk, on which the file that is open has grown by n.
Disk(disk, handle, n) ==
  /\ disk = [dirs |-> disk.dirs, length |-> disk.length, opened |-> disk.opened]
  /\ disk.opened \in Nat /\ \A f \in DOMAIN disk.length : disk.length[f] \in Nat
  /\ handle # Closed => handle \in DOMAIN disk.length /\ disk.length[handle] = disk.opened + n

\* A record takes the number of the file up by one at most.
Numbered == records \in 0 .. MaxRecords /\ logrger.index <= records

\* _curWriteLen is what went into the open file, and never more.
Counted ==
  /\ logrger.writeLen <= sinceOpen
  /\ logrger.handle # Closed => logrger.writeLen = sinceOpen

\* An open file was opened on the day of the last record.
OpenedToday == logrger.handle # Closed => logrger.created = lastDay

IInv ==
  /\ FileTypes /\ Numbered /\ Counted /\ OpenedToday
  /\ Disk(fs, logrger.handle, sinceOpen)
  /\ HandleIsCurrent /\ SinceOpenLimited /\ OnlyDiskStops

-----------------------------------------------------------------------------
(***************************************************************************)
(* The limit in bytes, in 32 bits.                                         *)
(***************************************************************************)
LEMMA Multiples ==
  ASSUME NEW u \in Nat \ {0}, NEW q \in Nat, NEW n \in Nat, NEW k \in Nat, NEW r \in Nat,
         n * u = (q * u) * k + r, r < q * u
  PROVE  r <= q * u - u
<1>1. n - q * k \in Int
  OBVIOUS
<1>2. r = (n - q * k) * u
  BY SMT
<1>3. n - q * k < q
  BY <1>1, <1>2, SMT
<1>4. n - q * k <= q - 1
  BY <1>1, <1>3
<1>5. (n - q * k) * u <= (q - 1) * u
  BY <1>1, <1>4, SMT
<1> QED
  BY <1>2, <1>5, SMT

\* _limitsize * 1024 * 1024 leaves room for one more record, in 32 bits.
LEMMA Limit ==
  ASSUME setting.limit \in Nat
  PROVE  /\ LimitBytes \in Nat /\ LimitBytes <= Width - Unit
         /\ LimitBytes <= setting.limit * Unit
         /\ setting.limit * Unit < Width => LimitBytes = setting.limit * Unit
<1> DEFINE n == setting.limit
           total == n * Unit
           q == Width \div Unit
           k == total \div Width
           r == total % Width
<1>1. n \in Nat /\ Unit \in Nat \ {0} /\ Width \in Nat \ {0} /\ Width % Unit = 0
  BY FileAssumption
<1>2. total \in Nat
  BY <1>1, SMT
<1>3. q \in Nat /\ Width = q * Unit
  BY <1>1, SMT
<1> HIDE DEF total, q, n
<1>4. k \in Nat /\ total = Width * k + r
  BY <1>1, <1>2, SMT
<1>5. r \in Nat /\ r < Width
  BY <1>1, <1>2, SMT
<1>6. total < Width => r = total
  BY <1>1, <1>2, SMT
<1> HIDE DEF k, r
<1>7. Width * k \in Nat
  BY <1>1, <1>4, SMT
<1>8. r <= total
  BY <1>2, <1>4, <1>5, <1>7
<1>9. r <= Width - Unit
  <2>1. n * Unit = (q * Unit) * k + r /\ r < q * Unit
    BY <1>3, <1>4, <1>5 DEF total
  <2> QED
    BY <2>1, <1>1, <1>3, <1>4, <1>5, Multiples
<1> QED
  BY <1>5, <1>6, <1>8, <1>9 DEF LimitBytes, total, r, n

\* createRecursionDir makes the whole path, if no mkdir fails.
LEMMA WholePath ==
  ASSUME FileTypes, NEW day, NEW made \in createRecursionDir(Dir(day))
  PROVE  made.faulty \/ Dir(day) \in made.dirs
<1> DEFINE S == STRING \cup {Month(day)}
           dir == Dir(day)
<1>1. setting.path \in Seq(STRING) /\ setting.path # <<>>
  BY FileAssumption DEF FileTypes
<1>2. dir \in Seq(S) /\ Len(dir) \in Nat \ {0}
  <2> HIDE DEF S
  <2>1. setting.path \in Seq(S) /\ Len(setting.path) \in Nat \ {0}
    BY <1>1 DEF S
  <2>2. Month(day) \in S
    BY DEF S
  <2> QED
    BY <2>1, <2>2 DEF Dir
<1> HIDE DEF S, dir
<1>3. SubSeq(dir, 1, Len(dir)) = dir
  BY <1>2
<1>4. dir \in Prefixes(dir, Len(dir))
  <2>1. Len(dir) \in 1 .. Len(dir)
    BY <1>2
  <2> QED
    BY <1>3, <2>1 DEF Prefixes
<1>5. \/ made = Made(fs.dirs \cup Prefixes(dir, Len(dir)), FALSE)
      \/ \E dirs : made = Made(dirs, TRUE)
  BY DEF createRecursionDir, dir
<1> QED
  BY <1>4, <1>5 DEF Made, dir

-----------------------------------------------------------------------------
(***************************************************************************)
(* The three ways openLogrger ends.                                        *)
(***************************************************************************)
Kept(day, result) ==
  /\ logrger.handle # Closed /\ day = logrger.created /\ logrger.writeLen <= LimitBytes
  /\ result = Outcome(logrger, fs, FALSE, sinceOpen)

Opened(day, result) ==
  /\ \E dirs : result.fs = fopen(dirs, File(day, result.logrger.index))
  /\ result.before = 0
  /\ result.logrger.handle = File(day, result.logrger.index)
  /\ result.logrger.outfile = logrger.outfile

Failed(result) ==
  /\ \E dirs : result.fs = [fs EXCEPT !.dirs = dirs]
  /\ result.logrger.handle = Closed
  /\ result.logrger.outfile = FALSE
  /\ result.faulty

LEMMA NextFile ==
  ASSUME FileTypes, Numbered, records < MaxRecords,
         NEW day \in Days, NEW index \in Nat, index <= logrger.index + 1
  PROVE  File(day, index) \in Files
<1>1. /\ records \in Nat /\ MaxRecords \in Nat /\ logrger.index \in Nat
      /\ logrger.index <= records
  BY FileAssumption DEF Numbered, FileTypes
<1>2. index \in 0 .. MaxRecords
  BY <1>1
<1>3. Dir(day) \in Dirs
  BY DEF FileTypes, Dir, Dirs
<1> QED
  BY <1>2, <1>3 DEF Files, File

LEMMA WaysToOpen ==
  ASSUME FileTypes, Numbered, NEW day \in Days, NEW result \in openLogrger(day)
  PROVE  /\ result = Outcome(result.logrger, result.fs, result.faulty, result.before)
         /\ result.logrger = [created |-> day, index |-> result.logrger.index,
                              writeLen |-> result.logrger.writeLen, handle |-> result.logrger.handle,
                              outfile |-> result.logrger.outfile]
         /\ \/ Kept(day, result)
            \/ /\ Opened(day, result) \/ Failed(result)
               /\ result.logrger.writeLen = 0
               /\ \/ result.logrger.index \in {0, logrger.index}
                  \/ /\ result.logrger.index = logrger.index + 1
                     /\ day = logrger.created /\ logrger.writeLen > LimitBytes
<1> DEFINE before == Rotated(day)
           file == File(day, before.index)
           now == [before EXCEPT !.created = day, !.writeLen = 0]
           ways == IF file.dir \in fs.dirs THEN {Made(fs.dirs, FALSE)} ELSE createRecursionDir(file.dir)
           rotated == [logrger EXCEPT !.index = IF day = logrger.created THEN @ + 1 ELSE 0, !.handle = Closed]
<1>1. logrger \in [created : Int, index : Nat, writeLen : Nat, handle : Handles, outfile : BOOLEAN]
  BY DEF FileTypes
<1>2. \/ before = logrger /\ day = logrger.created /\ ~(logrger.writeLen > LimitBytes)
      \/ before = rotated /\ (day = logrger.created => logrger.writeLen > LimitBytes)
  BY DEF Rotated
<1>3. /\ before \in [created : Int, index : Nat, writeLen : Nat, handle : Handles, outfile : BOOLEAN]
      /\ before.outfile = logrger.outfile
      /\ \/ before.index \in {0, logrger.index}
         \/ before.index = logrger.index + 1 /\ day = logrger.created /\ logrger.writeLen > LimitBytes
  <2>1. Closed \in Handles
    BY DEF Handles
  <2>2. CASE before = logrger
    <3> HIDE DEF before
    <3> QED
      BY <1>1, <2>2
  <2>3. CASE before = rotated /\ (day = logrger.created => logrger.writeLen > LimitBytes)
    <3> HIDE DEF before
    <3>1. before = [created |-> logrger.created, index |-> before.index, writeLen |-> logrger.writeLen,
                    handle |-> Closed, outfile |-> logrger.outfile]
      BY <1>1, <2>3
    <3>2. before.index = IF day = logrger.created THEN logrger.index + 1 ELSE 0
      BY <1>1, <2>3
    <3> QED
      BY <1>1, <2>1, <2>3, <3>1, <3>2
  <2> QED
    BY <1>2, <2>2, <2>3
<1>4. CASE before.handle # Closed
  <2>1. result = Outcome(before, fs, FALSE, sinceOpen)
    BY <1>4 DEF openLogrger
  <2>2. before = logrger /\ day = logrger.created /\ ~(logrger.writeLen > LimitBytes)
    BY <1>1, <1>2, <1>4
  <2>3. LimitBytes \in Nat
    BY Limit DEF FileTypes
  <2>4. Kept(day, result)
    BY <1>1, <1>4, <2>1, <2>2, <2>3 DEF Kept
  <2> QED
    BY <1>1, <2>1, <2>2, <2>4 DEF Outcome
<1>5. CASE before.handle = Closed
  <2> HIDE DEF before, ways
  <2>1. file.dir = Dir(day)
    BY DEF File
  <2>2. \A made \in ways : made.faulty \/ file.dir \in made.dirs
    BY <2>1, WholePath DEF ways, Made
  <2>3. \/ \E made \in ways : result = Outcome([now EXCEPT !.handle = file], fopen(made.dirs, file), FALSE, 0)
        \/ \E made \in ways :
             result = Outcome([now EXCEPT !.outfile = FALSE], [fs EXCEPT !.dirs = made.dirs],
                              made.faulty \/ file.dir \in made.dirs, 0)
    BY <1>5 DEF openLogrger, before, ways
  <2> HIDE DEF file
  <2>4. now = [created |-> day, index |-> before.index, writeLen |-> 0, handle |-> Closed, outfile |-> logrger.outfile]
    <3>1. /\ now \in [created : Int, index : Nat, writeLen : Nat, handle : Handles, outfile : BOOLEAN]
          /\ now.created = day /\ now.index = before.index /\ now.writeLen = 0
          /\ now.handle = before.handle /\ now.outfile = before.outfile
      <4>1. day \in Int
        BY FileAssumption DEF Days
      <4> QED
        BY ONLY <1>3, <4>1 DEF now
    <3> HIDE DEF now
    <3> QED
      BY <1>3, <1>5, <3>1
  <2> HIDE DEF now
  <2>5. CASE \E made \in ways : result = Outcome([now EXCEPT !.handle = file], fopen(made.dirs, file), FALSE, 0)
    <3>1. PICK made \in ways : result = Outcome([now EXCEPT !.handle = file], fopen(made.dirs, file), FALSE, 0)
      BY <2>5
    <3>2. result.logrger = [created |-> day, index |-> before.index, writeLen |-> 0, handle |-> file,
                            outfile |-> logrger.outfile]
      BY <2>4, <3>1 DEF Outcome
    <3>3. Opened(day, result)
      BY <3>1, <3>2 DEF Opened, Outcome, file
    <3> QED
      BY <1>3, <3>1, <3>2, <3>3 DEF Outcome
  <2>6. CASE \E made \in ways :
               result = Outcome([now EXCEPT !.outfile = FALSE], [fs EXCEPT !.dirs = made.dirs],
                                made.faulty \/ file.dir \in made.dirs, 0)
    <3>1. PICK made \in ways :
                result = Outcome([now EXCEPT !.outfile = FALSE], [fs EXCEPT !.dirs = made.dirs],
                                 made.faulty \/ file.dir \in made.dirs, 0)
      BY <2>6
    <3>2. result.logrger = [created |-> day, index |-> before.index, writeLen |-> 0, handle |-> Closed,
                            outfile |-> FALSE]
      BY <2>4, <3>1 DEF Outcome
    <3>3. result.faulty
      BY <2>2, <3>1 DEF Outcome
    <3>4. Failed(result)
      BY <3>1, <3>2, <3>3 DEF Failed, Outcome
    <3> QED
      BY <1>3, <3>1, <3>2, <3>4 DEF Outcome
  <2> QED
    BY <2>3, <2>5, <2>6
<1> QED
  BY <1>4, <1>5

\* What is added to a file is behind what was in it.
LEMMA Grows ==
  ASSUME NEW length, \A f \in DOMAIN length : length[f] \in Nat, NEW file, NEW n \in Nat
  PROVE  /\ DOMAIN Grown(length, file, n) = DOMAIN length \cup {file}
         /\ \A f \in DOMAIN Grown(length, file, n) : Grown(length, file, n)[f] \in Nat
         /\ Grown(length, file, n)[file] = (IF file \in DOMAIN length THEN length[file] ELSE 0) + n
BY DEF Grown

\* Opened, a file has what it had.
LEMMA OpenedDisk ==
  ASSUME IInv, NEW day, NEW result, Opened(day, result)
  PROVE  Disk(result.fs, result.logrger.handle, 0)
<1> DEFINE file == File(day, result.logrger.index)
           length == Grown(fs.length, file, 0)
<1>1. /\ \E dirs : result.fs = [dirs |-> dirs, length |-> length, opened |-> length[file]]
      /\ result.logrger.handle = file
  BY DEF Opened, fopen
<1>2. /\ DOMAIN length = DOMAIN fs.length \cup {file}
      /\ \A f \in DOMAIN length : length[f] \in Nat
  BY Grows DEF IInv, Disk
<1> HIDE DEF file, length
<1> QED
  BY <1>1, <1>2 DEF Disk

\* What the file looks like to the write behind it.
LEMMA ReadyToWrite ==
  ASSUME IInv, NEW day \in Days, NEW result \in openLogrger(day), result.logrger.handle # Closed,
         records < MaxRecords
  PROVE  /\ result.logrger \in [created : {day}, index : Nat, writeLen : Nat, handle : Handles, outfile : BOOLEAN]
         /\ result.logrger.index <= logrger.index + 1
         /\ result.before = result.logrger.writeLen /\ result.before <= LimitBytes
         /\ running => result.logrger.handle = File(day, result.logrger.index)
         /\ result.logrger.outfile = logrger.outfile
         /\ Disk(result.fs, result.logrger.handle, result.before)
<1>1. FileTypes /\ Numbered
  BY DEF IInv
<1>2. LimitBytes \in Nat
  BY <1>1, Limit DEF FileTypes
<1>3. logrger \in [created : Int, index : Nat, writeLen : Nat, handle : Handles, outfile : BOOLEAN]
  BY <1>1 DEF FileTypes
<1>4. Disk(fs, logrger.handle, sinceOpen)
  BY DEF IInv
<1>5. /\ result.logrger = [created |-> day, index |-> result.logrger.index, writeLen |-> result.logrger.writeLen,
                           handle |-> result.logrger.handle, outfile |-> result.logrger.outfile]
      /\ \/ Kept(day, result)
         \/ /\ Opened(day, result)
            /\ result.logrger.writeLen = 0
            /\ result.logrger.index \in {0, logrger.index, logrger.index + 1}
  BY <1>1, WaysToOpen DEF Failed
<1>6. CASE Kept(day, result)
  <2>1. result.logrger = logrger /\ result.fs = fs /\ result.before = sinceOpen /\ day = logrger.created
    BY <1>6 DEF Kept, Outcome
  <2>2. logrger.handle # Closed /\ logrger.writeLen <= LimitBytes
    BY <1>6 DEF Kept
  <2>3. sinceOpen = logrger.writeLen /\ logrger.created = lastDay
    BY <2>2 DEF IInv, Counted, OpenedToday
  <2>4. running => logrger.handle = File(day, logrger.index)
    BY <2>1, <2>2, <2>3 DEF IInv, HandleIsCurrent
  <2>5. logrger.index <= logrger.index + 1
    BY <1>3
  <2> QED
    BY <1>3, <1>4, <2>1, <2>2, <2>3, <2>4, <2>5
<1>7. CASE /\ Opened(day, result)
           /\ result.logrger.writeLen = 0
           /\ result.logrger.index \in {0, logrger.index, logrger.index + 1}
  <2>1. result.logrger.handle = File(day, result.logrger.index) /\ result.before = 0
        /\ result.logrger.outfile = logrger.outfile
    BY <1>7 DEF Opened
  <2>2. result.logrger.index \in Nat /\ result.logrger.index <= logrger.index + 1
    BY <1>3, <1>7
  <2>3. File(day, result.logrger.index) \in Files
    BY <1>1, <2>2, NextFile
  <2>4. Disk(result.fs, result.logrger.handle, result.before)
    BY <1>7, <2>1, OpenedDisk
  <2>5. result.logrger = [created |-> day, index |-> result.logrger.index, writeLen |-> result.logrger.writeLen,
                          handle |-> result.logrger.handle, outfile |-> result.logrger.outfile]
    BY <1>5
  <2>6. result.logrger.outfile \in BOOLEAN /\ result.logrger.writeLen = 0 /\ result.logrger.handle \in Handles
    BY <1>3, <1>7, <2>1, <2>3 DEF Handles
  <2> QED
    BY <1>2, <2>1, <2>2, <2>4, <2>5, <2>6
<1> QED
  BY <1>5, <1>6, <1>7

-----------------------------------------------------------------------------
(***************************************************************************)
(* Every step keeps IInv.                                                  *)
(***************************************************************************)
LEMMA InitFiles ==
  ASSUME Init
  PROVE  IInv
<1>1. Default \in Paths /\ DefaultLimit \in 0 .. Width - 1 /\ Builds \subseteq BOOLEAN
  BY FileAssumption
<1>2. FileTypes
  <2>1. setting \in [path : Paths, monthdir : BOOLEAN, limit : 0 .. Width - 1]
    BY <1>1 DEF Init, Defaults
  <2>2. logrger \in [created : Int, index : Nat, writeLen : Nat, handle : Handles, outfile : BOOLEAN]
    BY DEF Init, Fresh, NeverDay, Handles
  <2> QED
    BY <1>1, <2>1, <2>2 DEF Init, FileTypes
<1>3. Numbered
  BY FileAssumption DEF Init, Fresh, Numbered
<1>4. logrger.handle = Closed /\ logrger.outfile /\ logrger.writeLen = 0 /\ sinceOpen = 0 /\ fs = EmptyDisk
  BY DEF Init, Fresh
<1>5. Disk(fs, logrger.handle, sinceOpen)
  BY <1>4 DEF Disk, EmptyDisk
<1> QED
  BY <1>2, <1>3, <1>4, <1>5 DEF IInv, Counted, OpenedToday, HandleIsCurrent, SinceOpenLimited, OnlyDiskStops

\* A write: the file is closed behind it, or stays open with the count.
Wrote(day, len, n, result, handle, writeLen) ==
  /\ day \in Days /\ len \in RecordLens /\ n \in 0 .. len /\ result \in openLogrger(day)
  /\ Recording(day, result) /\ Writes(day, len, n, result) /\ UNCHANGED excused
  /\ writeLen \in Nat
  /\ logrger' = [result.logrger EXCEPT !.handle = handle, !.writeLen = writeLen]
  /\ \/ handle = result.logrger.handle /\ n = len /\ writeLen = result.logrger.writeLen + len
     \/ handle = Closed /\ writeLen <= result.logrger.writeLen + len

LEMMA WriteKeeps ==
  ASSUME IInv, NEW day, NEW len, NEW n, NEW result, NEW handle, NEW writeLen,
         Wrote(day, len, n, result, handle, writeLen)
  PROVE  IInv'
<1> USE DEF Wrote
<1>1. /\ FileTypes /\ Numbered
      /\ records \in Nat /\ records < MaxRecords /\ records' = records + 1 /\ MaxRecords \in Nat
      /\ result.logrger.handle # Closed
  BY FileAssumption DEF IInv, Recording, Writes, Numbered
<1>2. UNCHANGED <<synchronous, running, setting, excused>>
  BY DEF Recording
<1> DEFINE lg == result.logrger
<1>3. /\ lg \in [created : {day}, index : Nat, writeLen : Nat, handle : Handles, outfile : BOOLEAN]
      /\ lg.index <= logrger.index + 1
      /\ result.before = lg.writeLen /\ result.before <= LimitBytes
      /\ running => lg.handle = File(day, lg.index)
      /\ lg.outfile = logrger.outfile
      /\ Disk(result.fs, lg.handle, result.before)
  BY <1>1, ReadyToWrite
<1> HIDE DEF lg
<1>4. len \in Nat
  BY FileAssumption
<1>5. sinceOpen' = lg.writeLen + len /\ lastDay' = day
  BY <1>3 DEF Writes
<1>6. /\ logrger' \in [created : {day}, index : Nat, writeLen : Nat, handle : Handles, outfile : BOOLEAN]
      /\ logrger'.index = lg.index /\ logrger'.outfile = logrger.outfile
      /\ \/ logrger'.handle = lg.handle /\ n = len /\ logrger'.writeLen = lg.writeLen + len
         \/ logrger'.handle = Closed /\ logrger'.writeLen <= lg.writeLen + len
  <2>1. handle \in Handles
    BY <1>3 DEF Handles, lg
  <2>2. logrger' = [lg EXCEPT !.handle = handle, !.writeLen = writeLen]
    BY DEF lg
  <2> QED
    BY <1>3, <2>1, <2>2 DEF lg
<1>7. Disk(fs', logrger'.handle, sinceOpen')
  <2> DEFINE disk == result.fs
             length == Grown(disk.length, lg.handle, n)
  <2>1. fs' = [disk EXCEPT !.length = length]
    BY DEF Writes, lg
  <2>2. /\ disk = [dirs |-> disk.dirs, length |-> disk.length, opened |-> disk.opened]
        /\ disk.opened \in Nat /\ \A f \in DOMAIN disk.length : disk.length[f] \in Nat
        /\ lg.handle \in DOMAIN disk.length /\ disk.length[lg.handle] = disk.opened + lg.writeLen
    BY <1>1, <1>3 DEF Disk, lg
  <2>3. n \in Nat
    BY <1>4
  <2>4. /\ DOMAIN length = DOMAIN disk.length
        /\ \A f \in DOMAIN length : length[f] \in Nat
        /\ length[lg.handle] = disk.opened + lg.writeLen + n
    <3> DEFINE old == disk.length
               file == lg.handle
    <3>1. (\A f \in DOMAIN old : old[f] \in Nat) /\ file \in DOMAIN old /\ old[file] = disk.opened + lg.writeLen
      BY <2>2
    <3> HIDE DEF old, file
    <3>2. /\ DOMAIN Grown(old, file, n) = DOMAIN old \cup {file}
          /\ \A f \in DOMAIN Grown(old, file, n) : Grown(old, file, n)[f] \in Nat
          /\ Grown(old, file, n)[file] = (IF file \in DOMAIN old THEN old[file] ELSE 0) + n
      BY <2>3, <3>1, Grows
    <3> QED
      BY <3>1, <3>2 DEF old, file
  <2> HIDE DEF disk, length
  <2>5. fs' = [dirs |-> disk.dirs, length |-> length, opened |-> disk.opened]
    BY <2>1, <2>2
  <2>6. logrger'.handle # Closed => logrger'.handle = lg.handle /\ n = len
    BY <1>6
  <2>7. lg.writeLen \in Nat
    BY <1>3
  <2> QED
    BY <1>4, <1>5, <2>2, <2>4, <2>5, <2>6, <2>7 DEF Disk
<1>8. FileTypes'
  <2>1. day \in Int
    BY FileAssumption DEF Days
  <2>2. logrger' \in [created : Int, index : Nat, writeLen : Nat, handle : Handles, outfile : BOOLEAN]
    BY <1>6, <2>1
  <2>4. sinceOpen' \in Nat
    BY <1>3, <1>4, <1>5
  <2> QED
    BY <1>1, <1>2, <2>2, <2>4 DEF FileTypes
<1>9. Numbered'
  BY <1>1, <1>3, <1>6 DEF Numbered, FileTypes
<1>10. Counted'
  <2>1. logrger'.writeLen <= sinceOpen'
    BY <1>3, <1>4, <1>5, <1>6
  <2>2. logrger'.handle # Closed => logrger'.writeLen = sinceOpen'
    BY <1>5, <1>6
  <2> QED
    BY <2>1, <2>2 DEF Counted
<1>15. OpenedToday'
  BY <1>5, <1>6 DEF OpenedToday
<1>11. HandleIsCurrent'
  <2>1. File(day, lg.index)' = File(day, lg.index)
    BY <1>2 DEF File, Dir
  <2> QED
    BY <1>2, <1>3, <1>5, <1>6 DEF HandleIsCurrent, File, Dir
<1>12. SinceOpenLimited'
  <2>1. LimitBytes \in Nat /\ LimitBytes <= setting.limit * Unit
    BY <1>1, Limit DEF FileTypes
  <2>2. setting.limit * Unit \in Nat
    <3>1. setting.limit \in Nat /\ Unit \in Nat
      BY <1>1, FileAssumption DEF FileTypes
    <3> QED
      BY <3>1, SMT
  <2>3. lg.writeLen + len <= setting.limit * Unit + len
    BY <1>3, <1>4, <2>1, <2>2
  <2> QED
    BY <1>2, <1>5, <1>6, <2>3 DEF SinceOpenLimited
<1>14. OnlyDiskStops'
  BY <1>2, <1>6 DEF OnlyDiskStops, IInv
<1> QED
  BY <1>7, <1>8, <1>9, <1>10, <1>11, <1>12, <1>14, <1>15 DEF IInv

\* A record as long as that does not take the count round 2^32.
LEMMA NoWrap ==
  ASSUME IInv, NEW day \in Days, NEW len \in RecordLens, NEW result \in openLogrger(day), result.logrger.handle # Closed,
         records < MaxRecords
  PROVE  /\ result.logrger.writeLen + len \in Nat
         /\ (result.logrger.writeLen + len) % Width = result.logrger.writeLen + len
<1>1. result.logrger.writeLen \in Nat /\ result.logrger.writeLen <= LimitBytes
  BY ReadyToWrite
<1>2. LimitBytes \in Nat /\ LimitBytes <= Width - Unit
  BY Limit DEF IInv, FileTypes
<1>3. len \in Nat /\ len < Unit /\ Unit \in Nat /\ Width \in Nat \ {0}
  BY FileAssumption
<1>4. result.logrger.writeLen + len \in Nat /\ result.logrger.writeLen + len < Width
  BY <1>1, <1>2, <1>3
<1> QED
  BY <1>3, <1>4

LEMMA KeptByPushLogr ==
  ASSUME IInv, pushLogr
  PROVE  IInv'
<1>1. PICK day \in Days, len \in RecordLens : \E n \in Stores(len), result \in openLogrger(day) :
             /\ Recording(day, result)
             /\ Writes(day, len, n, result)
             /\ logrger' = [result.logrger EXCEPT !.handle = Closed]
  BY DEF pushLogr
<1>2. PICK n \in Stores(len), result \in openLogrger(day) :
             /\ Recording(day, result)
             /\ Writes(day, len, n, result)
             /\ logrger' = [result.logrger EXCEPT !.handle = Closed]
  BY <1>1
<1>3. result.logrger \in [created : {day}, index : Nat, writeLen : Nat, handle : Handles, outfile : BOOLEAN]
  BY <1>2, ReadyToWrite DEF Recording, Writes
<1> DEFINE writeLen == result.logrger.writeLen
<1>4. logrger' = [result.logrger EXCEPT !.handle = Closed, !.writeLen = writeLen]
  BY <1>2, <1>3
<1>5. writeLen \in Nat /\ writeLen <= result.logrger.writeLen + len
  BY <1>3, FileAssumption
<1>6. UNCHANGED excused /\ n \in 0 .. len
  BY FileAssumption DEF pushLogr, Stores
<1>7. Wrote(day, len, n, result, Closed, writeLen)
  BY <1>2, <1>4, <1>5, <1>6 DEF Wrote
<1> QED
  BY <1>7, WriteKeeps

LEMMA KeptByHandleLogr ==
  ASSUME IInv, handleLogr
  PROVE  IInv'
<1>1. PICK day \in Days, len \in RecordLens : \E n \in Stores(len), result \in openLogrger(day) :
             /\ Recording(day, result)
             /\ Writes(day, len, n, result)
             /\ logrger' = [result.logrger EXCEPT !.handle = IF n = len THEN @ ELSE Closed,
                                                  !.writeLen = (@ + len) % Width]
  BY DEF handleLogr
<1>2. PICK n \in Stores(len), result \in openLogrger(day) :
             /\ Recording(day, result)
             /\ Writes(day, len, n, result)
             /\ logrger' = [result.logrger EXCEPT !.handle = IF n = len THEN @ ELSE Closed,
                                                  !.writeLen = (@ + len) % Width]
  BY <1>1
<1> DEFINE handle == IF n = len THEN result.logrger.handle ELSE Closed
           writeLen == result.logrger.writeLen + len
<1>3. writeLen \in Nat /\ writeLen % Width = writeLen
  BY <1>2, NoWrap DEF Recording, Writes
<1>4. logrger' = [result.logrger EXCEPT !.handle = handle, !.writeLen = writeLen]
  BY <1>2, <1>3
<1>5. \/ handle = result.logrger.handle /\ n = len /\ writeLen = result.logrger.writeLen + len
      \/ handle = Closed /\ writeLen <= result.logrger.writeLen + len
  BY <1>3
<1>6. UNCHANGED excused /\ n \in 0 .. len
  BY FileAssumption DEF handleLogr, Stores
<1>7. Wrote(day, len, n, result, handle, writeLen)
  BY <1>2, <1>3, <1>4, <1>5, <1>6 DEF Wrote
<1> HIDE DEF handle, writeLen
<1> QED
  BY <1>7, WriteKeeps

LEMMA KeptByOpenFails ==
  ASSUME IInv, openFails
  PROVE  IInv'
<1>1. PICK day \in Days : \E result \in openLogrger(day) :
             /\ Recording(day, result)
             /\ result.logrger.handle = Closed
             /\ logrger' = result.logrger /\ fs' = result.fs
             /\ excused' = (excused \/ result.faulty)
  BY DEF openFails
<1>2. PICK result \in openLogrger(day) :
             /\ Recording(day, result)
             /\ result.logrger.handle = Closed
             /\ logrger' = result.logrger /\ fs' = result.fs
             /\ excused' = (excused \/ result.faulty)
  BY <1>1
<1>3. /\ FileTypes /\ Numbered
      /\ records \in Nat /\ records < MaxRecords /\ records' = records + 1 /\ MaxRecords \in Nat
  BY <1>2, FileAssumption DEF IInv, Recording, Numbered
<1>4. UNCHANGED <<synchronous, running, setting, sinceOpen, lastDay>>
  BY <1>2 DEF Recording, openFails
<1>5. ~Kept(day, result)
  BY <1>2 DEF Kept, Outcome
<1>6. /\ logrger' = [created |-> day, index |-> logrger'.index, writeLen |-> logrger'.writeLen,
                     handle |-> logrger'.handle, outfile |-> logrger'.outfile]
      /\ Opened(day, result) \/ Failed(result)
      /\ logrger'.writeLen = 0
      /\ logrger'.index \in {0, logrger.index, logrger.index + 1}
      /\ logrger'.handle = Closed
  BY <1>2, <1>3, <1>5, WaysToOpen
<1>7. logrger'.index \in Nat /\ logrger'.index <= logrger.index + 1
  BY <1>3, <1>6 DEF FileTypes
<1>8. Failed(result)
  <2>1. File(day, logrger'.index) # Closed
    BY <1>3, <1>7, NextFile, FileConstants
  <2> QED
    BY <1>2, <1>6, <2>1 DEF Opened
<1>9. excused' = TRUE /\ logrger'.outfile = FALSE
  BY <1>2, <1>8 DEF Failed
<1>15. day \in Int
  BY FileAssumption DEF Days
<1>10. Disk(fs', logrger'.handle, sinceOpen')
  <2>1. \E dirs : fs' = [fs EXCEPT !.dirs = dirs]
    BY <1>2, <1>8 DEF Failed
  <2>2. Disk(fs, logrger.handle, sinceOpen)
    BY DEF IInv
  <2> QED
    BY <1>6, <2>1, <2>2 DEF Disk
<1>11. FileTypes'
  <2>1. logrger' \in [created : Int, index : Nat, writeLen : Nat, handle : Handles, outfile : BOOLEAN]
    <3>1. Closed \in Handles
      BY DEF Handles
    <3> DEFINE i == logrger'.index
    <3>2. i \in Nat /\ logrger' = [created |-> day, index |-> i, writeLen |-> 0, handle |-> Closed, outfile |-> FALSE]
      BY <1>6, <1>7, <1>9
    <3> HIDE DEF i
    <3> QED
      BY ONLY <1>15, <3>1, <3>2
  <2> QED
    BY <1>3, <1>4, <1>9, <2>1 DEF FileTypes
<1>12. Numbered'
  BY <1>3, <1>7 DEF Numbered, FileTypes
<1>13. Counted' /\ OpenedToday' /\ HandleIsCurrent' /\ SinceOpenLimited'
  BY <1>3, <1>4, <1>6 DEF FileTypes, Counted, OpenedToday, HandleIsCurrent, SinceOpenLimited
<1>14. OnlyDiskStops'
  BY <1>9 DEF OnlyDiskStops
<1> QED
  BY <1>10, <1>11, <1>12, <1>13, <1>14 DEF IInv

\* A change that leaves the file open or closes it.
LEMMA SettingKeeps ==
  ASSUME IInv,
         setting' \in [path : Paths, monthdir : BOOLEAN, limit : 0 .. Width - 1],
         setting' # setting => (running => logrger'.handle = Closed),
         logrger' = [logrger EXCEPT !.handle = logrger'.handle, !.outfile = logrger'.outfile],
         logrger'.handle \in {logrger.handle, Closed}, logrger'.outfile \in BOOLEAN,
         ~logrger'.outfile => excused', excused' \in BOOLEAN,
         UNCHANGED <<synchronous, running, fs, sinceOpen, lastDay, records>>
  PROVE  IInv'
<1>1. FileTypes'
  BY DEF IInv, FileTypes, Handles
<1>2. logrger'.created = logrger.created /\ logrger'.index = logrger.index /\ logrger'.writeLen = logrger.writeLen
  BY DEF IInv, FileTypes
<1>3. Numbered' /\ Counted' /\ OpenedToday'
  BY <1>2 DEF IInv, Numbered, Counted, OpenedToday
<1>4. HandleIsCurrent'
  BY <1>2 DEF IInv, HandleIsCurrent, File, Dir
<1>5. SinceOpenLimited'
  BY <1>2 DEF IInv, SinceOpenLimited
<1>6. Disk(fs, logrger.handle, sinceOpen)' /\ OnlyDiskStops'
  BY DEF IInv, Disk, OnlyDiskStops
<1> QED
  BY <1>1, <1>3, <1>4, <1>5, <1>6 DEF IInv

LEMMA KeptByNext ==
  ASSUME IInv, [Next]_vars
  PROVE  IInv'
<1>1. /\ setting \in [path : Paths, monthdir : BOOLEAN, limit : 0 .. Width - 1]
      /\ logrger \in [created : Int, index : Nat, writeLen : Nat, handle : Handles, outfile : BOOLEAN]
      /\ excused \in BOOLEAN /\ (~logrger.outfile => excused)
  BY DEF IInv, FileTypes, OnlyDiskStops
<1>2. logrger = [logrger EXCEPT !.handle = logrger.handle, !.outfile = logrger.outfile]
  BY <1>1
<1>3. CASE hotChange
  <2>1. setting' \in [path : Paths, monthdir : BOOLEAN, limit : 0 .. Width - 1]
    <3>1. \/ \E path \in Paths : setting' = [setting EXCEPT !.path = path]
          \/ \E limit \in Limits : setting' = [setting EXCEPT !.limit = setLogrgerLimitsize(limit)]
          \/ setting' = [setting EXCEPT !.monthdir = ~@]
      BY <1>3 DEF hotChange, NewSettings
    <3>2. \A limit \in Limits : setLogrgerLimitsize(limit) \in 0 .. Width - 1
      BY FileAssumption DEF setLogrgerLimitsize
    <3> QED
      BY <1>1, <3>1, <3>2
  <2>2. logrger' = [logrger EXCEPT !.handle = IF running THEN Closed ELSE @]
    BY <1>3 DEF hotChange
  <2>3. UNCHANGED <<synchronous, running, fs, sinceOpen, lastDay, records, excused>>
    BY <1>3 DEF hotChange, history
  <2> QED
    BY <1>1, <2>1, <2>2, <2>3, SettingKeeps
<1>4. CASE setLogrgerOutFile
  <2>1. UNCHANGED <<synchronous, running, setting, fs, sinceOpen, lastDay, records>>
    BY <1>4 DEF setLogrgerOutFile
  <2>2. PICK enable \in BOOLEAN :
          /\ logrger' = [logrger EXCEPT !.outfile = enable, !.handle = IF running THEN Closed ELSE @]
          /\ excused' = ~enable
    BY <1>4 DEF setLogrgerOutFile
  <2> QED
    BY <1>1, <2>1, <2>2, SettingKeeps
<1>5. CASE stop
  <2>1. UNCHANGED <<synchronous, setting, logrger, fs, history, records>> /\ running' = FALSE
    BY <1>5 DEF stop
  <2>2. UNCHANGED <<sinceOpen, lastDay, excused>>
    BY <2>1 DEF history
  <2> QED
    BY <2>1, <2>2
    DEF IInv, FileTypes, Numbered, Counted, OpenedToday, HandleIsCurrent, SinceOpenLimited, Disk, OnlyDiskStops
<1>6. CASE restart
  <2>1. /\ running' = TRUE /\ setting' = Defaults /\ logrger' = Fresh /\ excused' = FALSE
        /\ UNCHANGED <<synchronous, fs, sinceOpen, lastDay, records>>
    BY <1>6 DEF restart
  <2>2. Default \in Paths /\ DefaultLimit \in 0 .. Width - 1
    BY FileAssumption
  <2>3. FileTypes'
    <3>1. setting' \in [path : Paths, monthdir : BOOLEAN, limit : 0 .. Width - 1]
      BY <2>1, <2>2 DEF Defaults
    <3>2. logrger' \in [created : Int, index : Nat, writeLen : Nat, handle : Handles, outfile : BOOLEAN]
      BY <2>1 DEF Fresh, NeverDay, Handles
    <3> QED
      BY <2>1, <3>1, <3>2 DEF IInv, FileTypes
  <2>4. /\ logrger'.handle = Closed /\ logrger'.outfile = TRUE /\ logrger'.index = 0 /\ logrger'.writeLen = 0
    BY <2>1 DEF Fresh
  <2>5. records \in 0 .. MaxRecords /\ sinceOpen \in Nat /\ Disk(fs, logrger.handle, sinceOpen)
    BY DEF IInv, Numbered, FileTypes
  <2>6. Numbered' /\ Counted' /\ OpenedToday' /\ HandleIsCurrent' /\ SinceOpenLimited' /\ OnlyDiskStops'
    BY <2>1, <2>4, <2>5, FileAssumption
    DEF Numbered, Counted, OpenedToday, HandleIsCurrent, SinceOpenLimited, OnlyDiskStops
  <2>7. Disk(fs, logrger.handle, sinceOpen)'
    BY <2>1, <2>4, <2>5 DEF Disk
  <2> QED
    BY <2>3, <2>6, <2>7 DEF IInv
<1>7. CASE cleanUp
  <2>1. /\ UNCHANGED <<synchronous, running, setting, logrger, history, records>> /\ fs' = EmptyDisk
        /\ logrger.handle = Closed
    BY <1>7 DEF cleanUp
  <2>2. UNCHANGED <<sinceOpen, lastDay, excused>>
    BY <2>1 DEF history
  <2>3. Disk(fs', logrger'.handle, sinceOpen')
    BY <2>1 DEF Disk, EmptyDisk
  <2> QED
    BY <2>1, <2>2, <2>3
    DEF IInv, FileTypes, Numbered, Counted, OpenedToday, HandleIsCurrent, SinceOpenLimited, OnlyDiskStops, File, Dir
<1>8. CASE midnight \/ Over \/ UNCHANGED vars
  <2>1. UNCHANGED <<synchronous, running, setting, logrger, fs, history, records>>
    BY <1>8 DEF midnight, Over, vars
  <2>2. UNCHANGED <<sinceOpen, lastDay, excused>>
    BY <2>1 DEF history
  <2> QED
    BY <2>1, <2>2
    DEF IInv, FileTypes, Numbered, Counted, OpenedToday, HandleIsCurrent, SinceOpenLimited, Disk, OnlyDiskStops,
        File, Dir
<1> QED
  BY <1>3, <1>4, <1>5, <1>6, <1>7, <1>8, KeptByPushLogr, KeptByHandleLogr, KeptByOpenFails DEF Next

-----------------------------------------------------------------------------
(***************************************************************************)
(* The theorems.                                                           *)
(***************************************************************************)
\* IInv is an invariant of the logger's files.
THEOREM FilesInvariance == Spec => []IInv
<1>1. Init => IInv
  BY InitFiles
<1>2. IInv /\ [Next]_vars => IInv'
  BY KeptByNext
<1> QED
  BY <1>1, <1>2, PTL DEF Spec

\* The open file is the one that the settings, the number and the day of the
\* last record ask for, as long as run() is there.
THEOREM CurrentHandle == Spec => []HandleIsCurrent
BY FilesInvariance, PTL DEF IInv

\* The limit is kept but for a record, and _curWriteLen never wraps, whatever
\* the limits.
THEOREM LimitKept == Spec => []SinceOpenLimited
BY FilesInvariance, PTL DEF IInv

\* An open file has every record it was given since it was opened, whole,
\* behind what was in it before, whatever disk and program did in between.
THEOREM RecordsWhole == Spec => []OpenFileWhole
<1>1. IInv => OpenFileWhole
  BY DEF IInv, Disk, OpenFileWhole
<1> QED
  BY <1>1, FilesInvariance, PTL

\* Nothing but a request or the disk takes the file output away.
THEOREM FileOutputStays == Spec => []OnlyDiskStops
BY FilesInvariance, PTL DEF IInv

\* The number grows when the file is full, not before.
LEMMA NumberGrows ==
  ASSUME IInv, Next, setting.limit * Unit < Width, logrger'.index > logrger.index
  PROVE  sinceOpen > setting.limit * Unit
<1>1. /\ FileTypes /\ Numbered
      /\ logrger \in [created : Int, index : Nat, writeLen : Nat, handle : Handles, outfile : BOOLEAN]
      /\ logrger.writeLen <= sinceOpen /\ sinceOpen \in Nat
  BY DEF IInv, FileTypes, Counted
<1>2. LimitBytes = setting.limit * Unit /\ LimitBytes \in Nat
  BY <1>1, Limit DEF FileTypes
<1>3. CASE \E day \in Days : \E result \in openLogrger(day) : logrger'.index = result.logrger.index
  <2>1. PICK day \in Days : \E result \in openLogrger(day) : logrger'.index = result.logrger.index
    BY <1>3
  <2>2. PICK result \in openLogrger(day) : logrger'.index = result.logrger.index
    BY <2>1
  <2>3. \/ Kept(day, result)
        \/ result.logrger.index \in {0, logrger.index}
        \/ logrger.writeLen > LimitBytes
    BY <1>1, <2>2, WaysToOpen
  <2>4. Kept(day, result) => result.logrger.index = logrger.index
    BY DEF Kept, Outcome
  <2> QED
    BY <1>1, <1>2, <2>2, <2>3, <2>4
<1>4. CASE pushLogr \/ handleLogr \/ openFails
  <2>1. CASE openFails
    BY <1>3, <2>1 DEF openFails
  <2>2. CASE pushLogr \/ handleLogr
    <3>1. PICK day \in Days : \E len \in RecordLens : \E result \in openLogrger(day) :
            /\ Recording(day, result) /\ result.logrger.handle # Closed
            /\ \/ logrger' = [result.logrger EXCEPT !.handle = Closed]
               \/ \E handle : logrger' = [result.logrger EXCEPT !.handle = handle,
                                                                !.writeLen = (@ + len) % Width]
      BY <2>2, Zenon DEF pushLogr, handleLogr, Writes
    <3>2. PICK len \in RecordLens, result \in openLogrger(day) :
            /\ Recording(day, result) /\ result.logrger.handle # Closed
            /\ \/ logrger' = [result.logrger EXCEPT !.handle = Closed]
               \/ \E handle : logrger' = [result.logrger EXCEPT !.handle = handle,
                                                                !.writeLen = (@ + len) % Width]
      BY <3>1
    <3>3. result.logrger \in [created : {day}, index : Nat, writeLen : Nat, handle : Handles, outfile : BOOLEAN]
      BY <3>2, ReadyToWrite DEF Recording
    <3>4. logrger'.index = result.logrger.index
      BY <3>2, <3>3
    <3> QED
      BY <1>3, <3>4
  <2> QED
    BY <1>4, <2>1, <2>2
<1>5. CASE hotChange \/ setLogrgerOutFile \/ midnight \/ stop \/ restart \/ cleanUp \/ Over
  <2>1. logrger'.index \in {0, logrger.index}
    <3>1. CASE hotChange
      BY <1>1, <3>1 DEF hotChange
    <3>2. CASE setLogrgerOutFile
      BY <1>1, <3>2 DEF setLogrgerOutFile
    <3>3. CASE restart
      BY <3>3 DEF restart, Fresh
    <3>4. CASE midnight \/ stop \/ cleanUp \/ Over
      BY <3>4 DEF midnight, stop, cleanUp, Over, vars
    <3> QED
      BY <1>5, <3>1, <3>2, <3>3, <3>4
  <2> QED
    BY <1>1, <2>1
<1> QED
  BY <1>4, <1>5 DEF Next

\* openLogrger takes the number in the name of the file up only when more
\* has been written to the open file than the limit, for every limit whose
\* length in bytes fits in 32 bits.
THEOREM FullFilesChange == Spec => ChangesWhenFull
<1>1. IInv /\ [Next]_vars => [setting.limit * Unit < Width /\ logrger'.index > logrger.index
                                => sinceOpen > setting.limit * Unit]_vars
  BY NumberGrows
<1> QED
  BY <1>1, FilesInvariance, PTL DEF Spec, ChangesWhenFull

-----------------------------------------------------------------------------
(***************************************************************************)
(* One day of a program that leaves its settings alone.  Every file but    *)
(* the one that is open has been full, and no number comes back.           *)
(***************************************************************************)
FirstDay == ~synchronous /\ changes = 0 /\ today = 0

Within(n) == \E len \in RecordLens : n <= setting.limit * Unit + len

OneDay ==
  /\ logrger.handle = Closed => DOMAIN fs.length = {}
  /\ logrger.handle # Closed =>
       /\ logrger.created = 0 /\ logrger.handle.index = logrger.index
       /\ logrger.handle \in DOMAIN fs.length /\ fs.length[logrger.handle] = sinceOpen
  /\ \A f \in DOMAIN fs.length :
       /\ f.index \in Nat /\ f.index <= logrger.index
       /\ fs.length[f] \in Nat /\ Within(fs.length[f])

\* A disk that refuses nothing gives the file that is asked for.
LEMMA AlwaysOpens ==
  ASSUME ~DiskFails, FileTypes, Numbered, records < MaxRecords,
         NEW day \in Days, NEW result \in openLogrger(day)
  PROVE  result.logrger.handle # Closed
<1> DEFINE before == Rotated(day)
           file == File(day, before.index)
           now == [before EXCEPT !.created = day, !.writeLen = 0]
           ways == IF file.dir \in fs.dirs THEN {Made(fs.dirs, FALSE)} ELSE createRecursionDir(file.dir)
<1>1. CASE before.handle # Closed
  BY <1>1 DEF openLogrger, Outcome
<1>2. CASE before.handle = Closed
  <2>1. file.dir = Dir(day)
    BY DEF File
  <2>2. \A made \in ways : ~made.faulty
    BY DEF createRecursionDir, Made
  <2>3. \A made \in ways : file.dir \in made.dirs
    <3>1. CASE file.dir \in fs.dirs
      BY <3>1 DEF Made
    <3>2. CASE file.dir \notin fs.dirs
      BY <2>1, <2>2, <3>2, WholePath
    <3> QED
      BY <3>1, <3>2
  <2>4. \E made \in ways : result = Outcome([now EXCEPT !.handle = file], fopen(made.dirs, file), FALSE, 0)
    BY <1>2, <2>3 DEF openLogrger
  <2>5. result.logrger = [now EXCEPT !.handle = file]
    BY <2>4 DEF Outcome
  <2>6. logrger \in [created : Int, index : Nat, writeLen : Nat, handle : Handles, outfile : BOOLEAN]
    BY DEF FileTypes
  <2>7. result.logrger.handle = file
    BY <2>5, <2>6 DEF Rotated
  <2>8. before.index \in Nat /\ before.index <= logrger.index + 1
    BY <2>6 DEF Rotated
  <2> QED
    BY <2>7, <2>8, NextFile, FileConstants
<1> QED
  BY <1>1, <1>2

\* On the same day an open file is used as it is, or is followed by the next.
LEMMA SameDay ==
  ASSUME FileTypes, logrger.handle # Closed, NEW day, day = logrger.created, NEW result \in openLogrger(day)
  PROVE  result = Outcome(logrger, fs, FALSE, sinceOpen) \/ result.logrger.index = logrger.index + 1
<1> DEFINE full == [logrger EXCEPT !.index = logrger.index + 1, !.handle = Closed]
<1>1. logrger \in [created : Int, index : Nat, writeLen : Nat, handle : Handles, outfile : BOOLEAN]
  BY DEF FileTypes
<1>2. CASE ~(logrger.writeLen > LimitBytes)
  <2>1. Rotated(day) = logrger
    BY <1>2 DEF Rotated
  <2> QED
    BY <2>1 DEF openLogrger
<1>3. CASE logrger.writeLen > LimitBytes
  <2>1. Rotated(day) = full
    BY <1>3 DEF Rotated
  <2>2. DOMAIN full = {"created", "index", "writeLen", "handle", "outfile"}
    BY <1>1
  <2>3. full.index = logrger.index + 1 /\ full.handle = Closed
    BY <1>1
  <2> HIDE DEF full
  <2> DEFINE now == [full EXCEPT !.created = day, !.writeLen = 0]
             file == File(day, full.index)
  <2>4. \/ \E made : result = Outcome([now EXCEPT !.handle = file], fopen(made.dirs, file), FALSE, 0)
        \/ \E made : result = Outcome([now EXCEPT !.outfile = FALSE], [fs EXCEPT !.dirs = made.dirs],
                                      made.faulty \/ file.dir \in made.dirs, 0)
    BY <2>1, <2>3 DEF openLogrger
  <2> HIDE DEF now, file
  <2>5. result.logrger = [now EXCEPT !.handle = file] \/ result.logrger = [now EXCEPT !.outfile = FALSE]
    <3>1. ASSUME NEW lg, NEW disk, NEW faulty, NEW n, result = Outcome(lg, disk, faulty, n)
          PROVE  result.logrger = lg
      BY ONLY <3>1 DEF Outcome
    <3> QED
      BY ONLY <2>4, <3>1
  <2>7. DOMAIN now = DOMAIN full /\ now.index = full.index
    BY <2>2 DEF now
  <2>6. result.logrger.index = full.index
    BY ONLY <2>2, <2>5, <2>7
  <2> QED
    BY <2>3, <2>6
<1> QED
  BY <1>2, <1>3

\* The file a record of that day goes to.
LEMMA NextOfDay ==
  ASSUME ~DiskFails, IInv, OneDay, records < MaxRecords, NEW result \in openLogrger(0), 0 \in Days
  PROVE  LET h == result.logrger.handle
             length == result.fs.length
         IN  /\ h # Closed /\ h.index = result.logrger.index /\ result.logrger.created = 0
             /\ h \in DOMAIN length /\ length[h] = result.before
             /\ \A f \in DOMAIN length :
                  /\ f.index \in Nat /\ f.index <= result.logrger.index
                  /\ length[f] \in Nat
                  /\ f # h => Within(length[f])
<1>1. FileTypes /\ Numbered /\ logrger.index \in Nat /\ sinceOpen \in Nat
  BY DEF IInv, FileTypes
<1>2. result.logrger.handle # Closed
  BY <1>1, AlwaysOpens
<1>3. result.logrger.index \in Nat /\ result.logrger.created = 0
  BY <1>2, ReadyToWrite
<1>4. CASE Kept(0, result)
  <2>1. result.logrger = logrger /\ result.fs = fs /\ result.before = sinceOpen
    BY <1>4 DEF Kept, Outcome
  <2> QED
    BY <1>2, <1>3, <2>1 DEF OneDay
<1>5. CASE Opened(0, result) /\ ~Kept(0, result)
  <2> DEFINE file == File(0, result.logrger.index)
  <2>1. /\ result.logrger.handle = file /\ result.before = 0
        /\ result.fs.length = Grown(fs.length, file, 0)
    BY <1>5 DEF Opened, fopen
  <2>2. file.index = result.logrger.index
    BY DEF File
  <2>3. \A f \in DOMAIN fs.length : f.index < result.logrger.index
    <3>1. CASE logrger.handle = Closed
      BY <3>1 DEF OneDay
    <3>2. CASE logrger.handle # Closed
      <4>1. result # Outcome(logrger, fs, FALSE, sinceOpen)
        <5>1. SUFFICES ASSUME result = Outcome(logrger, fs, FALSE, sinceOpen) PROVE FALSE
          OBVIOUS
        <5>2. result.logrger = logrger
          BY <5>1 DEF Outcome
        <5>3. logrger.writeLen <= LimitBytes
          BY <1>2, <5>2, ReadyToWrite
        <5>4. logrger.created = 0
          BY <3>2 DEF OneDay
        <5> QED
          BY <1>5, <3>2, <5>1, <5>3, <5>4 DEF Kept
      <4>2. result.logrger.index = logrger.index + 1
        BY <1>1, <3>2, <4>1, SameDay DEF OneDay
      <4> QED
        BY <1>1, <4>2 DEF OneDay
    <3> QED
      BY <3>1, <3>2
  <2> HIDE DEF file
  <2>4. file \notin DOMAIN fs.length
    BY <1>3, <2>2, <2>3
  <2>5. /\ DOMAIN result.fs.length = DOMAIN fs.length \cup {file}
        /\ result.fs.length[file] = 0
        /\ \A f \in DOMAIN fs.length : result.fs.length[f] = fs.length[f]
    BY <2>1, <2>4 DEF Grown, OneDay
  <2>6. \A f \in DOMAIN fs.length : f.index \in Nat /\ fs.length[f] \in Nat /\ Within(fs.length[f])
    BY DEF OneDay
  <2> QED
    BY <1>2, <1>3, <2>1, <2>2, <2>3, <2>5, <2>6
<1> QED
  BY <1>1, <1>2, <1>4, <1>5, WaysToOpen DEF Failed

LEMMA HandleLogrOneDay ==
  ASSUME ~DiskFails, IInv, OneDay, FirstDay, handleLogr
  PROVE  OneDay'
<1>1. PICK day \in Days, len \in RecordLens : \E n \in Stores(len), result \in openLogrger(day) :
             /\ Recording(day, result)
             /\ Writes(day, len, n, result)
             /\ logrger' = [result.logrger EXCEPT !.handle = IF n = len THEN @ ELSE Closed,
                                                  !.writeLen = (@ + len) % Width]
  BY DEF handleLogr
<1>2. PICK n \in Stores(len), result \in openLogrger(day) :
             /\ Recording(day, result)
             /\ Writes(day, len, n, result)
             /\ logrger' = [result.logrger EXCEPT !.handle = IF n = len THEN @ ELSE Closed,
                                                  !.writeLen = (@ + len) % Width]
  BY <1>1
<1>3. n = len /\ day = 0 /\ records < MaxRecords /\ setting' = setting /\ len \in Nat
  BY <1>2, FileAssumption DEF Stores, Recording, FirstDay, Days
<1> DEFINE h == result.logrger.handle
           length == result.fs.length
<1>4. /\ h # Closed /\ h.index = result.logrger.index
      /\ h \in DOMAIN length /\ length[h] = result.before
      /\ \A f \in DOMAIN length :
           /\ f.index \in Nat /\ f.index <= result.logrger.index
           /\ length[f] \in Nat
           /\ f # h => Within(length[f])
  BY <1>3, NextOfDay
<1>5. /\ result.logrger \in [created : {0}, index : Nat, writeLen : Nat, handle : Handles, outfile : BOOLEAN]
      /\ result.before \in Nat /\ result.before <= LimitBytes
  BY <1>3, <1>4, ReadyToWrite
<1>6. logrger'.created = 0 /\ logrger'.index = result.logrger.index /\ logrger'.handle = h
  BY <1>2, <1>3, <1>5
<1>7. fs'.length = Grown(length, h, len) /\ sinceOpen' = result.before + len
  BY <1>2, <1>3, <1>5 DEF Writes
<1> HIDE DEF h, length
<1>8. /\ DOMAIN fs'.length = DOMAIN length
      /\ fs'.length[h] = result.before + len
      /\ \A f \in DOMAIN length : f # h => fs'.length[f] = length[f]
  <2>1. DOMAIN fs'.length = DOMAIN length
    BY <1>4, <1>7 DEF Grown
  <2>2. fs'.length[h] = length[h] + len
    BY <1>4, <1>7 DEF Grown
  <2>3. ASSUME NEW f \in DOMAIN length, f # h PROVE fs'.length[f] = length[f]
    <3>1. fs'.length[f] = length[f] + 0
      BY <1>7, <2>3 DEF Grown
    <3>2. length[f] \in Nat
      BY <1>4
    <3> QED
      BY ONLY <3>1, <3>2
  <2> QED
    BY <1>4, <2>1, <2>2, <2>3
<1>10. Within(result.before + len)
  <2>1. LimitBytes \in Nat /\ LimitBytes <= setting.limit * Unit
    BY Limit DEF IInv, FileTypes
  <2>2. setting.limit * Unit \in Nat
    <3>1. setting.limit \in Nat /\ Unit \in Nat
      BY FileAssumption DEF IInv, FileTypes
    <3> QED
      BY <3>1, SMT
  <2>3. result.before + len <= setting.limit * Unit + len
    BY <1>3, <1>5, <2>1, <2>2
  <2> QED
    BY <2>3 DEF Within
<1>11. ASSUME NEW f \in DOMAIN fs'.length
       PROVE  f.index \in Nat /\ f.index <= logrger'.index /\ fs'.length[f] \in Nat /\ Within(fs.length[f])'
  <2>1. f \in DOMAIN length /\ f.index \in Nat /\ f.index <= logrger'.index
    BY <1>4, <1>6, <1>8, <1>11
  <2>2. CASE f = h
    <3>1. fs'.length[f] = result.before + len /\ result.before + len \in Nat
      BY <1>3, <1>5, <1>8, <2>2
    <3> QED
      BY <1>3, <1>10, <2>1, <3>1 DEF Within
  <2>3. CASE f # h
    <3>1. fs'.length[f] = length[f] /\ length[f] \in Nat /\ Within(length[f])
      BY <1>4, <1>8, <2>1, <2>3
    <3> QED
      BY <1>3, <2>1, <3>1 DEF Within
  <2> QED
    BY <2>2, <2>3
<1> QED
  BY <1>4, <1>6, <1>7, <1>8, <1>11 DEF OneDay

\* A file that is not shared, not reopened and not taken up again keeps to
\* its limit: where the queue is used, for the first day of a program that
\* leaves its settings alone, unless the disk fails.
THEOREM LimitsHoldForADay ==
  ASSUME ~DiskFails
  PROVE  Spec => [](FirstDay => FilesLimited)
<1> DEFINE J == changes \in Nat /\ today \in Nat /\ (FirstDay => OneDay)
<1>1. Init => J
  BY DEF Init, Fresh, EmptyDisk, OneDay
<1>2. IInv /\ J /\ [Next]_vars => J'
  <2> SUFFICES ASSUME IInv, J, [Next]_vars PROVE J'
    OBVIOUS
  <2>1. CASE pushLogr \/ handleLogr \/ openFails
    <3>1. UNCHANGED <<synchronous, today, changes>>
      BY <2>1 DEF pushLogr, handleLogr, openFails, Recording
    <3>2. FirstDay => OneDay'
      <4>1. CASE handleLogr
        BY <4>1, HandleLogrOneDay
      <4>2. CASE pushLogr
        BY <4>2 DEF pushLogr, FirstDay
      <4>3. ~openFails
        BY AlwaysOpens DEF openFails, Recording, IInv
      <4> QED
        BY <2>1, <4>1, <4>2, <4>3
    <3> QED
      BY <3>1, <3>2 DEF FirstDay
  <2>2. CASE hotChange \/ setLogrgerOutFile \/ restart
    <3>1. changes' = changes + 1 /\ today' = today
      BY <2>2 DEF hotChange, setLogrgerOutFile, restart, Changing
    <3> QED
      BY <3>1 DEF FirstDay
  <2>3. CASE midnight
    BY <2>3 DEF midnight, FirstDay
  <2>4. CASE stop \/ Over \/ UNCHANGED vars
    BY <2>4 DEF stop, Over, vars, history, FirstDay, OneDay, Within
  <2>5. CASE cleanUp
    <3>1. /\ fs' = EmptyDisk /\ logrger' = logrger /\ logrger.handle = Closed
          /\ UNCHANGED <<synchronous, today, changes>>
      BY <2>5 DEF cleanUp
    <3> QED
      BY <3>1 DEF FirstDay, OneDay, EmptyDisk
  <2> QED
    BY <2>1, <2>2, <2>3, <2>4, <2>5 DEF Next
<1>3. J => (FirstDay => FilesLimited)
  BY DEF OneDay, FilesLimited, Within
<1> QED
  BY <1>1, <1>2, <1>3, FilesInvariance, PTL DEF Spec

=============================================================================
