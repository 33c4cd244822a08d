----------------------------- MODULE LogrManager -----------------------------
(***************************************************************************)
(* The logger of the server, class LogrerManager of src/Logr.cpp, with the *)
(* one logger "Main" the program uses.  Any number of threads push records *)
(* and change its settings; the thread of run() writes what is queued.     *)
(*                                                                         *)
(* A step is what a thread does between two points at which another one    *)
(* may get in: the calls of _logrLock.lock(), and each read of a field     *)
(* that is shared without it.  A critical section that only moves          *)
(* pointers is one step; the one that writes a file is three, since run()  *)
(* closes the handle without the lock.                                     *)
(***************************************************************************)
EXTENDS Integers, Sequences, FiniteSets

CONSTANTS
  Threads,       \* the threads that log
  Main,          \* the one of them that calls start, and stop at its exit
  Logger,        \* the thread of run()
  Setters,       \* threads that call enableLogrger
  Datas,         \* the addresses new LogrData() may return
  NoThread,      \* nobody holds _logrLock
  NoData,        \* a null LogrData*
  Builds,        \* the values of LOGR4Z_ALL_SYNCHRONOUS_OUTPUT
  PoolMax,       \* how many free LogrData are kept
  MaxCalls,      \* bound: the calls each thread makes
  DiskFails,     \* the file may fail to open
  MaxLost        \* bound: the records a full disk does not take

ASSUME LogrAssumption ==
  /\ Main \in Threads /\ Setters \subseteq Threads
  /\ IsFiniteSet(Threads) /\ Logger \notin Threads
  /\ NoThread \notin Threads \cup {Logger}
  /\ NoData \notin Datas
  /\ Builds \subseteq BOOLEAN /\ DiskFails \in BOOLEAN
  /\ PoolMax \in Nat \ {0} /\ MaxLost \in Nat /\ MaxCalls \in [Threads -> Nat]

VARIABLES
  synchronous, \* LOGR4Z_ALL_SYNCHRONOUS_OUTPUT, for good
  running,    \* _runing
  posted,     \* _semaphore has been posted
  enabled,    \* _enable
  outfile,    \* _outfile
  handle,     \* _handle is open
  lock,       \* who holds _logrLock
  heap,       \* the LogrData that are allocated
  pool,       \* _freeLogrDatas
  logrs,      \* _logrs
  data,       \* what each LogrData holds
  pc,         \* where each thread is
  mine,       \* the LogrData each thread works on
  kind,       \* and what it is for
  calls,      \* calls made so far
  pushed,     \* _ullStatusTotalPushLogr
  popped,     \* _ullStatusTotalPopLogr
  file,       \* the records in the log file
  refused,    \* the records the disk did not take (history)
  promised,   \* records the logger owes the file (history)
  switchedOff \* enableLogrger(id, false) has been called

flags == <<running, posted, enabled, outfile, switchedOff>>
memory == <<heap, pool, logrs, data>>
counters == <<pushed, popped>>
output == <<handle, file, refused, promised>>
vars == <<synchronous, flags, memory, counters, output, lock, pc, mine, kind, calls>>

Processes == Threads \cup {Logger}
Kinds == {"general", "disable"}
Records == [by : Processes, num : Nat, type : Kinds]

\* What a LogrData holds that nobody uses: makeLogrData sets every field.
Blank == [by |-> Main, num |-> 0, type |-> "general"]

\* The records LOGA writes at the start of run(): one for the thread, one
\* for each logger that is enabled.
Hellos == 2

Working == {"make", "reuse", "push", "enqueue", "open", "write", "close", "free", "keep"}
ThreadStates == Working \cup {"idle", "new", "starting", "joining", "exited"}
LoggerStates ==
  Working \cup {"none", "run", "hello", "pop", "handle", "flush", "stale", "delay", "quit", "ended"}

Init ==
  /\ synchronous \in Builds
  /\ running = FALSE /\ posted = FALSE
  /\ enabled = TRUE /\ outfile = TRUE /\ switchedOff = FALSE
  /\ handle = FALSE
  /\ lock = NoThread
  /\ heap = {} /\ pool = <<>> /\ logrs = <<>>
  /\ data = [d \in Datas |-> Blank]
  /\ pc = [t \in Processes |-> IF t = Main THEN "new" ELSE IF t = Logger THEN "none" ELSE "idle"]
  /\ mine = [t \in Processes |-> NoData]
  /\ kind = [t \in Processes |-> "general"]
  /\ calls = [t \in Processes |-> 0]
  /\ pushed = 0 /\ popped = 0
  /\ file = <<>> /\ refused = <<>> /\ promised = {}

TypeOK ==
  /\ {synchronous, running, posted, enabled, outfile, switchedOff, handle} \subseteq BOOLEAN
  /\ lock \in Processes \cup {NoThread}
  /\ heap \subseteq Datas
  /\ pool \in Seq(Datas) /\ logrs \in Seq(Datas)
  /\ data \in [Datas -> Records]
  /\ pc \in [Processes -> ThreadStates \cup LoggerStates]
  /\ mine \in [Processes -> Datas \cup {NoData}]
  /\ kind \in [Processes -> Kinds]
  /\ calls \in [Processes -> Nat]
  /\ pushed \in Nat /\ popped \in Nat
  /\ file \in Seq(Records) /\ refused \in Seq(Records) /\ promised \in SUBSET Records

-----------------------------------------------------------------------------
At(t, state) == pc[t] = state
Goto(t, state) == pc' = [pc EXCEPT ![t] = state]
Hold(t, d) == mine' = [mine EXCEPT ![t] = d]

Written == {file[i] : i \in DOMAIN file}

\* The records that have been given to the file, for better or worse.
Settled == Written \cup {refused[i] : i \in DOMAIN refused}

\* Nobody expects the rest of the queue in the file any more.
GivenUp == promised' = promised \cap Settled

(***************************************************************************)
(* A record is given to a file that is open.  A disk that is full does not *)
(* take it: a short fwrite closes the file, and what fwrite has put in its *)
(* buffer may be lost at a later fflush or fclose, which nobody notices.   *)
(* Either way the logger goes on as if it were written.                    *)
(***************************************************************************)
Stored(record) ==
  \/ /\ file' = Append(file, record)
     /\ handle' = TRUE
     /\ UNCHANGED refused
  \/ /\ Len(refused) < MaxLost
     /\ refused' = Append(refused, record)
     /\ handle' \in BOOLEAN
     /\ UNCHANGED file

\* Where a thread goes on after a call of the logger.
Back(t) == IF t # Logger THEN "idle" ELSE IF posted THEN "pop" ELSE "hello"

MayCall(t) ==
  \/ At(t, "idle") /\ calls[t] < MaxCalls[t]
  \/ At(t, "hello") /\ calls[t] < Hellos

\* LOGR_STREAM: prePushLogr looks at the filter before anything is made.
prePushLogr(t) ==
  /\ MayCall(t)
  /\ calls' = [calls EXCEPT ![t] = @ + 1]
  /\ kind' = [kind EXCEPT ![t] = "general"]
  /\ Goto(t, IF running /\ enabled THEN "make" ELSE Back(t))
  /\ UNCHANGED <<flags, memory, output, lock, mine, counters, synchronous>>

-----------------------------------------------------------------------------
\* makeLogrData looks at the pool before it takes the lock, and again after.
makeLogrData(t) ==
  /\ At(t, "make") /\ pool # <<>>
  /\ Goto(t, "reuse")
  /\ UNCHANGED <<flags, memory, output, lock, mine, kind, calls, counters, synchronous>>

\* What the caller then does with the LogrData.
Made(t, d) ==
  /\ data' = [data EXCEPT ![d] = [by |-> t, num |-> calls[t], type |-> kind[t]]]
  /\ Hold(t, d)
  /\ Goto(t, IF kind[t] = "general" THEN "push" ELSE "enqueue")
  /\ UNCHANGED <<flags, logrs, output, lock, kind, calls, counters, synchronous>>

\* new: any free address would do, and which one it is makes no difference.
newLogrData(t) ==
  /\ \/ At(t, "make") /\ pool = <<>>
     \/ At(t, "reuse") /\ pool = <<>> /\ lock = NoThread
  /\ Datas # heap
  /\ LET d == CHOOSE free \in Datas \ heap : TRUE
     IN  heap' = heap \cup {d} /\ Made(t, d)
  /\ UNCHANGED pool

reuseLogrData(t) ==
  /\ At(t, "reuse") /\ pool # <<>> /\ lock = NoThread
  /\ pool' = SubSeq(pool, 1, Len(pool) - 1)
  /\ Made(t, pool[Len(pool)])
  /\ UNCHANGED heap

\* Faulty variant: size() <= 200.
freeLogrDataOneMore(t) ==
  /\ At(t, "free")
  /\ \/ /\ Len(pool) <= PoolMax
        /\ Goto(t, "keep")
        /\ UNCHANGED <<heap, mine>>
     \/ /\ Len(pool) > PoolMax
        /\ Goto(t, Back(t))
        /\ heap' = heap \ {mine[t]}
        /\ Hold(t, NoData)
  /\ data' = [data EXCEPT ![mine[t]] = Blank]
  /\ UNCHANGED <<flags, pool, logrs, output, lock, kind, calls, counters, synchronous>>

(***************************************************************************)
(* freeLogrData reads the size of the vector without the lock.  One that   *)
(* reads it while another thread is in push_back may see any size, which   *)
(* can make it delete too early; a size below the limit when there are     *)
(* more would need a vector that grows at that very size.                  *)
(***************************************************************************)
freeLogrData(t) ==
  /\ At(t, "free")
  /\ \/ /\ Len(pool) < PoolMax
        /\ Goto(t, "keep")
        /\ UNCHANGED <<heap, mine>>
     \/ /\ Len(pool) >= PoolMax \/ \E u \in Processes \ {t} : At(u, "keep")
        /\ Goto(t, Back(t))
        /\ heap' = heap \ {mine[t]}
        /\ Hold(t, NoData)
  /\ data' = [data EXCEPT ![mine[t]] = Blank]
  /\ UNCHANGED <<flags, pool, logrs, output, lock, kind, calls, counters, synchronous>>

\* Faulty variant: the pointer is cleared before it is kept.
keepLogrDataCleared(t) ==
  /\ At(t, "keep") /\ lock = NoThread
  /\ pool' = Append(pool, NoData)
  /\ Hold(t, NoData)
  /\ Goto(t, Back(t))
  /\ UNCHANGED <<flags, heap, logrs, data, output, lock, kind, calls, counters, synchronous>>

keepLogrData(t) ==
  /\ At(t, "keep") /\ lock = NoThread
  /\ pool' = Append(pool, mine[t])
  /\ Hold(t, NoData)
  /\ Goto(t, Back(t))
  /\ UNCHANGED <<flags, heap, logrs, data, output, lock, kind, calls, counters, synchronous>>

-----------------------------------------------------------------------------
\* pushLogr asks again whether the record is wanted.
pushLogr(t) ==
  /\ At(t, "push")
  /\ \/ running /\ enabled /\ ~synchronous /\ Goto(t, "enqueue")
     \/ running /\ enabled /\ synchronous /\ outfile /\ Goto(t, "open")
     \/ ~(running /\ enabled) /\ Goto(t, "free")
     \/ synchronous /\ ~outfile /\ Goto(t, "free")
  /\ UNCHANGED <<flags, memory, output, lock, mine, kind, calls, counters, synchronous>>

\* pushLogr returns true: the record will be in the file.
Promise(t) ==
  promised' = IF running /\ outfile /\ ~switchedOff /\ data[mine[t]].type = "general"
                THEN promised \cup {data[mine[t]]} ELSE promised

\* Faulty variant: the record is queued, and given back as well.
enqueueFrees(t) ==
  /\ At(t, "enqueue") /\ lock = NoThread
  /\ logrs' = Append(logrs, mine[t])
  /\ pushed' = IF kind[t] = "general" THEN pushed + 1 ELSE pushed
  /\ Promise(t)
  /\ Goto(t, "free")
  /\ UNCHANGED <<flags, heap, pool, data, handle, file, refused, lock, mine, kind, calls, popped, synchronous>>

enqueue(t) ==
  /\ At(t, "enqueue") /\ lock = NoThread
  /\ logrs' = Append(logrs, mine[t])
  /\ pushed' = IF kind[t] = "general" THEN pushed + 1 ELSE pushed
  /\ Promise(t)
  /\ Hold(t, NoData)
  /\ Goto(t, Back(t))
  /\ UNCHANGED <<flags, heap, pool, data, handle, file, refused, lock, kind, calls, popped, synchronous>>

(***************************************************************************)
(* openLogrger: the filter once more, then the file, which is closed and   *)
(* opened anew on another day or when it is full (LogrFile says when).  It *)
(* returns false when it cannot be opened, and switches the file output    *)
(* off for good.                                                           *)
(***************************************************************************)
Opens(opened) ==
  /\ enabled /\ outfile
  /\ opened \/ DiskFails
  /\ outfile' = opened

openLogrger(t) ==
  /\ At(t, "open") /\ lock = NoThread
  /\ \/ /\ Opens(TRUE)
        /\ handle' = TRUE
        /\ lock' = t
        /\ Goto(t, "write")
     \/ /\ Opens(FALSE)
        /\ handle' = FALSE
        /\ Goto(t, "free")
        /\ UNCHANGED lock
     \/ /\ ~(enabled /\ outfile)
        /\ Goto(t, "free")
        /\ UNCHANGED <<handle, outfile, lock>>
  /\ UNCHANGED <<running, posted, enabled, switchedOff, memory, file, refused, promised, mine, kind, calls, counters, synchronous>>

\* A write to a handle that is closed does nothing.
writeLogr(t) ==
  /\ At(t, "write")
  /\ \/ handle /\ Stored(data[mine[t]])
     \/ ~handle /\ UNCHANGED <<handle, file, refused>>
  /\ Goto(t, "close")
  /\ UNCHANGED <<flags, memory, promised, lock, mine, kind, calls, counters, synchronous>>

closeLogrger(t) ==
  /\ At(t, "close")
  /\ handle' = FALSE
  /\ lock' = NoThread
  /\ Promise(t)
  /\ Goto(t, "free")
  /\ UNCHANGED <<flags, memory, file, refused, mine, kind, calls, counters, synchronous>>

-----------------------------------------------------------------------------
\* enableLogrger(id, true) takes effect at once.
enableLogrger(t) ==
  /\ t \in Setters /\ At(t, "idle") /\ calls[t] < MaxCalls[t]
  /\ calls' = [calls EXCEPT ![t] = @ + 1]
  /\ enabled' = TRUE
  /\ UNCHANGED <<running, posted, outfile, switchedOff, memory, output, lock, pc, mine, kind, counters, synchronous>>

(***************************************************************************)
(* enableLogrger(id, false) goes through hotChange: at once when run() is  *)
(* not there to do it, or when everything is synchronous, and otherwise as *)
(* a LogrData in the queue.                                                *)
(***************************************************************************)
hotChange(t) ==
  /\ t \in Setters /\ At(t, "idle") /\ calls[t] < MaxCalls[t]
  /\ calls' = [calls EXCEPT ![t] = @ + 1]
  /\ switchedOff' = TRUE
  /\ \/ /\ ~running \/ synchronous
        /\ enabled' = FALSE
        /\ GivenUp
        /\ UNCHANGED <<pc, kind>>
     \/ /\ running /\ ~synchronous
        /\ kind' = [kind EXCEPT ![t] = "disable"]
        /\ Goto(t, "make")
        /\ UNCHANGED <<enabled, promised>>
  /\ UNCHANGED <<running, posted, outfile, memory, handle, file, refused, lock, mine, counters, synchronous>>

-----------------------------------------------------------------------------
\* LogrInit calls start, which makes the thread and waits for it 3 seconds.
start ==
  /\ At(Main, "new") /\ At(Logger, "none")
  /\ pc' = [pc EXCEPT ![Main] = "starting", ![Logger] = "run"]
  /\ UNCHANGED <<flags, memory, output, lock, mine, kind, calls, counters, synchronous>>

\* pthread_create failed; LogrInit does not look at the result.
startFails ==
  /\ At(Main, "new")
  /\ Goto(Main, "idle")
  /\ UNCHANGED <<flags, memory, output, lock, mine, kind, calls, counters, synchronous>>

\* The semaphore, or the timeout: either way main goes on.
started ==
  /\ At(Main, "starting")
  /\ Goto(Main, "idle")
  /\ UNCHANGED <<flags, memory, output, lock, mine, kind, calls, counters, synchronous>>

\* Faulty variant: wait() before _runing = false.
stopWaitsFirst ==
  /\ At(Main, "idle")
  /\ Goto(Main, IF running THEN "joining" ELSE "exited")
  /\ UNCHANGED <<flags, memory, output, lock, mine, kind, calls, counters, synchronous>>

\* The destructor of the manager, at the exit of main.
stop ==
  /\ At(Main, "idle")
  /\ running' = FALSE
  /\ Goto(Main, IF running THEN "joining" ELSE "exited")
  /\ UNCHANGED <<posted, enabled, outfile, switchedOff, memory, output, lock, mine, kind, calls, counters, synchronous>>

wait ==
  /\ At(Main, "joining") /\ At(Logger, "ended")
  /\ Goto(Main, "exited")
  /\ UNCHANGED <<flags, memory, output, lock, mine, kind, calls, counters, synchronous>>

-----------------------------------------------------------------------------
run ==
  /\ At(Logger, "run")
  /\ running' = TRUE
  /\ Goto(Logger, "hello")
  /\ UNCHANGED <<posted, enabled, outfile, switchedOff, memory, output, lock, mine, kind, calls, counters, synchronous>>

post ==
  /\ At(Logger, "hello") /\ calls[Logger] = Hellos
  /\ posted' = TRUE
  /\ Goto(Logger, "pop")
  /\ UNCHANGED <<running, enabled, outfile, switchedOff, memory, output, lock, mine, kind, calls, counters, synchronous>>

\* Faulty variant: _logrs.back() and pop_back().
popLogrLast ==
  /\ At(Logger, "pop") /\ lock = NoThread /\ logrs # <<>>
  /\ logrs' = SubSeq(logrs, 1, Len(logrs) - 1)
  /\ Hold(Logger, logrs[Len(logrs)])
  /\ Goto(Logger, "handle")
  /\ UNCHANGED <<flags, heap, pool, data, output, lock, kind, calls, counters, synchronous>>

popLogr ==
  /\ At(Logger, "pop") /\ lock = NoThread /\ logrs # <<>>
  /\ logrs' = Tail(logrs)
  /\ Hold(Logger, Head(logrs))
  /\ Goto(Logger, "handle")
  /\ UNCHANGED <<flags, heap, pool, data, output, lock, kind, calls, counters, synchronous>>

drained ==
  /\ At(Logger, "pop") /\ lock = NoThread /\ logrs = <<>>
  /\ Goto(Logger, "flush")
  /\ UNCHANGED <<flags, memory, output, lock, mine, kind, calls, counters, synchronous>>

\* Faulty variant: the setting is counted as well.
handleHotChangeCounts ==
  /\ At(Logger, "handle") /\ data[mine[Logger]].type = "disable"
  /\ enabled' = FALSE
  /\ handle' = FALSE
  /\ popped' = popped + 1
  /\ Goto(Logger, "free")
  /\ UNCHANGED <<running, posted, outfile, switchedOff, memory, file, refused, promised, lock, mine, kind, calls, pushed, synchronous>>

\* A setting that was queued: onHotChange, and the file is closed.
handleHotChange ==
  /\ At(Logger, "handle") /\ data[mine[Logger]].type = "disable"
  /\ enabled' = FALSE
  /\ handle' = FALSE
  /\ Goto(Logger, "free")
  /\ UNCHANGED <<running, posted, outfile, switchedOff, memory, file, refused, promised, lock, mine, kind, calls, counters, synchronous>>

\* A record: written to the file, which stays open, if it is still wanted.
handleLogr ==
  /\ At(Logger, "handle") /\ data[mine[Logger]].type = "general"
  /\ popped' = popped + 1
  /\ \/ /\ Opens(TRUE)
        /\ Stored(data[mine[Logger]])
        /\ UNCHANGED promised
     \/ /\ Opens(FALSE)
        /\ handle' = FALSE
        /\ GivenUp
        /\ UNCHANGED <<file, refused>>
     \/ /\ ~(enabled /\ outfile)
        /\ UNCHANGED <<file, refused, promised, handle, outfile>>
  /\ Goto(Logger, "free")
  /\ UNCHANGED <<running, posted, enabled, switchedOff, memory, lock, mine, kind, calls, pushed, synchronous>>

\* Faulty variant: every file is closed, and not only flushed.
flushCloses ==
  /\ At(Logger, "flush")
  /\ Goto(Logger, "stale")
  /\ UNCHANGED <<flags, memory, output, lock, mine, kind, calls, counters, synchronous>>

\* The files are flushed; that of a logger switched off is closed.
flush ==
  /\ At(Logger, "flush")
  /\ Goto(Logger, IF enabled THEN "delay" ELSE "stale")
  /\ UNCHANGED <<flags, memory, output, lock, mine, kind, calls, counters, synchronous>>

closeStale ==
  /\ At(Logger, "stale")
  /\ handle' = FALSE
  /\ Goto(Logger, "delay")
  /\ UNCHANGED <<flags, memory, file, refused, promised, lock, mine, kind, calls, counters, synchronous>>

\* Faulty variant: if (!_runing) break.
delayIgnoresQueue ==
  /\ At(Logger, "delay")
  /\ Goto(Logger, IF ~running THEN "quit" ELSE "pop")
  /\ UNCHANGED <<flags, memory, output, lock, mine, kind, calls, counters, synchronous>>

\* Faulty variant: the loop over popLogr is left for good.
delaySkipsQueue ==
  /\ At(Logger, "delay")
  /\ Goto(Logger, IF ~running /\ logrs = <<>> THEN "quit" ELSE "flush")
  /\ UNCHANGED <<flags, memory, output, lock, mine, kind, calls, counters, synchronous>>

\* After 100 ms: quit, or go round.
delay ==
  /\ At(Logger, "delay")
  /\ Goto(Logger, IF ~running /\ logrs = <<>> THEN "quit" ELSE "pop")
  /\ UNCHANGED <<flags, memory, output, lock, mine, kind, calls, counters, synchronous>>

quit ==
  /\ At(Logger, "quit")
  /\ enabled' = FALSE
  /\ handle' = IF enabled THEN FALSE ELSE handle
  /\ Goto(Logger, "ended")
  /\ UNCHANGED <<running, posted, outfile, switchedOff, memory, file, refused, promised, lock, mine, kind, calls, counters, synchronous>>

-----------------------------------------------------------------------------
Logs(t) ==
  \/ prePushLogr(t) \/ makeLogrData(t) \/ newLogrData(t) \/ reuseLogrData(t)
  \/ freeLogrData(t) \/ keepLogrData(t)
  \/ pushLogr(t) \/ enqueue(t) \/ openLogrger(t) \/ writeLogr(t) \/ closeLogrger(t)

Sets(t) == enableLogrger(t) \/ hotChange(t)

Manages == start \/ startFails \/ started \/ stop \/ wait

Runs ==
  \/ run \/ post \/ popLogr \/ drained \/ handleHotChange \/ handleLogr
  \/ flush \/ closeStale \/ delay \/ quit

\* The exit of main ends the process, and every thread with it.
Exited == At(Main, "exited")
Over == Exited /\ UNCHANGED vars

Next ==
  \/ ~Exited /\ (Manages \/ Runs \/ \E t \in Processes : Logs(t) \/ Sets(t))
  \/ Over

Spec == Init /\ [][Next]_vars

(***************************************************************************)
(* Every thread runs while it can.  The lock is a pthread mutex held for   *)
(* bounded times, and the calls of a thread are bounded, so that weak      *)
(* fairness is enough to get it.  Nothing obliges a thread to log, to      *)
(* change a setting or to exit.                                            *)
(***************************************************************************)
Busy(t) == (Logs(t) /\ pc[t] # "idle") /\ ~Exited

FairSpec ==
  /\ Spec
  /\ WF_vars(~Exited /\ (Runs \/ Logs(Logger)))
  /\ \A t \in Threads : WF_vars(Busy(t))
  /\ WF_vars(~Exited /\ (started \/ wait))

-----------------------------------------------------------------------------
(***************************************************************************)
(* Every LogrData has one owner: the thread that works on it, the queue or *)
(* the pool.  None is lost, and none is given to two.                      *)
(***************************************************************************)
Distinct(s) == \A i, j \in DOMAIN s : s[i] = s[j] => i = j
Held == {t \in Processes : mine[t] # NoData}
Owners(d) == {t \in Processes : mine[t] = d}
Pooled == {pool[i] : i \in DOMAIN pool}
Queued == {logrs[i] : i \in DOMAIN logrs}

OneOwner ==
  /\ Distinct(pool) /\ Distinct(logrs)
  /\ \A t, u \in Held : mine[t] = mine[u] => t = u
  /\ Pooled \cap Queued = {}
  /\ \A t \in Held : mine[t] \notin Pooled \cup Queued
  /\ heap = Pooled \cup Queued \cup {mine[t] : t \in Held}

(***************************************************************************)
(* The pool is held to its limit by a check outside the lock: it may be    *)
(* passed by all threads at once, and grow by one for each but the first.  *)
(***************************************************************************)
PoolBounded == Len(pool) < PoolMax + Cardinality(Processes)

(***************************************************************************)
(* "Push logr, thread safe" (Logr.h:187): the handle a thread writes to is *)
(* open, and nobody closes it under its feet.                              *)
(***************************************************************************)
HandleIsWriters == \A t \in Processes : At(t, "write") => handle

(***************************************************************************)
(* With synchronous output, the only build in which a thread is at         *)
(* "write", run() closes files without the lock that thread holds, but     *)
(* takes the one it has opened only when the logger was switched off, or   *)
(* at the end of run().                                                    *)
(***************************************************************************)
HandleLostOnlyAtEnd ==
  \A t \in Processes : At(t, "write") => handle \/ switchedOff \/ At(Logger, "ended")

(***************************************************************************)
(* A record whose pushLogr returned true while the logger was on is not    *)
(* lost by the logger: it is in the file, or on its way there, and once    *)
(* run() has ended it is in the file, unless the disk did not take it.     *)
(* Switching the logger off queues up behind it, and stop waits for it.    *)
(* Only a file that cannot be opened, and a switch-off that comes after    *)
(* stop and so takes effect at once, give up the queue.                    *)
(***************************************************************************)
OnItsWay == {data[d] : d \in Queued} \cup (IF At(Logger, "handle") THEN {data[mine[Logger]]} ELSE {})

PromisesKept ==
  /\ promised \subseteq Settled \cup OnItsWay
  /\ At(Logger, "ended") => promised \subseteq Settled

InQueue == (IF At(Logger, "handle") THEN <<mine[Logger]>> ELSE <<>>) \o logrs

(***************************************************************************)
(* The counters that getStatusWaitingCount subtracts differ by the records *)
(* that wait: what is not counted when it is queued (a setting) is not     *)
(* counted when it is popped.  Both only grow, so that a status that reads *)
(* popped first is never less than nothing, which in unsigned numbers      *)
(* would be a queue of 2^64 - 1.                                           *)
(***************************************************************************)
Waiting == {i \in DOMAIN InQueue : data[InQueue[i]].type = "general"}

CountersAgree == pushed - popped = Cardinality(Waiting)

(***************************************************************************)
(* The logger, with its queue, its pool and its two threads, implements    *)
(* LogService: over all threads, not for each alone, what is in the file   *)
(* is what was accepted, in that order, less what a switch-off dropped and *)
(* what a full disk did not take.                                          *)
(* A thread that is about to write keeps the output on: in a synchronous   *)
(* build a switch-off may come between its openLogrger and its write.      *)
(***************************************************************************)
Owed == [i \in DOMAIN InQueue |-> data[InQueue[i]]]
SwitchOffs == {r \in Records : r.type = "disable"}
OutputOn == (enabled /\ outfile) \/ \E t \in Processes : At(t, "write")

Service ==
  INSTANCE LogService WITH owed <- Owed, log <- file, lost <- refused, on <- OutputOn

ServesLog == Service!LSSpec

\* stop comes back, so that the program can end.
StopReturns == At(Main, "joining") ~> Exited

\* A queued record does not stay in the queue while run() is there.
QueueMoves ==
  \A d \in Datas : d \in Queued ~> d \notin Queued \/ At(Logger, "ended") \/ Exited

=============================================================================
