-------------------------- MODULE LogrManagerProofs --------------------------
(***************************************************************************)
(* Theorems about LogrManager, for any threads, any number of LogrData and *)
(* both builds.                                                            *)
(*                                                                         *)
(* None of the properties is inductive by itself: that a LogrData has one  *)
(* owner depends on where its owner is, and that a promise is kept on what *)
(* waits before it in the queue and on why the output may be off.  IInv    *)
(* says all of it.  MainLeaves adds what makes HandleIsWriters true of a   *)
(* program whose main alone logs, and JoinsRun that stop waits for a run() *)
(* that is there.                                                          *)
(***************************************************************************)
EXTENDS LogrManager, FiniteSetTheorems, SequenceTheorems, TLAPS

Carrying == {"push", "enqueue", "open", "write", "close", "free", "keep", "handle"}
AtFile == {"open", "write", "close"}

\* The control state of run() and of the other threads.
Places ==
  /\ pc[Logger] \in LoggerStates
  /\ \A t \in Threads : pc[t] \in ThreadStates

\* A thread has a LogrData exactly between making it and passing it on.
Holding == \A t \in Processes : mine[t] # NoData <=> pc[t] \in Carrying

\* The thread that is at the file has the lock, and nobody else keeps it.
Locking == \A t \in Processes : lock = t <=> pc[t] \in {"write", "close"}

\* The free list, with those that have already decided to add to it.
Keeping == {t \in Processes : pc[t] = "keep"}
PoolLimit == Len(pool) + Cardinality(Keeping) < PoolMax + Cardinality(Processes)

\* A synchronous build queues nothing; the other leaves the file to run().
BuildOK ==
  /\ synchronous =>
       /\ logrs = <<>> /\ pc[Logger] # "handle"
       /\ \A t \in Processes : kind[t] = "general" /\ pc[t] # "enqueue"
  /\ ~synchronous => \A t \in Processes : pc[t] \notin AtFile

\* A LogrData on its way into the queue or the file is what it was made for.
MadeFor ==
  \A t \in Processes : pc[t] \in AtFile \cup {"push", "enqueue"} => data[mine[t]].type = kind[t]

\* Nothing switches the logger off but enableLogrger, and run() at its end.
SwitchingOff ==
  /\ (\E t \in Processes : kind[t] = "disable") => switchedOff
  /\ (\E d \in Datas : data[d].type = "disable") => switchedOff
  /\ ~enabled => switchedOff \/ pc[Logger] = "ended"
  /\ pc[Logger] = "stale" => switchedOff

\* Before run() starts nobody has got past the filter; it ends after stop.
Lifetime ==
  /\ pc[Logger] \in {"none", "run"} => \A t \in Threads : pc[t] \notin Working
  /\ pc[Logger] \in {"none", "run", "quit", "ended"} => ~running

\* The record run() has in its hands.
Handled == IF At(Logger, "handle") THEN {data[mine[Logger]]} ELSE {}
QueuedBefore(n) == {data[logrs[k]] : k \in 1 .. n - 1}

(***************************************************************************)
(* What is promised has been given to the file, or waits for run().  It    *)
(* waits before any switch-off, so that when the output is off nothing is  *)
(* waited for.                                                             *)
(***************************************************************************)
InLine ==
  \A n \in 1 .. Len(logrs) + 1 :
    (n \in 1 .. Len(logrs) => data[logrs[n]].type = "disable")
      => promised \subseteq Settled \cup Handled \cup QueuedBefore(n)

BeforeOff ==
  pc[Logger] = "handle" /\ data[mine[Logger]].type = "disable" => promised \subseteq Settled

WhenOff ==
  ~(enabled /\ outfile) \/ synchronous \/ pc[Logger] \in {"quit", "ended"}
    => promised \subseteq Settled

OnceWritten ==
  \A t \in Processes :
    pc[t] = "close" /\ running /\ ~switchedOff => data[mine[t]] \in Settled

Promises == InLine /\ BeforeOff /\ WhenOff /\ OnceWritten

\* The types, with where every thread is and what it holds.
Types == TypeOK /\ Places /\ Holding

Memory == TypeOK /\ Places /\ Holding /\ OneOwner
Control == Locking /\ BuildOK /\ MadeFor /\ SwitchingOff /\ Lifetime

IInv ==
  /\ Memory /\ PoolLimit /\ Control
  /\ HandleLostOnlyAtEnd /\ Promises /\ CountersAgree

-----------------------------------------------------------------------------
(***************************************************************************)
(* Every step preserves the types.                                         *)
(***************************************************************************)
LEMMA CallTypes ==
  ASSUME Types, NEW t \in Processes, Logs(t) \/ Sets(t)
  PROVE  TypeOK'
<1> USE LogrAssumption DEF Goto, Back, At, Types, TypeOK, Holding, Carrying, ThreadStates,
     LoggerStates, Working, flags, memory, counters, output
<1>1. CASE prePushLogr(t)
  BY <1>1 DEF prePushLogr, MayCall, Kinds
<1>2. CASE makeLogrData(t)
  BY <1>2 DEF makeLogrData
<1>3. CASE newLogrData(t)
  BY <1>3 DEF newLogrData, Made, Hold, Records, Kinds
<1>4. CASE reuseLogrData(t)
  BY <1>4, SMTT(20) DEF reuseLogrData, Made, Hold, Records, Kinds
<1>5. CASE freeLogrData(t)
  <2>1. pc' \in [Processes -> ThreadStates \cup LoggerStates]
    BY <1>5 DEF freeLogrData, Hold
  <2>2. /\ {synchronous', running', posted', enabled', outfile', switchedOff', handle'} \subseteq BOOLEAN
        /\ lock' \in Processes \cup {NoThread}
    BY <1>5 DEF freeLogrData, Hold
  <2>3. file' \in Seq(Records) /\ refused' \in Seq(Records) /\ promised' \in SUBSET Records
    BY <1>5 DEF freeLogrData, Hold
  <2>4. /\ heap' \subseteq Datas /\ pool' \in Seq(Datas) /\ logrs' \in Seq(Datas)
        /\ mine' \in [Processes -> Datas \cup {NoData}]
    BY <1>5 DEF freeLogrData, Hold
  <2>5. data' \in [Datas -> Records]
    BY <1>5 DEF freeLogrData, Hold, Blank, Records, Kinds, Processes
  <2>6. /\ kind' \in [Processes -> Kinds] /\ calls' \in [Processes -> Nat]
        /\ pushed' \in Nat /\ popped' \in Nat
    BY <1>5 DEF freeLogrData, Hold, Kinds
  <2> QED
    BY <2>1, <2>2, <2>3, <2>4, <2>5, <2>6
<1>6. CASE keepLogrData(t)
  BY <1>6 DEF keepLogrData, Hold
<1>7. CASE pushLogr(t)
  <2>1. pc' \in [Processes -> ThreadStates \cup LoggerStates]
    BY <1>7 DEF pushLogr
  <2>2. /\ {synchronous', running', posted', enabled', outfile', switchedOff', handle'} \subseteq BOOLEAN
        /\ lock' \in Processes \cup {NoThread}
    BY <1>7 DEF pushLogr
  <2>3. file' \in Seq(Records) /\ refused' \in Seq(Records) /\ promised' \in SUBSET Records
    BY <1>7 DEF pushLogr
  <2>4. /\ heap' \subseteq Datas /\ pool' \in Seq(Datas) /\ logrs' \in Seq(Datas)
        /\ mine' \in [Processes -> Datas \cup {NoData}]
    BY <1>7 DEF pushLogr
  <2>5. data' \in [Datas -> Records]
    BY <1>7 DEF pushLogr, Blank, Records, Kinds, Processes
  <2>6. /\ kind' \in [Processes -> Kinds] /\ calls' \in [Processes -> Nat]
        /\ pushed' \in Nat /\ popped' \in Nat
    BY <1>7 DEF pushLogr, Kinds
  <2> QED
    BY <2>1, <2>2, <2>3, <2>4, <2>5, <2>6
<1>8. CASE enqueue(t)
  BY <1>8 DEF enqueue, Promise, Hold
<1>9. CASE openLogrger(t)
  <2>1. pc' \in [Processes -> ThreadStates \cup LoggerStates]
    BY <1>9 DEF openLogrger, Opens
  <2>2. /\ {synchronous', running', posted', enabled', outfile', switchedOff', handle'} \subseteq BOOLEAN
        /\ lock' \in Processes \cup {NoThread}
    BY <1>9 DEF openLogrger, Opens
  <2>3. file' \in Seq(Records) /\ refused' \in Seq(Records) /\ promised' \in SUBSET Records
    BY <1>9 DEF openLogrger, Opens
  <2>4. /\ heap' \subseteq Datas /\ pool' \in Seq(Datas) /\ logrs' \in Seq(Datas)
        /\ mine' \in [Processes -> Datas \cup {NoData}]
    BY <1>9 DEF openLogrger, Opens
  <2>5. data' \in [Datas -> Records]
    BY <1>9 DEF openLogrger, Opens, Blank, Records, Kinds, Processes
  <2>6. /\ kind' \in [Processes -> Kinds] /\ calls' \in [Processes -> Nat]
        /\ pushed' \in Nat /\ popped' \in Nat
    BY <1>9 DEF openLogrger, Opens, Kinds
  <2> QED
    BY <2>1, <2>2, <2>3, <2>4, <2>5, <2>6
<1>10. CASE writeLogr(t)
  <2>1. pc' \in [Processes -> ThreadStates \cup LoggerStates]
    BY <1>10 DEF writeLogr
  <2>0. data[mine[t]] \in Records
    BY <1>10 DEF writeLogr
  <2>2. /\ {synchronous', running', posted', enabled', outfile', switchedOff', handle'} \subseteq BOOLEAN
        /\ lock' \in Processes \cup {NoThread}
    BY <1>10 DEF writeLogr, Stored
  <2>3. file' \in Seq(Records) /\ refused' \in Seq(Records) /\ promised' \in SUBSET Records
    <3>1. /\ file' \in {file, Append(file, data[mine[t]])} /\ promised' = promised
          /\ refused' \in {refused, Append(refused, data[mine[t]])}
      BY <1>10 DEF writeLogr, Stored
    <3>2. Append(file, data[mine[t]]) \in Seq(Records) /\ Append(refused, data[mine[t]]) \in Seq(Records)
      BY <2>0, AppendProperties
    <3> QED
      BY <3>1, <3>2
  <2>4. /\ heap' \subseteq Datas /\ pool' \in Seq(Datas) /\ logrs' \in Seq(Datas)
        /\ mine' \in [Processes -> Datas \cup {NoData}]
    BY <1>10 DEF writeLogr
  <2>5. data' \in [Datas -> Records]
    BY <1>10 DEF writeLogr, Blank, Records, Kinds, Processes
  <2>6. /\ kind' \in [Processes -> Kinds] /\ calls' \in [Processes -> Nat]
        /\ pushed' \in Nat /\ popped' \in Nat
    BY <1>10 DEF writeLogr, Kinds
  <2> QED
    BY <2>1, <2>2, <2>3, <2>4, <2>5, <2>6
<1>11. CASE closeLogrger(t)
  <2>1. pc' \in [Processes -> ThreadStates \cup LoggerStates]
    BY <1>11 DEF closeLogrger, Promise
  <2>2. /\ {synchronous', running', posted', enabled', outfile', switchedOff', handle'} \subseteq BOOLEAN
        /\ lock' \in Processes \cup {NoThread}
    BY <1>11 DEF closeLogrger, Promise
  <2>3. file' \in Seq(Records) /\ refused' \in Seq(Records) /\ promised' \in SUBSET Records
    BY <1>11 DEF closeLogrger, Promise
  <2>4. /\ heap' \subseteq Datas /\ pool' \in Seq(Datas) /\ logrs' \in Seq(Datas)
        /\ mine' \in [Processes -> Datas \cup {NoData}]
    BY <1>11 DEF closeLogrger, Promise
  <2>5. data' \in [Datas -> Records]
    BY <1>11 DEF closeLogrger, Promise, Blank, Records, Kinds, Processes
  <2>6. /\ kind' \in [Processes -> Kinds] /\ calls' \in [Processes -> Nat]
        /\ pushed' \in Nat /\ popped' \in Nat
    BY <1>11 DEF closeLogrger, Promise, Kinds
  <2> QED
    BY <2>1, <2>2, <2>3, <2>4, <2>5, <2>6
<1>12. CASE enableLogrger(t)
  BY <1>12 DEF enableLogrger
<1>13. CASE hotChange(t)
  <2>1. pc' \in [Processes -> ThreadStates \cup LoggerStates]
    BY <1>13 DEF hotChange, GivenUp
  <2>2. /\ {synchronous', running', posted', enabled', outfile', switchedOff', handle'} \subseteq BOOLEAN
        /\ lock' \in Processes \cup {NoThread}
    BY <1>13 DEF hotChange, GivenUp
  <2>3. file' \in Seq(Records) /\ refused' \in Seq(Records) /\ promised' \in SUBSET Records
    BY <1>13 DEF hotChange, GivenUp
  <2>4. /\ heap' \subseteq Datas /\ pool' \in Seq(Datas) /\ logrs' \in Seq(Datas)
        /\ mine' \in [Processes -> Datas \cup {NoData}]
    BY <1>13 DEF hotChange, GivenUp
  <2>5. data' \in [Datas -> Records]
    BY <1>13 DEF hotChange, GivenUp, Blank, Records, Kinds, Processes
  <2>6. /\ kind' \in [Processes -> Kinds] /\ calls' \in [Processes -> Nat]
        /\ pushed' \in Nat /\ popped' \in Nat
    <3>1. kind' \in {kind, [kind EXCEPT ![t] = "disable"]} /\ calls' = [calls EXCEPT ![t] = calls[t] + 1]
      BY <1>13 DEF hotChange
    <3>2. UNCHANGED <<pushed, popped>>
      BY <1>13 DEF hotChange
    <3>3. "disable" \in Kinds /\ calls[t] + 1 \in Nat
      BY DEF Kinds
    <3>4. /\ kind \in [Processes -> Kinds] /\ calls \in [Processes -> Nat]
          /\ pushed \in Nat /\ popped \in Nat
      OBVIOUS
    <3> QED
      BY ONLY <3>1, <3>2, <3>3, <3>4
  <2> QED
    BY <2>1, <2>2, <2>3, <2>4, <2>5, <2>6
<1> QED
  BY <1>1, <1>2, <1>3, <1>4, <1>5, <1>6, <1>7, <1>8, <1>9, <1>10, <1>11, <1>12, <1>13 DEF
     Logs, Sets

LEMMA RunTypes ==
  ASSUME Types, Manages \/ Runs
  PROVE  TypeOK'
<1> USE LogrAssumption DEF Processes, Goto, Back, At, Types, TypeOK, Holding, Carrying,
     ThreadStates, LoggerStates, Working, flags, memory, counters, output
<1>1. CASE start
  BY <1>1 DEF start
<1>2. CASE startFails
  BY <1>2 DEF startFails
<1>3. CASE started
  BY <1>3 DEF started
<1>4. CASE stop
  BY <1>4 DEF stop
<1>5. CASE wait
  BY <1>5 DEF wait
<1>6. CASE run
  BY <1>6 DEF run
<1>7. CASE post
  BY <1>7 DEF post
<1>8. CASE popLogr
  BY <1>8 DEF popLogr, Hold
<1>9. CASE drained
  BY <1>9 DEF drained
<1>10. CASE handleHotChange
  BY <1>10 DEF handleHotChange
<1>11. CASE handleLogr
  <2>1. pc' \in [Processes -> ThreadStates \cup LoggerStates]
    BY <1>11 DEF handleLogr, Opens, GivenUp
  <2>2. /\ {synchronous', running', posted', enabled', outfile', switchedOff', handle'} \subseteq BOOLEAN
        /\ lock' \in Processes \cup {NoThread}
    BY <1>11 DEF handleLogr, Opens, Stored, GivenUp
  <2>3. file' \in Seq(Records) /\ refused' \in Seq(Records) /\ promised' \in SUBSET Records
    <3>1. data[mine[Logger]] \in Records
      BY <1>11 DEF handleLogr
    <3>2. /\ file' \in {file, Append(file, data[mine[Logger]])} /\ promised' \subseteq promised
          /\ refused' \in {refused, Append(refused, data[mine[Logger]])}
      BY <1>11 DEF handleLogr, Stored, GivenUp
    <3>3. file \in Seq(Records) /\ refused \in Seq(Records) /\ promised \in SUBSET Records
      BY <1>11 DEF handleLogr
    <3>4. /\ Append(file, data[mine[Logger]]) \in Seq(Records)
          /\ Append(refused, data[mine[Logger]]) \in Seq(Records)
      BY <3>1, <3>3, AppendProperties
    <3> QED
      BY <3>2, <3>3, <3>4
  <2>4. /\ heap' \subseteq Datas /\ pool' \in Seq(Datas) /\ logrs' \in Seq(Datas)
        /\ mine' \in [Processes -> Datas \cup {NoData}]
    BY <1>11 DEF handleLogr, Opens, GivenUp
  <2>5. data' \in [Datas -> Records]
    BY <1>11 DEF handleLogr, Opens, GivenUp, Blank, Records, Kinds
  <2>6. /\ kind' \in [Processes -> Kinds] /\ calls' \in [Processes -> Nat]
        /\ pushed' \in Nat /\ popped' \in Nat
    BY <1>11 DEF handleLogr, Opens, GivenUp, Kinds
  <2> QED
    BY <2>1, <2>2, <2>3, <2>4, <2>5, <2>6
<1>12. CASE flush
  BY <1>12 DEF flush
<1>13. CASE closeStale
  BY <1>13 DEF closeStale
<1>14. CASE delay
  BY <1>14 DEF delay
<1>15. CASE quit
  BY <1>15 DEF quit
<1> QED
  BY <1>1, <1>2, <1>3, <1>4, <1>5, <1>6, <1>7, <1>8, <1>9, <1>10, <1>11, <1>12, <1>13,
     <1>14, <1>15 DEF Manages, Runs

\* A thread has a LogrData in the places where it should.
LEMMA CallPlaces ==
  ASSUME Types, NEW t \in Processes, Logs(t) \/ Sets(t)
  PROVE  Places' /\ Holding'
<1> USE LogrAssumption DEF Goto, Back, At, Places, Holding, Carrying, Types, TypeOK,
     ThreadStates, LoggerStates, Working, Processes
<1>1. CASE prePushLogr(t)
  BY <1>1 DEF prePushLogr, MayCall
<1>2. CASE makeLogrData(t)
  BY <1>2 DEF makeLogrData
<1>3. CASE newLogrData(t)
  <2>1. /\ pc[t] \in {"make", "reuse"} /\ \E s \in {"push", "enqueue"} : Goto(t, s)
        /\ \E d \in Datas : mine' = [mine EXCEPT ![t] = d]
    BY <1>3 DEF newLogrData, Made, Hold
  <2> QED
    BY <2>1
<1>4. CASE reuseLogrData(t)
  BY <1>4 DEF reuseLogrData, Made, Hold
<1>5. CASE freeLogrData(t)
  <2>1. PICK s : Goto(t, s) /\ s \in {"keep", Back(t)}
    BY <1>5 DEF freeLogrData
  <2>2. Places'
    BY <2>1
  <2>3. /\ \A u \in Processes \ {t} : mine'[u] = mine[u] /\ pc'[u] = pc[u]
        /\ mine'[t] # NoData <=> pc'[t] = "keep"
        /\ pc'[t] \in {"keep", "idle", "pop", "hello"}
    BY <1>5 DEF freeLogrData, Hold
  <2>4. Holding'
    BY ONLY <2>3, Types
  <2> QED
    BY <2>2, <2>4
<1>6. CASE keepLogrData(t)
  BY <1>6 DEF keepLogrData, Hold
<1>7. CASE pushLogr(t)
  <2>1. (\E s \in {"enqueue", "open", "free"} : Goto(t, s)) /\ UNCHANGED <<mine>>
    BY <1>7 DEF pushLogr, memory
  <2> QED
    BY <1>7, <2>1 DEF pushLogr
<1>8. CASE enqueue(t)
  BY <1>8 DEF enqueue, Promise, Hold
<1>9. CASE openLogrger(t)
  <2>1. (\E s \in {"write", "free"} : Goto(t, s)) /\ UNCHANGED <<mine>>
    BY <1>9 DEF openLogrger, Opens, memory
  <2> QED
    BY <1>9, <2>1 DEF openLogrger
<1>10. CASE writeLogr(t)
  BY <1>10 DEF writeLogr
<1>11. CASE closeLogrger(t)
  BY <1>11 DEF closeLogrger, Promise
<1>12. CASE enableLogrger(t)
  BY <1>12 DEF enableLogrger
<1>13. CASE hotChange(t)
  BY <1>13 DEF hotChange, GivenUp
<1> QED
  BY <1>1, <1>2, <1>3, <1>4, <1>5, <1>6, <1>7, <1>8, <1>9, <1>10, <1>11, <1>12, <1>13 DEF
     Logs, Sets

LEMMA RunPlaces ==
  ASSUME Types, Manages \/ Runs
  PROVE  Places' /\ Holding'
<1> USE LogrAssumption DEF Goto, Back, At, Places, Holding, Carrying, Types, TypeOK,
     ThreadStates, LoggerStates, Working, Processes
<1>1. CASE start
  BY <1>1 DEF start
<1>2. CASE startFails
  BY <1>2 DEF startFails
<1>3. CASE started
  BY <1>3 DEF started
<1>4. CASE stop
  BY <1>4 DEF stop
<1>5. CASE wait
  BY <1>5 DEF wait
<1>6. CASE run
  BY <1>6 DEF run
<1>7. CASE post
  BY <1>7 DEF post
<1>8. CASE popLogr
  BY <1>8 DEF popLogr, Hold
<1>9. CASE drained
  BY <1>9 DEF drained
<1>10. CASE handleHotChange
  BY <1>10 DEF handleHotChange
<1>11. CASE handleLogr
  BY <1>11 DEF handleLogr, Opens, GivenUp
<1>12. CASE flush
  BY <1>12 DEF flush
<1>13. CASE closeStale
  BY <1>13 DEF closeStale
<1>14. CASE delay
  BY <1>14 DEF delay
<1>15. CASE quit
  BY <1>15 DEF quit
<1> QED
  BY <1>1, <1>2, <1>3, <1>4, <1>5, <1>6, <1>7, <1>8, <1>9, <1>10, <1>11, <1>12, <1>13,
     <1>14, <1>15 DEF Manages, Runs

-----------------------------------------------------------------------------
(***************************************************************************)
(* Sequences of LogrData without repetitions: the pool and the queue.      *)
(***************************************************************************)
Members(s) == {s[i] : i \in DOMAIN s}

\* push_back of one that is not there yet.
LEMMA AppendOne ==
  ASSUME NEW s \in Seq(Datas), NEW d \in Datas, Distinct(s), d \notin Members(s)
  PROVE  Distinct(Append(s, d)) /\ Members(Append(s, d)) = Members(s) \cup {d}
<1>1. /\ DOMAIN s = 1 .. Len(s) /\ DOMAIN Append(s, d) = 1 .. Len(s) + 1 /\ Len(s) \in Nat
      /\ \A i \in 1 .. Len(s) : Append(s, d)[i] = s[i]
      /\ Append(s, d)[Len(s) + 1] = d
  OBVIOUS
<1> QED
  BY <1>1 DEF Distinct, Members

\* back and pop_back.
LEMMA FrontOne ==
  ASSUME NEW s \in Seq(Datas), s # <<>>, Distinct(s)
  PROVE  LET rest == SubSeq(s, 1, Len(s) - 1)
         IN  /\ Distinct(rest) /\ s[Len(s)] \in Members(s)
             /\ Members(rest) = Members(s) \ {s[Len(s)]}
<1> DEFINE rest == SubSeq(s, 1, Len(s) - 1)
<1>1. /\ DOMAIN s = 1 .. Len(s) /\ DOMAIN rest = 1 .. Len(s) - 1 /\ Len(s) \in Nat \ {0}
      /\ \A i \in 1 .. Len(s) - 1 : rest[i] = s[i]
  OBVIOUS
<1> HIDE DEF rest
<1>2. Distinct(rest)
  BY <1>1 DEF Distinct
<1>3. s[Len(s)] \in Members(s) /\ \A i \in 1 .. Len(s) - 1 : s[i] # s[Len(s)]
  BY <1>1 DEF Distinct, Members
<1>4. \A x : x \in Members(rest) <=> \E i \in 1 .. Len(s) - 1 : x = s[i]
  BY <1>1 DEF Members
<1>5. \A x : x \in Members(s) <=> x = s[Len(s)] \/ \E i \in 1 .. Len(s) - 1 : x = s[i]
  BY <1>1 DEF Members
<1>6. Members(rest) = Members(s) \ {s[Len(s)]}
  BY <1>3, <1>4, <1>5
<1> QED
  BY <1>2, <1>3, <1>6 DEF rest

\* The pool is one shorter.
LEMMA ShorterFront ==
  ASSUME NEW s \in Seq(Datas), s # <<>>
  PROVE  Len(SubSeq(s, 1, Len(s) - 1)) = Len(s) - 1
<1> DEFINE n == Len(s) - 1
<1>1. n \in Nat /\ \A i \in 1 .. n : s[i] \in Datas
  OBVIOUS
<1> HIDE DEF n
<1>2. n = IF 1 <= n THEN n - 1 + 1 ELSE 0
  BY <1>1
<1>3. Len(SubSeq(s, 1, n)) = n
  BY <1>1, <1>2, SubSeqProperties
<1> QED
  BY <1>3 DEF n

\* front and pop_front.
LEMMA TailOne ==
  ASSUME NEW s \in Seq(Datas), s # <<>>, Distinct(s)
  PROVE  /\ Distinct(Tail(s)) /\ Head(s) \in Members(s)
         /\ Members(Tail(s)) = Members(s) \ {Head(s)}
<1>1. /\ DOMAIN s = 1 .. Len(s) /\ DOMAIN Tail(s) = 1 .. Len(s) - 1 /\ Len(s) \in Nat \ {0}
      /\ \A i \in 1 .. Len(s) - 1 : Tail(s)[i] = s[i + 1]
      /\ Head(s) = s[1]
  OBVIOUS
<1>2. \A i \in 2 .. Len(s) : i - 1 \in 1 .. Len(s) - 1 /\ Tail(s)[i - 1] = s[i]
  BY <1>1
<1>3. Distinct(Tail(s))
  BY <1>1 DEF Distinct
<1>4. Head(s) \in Members(s) /\ \A i \in 2 .. Len(s) : s[i] # Head(s)
  BY <1>1 DEF Distinct, Members
<1>5. \A x : x \in Members(Tail(s)) <=> \E i \in 2 .. Len(s) : x = s[i]
  <2> TAKE x
  <2>1. ASSUME NEW j \in 1 .. Len(s) - 1, x = Tail(s)[j]
        PROVE  \E i \in 2 .. Len(s) : x = s[i]
    <3>1. x = s[j + 1] /\ j + 1 \in 2 .. Len(s)
      BY <1>1, <2>1
    <3> QED
      BY <3>1
  <2>2. ASSUME NEW i \in 2 .. Len(s), x = s[i]
        PROVE  x \in Members(Tail(s))
    BY <1>1, <1>2, <2>2 DEF Members
  <2> QED
    BY <1>1, <2>1, <2>2 DEF Members
<1>6. \A x : x \in Members(s) <=> x = Head(s) \/ \E i \in 2 .. Len(s) : x = s[i]
  BY <1>1 DEF Members
<1>7. Members(Tail(s)) = Members(s) \ {Head(s)}
  BY <1>4, <1>5, <1>6
<1> QED
  BY <1>3, <1>4, <1>7

-----------------------------------------------------------------------------
(***************************************************************************)
(* Every LogrData keeps its one owner.                                     *)
(***************************************************************************)
LEMMA SameOwners ==
  ASSUME OneOwner, UNCHANGED <<heap, pool, logrs, mine>>
  PROVE  OneOwner'
BY DEF OneOwner, Pooled, Queued, Held

LEMMA CallOwners ==
  ASSUME Types, OneOwner, NEW t \in Processes, Logs(t) \/ Sets(t)
  PROVE  OneOwner'
<1> USE LogrAssumption
<1>a. /\ pool \in Seq(Datas) /\ logrs \in Seq(Datas) /\ heap \subseteq Datas
      /\ mine \in [Processes -> Datas \cup {NoData}]
      /\ Pooled = Members(pool) /\ Queued = Members(logrs)
      /\ Pooled' = Members(pool') /\ Queued' = Members(logrs')
  BY DEF Types, TypeOK, Pooled, Queued, Members
<1>1. CASE newLogrData(t)
  <2>1. /\ heap # Datas /\ mine[t] = NoData /\ UNCHANGED <<pool, logrs>>
    BY <1>1 DEF newLogrData, Made, At, Types, Holding, Carrying
  <2>2. PICK d \in Datas \ heap : heap' = heap \cup {d} /\ mine' = [mine EXCEPT ![t] = d]
    BY <1>1, <2>1, <1>a DEF newLogrData, Made, Hold
  <2>3. Held' = Held \cup {t} /\ mine'[t] = d /\ \A u \in Processes \ {t} : mine'[u] = mine[u]
    BY <2>2, <1>a DEF Held
  <2> QED
    BY <2>1, <2>2, <2>3 DEF OneOwner, Pooled, Queued, Held
<1>2. CASE reuseLogrData(t)
  <2>1. /\ pool # <<>> /\ mine[t] = NoData /\ UNCHANGED <<heap, logrs>>
        /\ pool' = SubSeq(pool, 1, Len(pool) - 1)
        /\ mine' = [mine EXCEPT ![t] = pool[Len(pool)]]
    BY <1>2 DEF reuseLogrData, Made, Hold, At, Types, Holding, Carrying
  <2>2. /\ Distinct(pool') /\ Pooled' = Pooled \ {pool[Len(pool)]}
        /\ pool[Len(pool)] \in Pooled /\ Queued' = Queued
    BY <2>1, <1>a, FrontOne DEF OneOwner
  <2>3. pool[Len(pool)] # NoData
    BY <2>2, <1>a DEF Pooled
  <2>4. /\ Held' = Held \cup {t} /\ mine'[t] = pool[Len(pool)]
        /\ \A u \in Processes \ {t} : mine'[u] = mine[u]
    BY <2>1, <2>3, <1>a DEF Held
  <2> QED
    BY <2>1, <2>2, <2>4 DEF OneOwner, Held
<1>3. CASE freeLogrData(t)
  <2>1. CASE UNCHANGED <<heap, mine>>
    BY <1>3, <2>1, SMTT(20) DEF freeLogrData, OneOwner, Pooled, Queued, Held
  <2>2. CASE heap' = heap \ {mine[t]} /\ Hold(t, NoData)
    <3>1. /\ mine[t] # NoData /\ UNCHANGED <<pool, logrs>>
          /\ Held' = Held \ {t} /\ \A u \in Processes \ {t} : mine'[u] = mine[u]
      BY <1>3, <2>2, <1>a DEF freeLogrData, Hold, Held, At, Types, Holding, Carrying
    <3> QED
      BY <2>2, <3>1 DEF OneOwner, Pooled, Queued, Held
  <2> QED
    BY <1>3, <2>1, <2>2 DEF freeLogrData
<1>4. CASE keepLogrData(t)
  <2>1. /\ mine[t] \in Datas /\ t \in Held /\ UNCHANGED <<heap, logrs>>
        /\ pool' = Append(pool, mine[t]) /\ mine' = [mine EXCEPT ![t] = NoData]
    BY <1>4, <1>a DEF keepLogrData, Hold, Held, At, Types, Holding, Carrying
  <2>2. Distinct(pool') /\ Pooled' = Pooled \cup {mine[t]} /\ Queued' = Queued
    BY <2>1, <1>a, AppendOne DEF OneOwner
  <2>3. Held' = Held \ {t} /\ \A u \in Processes \ {t} : mine'[u] = mine[u]
    BY <2>1, <1>a DEF Held
  <2> QED
    BY <2>1, <2>2, <2>3 DEF OneOwner, Held
<1>5. CASE enqueue(t)
  <2>1. /\ mine[t] \in Datas /\ t \in Held /\ UNCHANGED <<heap, pool>>
        /\ logrs' = Append(logrs, mine[t]) /\ mine' = [mine EXCEPT ![t] = NoData]
    BY <1>5, <1>a DEF enqueue, Hold, Held, At, Types, Holding, Carrying
  <2>2. Distinct(logrs') /\ Queued' = Queued \cup {mine[t]} /\ Pooled' = Pooled
    BY <2>1, <1>a, AppendOne DEF OneOwner
  <2>3. Held' = Held \ {t} /\ \A u \in Processes \ {t} : mine'[u] = mine[u]
    BY <2>1, <1>a DEF Held
  <2> QED
    BY <2>1, <2>2, <2>3 DEF OneOwner, Held
<1>6. CASE \/ prePushLogr(t) \/ makeLogrData(t) \/ pushLogr(t) \/ openLogrger(t)
           \/ writeLogr(t) \/ closeLogrger(t) \/ enableLogrger(t) \/ hotChange(t)
  BY <1>6, SameOwners DEF prePushLogr, makeLogrData, pushLogr, openLogrger, writeLogr, closeLogrger,
     enableLogrger, hotChange, memory
<1> QED
  BY <1>1, <1>2, <1>3, <1>4, <1>5, <1>6 DEF Logs, Sets

LEMMA RunOwners ==
  ASSUME Types, OneOwner, Manages \/ Runs
  PROVE  OneOwner'
<1>1. CASE popLogr
  <2>1. /\ logrs \in Seq(Datas) /\ mine \in [Processes -> Datas \cup {NoData}] /\ logrs # <<>>
        /\ mine[Logger] = NoData /\ Logger \in Processes
        /\ UNCHANGED <<pool, heap>> /\ logrs' = Tail(logrs)
        /\ mine' = [mine EXCEPT ![Logger] = Head(logrs)]
    BY <1>1 DEF popLogr, Hold, At, Types, TypeOK, Holding, Carrying, Processes
  <2>2. /\ Queued = Members(logrs) /\ Queued' = Members(logrs') /\ Pooled' = Pooled
    BY <2>1 DEF Queued, Pooled, Members
  <2>3. Distinct(logrs') /\ Head(logrs) \in Queued /\ Queued' = Queued \ {Head(logrs)}
    BY <2>1, <2>2, TailOne DEF OneOwner
  <2>4. Head(logrs) # NoData
    BY <2>1, LogrAssumption
  <2>5. /\ Held' = Held \cup {Logger} /\ mine'[Logger] = Head(logrs)
        /\ \A u \in Processes \ {Logger} : mine'[u] = mine[u]
    BY <2>1, <2>4 DEF Held
  <2> QED
    BY <2>1, <2>2, <2>3, <2>5 DEF OneOwner, Held
<1>2. CASE ~popLogr
  BY <1>2, SameOwners DEF Manages, Runs, start, startFails, started, stop, wait, run, post, drained,
     handleHotChange, handleLogr, flush, closeStale, delay, quit, memory
<1> QED
  BY <1>1, <1>2

-----------------------------------------------------------------------------
(***************************************************************************)
(* The pool's limit: whoever decides to keep its LogrData has seen a pool  *)
(* below PoolMax, and there is room for all that decide at once.           *)
(***************************************************************************)
LEMMA SomeKeeping ==
  /\ IsFiniteSet(Processes) /\ IsFiniteSet(Keeping)
  /\ Cardinality(Processes) \in Nat /\ Cardinality(Keeping) \in Nat
  /\ Cardinality(Keeping) <= Cardinality(Processes)
<1>1. IsFiniteSet(Processes)
  BY LogrAssumption, FS_AddElement, Processes = Threads \cup {Logger} DEF Processes
<1> QED
  BY <1>1, FS_Subset, FS_CardinalityType DEF Keeping

\* Nothing moves.
LEMMA SamePool ==
  ASSUME Types, PoolLimit, Keeping' = Keeping, UNCHANGED pool
  PROVE  PoolLimit'
BY DEF PoolLimit

LEMMA CallPool ==
  ASSUME Types, PoolLimit, NEW t \in Processes, Logs(t) \/ Sets(t)
  PROVE  PoolLimit'
<1>a. Len(pool) \in Nat /\ PoolMax \in Nat /\ pc \in [Processes -> ThreadStates \cup LoggerStates]
  BY LogrAssumption DEF Types, TypeOK
<1>1. CASE freeLogrData(t)
  <2>1. CASE Len(pool) < PoolMax /\ UNCHANGED pool
    <3>1. Keeping' \subseteq Processes
      BY DEF Keeping
    <3>2. Cardinality(Keeping') \in Nat /\ Cardinality(Keeping') <= Cardinality(Processes)
      BY <3>1, SomeKeeping, FS_Subset, FS_CardinalityType
    <3> QED
      BY <1>a, <2>1, <3>2, SomeKeeping DEF PoolLimit
  <2>2. CASE Goto(t, Back(t)) /\ UNCHANGED pool
    <3>1. Keeping' = Keeping
      BY <1>1, <2>2, <1>a DEF freeLogrData, At, Goto, Back, Keeping
    <3> QED
      BY <2>2, <3>1, SamePool
  <2> QED
    BY <1>1, <2>1, <2>2 DEF freeLogrData
<1>2. CASE keepLogrData(t)
  <2>1. t \in Keeping /\ Keeping' = Keeping \ {t}
    BY <1>2, <1>a DEF keepLogrData, At, Goto, Back, Keeping
  <2>2. Cardinality(Keeping') = Cardinality(Keeping) - 1
    BY <2>1, SomeKeeping, FS_RemoveElement
  <2>3. Len(pool') = Len(pool) + 1
    BY <1>2 DEF keepLogrData, Types, TypeOK
  <2> QED
    BY <1>a, <2>2, <2>3, SomeKeeping DEF PoolLimit
<1>3. CASE reuseLogrData(t)
  <2>1. Keeping' = Keeping
    BY <1>3, <1>a DEF reuseLogrData, Made, At, Goto, Keeping
  <2>2. Len(pool') = Len(pool) - 1
    <3>1. pool \in Seq(Datas) /\ pool # <<>> /\ pool' = SubSeq(pool, 1, Len(pool) - 1)
      BY <1>3 DEF reuseLogrData, Types, TypeOK
    <3> QED
      BY <3>1, ShorterFront
  <2> QED
    BY <1>a, <2>1, <2>2, SomeKeeping DEF PoolLimit
<1>4. CASE \/ prePushLogr(t) \/ makeLogrData(t) \/ newLogrData(t) \/ pushLogr(t) \/ enqueue(t)
           \/ openLogrger(t) \/ writeLogr(t) \/ closeLogrger(t) \/ enableLogrger(t) \/ hotChange(t)
  <2>1. Keeping' = Keeping
    BY <1>4, <1>a DEF prePushLogr, MayCall, makeLogrData, newLogrData, Made, pushLogr, enqueue,
       openLogrger, writeLogr, closeLogrger, enableLogrger, hotChange, At, Goto, Back, Keeping
  <2>2. UNCHANGED pool
    BY <1>4 DEF prePushLogr, makeLogrData, newLogrData, pushLogr, enqueue, openLogrger,
       writeLogr, closeLogrger, enableLogrger, hotChange, memory
  <2> QED
    BY <2>1, <2>2, SamePool
<1> QED
  BY <1>1, <1>2, <1>3, <1>4 DEF Logs, Sets

LEMMA RunPool ==
  ASSUME Types, PoolLimit, Manages \/ Runs
  PROVE  PoolLimit'
<1>1. pc \in [Processes -> ThreadStates \cup LoggerStates]
  BY DEF Types, TypeOK
<1>2. Keeping' = Keeping
  BY <1>1 DEF Manages, Runs, start, startFails, started, stop, wait, run, post, popLogr, drained,
     handleHotChange, handleLogr, flush, closeStale, delay, quit, At, Goto, Keeping
<1>3. UNCHANGED pool
  BY DEF Manages, Runs, start, startFails, started, stop, wait, run, post, popLogr, drained,
     handleHotChange, handleLogr, flush, closeStale, delay, quit, memory
<1> QED
  BY <1>2, <1>3, SamePool

-----------------------------------------------------------------------------

\* The lock.
LEMMA CallLocking ==
  ASSUME Types, Locking, NEW t \in Processes, Logs(t) \/ Sets(t)
  PROVE  Locking'
<1> USE LogrAssumption DEF Locking, At, Goto, Back, Types, TypeOK, Places, Processes,
     ThreadStates, LoggerStates, Working
<1>1. CASE prePushLogr(t)
  BY <1>1 DEF prePushLogr, MayCall
<1>2. CASE makeLogrData(t)
  BY <1>2 DEF makeLogrData
<1>3. CASE newLogrData(t)
  BY <1>3 DEF newLogrData, Made, Hold
<1>4. CASE reuseLogrData(t)
  BY <1>4 DEF reuseLogrData, Made, Hold
<1>5. CASE freeLogrData(t)
  BY <1>5 DEF freeLogrData, Hold
<1>6. CASE keepLogrData(t)
  BY <1>6 DEF keepLogrData, Hold
<1>7. CASE pushLogr(t)
  BY <1>7 DEF pushLogr
<1>8. CASE enqueue(t)
  BY <1>8 DEF enqueue, Promise, Hold
<1>9. CASE openLogrger(t)
  BY <1>9 DEF openLogrger, Opens
<1>10. CASE writeLogr(t)
  BY <1>10 DEF writeLogr
<1>11. CASE closeLogrger(t)
  BY <1>11 DEF closeLogrger, Promise
<1>12. CASE enableLogrger(t)
  BY <1>12 DEF enableLogrger
<1>13. CASE hotChange(t)
  BY <1>13 DEF hotChange, GivenUp
<1> QED
  BY <1>1, <1>2, <1>3, <1>4, <1>5, <1>6, <1>7, <1>8, <1>9, <1>10, <1>11, <1>12, <1>13 DEF
     Logs, Sets

LEMMA RunLocking ==
  ASSUME Types, Locking, Manages \/ Runs
  PROVE  Locking'
<1> USE LogrAssumption DEF Locking, At, Goto, Back, Types, TypeOK, Places, Processes,
     ThreadStates, LoggerStates, Working
<1>1. CASE start
  BY <1>1 DEF start
<1>2. CASE startFails
  BY <1>2 DEF startFails
<1>3. CASE started
  BY <1>3 DEF started
<1>4. CASE stop
  BY <1>4 DEF stop
<1>5. CASE wait
  BY <1>5 DEF wait
<1>6. CASE run
  BY <1>6 DEF run
<1>7. CASE post
  BY <1>7 DEF post
<1>8. CASE popLogr
  BY <1>8 DEF popLogr, Hold
<1>9. CASE drained
  BY <1>9 DEF drained
<1>10. CASE handleHotChange
  BY <1>10 DEF handleHotChange
<1>11. CASE handleLogr
  BY <1>11 DEF handleLogr, Opens, GivenUp
<1>12. CASE flush
  BY <1>12 DEF flush
<1>13. CASE closeStale
  BY <1>13 DEF closeStale
<1>14. CASE delay
  BY <1>14 DEF delay
<1>15. CASE quit
  BY <1>15 DEF quit
<1> QED
  BY <1>1, <1>2, <1>3, <1>4, <1>5, <1>6, <1>7, <1>8, <1>9, <1>10, <1>11, <1>12, <1>13,
     <1>14, <1>15 DEF Manages, Runs

-----------------------------------------------------------------------------

\* What each build does without.
LEMMA CallBuild ==
  ASSUME Types, BuildOK, NEW t \in Processes, Logs(t) \/ Sets(t)
  PROVE  BuildOK'
<1> USE LogrAssumption DEF BuildOK, AtFile, Kinds, flags, memory, At, Goto, Back, Types,
     TypeOK, Places, Processes, ThreadStates, LoggerStates, Working
<1>1. CASE prePushLogr(t)
  BY <1>1 DEF prePushLogr, MayCall
<1>2. CASE makeLogrData(t)
  BY <1>2 DEF makeLogrData
<1>3. CASE newLogrData(t)
  BY <1>3 DEF newLogrData, Made, Hold
<1>4. CASE reuseLogrData(t)
  BY <1>4 DEF reuseLogrData, Made, Hold
<1>5. CASE freeLogrData(t)
  BY <1>5 DEF freeLogrData, Hold
<1>6. CASE keepLogrData(t)
  BY <1>6 DEF keepLogrData, Hold
<1>7. CASE pushLogr(t)
  BY <1>7 DEF pushLogr
<1>8. CASE enqueue(t)
  BY <1>8 DEF enqueue, Promise, Hold
<1>9. CASE openLogrger(t)
  BY <1>9 DEF openLogrger, Opens
<1>10. CASE writeLogr(t)
  BY <1>10 DEF writeLogr
<1>11. CASE closeLogrger(t)
  BY <1>11 DEF closeLogrger, Promise
<1>12. CASE enableLogrger(t)
  BY <1>12 DEF enableLogrger
<1>13. CASE hotChange(t)
  BY <1>13 DEF hotChange, GivenUp
<1> QED
  BY <1>1, <1>2, <1>3, <1>4, <1>5, <1>6, <1>7, <1>8, <1>9, <1>10, <1>11, <1>12, <1>13 DEF
     Logs, Sets

LEMMA RunBuild ==
  ASSUME Types, BuildOK, Manages \/ Runs
  PROVE  BuildOK'
<1> USE LogrAssumption DEF BuildOK, AtFile, Kinds, flags, memory, At, Goto, Back, Types,
     TypeOK, Places, Processes, ThreadStates, LoggerStates, Working
<1>1. CASE start
  BY <1>1 DEF start
<1>2. CASE startFails
  BY <1>2 DEF startFails
<1>3. CASE started
  BY <1>3 DEF started
<1>4. CASE stop
  BY <1>4 DEF stop
<1>5. CASE wait
  BY <1>5 DEF wait
<1>6. CASE run
  BY <1>6 DEF run
<1>7. CASE post
  BY <1>7 DEF post
<1>8. CASE popLogr
  BY <1>8 DEF popLogr, Hold
<1>9. CASE drained
  BY <1>9 DEF drained
<1>10. CASE handleHotChange
  BY <1>10 DEF handleHotChange
<1>11. CASE handleLogr
  BY <1>11 DEF handleLogr, Opens, GivenUp
<1>12. CASE flush
  BY <1>12 DEF flush
<1>13. CASE closeStale
  BY <1>13 DEF closeStale
<1>14. CASE delay
  BY <1>14 DEF delay
<1>15. CASE quit
  BY <1>15 DEF quit
<1> QED
  BY <1>1, <1>2, <1>3, <1>4, <1>5, <1>6, <1>7, <1>8, <1>9, <1>10, <1>11, <1>12, <1>13,
     <1>14, <1>15 DEF Manages, Runs

\* A LogrData that is new was not anybody's.
LEMMA NewMadeFor ==
  ASSUME Types, OneOwner, MadeFor, NEW t \in Processes, newLogrData(t)
  PROVE  MadeFor'
<1>1. heap # Datas /\ mine \in [Processes -> Datas \cup {NoData}] /\ data \in [Datas -> Records]
      /\ pc \in [Processes -> ThreadStates \cup LoggerStates]
  BY DEF newLogrData, Types, TypeOK
<1>2. PICK d \in Datas \ heap : Made(t, d)
  BY <1>1 DEF newLogrData, Types, TypeOK
<1>3. \A u \in Processes : pc[u] \in AtFile \cup {"push", "enqueue"} => mine[u] \in heap
  BY DEF OneOwner, Held, Types, Holding, Carrying, AtFile
<1>4. \A u \in Processes \ {t} : pc'[u] = pc[u] /\ mine'[u] = mine[u] /\ kind'[u] = kind[u]
  BY <1>1, <1>2 DEF Made, Goto, Hold
<1>5. mine'[t] = d /\ data'[d].type = kind[t] /\ kind' = kind
  BY <1>1, <1>2 DEF Made, Hold
<1>6. \A e \in heap : data'[e] = data[e]
  BY <1>1, <1>2 DEF Made, Types, TypeOK
<1> QED
  BY <1>3, <1>4, <1>5, <1>6 DEF MadeFor

-----------------------------------------------------------------------------

\* The type of a LogrData on its way.
LEMMA CallMade ==
  ASSUME Types, OneOwner, MadeFor, NEW t \in Processes, Logs(t) \/ Sets(t)
  PROVE  MadeFor'
<1> USE LogrAssumption DEF MadeFor, OneOwner, Held, Pooled, AtFile, Holding, Carrying, Kinds,
     memory, At, Goto, Back, Types, TypeOK, Places, Processes, ThreadStates, LoggerStates,
     Working
<1>1. CASE prePushLogr(t)
  BY <1>1 DEF prePushLogr, MayCall
<1>2. CASE makeLogrData(t)
  BY <1>2 DEF makeLogrData
<1>3. CASE newLogrData(t)
  BY <1>3, NewMadeFor
<1>4. CASE reuseLogrData(t)
  BY <1>4, SMTT(20) DEF reuseLogrData, Made, Hold
<1>5. CASE freeLogrData(t)
  <2>1. /\ pc[t] = "free" /\ kind' = kind /\ data' = [data EXCEPT ![mine[t]] = Blank]
        /\ \A u \in Processes \ {t} : mine'[u] = mine[u] /\ pc'[u] = pc[u]
        /\ pc'[t] \in {"keep", "idle", "pop", "hello"}
    BY <1>5 DEF freeLogrData, Hold
  <2>2. \A u \in Processes \ {t} : pc[u] \in AtFile \cup {"push", "enqueue"} =>
          mine[u] # mine[t] /\ data'[mine[u]] = data[mine[u]]
    BY <2>1
  <2> QED
    BY ONLY <2>1, <2>2, MadeFor DEF MadeFor, AtFile
<1>6. CASE keepLogrData(t)
  BY <1>6 DEF keepLogrData, Hold
<1>7. CASE pushLogr(t)
  <2>1. (\E s \in {"enqueue", "open", "free"} : Goto(t, s)) /\ UNCHANGED <<mine, data, kind>> /\ pc[t] \in {"push", "open"}
    BY <1>7 DEF pushLogr
  <2> QED
    BY <2>1
<1>8. CASE enqueue(t)
  BY <1>8 DEF enqueue, Promise, Hold
<1>9. CASE openLogrger(t)
  <2>1. (\E s \in {"write", "free"} : Goto(t, s)) /\ UNCHANGED <<mine, data, kind>> /\ pc[t] \in {"push", "open"}
    BY <1>9 DEF openLogrger, Opens
  <2> QED
    BY <2>1, SMTT(20)
<1>10. CASE writeLogr(t)
  BY <1>10 DEF writeLogr
<1>11. CASE closeLogrger(t)
  BY <1>11 DEF closeLogrger, Promise
<1>12. CASE enableLogrger(t)
  BY <1>12 DEF enableLogrger
<1>13. CASE hotChange(t)
  <2>1. /\ UNCHANGED <<mine, data>> /\ pc'[t] \in {"idle", "make"}
        /\ \A u \in Processes \ {t} : pc'[u] = pc[u] /\ kind'[u] = kind[u]
    BY <1>13 DEF hotChange
  <2> QED
    BY <2>1
<1> QED
  BY <1>1, <1>2, <1>3, <1>4, <1>5, <1>6, <1>7, <1>8, <1>9, <1>10, <1>11, <1>12, <1>13 DEF
     Logs, Sets

LEMMA RunMade ==
  ASSUME Types, OneOwner, MadeFor, Manages \/ Runs
  PROVE  MadeFor'
<1> USE LogrAssumption DEF MadeFor, OneOwner, Held, Pooled, AtFile, Holding, Carrying, Kinds,
     memory, At, Goto, Back, Types, TypeOK, Places, Processes, ThreadStates, LoggerStates,
     Working
<1>1. CASE start
  BY <1>1 DEF start
<1>2. CASE startFails
  BY <1>2 DEF startFails
<1>3. CASE started
  BY <1>3 DEF started
<1>4. CASE stop
  BY <1>4 DEF stop
<1>5. CASE wait
  BY <1>5 DEF wait
<1>6. CASE run
  BY <1>6 DEF run
<1>7. CASE post
  BY <1>7 DEF post
<1>8. CASE popLogr
  BY <1>8 DEF popLogr, Hold
<1>9. CASE drained
  BY <1>9 DEF drained
<1>10. CASE handleHotChange
  BY <1>10 DEF handleHotChange
<1>11. CASE handleLogr
  BY <1>11 DEF handleLogr, Opens, GivenUp
<1>12. CASE flush
  BY <1>12 DEF flush
<1>13. CASE closeStale
  BY <1>13 DEF closeStale
<1>14. CASE delay
  BY <1>14 DEF delay
<1>15. CASE quit
  BY <1>15 DEF quit
<1> QED
  BY <1>1, <1>2, <1>3, <1>4, <1>5, <1>6, <1>7, <1>8, <1>9, <1>10, <1>11, <1>12, <1>13,
     <1>14, <1>15 DEF Manages, Runs

-----------------------------------------------------------------------------

\* Why the logger is off.
LEMMA CallOff ==
  ASSUME Types, SwitchingOff, NEW t \in Processes, Logs(t) \/ Sets(t)
  PROVE  SwitchingOff'
<1> USE LogrAssumption DEF SwitchingOff, Kinds, Blank, flags, memory, At, Goto, Back, Types,
     TypeOK, Places, Processes, ThreadStates, LoggerStates, Working
<1>1. CASE prePushLogr(t)
  BY <1>1 DEF prePushLogr, MayCall
<1>2. CASE makeLogrData(t)
  BY <1>2 DEF makeLogrData
<1>3. CASE newLogrData(t)
  BY <1>3 DEF newLogrData, Made, Hold
<1>4. CASE reuseLogrData(t)
  BY <1>4 DEF reuseLogrData, Made, Hold
<1>5. CASE freeLogrData(t)
  BY <1>5 DEF freeLogrData, Hold
<1>6. CASE keepLogrData(t)
  BY <1>6 DEF keepLogrData, Hold
<1>7. CASE pushLogr(t)
  BY <1>7 DEF pushLogr
<1>8. CASE enqueue(t)
  BY <1>8 DEF enqueue, Promise, Hold
<1>9. CASE openLogrger(t)
  BY <1>9 DEF openLogrger, Opens
<1>10. CASE writeLogr(t)
  BY <1>10 DEF writeLogr
<1>11. CASE closeLogrger(t)
  BY <1>11 DEF closeLogrger, Promise
<1>12. CASE enableLogrger(t)
  BY <1>12 DEF enableLogrger
<1>13. CASE hotChange(t)
  BY <1>13 DEF hotChange, GivenUp
<1> QED
  BY <1>1, <1>2, <1>3, <1>4, <1>5, <1>6, <1>7, <1>8, <1>9, <1>10, <1>11, <1>12, <1>13 DEF
     Logs, Sets

LEMMA RunOff ==
  ASSUME Types, SwitchingOff, Manages \/ Runs
  PROVE  SwitchingOff'
<1> USE LogrAssumption DEF SwitchingOff, Kinds, Blank, flags, memory, At, Goto, Back, Types,
     TypeOK, Places, Processes, ThreadStates, LoggerStates, Working
<1>1. CASE start
  BY <1>1 DEF start
<1>2. CASE startFails
  BY <1>2 DEF startFails
<1>3. CASE started
  BY <1>3 DEF started
<1>4. CASE stop
  BY <1>4 DEF stop
<1>5. CASE wait
  BY <1>5 DEF wait
<1>6. CASE run
  BY <1>6 DEF run
<1>7. CASE post
  BY <1>7 DEF post
<1>8. CASE popLogr
  BY <1>8 DEF popLogr, Hold
<1>9. CASE drained
  BY <1>9 DEF drained
<1>10. CASE handleHotChange
  <2>1. mine[Logger] \in Datas /\ switchedOff
    BY <1>10 DEF handleHotChange, Holding, Carrying
  <2> QED
    BY <1>10, <2>1 DEF handleHotChange
<1>11. CASE handleLogr
  BY <1>11 DEF handleLogr, Opens, GivenUp
<1>12. CASE flush
  BY <1>12 DEF flush
<1>13. CASE closeStale
  BY <1>13 DEF closeStale
<1>14. CASE delay
  BY <1>14 DEF delay
<1>15. CASE quit
  BY <1>15 DEF quit
<1> QED
  BY <1>1, <1>2, <1>3, <1>4, <1>5, <1>6, <1>7, <1>8, <1>9, <1>10, <1>11, <1>12, <1>13,
     <1>14, <1>15 DEF Manages, Runs

-----------------------------------------------------------------------------

\* Before run() and after it.
LEMMA CallLife ==
  ASSUME Types, Lifetime, NEW t \in Processes, Logs(t) \/ Sets(t)
  PROVE  Lifetime'
<1> USE LogrAssumption DEF Lifetime, flags, At, Goto, Back, Types, TypeOK, Places, Processes,
     ThreadStates, LoggerStates, Working
<1>1. CASE prePushLogr(t)
  BY <1>1 DEF prePushLogr, MayCall
<1>2. CASE makeLogrData(t)
  BY <1>2 DEF makeLogrData
<1>3. CASE newLogrData(t)
  BY <1>3 DEF newLogrData, Made, Hold
<1>4. CASE reuseLogrData(t)
  BY <1>4 DEF reuseLogrData, Made, Hold
<1>5. CASE freeLogrData(t)
  BY <1>5 DEF freeLogrData, Hold
<1>6. CASE keepLogrData(t)
  BY <1>6 DEF keepLogrData, Hold
<1>7. CASE pushLogr(t)
  BY <1>7 DEF pushLogr
<1>8. CASE enqueue(t)
  BY <1>8 DEF enqueue, Promise, Hold
<1>9. CASE openLogrger(t)
  BY <1>9 DEF openLogrger, Opens
<1>10. CASE writeLogr(t)
  BY <1>10 DEF writeLogr
<1>11. CASE closeLogrger(t)
  BY <1>11 DEF closeLogrger, Promise
<1>12. CASE enableLogrger(t)
  BY <1>12 DEF enableLogrger
<1>13. CASE hotChange(t)
  BY <1>13 DEF hotChange, GivenUp
<1> QED
  BY <1>1, <1>2, <1>3, <1>4, <1>5, <1>6, <1>7, <1>8, <1>9, <1>10, <1>11, <1>12, <1>13 DEF
     Logs, Sets

LEMMA RunLife ==
  ASSUME Types, Lifetime, Manages \/ Runs
  PROVE  Lifetime'
<1> USE LogrAssumption DEF Lifetime, flags, At, Goto, Back, Types, TypeOK, Places, Processes,
     ThreadStates, LoggerStates, Working
<1>1. CASE start
  BY <1>1 DEF start
<1>2. CASE startFails
  BY <1>2 DEF startFails
<1>3. CASE started
  BY <1>3 DEF started
<1>4. CASE stop
  BY <1>4 DEF stop
<1>5. CASE wait
  BY <1>5 DEF wait
<1>6. CASE run
  BY <1>6 DEF run
<1>7. CASE post
  BY <1>7 DEF post
<1>8. CASE popLogr
  BY <1>8 DEF popLogr, Hold
<1>9. CASE drained
  BY <1>9 DEF drained
<1>10. CASE handleHotChange
  BY <1>10 DEF handleHotChange
<1>11. CASE handleLogr
  BY <1>11 DEF handleLogr, Opens, GivenUp
<1>12. CASE flush
  BY <1>12 DEF flush
<1>13. CASE closeStale
  BY <1>13 DEF closeStale
<1>14. CASE delay
  BY <1>14 DEF delay
<1>15. CASE quit
  BY <1>15 DEF quit
<1> QED
  BY <1>1, <1>2, <1>3, <1>4, <1>5, <1>6, <1>7, <1>8, <1>9, <1>10, <1>11, <1>12, <1>13,
     <1>14, <1>15 DEF Manages, Runs

-----------------------------------------------------------------------------
\* A record given to an open file is in it, or the disk has not taken it.
LEMMA StoredSettles ==
  ASSUME Types, NEW record \in Records, Stored(record)
  PROVE  Settled' = Settled \cup {record}
<1> DEFINE Of(s) == {s[i] : i \in DOMAIN s}
<1>1. ASSUME NEW s \in Seq(Records)
      PROVE  Of(Append(s, record)) = Of(s) \cup {record}
  <2>1. /\ Len(s) \in Nat /\ DOMAIN s = 1 .. Len(s)
        /\ DOMAIN Append(s, record) = 1 .. Len(s) + 1 /\ Append(s, record)[Len(s) + 1] = record
        /\ \A i \in 1 .. Len(s) : Append(s, record)[i] = s[i]
    OBVIOUS
  <2>2. \A x : x \in Of(Append(s, record)) <=> x \in Of(s) \/ x = record
    BY <2>1
  <2> QED
    BY <2>2
<1>2. Settled = Of(file) \cup Of(refused) /\ Settled' = Of(file') \cup Of(refused')
  BY DEF Settled, Written
<1>3. file \in Seq(Records) /\ refused \in Seq(Records)
  BY DEF Types, TypeOK
<1> HIDE DEF Of
<1>4. CASE file' = Append(file, record) /\ UNCHANGED refused
  BY <1>1, <1>2, <1>3, <1>4
<1>5. CASE UNCHANGED file /\ refused' = Append(refused, record)
  BY <1>1, <1>2, <1>3, <1>5
<1> QED
  BY <1>4, <1>5 DEF Stored

(***************************************************************************)
(* What a call leaves alone: the other threads with their LogrData, what   *)
(* is queued, what run() has in hand, and what is in the file.             *)
(***************************************************************************)
LEMMA CallMoves ==
  ASSUME Types, NEW t \in Processes, Logs(t) \/ Sets(t)
  PROVE  /\ \A u \in Processes \ {t} : pc'[u] = pc[u] /\ mine'[u] = mine[u] /\ kind'[u] = kind[u]
         /\ pc[t] \notin {"handle", "quit", "ended"} /\ pc'[t] \notin {"handle", "quit", "ended"}
         /\ Settled \subseteq Settled'
         /\ UNCHANGED <<running, posted, synchronous, popped>>
         /\ switchedOff => switchedOff'
<1>1. /\ \A u \in Processes \ {t} : pc'[u] = pc[u] /\ mine'[u] = mine[u] /\ kind'[u] = kind[u]
      /\ pc[t] \notin {"handle", "quit", "ended"} /\ pc'[t] \notin {"handle", "quit", "ended"}
  <2> USE DEF At, Goto, Back, Hold, Types, TypeOK
  <2>1. CASE prePushLogr(t)
    BY <2>1 DEF prePushLogr, MayCall
  <2>2. CASE makeLogrData(t)
    BY <2>2 DEF makeLogrData
  <2>3. CASE newLogrData(t)
    BY <2>3 DEF newLogrData, Made
  <2>4. CASE reuseLogrData(t)
    BY <2>4 DEF reuseLogrData, Made
  <2>5. CASE freeLogrData(t)
    BY <2>5 DEF freeLogrData
  <2>6. CASE keepLogrData(t)
    BY <2>6 DEF keepLogrData
  <2>7. CASE pushLogr(t)
    BY <2>7 DEF pushLogr
  <2>8. CASE enqueue(t)
    BY <2>8 DEF enqueue
  <2>9. CASE openLogrger(t)
    BY <2>9 DEF openLogrger
  <2>10. CASE writeLogr(t)
    BY <2>10 DEF writeLogr
  <2>11. CASE closeLogrger(t)
    BY <2>11 DEF closeLogrger
  <2>12. CASE enableLogrger(t)
    BY <2>12 DEF enableLogrger
  <2>13. CASE hotChange(t)
    BY <2>13 DEF hotChange
  <2> QED
    BY <2>1, <2>2, <2>3, <2>4, <2>5, <2>6, <2>7, <2>8, <2>9, <2>10, <2>11, <2>12, <2>13 DEF
       Logs, Sets
<1>2. Settled \subseteq Settled'
  <2>1. CASE writeLogr(t)
    <3>1. data[mine[t]] \in Records /\ (Stored(data[mine[t]]) \/ UNCHANGED <<file, refused>>)
      BY <2>1 DEF writeLogr, At, Types, TypeOK, Holding, Carrying
    <3> QED
      BY <3>1, StoredSettles DEF Settled, Written
  <2>2. CASE ~writeLogr(t)
    BY <2>2 DEF Logs, Sets, prePushLogr, makeLogrData, newLogrData, reuseLogrData, freeLogrData,
       keepLogrData, pushLogr, enqueue, openLogrger, closeLogrger, enableLogrger, hotChange,
       Made, output, Settled, Written
  <2> QED
    BY <2>1, <2>2
<1>3. UNCHANGED <<running, posted, synchronous, popped>>
  BY DEF Logs, Sets, prePushLogr, makeLogrData, newLogrData, reuseLogrData, freeLogrData,
     keepLogrData, pushLogr, enqueue, openLogrger, writeLogr, closeLogrger, enableLogrger,
     hotChange, Made, flags, counters
<1>4. switchedOff => switchedOff'
  <2>1. CASE hotChange(t)
    BY <2>1 DEF hotChange
  <2>2. CASE ~hotChange(t)
    BY <2>2 DEF Logs, Sets, prePushLogr, makeLogrData, newLogrData, reuseLogrData, freeLogrData,
     keepLogrData, pushLogr, enqueue, openLogrger, writeLogr, closeLogrger, enableLogrger,
     Made, flags
  <2> QED
    BY <2>1, <2>2
<1> QED
  BY <1>1, <1>2, <1>3, <1>4

\* Only the LogrData a call makes or gives back changes.
LEMMA CallKeeps ==
  ASSUME Types, OneOwner, NEW t \in Processes, Logs(t) \/ Sets(t)
  PROVE  /\ \A u \in Processes \ {t} : mine[u] # NoData => data'[mine[u]] = data[mine[u]]
         /\ \A d \in Queued : data'[d] = data[d]
<1> DEFINE Kept(d) == data'[d] = data[d]
<1>a. /\ data \in [Datas -> Records] /\ mine \in [Processes -> Datas \cup {NoData}]
      /\ logrs \in Seq(Datas) /\ pool \in Seq(Datas) /\ heap \subseteq Datas
  BY DEF Types, TypeOK
<1>1. CASE newLogrData(t)
  <2>1. PICK d \in Datas \ heap : \A e \in Datas \ {d} : Kept(e)
    BY <1>1, <1>a DEF newLogrData, Made
  <2>2. Queued \subseteq heap /\ \A u \in Processes : mine[u] # NoData => mine[u] \in heap
    BY DEF OneOwner, Held
  <2> QED
    BY <2>1, <2>2, <1>a
<1>2. CASE reuseLogrData(t)
  <2>1. pool # <<>> /\ \A e \in Datas \ {pool[Len(pool)]} : Kept(e)
    BY <1>2, <1>a DEF reuseLogrData, Made
  <2>2. pool[Len(pool)] \in Pooled
    BY <2>1, <1>a DEF Pooled
  <2>3. Queued \subseteq Datas /\ pool[Len(pool)] \notin Queued
        /\ \A u \in Processes : mine[u] # NoData => mine[u] # pool[Len(pool)]
    BY <2>2, <1>a DEF OneOwner, Held, Queued
  <2> QED
    BY <2>1, <2>3, <1>a
<1>3. CASE freeLogrData(t)
  <2>1. mine[t] # NoData /\ \A e \in Datas \ {mine[t]} : Kept(e)
    BY <1>3, <1>a DEF freeLogrData, At, Types, Holding, Carrying
  <2>2. /\ Queued \subseteq Datas /\ mine[t] \notin Queued
        /\ \A u \in Processes \ {t} : mine[u] # NoData => mine[u] # mine[t]
    BY <2>1, <1>a DEF OneOwner, Held, Queued
  <2> QED
    BY <2>1, <2>2, <1>a
<1>4. CASE \/ prePushLogr(t) \/ makeLogrData(t) \/ keepLogrData(t) \/ pushLogr(t)
           \/ enqueue(t) \/ openLogrger(t) \/ writeLogr(t) \/ closeLogrger(t)
           \/ enableLogrger(t) \/ hotChange(t)
  BY <1>4 DEF prePushLogr, makeLogrData, keepLogrData, pushLogr, enqueue, openLogrger, writeLogr,
     closeLogrger, enableLogrger, hotChange, memory
<1> QED
  BY <1>1, <1>2, <1>3, <1>4 DEF Logs, Sets

\* What the steps of run() and of the manager leave alone.
LEMMA RunKeeps ==
  ASSUME Types, Manages \/ Runs
  PROVE  /\ UNCHANGED <<data, kind, switchedOff, synchronous, pushed, pool, heap>>
         /\ \A u \in Threads : mine'[u] = mine[u]
         /\ \A u \in Processes : pc'[u] \in AtFile => pc'[u] = pc[u] /\ mine'[u] = mine[u]
         /\ Settled \subseteq Settled'
         /\ ~run => (running' => running)
<1> USE LogrAssumption
<1>1. /\ UNCHANGED <<data, kind, switchedOff, synchronous, pushed, pool, heap>>
  BY DEF Manages, Runs, start, startFails, started, stop, wait, run, post, popLogr, drained,
     handleHotChange, handleLogr, flush, closeStale, delay, quit, memory, flags, counters
<1>2. \A u \in Threads : mine'[u] = mine[u]
  BY DEF Manages, Runs, start, startFails, started, stop, wait, run, post, popLogr, drained,
     handleHotChange, handleLogr, flush, closeStale, delay, quit, Hold, Types, TypeOK,
     Processes
<1>3. \A u \in Processes : pc'[u] \in AtFile => pc'[u] = pc[u] /\ mine'[u] = mine[u]
  BY ZenonT(30) DEF Manages, Runs, start, startFails, started, stop, wait, run, post, popLogr, drained,
     handleHotChange, handleLogr, flush, closeStale, delay, quit, Goto, Hold, At, AtFile,
     Types, TypeOK, Processes
<1>4. Settled \subseteq Settled'
  <2>1. CASE handleLogr
    <3>1. data[mine[Logger]] \in Records /\ (Stored(data[mine[Logger]]) \/ UNCHANGED <<file, refused>>)
      BY <2>1 DEF handleLogr, At, Types, TypeOK, Holding, Carrying, Processes
    <3> QED
      BY <3>1, StoredSettles DEF Settled, Written
  <2>2. CASE ~handleLogr
    BY <2>2 DEF Manages, Runs, start, startFails, started, stop, wait, run, post, popLogr, drained,
       handleHotChange, flush, closeStale, delay, quit, output, Settled, Written
  <2> QED
    BY <2>1, <2>2
<1>5. ~run => (running' => running)
  <2> SUFFICES ASSUME ~run PROVE running' => running
    OBVIOUS
  <2>1. CASE stop
    BY <2>1 DEF stop
  <2>2. CASE ~stop
    BY <2>2 DEF Manages, Runs, start, startFails, started, wait, post, popLogr, drained,
       handleHotChange, handleLogr, flush, closeStale, delay, quit, flags
  <2> QED
    BY <2>1, <2>2
<1> QED
  BY <1>1, <1>2, <1>3, <1>4, <1>5

-----------------------------------------------------------------------------
(***************************************************************************)
(* The handle is taken from a thread that writes only by a switch-off or   *)
(* by the end of run().                                                    *)
(***************************************************************************)
LEMMA CallHandle ==
  ASSUME Types, Locking, HandleLostOnlyAtEnd, NEW t \in Processes, Logs(t) \/ Sets(t)
  PROVE  HandleLostOnlyAtEnd'
<1> USE LogrAssumption DEF HandleLostOnlyAtEnd, At, Goto, Back, Types, TypeOK, Processes,
     flags, output
<1>1. CASE prePushLogr(t)
  BY <1>1 DEF prePushLogr, MayCall
<1>2. CASE makeLogrData(t)
  BY <1>2 DEF makeLogrData
<1>3. CASE newLogrData(t)
  BY <1>3 DEF newLogrData, Made, Hold
<1>4. CASE reuseLogrData(t)
  BY <1>4 DEF reuseLogrData, Made, Hold
<1>5. CASE freeLogrData(t)
  BY <1>5 DEF freeLogrData, Hold
<1>6. CASE keepLogrData(t)
  BY <1>6 DEF keepLogrData, Hold
<1>7. CASE pushLogr(t)
  BY <1>7 DEF pushLogr
<1>8. CASE enqueue(t)
  BY <1>8 DEF enqueue, Promise, Hold
<1>9. CASE openLogrger(t)
  BY <1>9 DEF openLogrger, Opens, Locking
<1>10. CASE writeLogr(t)
  BY <1>10 DEF writeLogr, Locking
<1>11. CASE closeLogrger(t)
  BY <1>11 DEF closeLogrger, Locking
<1>12. CASE enableLogrger(t)
  BY <1>12 DEF enableLogrger
<1>13. CASE hotChange(t)
  BY <1>13 DEF hotChange, GivenUp
<1> QED
  BY <1>1, <1>2, <1>3, <1>4, <1>5, <1>6, <1>7, <1>8, <1>9, <1>10, <1>11, <1>12, <1>13 DEF
     Logs, Sets

LEMMA RunHandle ==
  ASSUME Types, BuildOK, SwitchingOff, HandleLostOnlyAtEnd, Manages \/ Runs
  PROVE  HandleLostOnlyAtEnd'
<1> USE LogrAssumption DEF AtFile, BuildOK, SwitchingOff, HandleLostOnlyAtEnd, At, Goto, Back,
     Types, TypeOK, Processes, flags, output
<1>1. CASE start
  BY <1>1 DEF start
<1>2. CASE startFails
  BY <1>2 DEF startFails
<1>3. CASE started
  BY <1>3 DEF started
<1>4. CASE stop
  BY <1>4 DEF stop
<1>5. CASE wait
  BY <1>5 DEF wait
<1>6. CASE run
  BY <1>6 DEF run
<1>7. CASE post
  BY <1>7 DEF post
<1>8. CASE popLogr
  BY <1>8 DEF popLogr, Hold
<1>9. CASE drained
  BY <1>9 DEF drained
<1>10. CASE handleHotChange
  <2>1. mine[Logger] \in Datas
    BY <1>10 DEF handleHotChange, Holding, Carrying
  <2> QED
    BY <1>10, <2>1 DEF handleHotChange
<1>11. CASE handleLogr
  BY <1>11 DEF handleLogr, Opens, Stored, GivenUp
<1>12. CASE flush
  BY <1>12 DEF flush
<1>13. CASE closeStale
  BY <1>13 DEF closeStale
<1>14. CASE delay
  BY <1>14 DEF delay
<1>15. CASE quit
  BY <1>15 DEF quit
<1> QED
  BY <1>1, <1>2, <1>3, <1>4, <1>5, <1>6, <1>7, <1>8, <1>9, <1>10, <1>11, <1>12, <1>13,
     <1>14, <1>15 DEF Manages, Runs

-----------------------------------------------------------------------------
(***************************************************************************)
(* The queue, with the LogrData that run() has just taken from it.         *)
(***************************************************************************)
LEMMA QueueIs ==
  ASSUME Types
  PROVE  /\ InQueue \in Seq(Datas) /\ logrs \in Seq(Datas)
         /\ ~At(Logger, "handle") => InQueue = logrs
         /\ At(Logger, "handle") =>
              InQueue # <<>> /\ Head(InQueue) = mine[Logger] /\ Tail(InQueue) = logrs
<1>1. logrs \in Seq(Datas)
  BY DEF Types, TypeOK
<1>2. CASE ~At(Logger, "handle")
  BY <1>1, <1>2, ConcatEmptySeq DEF InQueue
<1>3. CASE At(Logger, "handle")
  <2> DEFINE q == <<mine[Logger]>> \o logrs
  <2>1. mine[Logger] \in Datas /\ InQueue = q
    BY <1>3 DEF At, Types, TypeOK, Holding, Carrying, Processes, InQueue
  <2>2. <<mine[Logger]>> \in Seq(Datas) /\ Len(<<mine[Logger]>>) = 1 /\ <<mine[Logger]>>[1] = mine[Logger]
    BY <2>1
  <2>3. /\ q \in Seq(Datas) /\ Len(q) = 1 + Len(logrs)
        /\ \A i \in 1 .. 1 + Len(logrs) : q[i] = IF i <= 1 THEN mine[Logger] ELSE logrs[i - 1]
    BY <1>1, <2>2, ConcatProperties
  <2> HIDE DEF q
  <2>4. q # <<>> /\ Head(q) = mine[Logger] /\ Len(Tail(q)) = Len(logrs) /\ Tail(q) \in Seq(Datas)
    BY <1>1, <2>3
  <2>5. \A i \in 1 .. Len(logrs) : Tail(q)[i] = logrs[i]
    BY <1>1, <2>3, <2>4, HeadTailProperties
  <2>6. Tail(q) = logrs
    BY <1>1, <2>4, <2>5, SeqEqual
  <2> QED
    BY <1>1, <1>3, <2>1, <2>3, <2>4, <2>6
<1> QED
  BY <1>1, <1>2, <1>3

\* Everything in it is queued, or is in the hands of run().
LEMMA InQueueMembers ==
  ASSUME Types, NEW i \in DOMAIN InQueue
  PROVE  InQueue[i] \in Queued \/ (At(Logger, "handle") /\ InQueue[i] = mine[Logger])
<1>1. CASE ~At(Logger, "handle")
  BY <1>1, QueueIs DEF Queued
<1>2. CASE At(Logger, "handle") /\ i = 1
  BY <1>2, QueueIs
<1>3. CASE At(Logger, "handle") /\ i # 1
  <2>1. InQueue \in Seq(Datas) /\ InQueue # <<>> /\ Tail(InQueue) = logrs /\ logrs \in Seq(Datas)
    BY <1>3, QueueIs
  <2>2. i - 1 \in 1 .. Len(logrs) /\ Tail(InQueue)[i - 1] = InQueue[i]
    BY <1>3, <2>1
  <2> QED
    BY <2>1, <2>2 DEF Queued
<1> QED
  BY <1>1, <1>2, <1>3

\* A call that queues nothing changes nothing that is queued.
LEMMA CallQueue ==
  ASSUME Types, OneOwner, NEW t \in Processes, Logs(t) \/ Sets(t), ~enqueue(t)
  PROVE  UNCHANGED <<logrs, InQueue, Owed, Waiting>>
<1>1. logrs' = logrs
  BY DEF Logs, Sets, prePushLogr, makeLogrData, newLogrData, reuseLogrData, freeLogrData,
     keepLogrData, pushLogr, openLogrger, writeLogr, closeLogrger, enableLogrger, hotChange,
     Made, memory
<1>2. At(Logger, "handle")' <=> At(Logger, "handle")
  BY CallMoves DEF At, Processes
<1>3. At(Logger, "handle") => mine'[Logger] = mine[Logger] /\ data'[mine[Logger]] = data[mine[Logger]]
  BY CallMoves, CallKeeps DEF At, Types, Holding, Carrying, Processes
<1>4. InQueue' = InQueue
  BY <1>1, <1>2, <1>3 DEF InQueue
<1>5. \A i \in DOMAIN InQueue : data'[InQueue[i]] = data[InQueue[i]]
  BY <1>3, InQueueMembers, CallKeeps
<1> QED
  BY <1>1, <1>4, <1>5 DEF Owed, Waiting

\* enqueue puts its LogrData behind the others.
LEMMA EnqueueQueue ==
  ASSUME Types, BuildOK, NEW t \in Processes, enqueue(t)
  PROVE  /\ mine[t] \in Datas /\ InQueue' = Append(InQueue, mine[t]) /\ logrs' = Append(logrs, mine[t])
         /\ data' = data
<1>1. /\ mine[t] \in Datas /\ logrs' = Append(logrs, mine[t]) /\ data' = data
      /\ logrs \in Seq(Datas) /\ logrs' \in Seq(Datas) /\ InQueue \in Seq(Datas)
  BY QueueIs DEF enqueue, At, Types, TypeOK, Holding, Carrying
<1>2. enqueue(t) => Logs(t)
  BY DEF Logs
<1>3. At(Logger, "handle")' <=> At(Logger, "handle")
  BY <1>2, CallMoves DEF At, Processes
<1>4. CASE ~At(Logger, "handle")
  BY <1>1, <1>3, <1>4, QueueIs, ConcatEmptySeq DEF InQueue
<1>5. CASE At(Logger, "handle")
  <2>1. mine'[Logger] = mine[Logger] /\ mine[Logger] \in Datas
    BY <1>2, <1>5, CallMoves DEF At, Types, TypeOK, Holding, Carrying, Processes
  <2>2. InQueue = <<mine[Logger]>> \o logrs /\ InQueue' = <<mine[Logger]>> \o Append(logrs, mine[t])
    BY <1>1, <1>3, <1>5, <2>1 DEF InQueue
  <2>3. <<mine[Logger]>> \o Append(logrs, mine[t]) = Append(<<mine[Logger]>> \o logrs, mine[t])
    BY <1>1, <2>1
  <2> QED
    BY <1>1, <2>2, <2>3
<1> QED
  BY <1>1, <1>4, <1>5

\* popLogr takes the first in hand, which keeps the order.
LEMMA PopQueue ==
  ASSUME Types, popLogr
  PROVE  UNCHANGED <<InQueue, Owed, Waiting, data>> /\ logrs # <<>>
         /\ At(Logger, "handle")' /\ ~At(Logger, "handle")
         /\ mine'[Logger] = Head(logrs) /\ logrs' = Tail(logrs)
<1>1. /\ logrs \in Seq(Datas) /\ logrs # <<>> /\ logrs' = Tail(logrs) /\ data' = data
      /\ ~At(Logger, "handle") /\ At(Logger, "handle")' /\ mine'[Logger] = Head(logrs)
  BY DEF popLogr, Hold, Goto, At, Types, TypeOK, Processes
<1>2. InQueue = logrs /\ InQueue' = <<Head(logrs)>> \o Tail(logrs)
  BY <1>1, QueueIs DEF InQueue
<1>3. <<Head(logrs)>> \o Tail(logrs) = logrs
  BY <1>1
<1> QED
  BY <1>1, <1>2, <1>3 DEF Owed, Waiting

\* Handling it is what takes it out of the queue.
LEMMA HandleQueue ==
  ASSUME Types, handleHotChange \/ handleLogr
  PROVE  /\ InQueue # <<>> /\ Head(InQueue) = mine[Logger] /\ InQueue' = Tail(InQueue)
         /\ InQueue' = logrs /\ UNCHANGED <<data, logrs>>
         /\ At(Logger, "handle") /\ ~At(Logger, "handle")'
<1>1. At(Logger, "handle") /\ ~At(Logger, "handle")' /\ UNCHANGED <<data, logrs>>
  BY DEF handleHotChange, handleLogr, At, Goto, Types, TypeOK, Processes, memory
<1>2. InQueue' = logrs
  BY <1>1, ConcatEmptySeq DEF InQueue, Types, TypeOK
<1> QED
  BY <1>1, <1>2, QueueIs

\* The other steps of run() and the manager.
LEMMA RunQueue ==
  ASSUME Types, Manages \/ Runs, ~popLogr, ~handleHotChange, ~handleLogr
  PROVE  /\ UNCHANGED <<logrs, data, InQueue, Owed, Waiting, popped, file, refused, promised, outfile, mine>>
         /\ At(Logger, "handle")' <=> At(Logger, "handle")
<1>1. UNCHANGED <<logrs, data, mine, popped, file, refused, promised, outfile>>
  BY DEF Manages, Runs, start, startFails, started, stop, wait, run, post, drained, flush,
     closeStale, delay, quit, memory, flags, counters, output
<1>2. At(Logger, "handle")' <=> At(Logger, "handle")
  BY LogrAssumption DEF Manages, Runs, start, startFails, started, stop, wait, run, post, drained, flush,
     closeStale, delay, quit, At, Goto, Types, TypeOK, Processes
<1> QED
  BY <1>1, <1>2 DEF InQueue, Owed, Waiting

-----------------------------------------------------------------------------
(***************************************************************************)
(* The counters differ by the records that wait.                           *)
(***************************************************************************)
LEMMA WaitingFinite ==
  ASSUME Types
  PROVE  IsFiniteSet(Waiting) /\ Cardinality(Waiting) \in Nat
<1>1. Waiting \subseteq 1 .. Len(InQueue) /\ Len(InQueue) \in Nat
  BY QueueIs DEF Waiting
<1>2. IsFiniteSet(1 .. Len(InQueue))
  BY <1>1, FS_Interval
<1> QED
  BY <1>1, <1>2, FS_Subset, FS_CardinalityType

\* One record more, unless it is a setting.
LEMMA EnqueueWaiting ==
  ASSUME Types, BuildOK, MadeFor, NEW t \in Processes, enqueue(t)
  PROVE  Cardinality(Waiting') =
           IF kind[t] = "general" THEN Cardinality(Waiting) + 1 ELSE Cardinality(Waiting)
<1> DEFINE new == Len(InQueue) + 1
<1>1. /\ InQueue \in Seq(Datas) /\ mine[t] \in Datas /\ data' = data
      /\ InQueue' = Append(InQueue, mine[t]) /\ data[mine[t]].type = kind[t]
  BY QueueIs, EnqueueQueue DEF MadeFor, enqueue, At
<1>2. /\ DOMAIN InQueue' = DOMAIN InQueue \cup {new} /\ new \notin DOMAIN InQueue
      /\ InQueue'[new] = mine[t] /\ \A i \in DOMAIN InQueue : InQueue'[i] = InQueue[i]
  BY <1>1
<1>3. Waiting' = IF kind[t] = "general" THEN Waiting \cup {new} ELSE Waiting
  BY <1>1, <1>2 DEF Waiting
<1>4. new \notin Waiting
  BY <1>2 DEF Waiting
<1> QED
  BY <1>3, <1>4, WaitingFinite, FS_AddElement

\* One record less, unless it is a setting.
LEMMA HandleWaiting ==
  ASSUME Types, handleHotChange \/ handleLogr
  PROVE  Cardinality(Waiting') =
           IF data[mine[Logger]].type = "general" THEN Cardinality(Waiting) - 1 ELSE Cardinality(Waiting)
<1>1. /\ InQueue \in Seq(Datas) /\ InQueue # <<>> /\ Head(InQueue) = mine[Logger]
      /\ InQueue' = Tail(InQueue) /\ data' = data
  BY QueueIs, HandleQueue
<1>2. /\ DOMAIN InQueue = 1 .. Len(InQueue) /\ DOMAIN InQueue' = 1 .. Len(InQueue) - 1
      /\ Len(InQueue) \in Nat \ {0} /\ InQueue[1] = mine[Logger]
      /\ \A i \in 1 .. Len(InQueue) - 1 : InQueue'[i] = InQueue[i + 1]
  BY <1>1
<1> DEFINE Later == Waiting \ {1}
           back == [i \in Later |-> i - 1]
<1>3. \A i \in Later : i \in Int /\ i - 1 \in Waiting'
  <2> SUFFICES ASSUME NEW i \in Later
               PROVE  i \in Int /\ i - 1 \in Waiting'
    OBVIOUS
  <2>1. i \in 2 .. Len(InQueue) /\ data[InQueue[i]].type = "general"
    BY <1>2 DEF Waiting
  <2>2. i - 1 \in 1 .. Len(InQueue) - 1 /\ InQueue'[i - 1] = InQueue[i]
    BY <1>2, <2>1
  <2> QED
    BY <1>1, <1>2, <2>1, <2>2 DEF Waiting
<1>4. \A j \in Waiting' : j + 1 \in Later /\ j \in Int
  <2> SUFFICES ASSUME NEW j \in Waiting'
               PROVE  j + 1 \in Later /\ j \in Int
    OBVIOUS
  <2>1. j \in 1 .. Len(InQueue) - 1 /\ data'[InQueue'[j]].type = "general"
    BY <1>2 DEF Waiting
  <2>2. j + 1 \in 1 .. Len(InQueue) /\ j + 1 # 1 /\ data[InQueue[j + 1]].type = "general"
    BY <1>1, <1>2, <2>1
  <2> QED
    BY <1>2, <2>1, <2>2 DEF Waiting
<1> HIDE DEF Later
<1>5. back \in Bijection(Later, Waiting')
  <2>1. back \in [Later -> Waiting']
    BY <1>3
  <2>2. \A i, j \in Later : back[i] = back[j] => i = j
    BY <1>3
  <2>3. \A j \in Waiting' : back[j + 1] = j
    BY <1>4
  <2> QED
    BY <1>4, <2>1, <2>2, <2>3 DEF Bijection, Injection, Surjection, IsInjective
<1>6. IsFiniteSet(Later)
  BY WaitingFinite, FS_RemoveElement DEF Later
<1>7. Cardinality(Waiting') = Cardinality(Later)
  BY <1>5, <1>6, FS_Bijection DEF ExistsBijection
<1>8. 1 \in Waiting <=> data[mine[Logger]].type = "general"
  BY <1>2 DEF Waiting
<1>9. Cardinality(Later) = IF 1 \in Waiting THEN Cardinality(Waiting) - 1 ELSE Cardinality(Waiting)
  BY WaitingFinite, FS_RemoveElement DEF Later
<1> QED
  BY <1>7, <1>8, <1>9

\* Both counters go with what waits.
LEMMA CallCounters ==
  ASSUME Types, OneOwner, BuildOK, MadeFor, CountersAgree, NEW t \in Processes, Logs(t) \/ Sets(t)
  PROVE  CountersAgree'
<1>1. popped' = popped /\ pushed \in Nat /\ popped \in Nat
  BY CallMoves DEF Types, TypeOK
<1>2. CASE enqueue(t)
  <2>1. pushed' = IF kind[t] = "general" THEN pushed + 1 ELSE pushed
    BY <1>2 DEF enqueue
  <2> QED
    BY <1>1, <1>2, <2>1, EnqueueWaiting, WaitingFinite DEF CountersAgree
<1>3. CASE ~enqueue(t)
  <2>1. pushed' = pushed
    BY <1>3 DEF Logs, Sets, prePushLogr, makeLogrData, newLogrData, reuseLogrData, freeLogrData,
       keepLogrData, pushLogr, openLogrger, writeLogr, closeLogrger, enableLogrger, hotChange,
       Made, counters
  <2> QED
    BY <1>1, <1>3, <2>1, CallQueue DEF CountersAgree
<1> QED
  BY <1>2, <1>3

LEMMA RunCounters ==
  ASSUME Types, CountersAgree, Manages \/ Runs
  PROVE  CountersAgree'
<1>1. pushed' = pushed /\ pushed \in Nat /\ popped \in Nat
  BY RunKeeps DEF Types, TypeOK
<1>2. CASE handleHotChange
  BY <1>1, <1>2, HandleWaiting, WaitingFinite DEF handleHotChange, counters, CountersAgree
<1>3. CASE handleLogr
  <2>1. Cardinality(Waiting') = Cardinality(Waiting) - 1 /\ popped' = popped + 1
    BY <1>3, HandleWaiting DEF handleLogr
  <2> QED
    BY <1>1, <2>1, WaitingFinite DEF CountersAgree
<1>4. CASE popLogr
  BY <1>1, <1>4, PopQueue DEF popLogr, counters, CountersAgree
<1>5. CASE ~popLogr /\ ~handleHotChange /\ ~handleLogr
  BY <1>1, <1>5, RunQueue DEF CountersAgree
<1> QED
  BY <1>2, <1>3, <1>4, <1>5

-----------------------------------------------------------------------------
(***************************************************************************)
(* Promises are kept.  First what a call may promise, and what it does to  *)
(* the record run() has in hand.                                           *)
(***************************************************************************)
LEMMA CallPromised ==
  ASSUME NEW t \in Processes, Logs(t) \/ Sets(t)
  PROVE  \/ promised' \subseteq promised
         \/ /\ enqueue(t) \/ closeLogrger(t)
            /\ running /\ outfile /\ ~switchedOff /\ data[mine[t]].type = "general"
            /\ promised' = promised \cup {data[mine[t]]}
<1>1. CASE enqueue(t)
  BY <1>1 DEF enqueue, Promise
<1>2. CASE closeLogrger(t)
  BY <1>2 DEF closeLogrger, Promise
<1>3. CASE ~enqueue(t) /\ ~closeLogrger(t)
  BY <1>3 DEF Logs, Sets, prePushLogr, makeLogrData, newLogrData, reuseLogrData, freeLogrData,
     keepLogrData, pushLogr, openLogrger, writeLogr, enableLogrger, hotChange, Made,
     GivenUp, output
<1> QED
  BY <1>1, <1>2, <1>3

\* What run() has in hand stays as it is.
LEMMA CallHandled ==
  ASSUME Types, OneOwner, NEW t \in Processes, Logs(t) \/ Sets(t)
  PROVE  /\ Handled' = Handled
         /\ pc'[Logger] = "handle" <=> pc[Logger] = "handle"
         /\ pc[Logger] = "handle" => data'[mine'[Logger]] = data[mine[Logger]]
<1>1. pc'[Logger] = "handle" <=> pc[Logger] = "handle"
  BY CallMoves DEF Processes
<1>2. pc[Logger] = "handle" => mine'[Logger] = mine[Logger] /\ data'[mine[Logger]] = data[mine[Logger]]
  BY CallMoves, CallKeeps DEF Types, Holding, Carrying, Processes
<1> QED
  BY <1>1, <1>2 DEF Handled, At

\* What waits in a queue that has not changed.
LEMMA SameLine ==
  ASSUME Types, InLine, UNCHANGED logrs, \A d \in Queued : data'[d] = data[d],
         promised' \subseteq promised, Handled \subseteq Handled' \cup Settled', Settled \subseteq Settled'
  PROVE  InLine'
<1> SUFFICES ASSUME NEW n \in 1 .. Len(logrs) + 1,
                    n \in 1 .. Len(logrs) => data'[logrs[n]].type = "disable"
             PROVE  promised' \subseteq Settled' \cup Handled' \cup QueuedBefore(n)'
  BY DEF InLine
<1>1. logrs \in Seq(Datas)
  BY DEF Types, TypeOK
<1>2. \A k \in 1 .. Len(logrs) : data'[logrs[k]] = data[logrs[k]]
  BY <1>1 DEF Queued
<1>3. QueuedBefore(n)' = QueuedBefore(n)
  <2>1. \A k \in 1 .. n - 1 : k \in 1 .. Len(logrs)
    BY <1>1
  <2> QED
    BY <1>2, <2>1, SMTT(20) DEF QueuedBefore
<1>4. promised \subseteq Settled \cup Handled \cup QueuedBefore(n)
  BY <1>2 DEF InLine
<1> QED
  BY <1>3, <1>4

\* A new record is behind everything; a switch-off ahead of it forbids it.
LEMMA EnqueueInLine ==
  ASSUME Types, OneOwner, BuildOK, SwitchingOff, InLine, NEW t \in Processes, enqueue(t)
  PROVE  InLine'
<1> DEFINE L == Len(logrs)
<1>0. Logs(t)
  BY DEF Logs
<1>a. logrs \in Seq(Datas) /\ mine[t] \in Datas /\ data' = data /\ logrs' = Append(logrs, mine[t])
  BY EnqueueQueue DEF Types, TypeOK
<1>1. /\ logrs \in Seq(Datas) /\ L \in Nat /\ mine[t] \in Datas /\ data' = data
      /\ Len(logrs') = L + 1 /\ logrs'[L + 1] = mine[t]
      /\ \A k \in 1 .. L : logrs'[k] = logrs[k] /\ logrs[k] \in Datas
  BY <1>a
<1>2. Handled' = Handled /\ Settled \subseteq Settled'
  BY <1>0, CallHandled, CallMoves
<1>3. \/ promised' \subseteq promised
      \/ /\ ~switchedOff /\ data[mine[t]].type = "general"
         /\ promised' = promised \cup {data[mine[t]]}
  BY <1>0, CallPromised
<1> HIDE DEF L
<1>4. \A n \in 1 .. L + 1 : QueuedBefore(n)' = QueuedBefore(n)
  <2> TAKE n \in 1 .. L + 1
  <2>1. \A k \in 1 .. n - 1 : k \in 1 .. L
    BY <1>1
  <2> QED
    BY <1>1, <2>1 DEF QueuedBefore
<1> SUFFICES ASSUME NEW n \in 1 .. L + 2,
                    n \in 1 .. L + 1 => data[logrs'[n]].type = "disable"
             PROVE  promised' \subseteq Settled' \cup Handled' \cup QueuedBefore(n)'
  BY <1>1 DEF InLine
<1>5. CASE n \in 1 .. L
  <2>1. data[logrs[n]].type = "disable" /\ logrs[n] \in Datas /\ n \in 1 .. L + 1
    BY <1>1, <1>5
  <2>2. promised' \subseteq promised
    BY <1>3, <2>1 DEF SwitchingOff
  <2>3. promised \subseteq Settled \cup Handled \cup QueuedBefore(n)
    BY <1>1, <2>1 DEF InLine, L
  <2> QED
    BY <1>2, <1>4, <2>1, <2>2, <2>3
<1>6. CASE n = L + 1
  <2>1. data[mine[t]].type = "disable" /\ n \in 1 .. L + 1 /\ n \notin 1 .. L
    BY <1>1, <1>6
  <2>2. promised \subseteq Settled \cup Handled \cup QueuedBefore(n)
    BY <2>1 DEF InLine, L
  <2> QED
    BY <1>2, <1>3, <1>4, <2>1, <2>2
<1>7. CASE n = L + 2
  <2>1. L + 1 \in 1 .. L + 1 /\ L + 1 \notin 1 .. L
    BY <1>1
  <2>2. promised \subseteq Settled \cup Handled \cup QueuedBefore(L + 1)
    BY <2>1 DEF InLine, L
  <2>3. QueuedBefore(L + 1) \subseteq QueuedBefore(n)' /\ data[mine[t]] \in QueuedBefore(n)'
    <3>1. L + 1 \in 1 .. n - 1 /\ \A k \in 1 .. (L + 1) - 1 : k \in 1 .. L /\ k \in 1 .. n - 1
      BY <1>1, <1>7
    <3> QED
      BY <1>1, <3>1 DEF QueuedBefore
  <2> QED
    BY <1>2, <1>3, <2>2, <2>3
<1> QED
  BY <1>1, <1>5, <1>6, <1>7

\* The four parts of Promises, for the calls.
LEMMA CallInLine ==
  ASSUME Types, OneOwner, BuildOK, SwitchingOff, Promises, NEW t \in Processes, Logs(t) \/ Sets(t)
  PROVE  InLine'
<1>1. CASE enqueue(t)
  BY <1>1, EnqueueInLine DEF Promises
<1>2. CASE closeLogrger(t)
  <2>1. synchronous /\ logrs = <<>> /\ logrs' = <<>> /\ pc[t] = "close"
    BY <1>2 DEF closeLogrger, At, AtFile, BuildOK, memory
  <2>2. promised' \subseteq Settled'
    BY <1>2, <2>1, CallPromised, CallMoves DEF Promises, WhenOff, OnceWritten
  <2> QED
    BY <2>2 DEF InLine
<1>3. CASE ~enqueue(t) /\ ~closeLogrger(t)
  <2>1. promised' \subseteq promised
    BY <1>3, CallPromised
  <2>2. logrs' = logrs /\ \A d \in Queued : data'[d] = data[d]
    BY <1>3, CallQueue, CallKeeps
  <2>3. Handled' = Handled /\ Settled \subseteq Settled'
    BY CallHandled, CallMoves
  <2> QED
    BY <2>1, <2>2, <2>3, SameLine DEF Promises
<1> QED
  BY <1>1, <1>2, <1>3

LEMMA CallBeforeOff ==
  ASSUME Types, OneOwner, BuildOK, SwitchingOff, Promises, NEW t \in Processes, Logs(t) \/ Sets(t)
  PROVE  BeforeOff'
<1> SUFFICES ASSUME pc'[Logger] = "handle", data'[mine'[Logger]].type = "disable"
             PROVE  promised' \subseteq Settled'
  BY DEF BeforeOff
<1>1. pc[Logger] = "handle" /\ data[mine[Logger]].type = "disable"
  BY CallHandled
<1>2. mine[Logger] \in Datas
  BY <1>1 DEF Types, TypeOK, Holding, Carrying, Processes
<1>3. promised' \subseteq promised
  BY <1>1, <1>2, CallPromised DEF SwitchingOff
<1> QED
  BY <1>1, <1>3, CallMoves DEF Promises, BeforeOff

LEMMA CallWhenOff ==
  ASSUME Types, BuildOK, SwitchingOff, Lifetime, Promises, NEW t \in Processes, Logs(t) \/ Sets(t)
  PROVE  WhenOff'
<1> SUFFICES ASSUME ~(enabled' /\ outfile') \/ synchronous' \/ pc'[Logger] \in {"quit", "ended"}
             PROVE  promised' \subseteq Settled'
  BY DEF WhenOff
<1>1. synchronous' = synchronous /\ (pc'[Logger] \in {"quit", "ended"} => pc[Logger] \in {"quit", "ended"})
      /\ Settled \subseteq Settled'
  BY CallMoves DEF Processes
<1>2. CASE ~(enabled /\ outfile) \/ synchronous \/ pc[Logger] \in {"quit", "ended"}
  <2>1. promised \subseteq Settled
    BY <1>2 DEF Promises, WhenOff
  <2>2. CASE promised' \subseteq promised
    BY <1>1, <2>1, <2>2
  <2>3. CASE closeLogrger(t) /\ running /\ ~switchedOff
    BY <1>1, <2>1, <2>3, CallPromised DEF closeLogrger, At, Promises, OnceWritten
  <2>4. CASE enqueue(t) /\ running /\ outfile /\ ~switchedOff
    BY <1>2, <2>4 DEF enqueue, At, BuildOK, SwitchingOff, Lifetime
  <2> QED
    BY <2>2, <2>3, <2>4, CallPromised
<1>3. CASE enabled /\ outfile /\ ~synchronous /\ pc[Logger] \notin {"quit", "ended"}
  <2>1. CASE hotChange(t)
    <3>1. \/ promised' \subseteq Settled
          \/ UNCHANGED <<enabled, outfile>>
      BY <2>1 DEF hotChange, GivenUp
    <3> QED
      BY <1>1, <1>3, <3>1
  <2>2. CASE openLogrger(t)
    BY <1>3, <2>2 DEF openLogrger, At, AtFile, BuildOK
  <2>3. CASE ~hotChange(t) /\ ~openLogrger(t)
    <3>1. outfile' = outfile /\ enabled' \in {enabled, TRUE}
      BY <2>3 DEF Logs, Sets, prePushLogr, makeLogrData, newLogrData, reuseLogrData, freeLogrData,
         keepLogrData, pushLogr, enqueue, writeLogr, closeLogrger, enableLogrger, Made, flags
    <3> QED
      BY <1>1, <1>3, <3>1
  <2> QED
    BY <2>1, <2>2, <2>3
<1> QED
  BY <1>2, <1>3

LEMMA CallOnceWritten ==
  ASSUME Types, OneOwner, HandleLostOnlyAtEnd, Lifetime, Promises, NEW t \in Processes, Logs(t) \/ Sets(t)
  PROVE  OnceWritten'
<1> SUFFICES ASSUME NEW u \in Processes, pc'[u] = "close", running', ~switchedOff'
             PROVE  data'[mine'[u]] \in Settled'
  BY DEF OnceWritten
<1>1. running /\ ~switchedOff /\ Settled \subseteq Settled'
  BY CallMoves
<1>2. CASE u # t
  BY <1>1, <1>2, CallMoves, CallKeeps DEF Promises, OnceWritten, Types, Holding, Carrying
<1>3. CASE u = t /\ writeLogr(t)
  <2>1. pc[t] = "write" /\ handle /\ UNCHANGED <<mine, data>> /\ Stored(data[mine[t]])
    BY <1>1, <1>3 DEF writeLogr, At, HandleLostOnlyAtEnd, Lifetime, memory
  <2>2. data[mine[t]] \in Records
    BY <2>1 DEF Types, TypeOK, Holding, Carrying
  <2> QED
    BY <1>3, <2>1, <2>2, StoredSettles
<1>4. CASE u = t /\ ~writeLogr(t)
  BY <1>4 DEF Logs, Sets, prePushLogr, makeLogrData, newLogrData, reuseLogrData, freeLogrData,
     keepLogrData, pushLogr, enqueue, openLogrger, closeLogrger, enableLogrger, hotChange,
     Made, MayCall, At, Goto, Back, Types, TypeOK
<1> QED
  BY <1>2, <1>3, <1>4

\* Taken in hand is as good as waiting.
LEMMA PopPromises ==
  ASSUME Types, Promises, popLogr
  PROVE  InLine' /\ BeforeOff'
<1>1. /\ logrs \in Seq(Datas) /\ logrs # <<>> /\ logrs' = Tail(logrs) /\ data' = data
      /\ mine'[Logger] = Head(logrs) /\ At(Logger, "handle")' /\ ~At(Logger, "handle")
  BY PopQueue DEF Types, TypeOK
<1>2. /\ Len(logrs) \in Nat \ {0} /\ Len(logrs') = Len(logrs) - 1 /\ Head(logrs) = logrs[1]
      /\ \A k \in 1 .. Len(logrs) - 1 : logrs'[k] = logrs[k + 1]
  BY <1>1
<1>3. UNCHANGED promised /\ Settled' = Settled
  BY DEF popLogr, output, Settled, Written
<1>4. Handled = {} /\ Handled' = {data[logrs[1]]}
  BY <1>1, <1>2 DEF Handled
<1>5. InLine'
  <2> SUFFICES ASSUME NEW n \in 1 .. Len(logrs),
                      n \in 1 .. Len(logrs) - 1 => data[logrs'[n]].type = "disable"
               PROVE  promised \subseteq Settled \cup {data[logrs[1]]} \cup QueuedBefore(n)'
    BY <1>1, <1>2, <1>3, <1>4 DEF InLine
  <2>1. n + 1 \in 1 .. Len(logrs) + 1 /\ (n + 1 \in 1 .. Len(logrs) => data[logrs[n + 1]].type = "disable")
    BY <1>2
  <2>2. promised \subseteq Settled \cup QueuedBefore(n + 1)
    BY <1>4, <2>1 DEF Promises, InLine
  <2>3. QueuedBefore(n + 1) \subseteq {data[logrs[1]]} \cup QueuedBefore(n)'
    <3> SUFFICES ASSUME NEW k \in 1 .. (n + 1) - 1
                 PROVE  data[logrs[k]] \in {data[logrs[1]]} \cup QueuedBefore(n)'
      BY DEF QueuedBefore
    <3>1. CASE k = 1
      BY <3>1
    <3>2. CASE k # 1
      <4>1. k - 1 \in 1 .. n - 1 /\ k - 1 \in 1 .. Len(logrs) - 1 /\ (k - 1) + 1 = k
        BY <1>2, <3>2
      <4>2. logrs'[k - 1] = logrs[k]
        BY <1>2, <4>1
      <4> QED
        BY <1>1, <4>1, <4>2 DEF QueuedBefore
    <3> QED
      BY <3>1, <3>2
  <2> QED
    BY <2>2, <2>3
<1>6. BeforeOff'
  <2> SUFFICES ASSUME data[logrs[1]].type = "disable"
               PROVE  promised \subseteq Settled
    BY <1>1, <1>2, <1>3 DEF BeforeOff
  <2>1. 1 \in 1 .. Len(logrs) /\ 1 \in 1 .. Len(logrs) + 1
    BY <1>2
  <2>2. promised \subseteq Settled \cup QueuedBefore(1)
    BY <1>4, <2>1 DEF Promises, InLine
  <2>3. QueuedBefore(1) = {}
    BY DEF QueuedBefore
  <2> QED
    BY <2>2, <2>3
<1> QED
  BY <1>5, <1>6

\* The record in hand is written, or nothing is waited for any more.
LEMMA HandlePromises ==
  ASSUME Types, Promises, handleHotChange \/ handleLogr
  PROVE  InLine' /\ BeforeOff' /\ WhenOff'
<1>1. /\ At(Logger, "handle") /\ ~At(Logger, "handle")' /\ UNCHANGED <<data, logrs>>
      /\ mine[Logger] \in Datas /\ synchronous' = synchronous
  BY HandleQueue, RunKeeps DEF Runs, At, Types, TypeOK, Holding, Carrying, Processes
<1>2. pc'[Logger] = "free"
  BY DEF handleHotChange, handleLogr, Goto, Types, TypeOK, Processes
<1>3. CASE promised' \subseteq Settled'
  BY <1>1, <1>2, <1>3 DEF At, InLine, BeforeOff, WhenOff
<1>4. CASE handleHotChange
  BY <1>1, <1>3, <1>4 DEF handleHotChange, At, Promises, BeforeOff, Settled, Written
<1>5. CASE handleLogr /\ ~(enabled /\ outfile)
  BY <1>3, <1>5 DEF handleLogr, Promises, Opens, WhenOff, Settled, Written
<1>6. CASE handleLogr /\ GivenUp /\ UNCHANGED <<file, refused>>
  BY <1>3, <1>6 DEF GivenUp, Settled, Written
<1>7. CASE handleLogr /\ Opens(TRUE) /\ Stored(data[mine[Logger]]) /\ promised' = promised
  <2>1. Settled' = Settled \cup Handled
    <3>1. data[mine[Logger]] \in Records /\ Handled = {data[mine[Logger]]}
      BY <1>1 DEF Handled, Types, TypeOK
    <3> QED
      BY <1>7, <3>1, StoredSettles
  <2>2. InLine'
    BY <1>1, <1>7, <2>1, RunKeeps, SameLine DEF Promises, Runs
  <2>3. WhenOff'
    BY <1>1, <1>2, <1>7, <2>1 DEF handleLogr, Opens, Promises, WhenOff
  <2> QED
    BY <1>1, <2>2, <2>3 DEF At, BeforeOff
<1> QED
  BY <1>4, <1>5, <1>6, <1>7 DEF handleLogr

\* The other steps of run() and the manager: only delay has something to see.
LEMMA OtherPromises ==
  ASSUME Types, BuildOK, Promises, Manages \/ Runs, ~popLogr, ~handleHotChange, ~handleLogr
  PROVE  InLine' /\ BeforeOff' /\ WhenOff'
<1>1. /\ UNCHANGED <<logrs, data, promised, outfile, mine, synchronous>> /\ Settled' = Settled
      /\ At(Logger, "handle")' <=> At(Logger, "handle")
  BY RunQueue, RunKeeps DEF Settled, Written
<1>2. Handled' = Handled
  BY <1>1 DEF Handled
<1>3. InLine'
  BY <1>1, <1>2, SameLine DEF Promises
<1>4. BeforeOff'
  BY <1>1 DEF At, Promises, BeforeOff
<1>5. WhenOff'
  <2>1. CASE delay /\ pc'[Logger] = "quit"
    <3>1. logrs = <<>> /\ ~At(Logger, "handle")
      BY <2>1 DEF delay, At, Goto, Types, TypeOK, Processes
    <3>2. 1 \in 1 .. Len(logrs) + 1 /\ 1 \notin 1 .. Len(logrs) /\ QueuedBefore(1) = {}
      BY <3>1 DEF QueuedBefore
    <3>3. promised \subseteq Settled
      BY <3>1, <3>2 DEF Promises, InLine, Handled
    <3> QED
      BY <1>1, <3>3 DEF WhenOff
  <2>2. CASE quit
    BY <1>1, <2>2 DEF quit, At, Promises, WhenOff
  <2>3. CASE ~quit /\ ~(delay /\ pc'[Logger] = "quit")
    <3>1. enabled' = enabled
      BY <2>3 DEF Manages, Runs, start, startFails, started, stop, wait, run, post, drained, flush,
         closeStale, delay, flags
    <3>2. pc'[Logger] \in {"quit", "ended"} => pc[Logger] \in {"quit", "ended"}
      BY <2>3, LogrAssumption DEF Manages, Runs, start, startFails, started, stop, wait, run, post, drained, flush,
         closeStale, delay, At, Goto, Types, TypeOK, Processes
    <3> QED
      BY <1>1, <3>1, <3>2 DEF Promises, WhenOff
  <2> QED
    BY <2>1, <2>2, <2>3
<1> QED
  BY <1>3, <1>4, <1>5

\* A thread at its close has written.
LEMMA RunOnceWritten ==
  ASSUME Types, Lifetime, OnceWritten, Manages \/ Runs
  PROVE  OnceWritten'
<1> SUFFICES ASSUME NEW u \in Processes, pc'[u] = "close", running', ~switchedOff'
             PROVE  data'[mine'[u]] \in Settled'
  BY DEF OnceWritten
<1>1. /\ pc[u] = "close" /\ mine'[u] = mine[u] /\ UNCHANGED <<data, switchedOff>>
      /\ Settled \subseteq Settled'
  BY RunKeeps DEF AtFile
<1>2. CASE run
  <2>1. pc[Logger] = "run" /\ u \in Threads
    BY <1>1, <1>2 DEF run, At, Processes
  <2> QED
    BY <1>1, <2>1 DEF Lifetime, Working
<1>3. CASE ~run
  BY <1>1, <1>3, RunKeeps DEF OnceWritten
<1> QED
  BY <1>2, <1>3

-----------------------------------------------------------------------------
(***************************************************************************)
(* The inductive invariant, and what it gives.                             *)
(***************************************************************************)
LEMMA InitInvariant == Init => IInv
<1> SUFFICES ASSUME Init
             PROVE  IInv
  OBVIOUS
<1> USE LogrAssumption
<1>1. TypeOK
  <2>1. /\ {synchronous, running, posted, enabled, outfile, switchedOff, handle} \subseteq BOOLEAN
        /\ lock \in Processes \cup {NoThread}
    BY DEF Init
  <2>2. Blank \in Records
    BY DEF Blank, Records, Kinds, Processes
  <2>3. /\ heap \subseteq Datas /\ pool \in Seq(Datas) /\ logrs \in Seq(Datas)
        /\ data \in [Datas -> Records] /\ file \in Seq(Records)
        /\ refused \in Seq(Records) /\ promised \in SUBSET Records
    BY <2>2 DEF Init
  <2>4. /\ pc \in [Processes -> ThreadStates \cup LoggerStates]
        /\ mine \in [Processes -> Datas \cup {NoData}]
        /\ kind \in [Processes -> Kinds] /\ calls \in [Processes -> Nat]
        /\ pushed \in Nat /\ popped \in Nat
    BY DEF Init, ThreadStates, LoggerStates, Kinds
  <2> QED
    BY <2>1, <2>3, <2>4 DEF TypeOK
<1>2. Places /\ Holding /\ OneOwner
  <2>1. Places /\ Holding
    BY DEF Init, Places, Holding, Carrying, Processes, ThreadStates, LoggerStates, Working
  <2>2. pool = <<>> /\ logrs = <<>> /\ heap = {} /\ Held = {} /\ Pooled = {} /\ Queued = {}
    BY DEF Init, Held, Pooled, Queued
  <2> QED
    BY <2>1, <2>2 DEF OneOwner, Distinct
<1>3. PoolLimit
  <2>1. Keeping = {} /\ Len(pool) = 0
    BY DEF Init, Keeping, Processes
  <2>2. Cardinality(Keeping) = 0
    BY <2>1, FS_EmptySet
  <2> QED
    BY <2>1, <2>2, SomeKeeping DEF PoolLimit
<1>4. Control
  BY DEF Init, Control, Locking, BuildOK, MadeFor, SwitchingOff, Lifetime, AtFile, Working,
     Processes, Blank
<1>5. HandleLostOnlyAtEnd /\ Promises
  <2>1. HandleLostOnlyAtEnd /\ OnceWritten
    BY DEF Init, HandleLostOnlyAtEnd, OnceWritten, At, Processes
  <2>2. InLine /\ BeforeOff /\ WhenOff
    BY DEF Init, InLine, BeforeOff, WhenOff
  <2> QED
    BY <2>1, <2>2 DEF Promises
<1>6. CountersAgree
  <2>1. InQueue = <<>>
    BY <1>1, <1>2, QueueIs DEF Types, Init, At, Processes
  <2>2. Waiting = {}
    BY <2>1 DEF Waiting
  <2> QED
    BY <2>2, FS_EmptySet DEF Init, CountersAgree
<1> QED
  BY <1>1, <1>2, <1>3, <1>4, <1>5, <1>6 DEF IInv, Memory

\* IInv and its parts.
LEMMA Parts == IInv <=>
  /\ Types /\ OneOwner /\ PoolLimit
  /\ Locking /\ BuildOK /\ MadeFor /\ SwitchingOff /\ Lifetime
  /\ HandleLostOnlyAtEnd /\ Promises /\ CountersAgree
BY DEF IInv, Memory, Control, Types

\* Every step preserves IInv.
LEMMA NextInvariant == IInv /\ [Next]_vars => IInv'
<1> SUFFICES ASSUME IInv, [Next]_vars
             PROVE  IInv'
  OBVIOUS
<1> USE Parts
<1>1. CASE UNCHANGED vars
  <2> USE <1>1 DEF vars, flags, memory, counters, output, At
  <2>1. Memory'
    <3>1. TypeOK'
      BY DEF IInv, Memory, TypeOK
    <3>2. Places' /\ Holding' /\ OneOwner'
      BY SameOwners DEF IInv, Memory, Places, Holding
    <3> QED
      BY <3>1, <3>2 DEF Memory
  <2>2. PoolLimit'
    BY DEF IInv, PoolLimit, Keeping
  <2>3. Control'
    BY DEF IInv, Control, Locking, BuildOK, MadeFor, SwitchingOff, Lifetime
  <2>4. HandleLostOnlyAtEnd'
    BY DEF IInv, HandleLostOnlyAtEnd
  <2>5. Promises'
    BY DEF IInv, Promises, InLine, BeforeOff, WhenOff, OnceWritten, Settled, Written, Handled, QueuedBefore
  <2>6. CountersAgree'
    BY DEF IInv, CountersAgree, Waiting, InQueue
  <2> QED
    BY <2>1, <2>2, <2>3, <2>4, <2>5, <2>6 DEF IInv
<1>2. CASE \E t \in Processes : Logs(t) \/ Sets(t)
  <2>1. PICK t \in Processes : Logs(t) \/ Sets(t)
    BY <1>2
  <2>2. Types' /\ OneOwner' /\ PoolLimit'
    BY <2>1, CallTypes, CallPlaces, CallOwners, CallPool DEF Types
  <2>3. Locking' /\ BuildOK' /\ MadeFor' /\ SwitchingOff' /\ Lifetime'
    BY <2>1, CallLocking, CallBuild, CallMade, CallOff, CallLife
  <2>4. HandleLostOnlyAtEnd' /\ CountersAgree'
    BY <2>1, CallHandle, CallCounters
  <2>5. Promises'
    BY <2>1, CallInLine, CallBeforeOff, CallWhenOff, CallOnceWritten DEF Promises
  <2> QED
    BY <2>2, <2>3, <2>4, <2>5, Parts, PTL
<1>3. CASE Manages \/ Runs
  <2>1. Types' /\ OneOwner' /\ PoolLimit'
    BY <1>3, RunTypes, RunPlaces, RunOwners, RunPool DEF Types
  <2>2. Locking' /\ BuildOK' /\ MadeFor' /\ SwitchingOff' /\ Lifetime'
    BY <1>3, RunLocking, RunBuild, RunMade, RunOff, RunLife
  <2>3. HandleLostOnlyAtEnd' /\ CountersAgree'
    BY <1>3, RunHandle, RunCounters
  <2>4. OnceWritten'
    BY <1>3, RunOnceWritten DEF Promises
  <2>5. InLine' /\ BeforeOff' /\ WhenOff'
    <3>1. CASE popLogr
      <4>1. WhenOff'
        BY <3>1 DEF popLogr, At, Goto, flags, output, Promises, WhenOff, Settled, Written, Types, TypeOK, Processes
      <4> QED
        BY <3>1, <4>1, PopPromises
    <3>2. CASE handleHotChange \/ handleLogr
      BY <3>2, HandlePromises
    <3>3. CASE ~popLogr /\ ~handleHotChange /\ ~handleLogr
      BY <1>3, <3>3, OtherPromises
    <3> QED
      BY <3>1, <3>2, <3>3
  <2> QED
    BY <2>1, <2>2, <2>3, <2>4, <2>5, Parts, PTL DEF Promises
<1> QED
  BY <1>1, <1>2, <1>3 DEF Next, Over

\* Who holds the lock and who owns what is an inductive invariant: the parts
\* of the properties below hold together from start to the end of run().
THEOREM Invariance == Spec => []IInv
  BY InitInvariant, NextInvariant, PTL DEF Spec

\* Every variable of the logger keeps its type.
THEOREM TypesKept == Spec => []TypeOK
<1>1. IInv => TypeOK
  BY DEF IInv, Memory
<1> QED
  BY <1>1, Invariance, PTL

(***************************************************************************)
(* No LogrData is lost or has two owners (makeLogrData, freeLogrData,      *)
(* pushLogr and popLogr), however the threads interleave.                  *)
(***************************************************************************)
THEOREM OwnersKept == Spec => []OneOwner
<1>1. IInv => OneOwner
  BY DEF IInv, Memory
<1> QED
  BY <1>1, Invariance, PTL

(***************************************************************************)
(* The free list of freeLogrData passes its limit by less than the number  *)
(* of threads, though the limit is checked without the lock.               *)
(***************************************************************************)
THEOREM PoolStaysBounded == Spec => []PoolBounded
<1>1. IInv => PoolBounded
  <2> SUFFICES ASSUME IInv
               PROVE  PoolBounded
    OBVIOUS
  <2>1. Len(pool) \in Nat /\ PoolMax \in Nat
    BY LogrAssumption DEF IInv, Memory, TypeOK
  <2> QED
    BY <2>1, SomeKeeping DEF IInv, PoolLimit, PoolBounded
<1> QED
  BY <1>1, Invariance, PTL

(***************************************************************************)
(* A thread that is about to write, which only the synchronous build has,  *)
(* finds its file open, unless the logger was switched off or run() has    *)
(* ended.                                                                  *)
(***************************************************************************)
THEOREM HandleKept == Spec => []HandleLostOnlyAtEnd
<1>1. IInv => HandleLostOnlyAtEnd
  BY DEF IInv
<1> QED
  BY <1>1, Invariance, PTL

(***************************************************************************)
(* A record for which pushLogr returned true while the logger was on waits *)
(* for run() or has been given to the file, and has been when run() ends:  *)
(* it is in it, unless the disk did not take it.                           *)
(***************************************************************************)
THEOREM EveryPromiseKept == Spec => []PromisesKept
<1>1. IInv => PromisesKept
  <2> SUFFICES ASSUME IInv
               PROVE  PromisesKept
    OBVIOUS
  <2>1. logrs \in Seq(Datas) /\ InLine /\ WhenOff
    BY DEF IInv, Memory, TypeOK, Promises
  <2>2. Len(logrs) + 1 \in 1 .. Len(logrs) + 1 /\ Len(logrs) + 1 \notin 1 .. Len(logrs)
    BY <2>1
  <2>3. promised \subseteq Settled \cup Handled \cup QueuedBefore(Len(logrs) + 1)
    BY <2>1, <2>2 DEF InLine
  <2>4. QueuedBefore(Len(logrs) + 1) \subseteq {data[d] : d \in Queued}
    BY <2>1 DEF QueuedBefore, Queued
  <2> QED
    BY <2>1, <2>3, <2>4 DEF PromisesKept, OnItsWay, Handled, At, WhenOff
<1> QED
  BY <1>1, Invariance, PTL

(***************************************************************************)
(* getStatusWaitingCount: pushed less popped is the number of records that *)
(* wait, in every state and so never negative.                             *)
(***************************************************************************)
THEOREM CountersKept == Spec => []CountersAgree
<1>1. IInv => CountersAgree
  BY DEF IInv
<1> QED
  BY <1>1, Invariance, PTL

-----------------------------------------------------------------------------
(***************************************************************************)
(* The logger implements LogService.                                       *)
(***************************************************************************)

\* A queue, and the records in it.
LEMMA MapIs ==
  ASSUME NEW q \in Seq(Datas), NEW h \in [Datas -> Records]
  PROVE  LET m == [i \in DOMAIN q |-> h[q[i]]]
         IN  m \in Seq(Records) /\ Len(m) = Len(q) /\ \A i \in 1 .. Len(q) : m[i] = h[q[i]]
<1>1. Len(q) \in Nat /\ DOMAIN q = 1 .. Len(q) /\ \A i \in 1 .. Len(q) : q[i] \in Datas
  OBVIOUS
<1>2. [i \in DOMAIN q |-> h[q[i]]] = [i \in 1 .. Len(q) |-> h[q[i]]]
  BY <1>1
<1> QED
  BY <1>1, <1>2

\* What is owed is what the queue holds.
LEMMA OwedIs ==
  ASSUME Types
  PROVE  /\ Owed \in Seq(Records) /\ Len(Owed) = Len(InQueue)
         /\ \A i \in 1 .. Len(InQueue) : Owed[i] = data[InQueue[i]]
BY QueueIs, MapIs DEF Types, TypeOK, Owed

\* A sequence and the same one with something behind it.
LEMMA FrontIs ==
  ASSUME NEW S, NEW s \in Seq(S), NEW r, \A i \in 1 .. Len(s) : r[i] = s[i] /\ r[i] \in S
  PROVE  SubSeq(r, 1, Len(s)) = s
<1> DEFINE n == Len(s)
<1>1. n \in Nat /\ \A i \in 1 .. n : r[i] = s[i] /\ r[i] \in S
  OBVIOUS
<1> HIDE DEF n
<1>2. /\ SubSeq(r, 1, n) \in Seq(S)
      /\ Len(SubSeq(r, 1, n)) = IF 1 <= n THEN n - 1 + 1 ELSE 0
      /\ \A i \in 1 .. n - 1 + 1 : SubSeq(r, 1, n)[i] = r[1 + i - 1]
  BY <1>1, SubSeqProperties
<1>3. n - 1 + 1 = n /\ n = IF 1 <= n THEN n - 1 + 1 ELSE 0
  BY <1>1
<1>4. \A i \in 1 .. n : SubSeq(r, 1, n)[i] = s[i]
  <2> TAKE i \in 1 .. n
  <2>1. 1 + i - 1 = i /\ i \in 1 .. n - 1 + 1
    BY <1>1
  <2> QED
    BY <1>1, <1>2, <2>1
<1>5. Len(SubSeq(r, 1, n)) = n
  BY <1>2, <1>3
<1> QED
  BY <1>2, <1>4, <1>5, SeqEqual DEF n

\* The file with one record more.
LEMMA AppendIsLonger ==
  ASSUME NEW s \in Seq(Records), NEW r \in Records
  PROVE  /\ Len(Append(s, r)) = Len(s) + 1 /\ Append(s, r)[Len(Append(s, r))] = r
         /\ SubSeq(Append(s, r), 1, Len(s)) = s
<1>1. /\ Len(Append(s, r)) = Len(s) + 1 /\ Append(s, r)[Len(Append(s, r))] = r
      /\ \A i \in 1 .. Len(s) : Append(s, r)[i] = s[i] /\ Append(s, r)[i] \in Records
  OBVIOUS
<1> QED
  BY <1>1, FrontIs

\* enqueue accepts.
LEMMA EnqueueOwed ==
  ASSUME Types, BuildOK, NEW t \in Processes, enqueue(t)
  PROVE  Len(Owed') = Len(Owed) + 1 /\ SubSeq(Owed', 1, Len(Owed)) = Owed
<1>1. /\ InQueue \in Seq(Datas) /\ mine[t] \in Datas /\ data' = data
      /\ InQueue' = Append(InQueue, mine[t])
  BY QueueIs, EnqueueQueue
<1>0. InQueue' \in Seq(Datas) /\ data' \in [Datas -> Records]
  BY <1>1 DEF Types, TypeOK
<1>2. /\ Len(InQueue') = Len(InQueue) + 1 /\ Len(InQueue) \in Nat
      /\ \A i \in 1 .. Len(InQueue) : InQueue'[i] = InQueue[i]
  BY <1>1
<1>3. Owed \in Seq(Records) /\ Len(Owed) = Len(InQueue) /\ \A i \in 1 .. Len(InQueue) : Owed[i] = data[InQueue[i]]
  BY OwedIs
<1>4. Owed' \in Seq(Records) /\ Len(Owed') = Len(InQueue') /\ \A i \in 1 .. Len(InQueue') : Owed'[i] = data'[InQueue'[i]]
  BY <1>0, MapIs DEF Owed
<1>5. /\ Len(Owed) \in Nat /\ Len(Owed') = Len(Owed) + 1
      /\ \A i \in 1 .. Len(Owed) : Owed'[i] = Owed[i] /\ Owed'[i] \in Records
  BY <1>1, <1>2, <1>3, <1>4
<1>6. SubSeq(Owed', 1, Len(Owed)) = Owed
  BY ONLY <1>3, <1>5, FrontIs
<1> QED
  BY <1>5, <1>6

\* What run() has handled is no longer owed.
LEMMA HandleOwed ==
  ASSUME Types, handleHotChange \/ handleLogr
  PROVE  Owed # <<>> /\ Head(Owed) = data[mine[Logger]] /\ Owed' = Tail(Owed)
<1>1. /\ InQueue \in Seq(Datas) /\ InQueue # <<>> /\ Head(InQueue) = mine[Logger]
      /\ InQueue' = Tail(InQueue) /\ data' = data
  BY QueueIs, HandleQueue
<1>0. InQueue' \in Seq(Datas) /\ data' \in [Datas -> Records]
  BY <1>1 DEF Types, TypeOK
<1>2. /\ Len(InQueue) \in Nat \ {0} /\ Len(InQueue') = Len(InQueue) - 1 /\ InQueue[1] = mine[Logger]
      /\ \A i \in 1 .. Len(InQueue) - 1 : InQueue'[i] = InQueue[i + 1]
  BY <1>1
<1>3. Owed \in Seq(Records) /\ Len(Owed) = Len(InQueue) /\ \A i \in 1 .. Len(InQueue) : Owed[i] = data[InQueue[i]]
  BY OwedIs
<1>4. Owed' \in Seq(Records) /\ Len(Owed') = Len(InQueue') /\ \A i \in 1 .. Len(InQueue') : Owed'[i] = data'[InQueue'[i]]
  BY <1>0, MapIs DEF Owed
<1>5. /\ Len(Owed) \in Nat \ {0} /\ Len(Owed') = Len(Owed) - 1 /\ Owed[1] = data[mine[Logger]]
      /\ \A i \in 1 .. Len(Owed) - 1 : Owed'[i] = Owed[i + 1]
  <2>1. Len(Owed) \in Nat \ {0} /\ Len(Owed') = Len(Owed) - 1 /\ Owed[1] = data[mine[Logger]]
    BY <1>2, <1>3, <1>4
  <2>2. ASSUME NEW i \in 1 .. Len(Owed) - 1
        PROVE  Owed'[i] = Owed[i + 1]
    <3>1. i \in 1 .. Len(InQueue') /\ i \in 1 .. Len(InQueue) - 1 /\ i + 1 \in 1 .. Len(InQueue)
      BY <1>2, <1>3
    <3> QED
      BY <1>1, <1>2, <1>3, <1>4, <3>1, SMTT(20)
  <2> QED
    BY <2>1, <2>2
<1>6. Owed # <<>> /\ Head(Owed) = Owed[1] /\ Tail(Owed) \in Seq(Records) /\ Len(Tail(Owed)) = Len(Owed) - 1
      /\ \A i \in 1 .. Len(Owed) - 1 : Tail(Owed)[i] = Owed[i + 1]
  BY <1>3, <1>5
<1>7. Owed' = Tail(Owed)
  BY ONLY <1>4, <1>5, <1>6, SeqEqual
<1> QED
  BY <1>5, <1>6, <1>7

\* A record that is given to the file in its turn is written or lost there.
LEMMA StoredServes ==
  ASSUME Types, NEW record \in Records, Stored(record), Service!Turn(record),
         OutputOn, OutputOn' \in BOOLEAN
  PROVE  Service!LSNext
<1>1. CASE file' = Append(file, record) /\ UNCHANGED refused
  <2>1. /\ Len(file') = Len(file) + 1 /\ SubSeq(file', 1, Len(file)) = file
        /\ file'[Len(file')] = record
    BY <1>1, AppendIsLonger DEF Types, TypeOK
  <2>2. Service!Write
    BY <1>1, <2>1 DEF Service!Write, Service!OneMore
  <2> QED
    BY <2>2 DEF Service!LSNext
<1>2. CASE Len(refused) < MaxLost /\ refused' = Append(refused, record) /\ UNCHANGED file
  <2>1. /\ Len(refused') = Len(refused) + 1 /\ SubSeq(refused', 1, Len(refused)) = refused
        /\ refused'[Len(refused')] = record
    BY <1>2, AppendIsLonger DEF Types, TypeOK
  <2>2. Service!Lose
    BY <1>2, <2>1 DEF Service!Lose, Service!OneMore
  <2> QED
    BY <2>2 DEF Service!LSNext
<1> QED
  BY <1>1, <1>2 DEF Stored

\* Every call is a step of LogService, or none.
LEMMA CallServes ==
  ASSUME IInv, NEW t \in Processes, Logs(t) \/ Sets(t)
  PROVE  [Service!LSNext]_(Service!lsVars)
<1> USE Parts DEF Service!LSNext, Service!lsVars
<1>1. CASE enqueue(t)
  <2>1. UNCHANGED <<file, refused, enabled, outfile>>
    BY <1>1 DEF enqueue, flags
  <2>2. \A u \in Processes : At(u, "write")' <=> At(u, "write")
    BY <1>1 DEF enqueue, At, Goto, Back, Types, TypeOK
  <2>3. OutputOn' = OutputOn
    BY <2>1, <2>2 DEF OutputOn
  <2>4. Service!Accept
    BY <1>1, <2>1, <2>3, EnqueueOwed DEF Service!Accept, Service!OneMore
  <2> QED
    BY <2>4
<1>2. CASE writeLogr(t)
  <2>1. OutputOn = TRUE /\ OutputOn' \in BOOLEAN
    BY <1>2 DEF writeLogr, OutputOn
  <2>2. UNCHANGED Owed /\ Owed = <<>>
    <3>1. ~enqueue(t)
      BY <1>2 DEF writeLogr, enqueue, At
    <3>2. synchronous /\ Len(InQueue) = 0
      BY <1>2, QueueIs DEF writeLogr, At, AtFile, BuildOK
    <3> QED
      BY <3>1, <3>2, CallQueue, OwedIs
  <2>3. CASE handle
    <3>1. data[mine[t]] \in Records /\ Stored(data[mine[t]])
      BY <1>2, <2>3 DEF writeLogr, At, Types, TypeOK, Holding, Carrying
    <3> QED
      BY <2>1, <2>2, <3>1, StoredServes DEF Service!Turn
  <2>4. CASE ~handle
    <3>1. UNCHANGED <<file, refused>>
      BY <1>2, <2>4 DEF writeLogr
    <3> QED
      BY <2>2, <3>1 DEF Service!Switch
  <2> QED
    BY <2>3, <2>4
<1>3. CASE ~enqueue(t) /\ ~writeLogr(t)
  <2>1. UNCHANGED <<file, refused>>
    BY <1>3 DEF Logs, Sets, prePushLogr, makeLogrData, newLogrData, reuseLogrData, freeLogrData,
       keepLogrData, pushLogr, openLogrger, closeLogrger, enableLogrger, hotChange, Made, output
  <2>2. Owed' = Owed
    BY <1>3, CallQueue
  <2> QED
    BY <2>1, <2>2 DEF Service!Switch
<1> QED
  BY <1>1, <1>2, <1>3

\* So is every step of run().
LEMMA RunServes ==
  ASSUME IInv, Manages \/ Runs
  PROVE  [Service!LSNext]_(Service!lsVars)
<1> USE Parts DEF Service!LSNext, Service!lsVars
<1>1. CASE handleHotChange \/ handleLogr
  <2>1. Owed # <<>> /\ Head(Owed) = data[mine[Logger]] /\ Owed' = Tail(Owed) /\ data[mine[Logger]] \in Records
    <3>1. data[mine[Logger]] \in Records
      BY <1>1, HandleQueue DEF At, Types, TypeOK, Holding, Carrying, Processes
    <3> QED
      BY <1>1, <3>1, HandleOwed
  <2>2. \A u \in Processes : ~At(u, "write") /\ ~At(u, "write")'
    BY <1>1, HandleQueue, RunKeeps DEF At, AtFile, BuildOK, Runs
  <2>3. CASE OutputOn' = FALSE /\ UNCHANGED <<file, refused>>
    BY <2>1, <2>3 DEF Service!Skip
  <2>4. CASE handleHotChange
    <3>1. OutputOn' = FALSE /\ UNCHANGED <<file, refused>>
      BY <2>2, <2>4 DEF handleHotChange, OutputOn
    <3> QED
      BY <2>3, <3>1
  <2>5. CASE handleLogr /\ Opens(TRUE) /\ Stored(data[mine[Logger]])
    <3>1. OutputOn = TRUE /\ OutputOn' \in BOOLEAN
      BY <2>5 DEF Opens, OutputOn
    <3>2. Head(Owed) \notin SwitchOffs
      BY <2>1, <2>5 DEF handleLogr, SwitchOffs
    <3>3. Service!Turn(data[mine[Logger]])
      BY <2>1, <3>2 DEF Service!Turn
    <3> QED
      BY <2>1, <2>5, <3>1, <3>3, StoredServes
  <2>6. CASE handleLogr /\ ~(enabled' /\ outfile') /\ UNCHANGED <<file, refused>>
    BY <2>2, <2>3, <2>6 DEF OutputOn
  <2> QED
    <3>1. CASE handleLogr
      <4>1. CASE Opens(FALSE) /\ UNCHANGED <<file, refused>>
        BY <2>6, <3>1, <4>1 DEF Opens
      <4>2. CASE ~(enabled /\ outfile) /\ UNCHANGED <<enabled, outfile, file, refused>>
        BY <2>6, <3>1, <4>2
      <4> QED
        BY <2>5, <3>1, <4>1, <4>2 DEF handleLogr
    <3> QED
      BY <1>1, <2>4, <3>1
<1>2. CASE ~handleHotChange /\ ~handleLogr
  <2>1. UNCHANGED <<file, refused>>
    BY <1>2 DEF Manages, Runs, start, startFails, started, stop, wait, run, post, popLogr,
       drained, flush, closeStale, delay, quit, output
  <2>2. Owed' = Owed
    BY <1>2, PopQueue, RunQueue
  <2> QED
    BY <2>1, <2>2 DEF Service!Switch
<1> QED
  BY <1>1, <1>2

(***************************************************************************)
(* What is in the file is what was accepted, in that order: LogrManager    *)
(* implements LogService, in a synchronous build and in the other.         *)
(***************************************************************************)
THEOREM LogServed == Spec => ServesLog
<1>1. Init => Service!LSInit
  <2> SUFFICES ASSUME Init
               PROVE  Service!LSInit
    OBVIOUS
  <2>1. InQueue = <<>>
    BY InitInvariant, Parts, QueueIs DEF Init, At, Processes
  <2>2. Owed = <<>>
    BY <2>1 DEF Owed
  <2>3. OutputOn = TRUE
    BY DEF Init, OutputOn
  <2> QED
    BY <2>2, <2>3 DEF Init, Service!LSInit
<1>2. IInv /\ [Next]_vars => [Service!LSNext]_(Service!lsVars)
  <2> SUFFICES ASSUME IInv, [Next]_vars
               PROVE  [Service!LSNext]_(Service!lsVars)
    OBVIOUS
  <2>1. CASE UNCHANGED vars
    BY <2>1 DEF vars, flags, memory, counters, output, Service!lsVars, Owed, InQueue, OutputOn, At
  <2>2. CASE \E t \in Processes : Logs(t) \/ Sets(t)
    BY <2>2, CallServes
  <2>3. CASE Manages \/ Runs
    BY <2>3, RunServes
  <2> QED
    BY <2>1, <2>2, <2>3 DEF Next, Over
<1> QED
  BY <1>1, <1>2, Invariance, PTL DEF Spec, ServesLog, Service!LSSpec

-----------------------------------------------------------------------------
(***************************************************************************)
(* The program as it is: no thread switches the logger off, and main, the  *)
(* only one that logs, has made its last call when it tells run() to end.  *)
(***************************************************************************)
MainLeaves ==
  /\ ~switchedOff
  /\ pc[Logger] \notin {"none", "run"} /\ ~running => pc[Main] \in {"joining", "exited"}

LEMMA CallMainLeaves ==
  ASSUME Setters = {}, Types, MainLeaves, ~Exited, NEW t \in Processes, Logs(t) \/ Sets(t)
  PROVE  MainLeaves'
<1>1. Logs(t) /\ Main \in Processes /\ Logger \in Processes /\ Main # Logger
  BY LogrAssumption DEF Sets, enableLogrger, hotChange, Processes
<1>2. UNCHANGED <<running, switchedOff>>
  BY <1>1 DEF Logs, prePushLogr, makeLogrData, newLogrData, reuseLogrData, Made, freeLogrData,
     keepLogrData, pushLogr, enqueue, openLogrger, writeLogr, closeLogrger, flags
<1>3. pc[t] \in Working \cup {"idle", "hello"} /\ \E state : Goto(t, state)
  BY <1>1 DEF Logs, prePushLogr, MayCall, At, Working, makeLogrData, newLogrData, reuseLogrData, Made,
     freeLogrData, keepLogrData, pushLogr, enqueue, openLogrger, writeLogr, closeLogrger
<1>4. \A u \in Processes \ {t} : pc'[u] = pc[u]
  BY <1>3 DEF Goto, Types, TypeOK
<1>5. CASE t = Main
  BY <1>1, <1>2, <1>3, <1>4, <1>5 DEF MainLeaves, Working
<1>6. CASE t # Main
  <2>1. pc[Logger] \in {"none", "run"} => t # Logger
    BY <1>3 DEF Working
  <2> QED
    BY <1>1, <1>2, <1>4, <1>6, <2>1 DEF MainLeaves
<1> QED
  BY <1>5, <1>6

LEMMA RunMainLeaves ==
  ASSUME Types, MainLeaves, ~Exited, Manages \/ Runs
  PROVE  MainLeaves'
<1> USE LogrAssumption DEF MainLeaves, At, Goto, Types, TypeOK, Places, Processes, flags
<1>1. CASE start \/ startFails \/ started
  BY <1>1 DEF start, startFails, started
<1>2. CASE stop
  BY <1>2 DEF stop
<1>3. CASE wait
  BY <1>3 DEF wait
<1>4. CASE run
  BY <1>4 DEF run
<1>5. CASE post \/ popLogr \/ drained
  BY <1>5 DEF post, popLogr, drained
<1>6. CASE handleHotChange \/ handleLogr \/ flush \/ closeStale \/ delay \/ quit
  <2>1. pc[Logger] \in {"handle", "flush", "stale", "delay", "quit"}
    BY <1>6 DEF handleHotChange, handleLogr, flush, closeStale, delay, quit
  <2>2. \E state : pc' = [pc EXCEPT ![Logger] = state]
    BY <1>6 DEF handleHotChange, handleLogr, flush, closeStale, delay, quit
  <2>3. UNCHANGED <<running, switchedOff>>
    BY <1>6 DEF handleHotChange, handleLogr, flush, closeStale, delay, quit
  <2> QED
    BY <2>1, <2>2, <2>3
<1> QED
  BY <1>1, <1>2, <1>3, <1>4, <1>5, <1>6 DEF Manages, Runs

\* If the logger is never switched off, neither main nor run() loses the
\* handle it writes to: stop does not let run() end between the two.
THEOREM MainKeepsHandle ==
  ASSUME Setters = {}
  PROVE  Spec => [](\A t \in {Main, Logger} : At(t, "write") => handle)
<1>1. Init => MainLeaves
  BY LogrAssumption DEF Init, MainLeaves, Processes
<1>2. IInv /\ MainLeaves /\ [Next]_vars => MainLeaves'
  <2> SUFFICES ASSUME IInv, MainLeaves, [Next]_vars PROVE MainLeaves'
    OBVIOUS
  <2>1. Types
    BY DEF IInv, Memory, Types
  <2>2. CASE UNCHANGED vars
    BY <2>2 DEF vars, flags, MainLeaves
  <2> QED
    BY <2>1, <2>2, CallMainLeaves, RunMainLeaves DEF Next, Over
<1>3. IInv /\ MainLeaves => \A t \in {Main, Logger} : At(t, "write") => handle
  <2> SUFFICES ASSUME IInv, MainLeaves, NEW t \in {Main, Logger}, pc[t] = "write" PROVE handle
    BY DEF At
  <2>1. t \in Processes /\ pc[Logger] # "ended"
    BY LogrAssumption DEF IInv, Control, Lifetime, MainLeaves, Processes
  <2> QED
    BY <2>1 DEF IInv, HandleLostOnlyAtEnd, MainLeaves, At
<1> QED
  BY <1>1, <1>2, <1>3, Invariance, PTL DEF Spec

\* So that in a program in which main alone logs, every record is written to
\* a file that is open.
THEOREM HandleOfMain ==
  ASSUME Setters = {}, Threads = {Main}
  PROVE  Spec => []HandleIsWriters
<1>1. Processes = {Main, Logger}
  BY DEF Processes
<1>2. (\A t \in {Main, Logger} : At(t, "write") => handle) => HandleIsWriters
  BY <1>1 DEF HandleIsWriters
<1> QED
  BY <1>2, MainKeepsHandle, PTL

-----------------------------------------------------------------------------
(***************************************************************************)
(* Who waits for whom.  Main waits in stop for run(), any thread for the   *)
(* lock, and the one that has the lock for nobody.                         *)
(***************************************************************************)
RoomForData == pool # <<>> \/ Datas # heap

\* A call of the logger may go on.
CallMay(t) ==
  \/ pc[t] \in {"push", "write", "close", "free"}
  \/ pc[t] = "make" /\ RoomForData
  \/ lock = NoThread /\ (pc[t] \in {"enqueue", "open", "keep"} \/ (pc[t] = "reuse" /\ RoomForData))

\* And run().
RunMay ==
  \/ CallMay(Logger) \/ pc[Logger] \in {"run", "handle", "flush", "stale", "delay", "quit"}
  \/ pc[Logger] = "hello" /\ calls[Logger] <= Hellos
  \/ pc[Logger] = "pop" /\ lock = NoThread

LockMay == lock \in Processes /\ pc[lock] \in {"write", "close"}

NobodyIsStuck ==
  Datas # heap =>
    /\ \A t \in Threads : pc[t] \in Working => CallMay(t) \/ LockMay
    /\ pc[Logger] \notin {"none", "ended"} => RunMay \/ LockMay
    /\ pc[Main] = "joining" => pc[Logger] # "none"

JoinsRun ==
  /\ pc[Main] = "joining" => pc[Logger] \notin {"none", "run"}
  /\ calls[Logger] <= Hellos

LEMMA CallJoinsRun ==
  ASSUME Types, JoinsRun, NEW t \in Processes, Logs(t) \/ Sets(t)
  PROVE  JoinsRun'
<1>1. Main \in Processes /\ Logger \in Processes /\ Main # Logger
  BY LogrAssumption DEF Processes
<1>2. \/ UNCHANGED pc
      \/ /\ pc[t] \in Working \cup {"idle", "hello"}
         /\ \E state \in Working \cup {"idle", "hello", "pop"} : Goto(t, state)
  BY DEF Logs, Sets, Back, prePushLogr, MayCall, At, Working, makeLogrData, newLogrData, reuseLogrData, Made,
     freeLogrData, keepLogrData, pushLogr, enqueue, openLogrger, writeLogr, closeLogrger, enableLogrger, hotChange
<1>3. pc'[Main] = "joining" => pc[Main] = "joining" /\ pc'[Logger] \notin {"none", "run"}
  BY <1>1, <1>2 DEF JoinsRun, Goto, Types, TypeOK, Working
<1>4. calls'[Logger] <= Hellos
  <2>1. CASE UNCHANGED calls
    BY <2>1 DEF JoinsRun
  <2>2. CASE prePushLogr(t)
    <3>1. calls' = [calls EXCEPT ![t] = @ + 1] /\ calls \in [Processes -> Nat]
      BY <2>2 DEF prePushLogr, Types, TypeOK
    <3>2. CASE t = Logger
      <4>1. pc[Logger] # "idle"
        BY DEF Types, Places, LoggerStates, Working
      <4>2. calls[Logger] < Hellos /\ calls[Logger] \in Nat
        BY <1>1, <2>2, <3>1, <3>2, <4>1 DEF prePushLogr, MayCall, At
      <4> QED
        BY <1>1, <3>1, <3>2, <4>2 DEF Hellos
    <3> QED
      BY <1>1, <3>1, <3>2 DEF JoinsRun
  <2>3. CASE enableLogrger(t) \/ hotChange(t)
    BY <1>1, <2>3, LogrAssumption DEF JoinsRun, enableLogrger, hotChange, Types, TypeOK
  <2> QED
    BY <2>1, <2>2, <2>3 DEF Logs, Sets, makeLogrData, newLogrData, reuseLogrData, Made, freeLogrData,
       keepLogrData, pushLogr, enqueue, openLogrger, writeLogr, closeLogrger
<1> QED
  BY <1>3, <1>4 DEF JoinsRun

LEMMA RunJoinsRun ==
  ASSUME Types, Lifetime, JoinsRun, Manages \/ Runs
  PROVE  JoinsRun'
<1>1. Main \in Processes /\ Logger \in Processes /\ Main # Logger /\ pc \in [Processes -> ThreadStates \cup LoggerStates]
  BY LogrAssumption DEF Processes, Types, TypeOK
<1>2. UNCHANGED calls
  BY DEF Manages, Runs, start, startFails, started, stop, wait, run, post, popLogr, drained,
     handleHotChange, handleLogr, flush, closeStale, delay, quit
<1>3. CASE start \/ startFails \/ started \/ wait
  BY <1>1, <1>2, <1>3 DEF JoinsRun, start, startFails, started, wait, At, Goto
<1>4. CASE stop
  BY <1>1, <1>2, <1>4 DEF JoinsRun, Lifetime, stop, At, Goto
<1>5. CASE Runs
  <2>1. \E state \in LoggerStates \ {"none", "run"} : Goto(Logger, state)
    BY <1>5 DEF Runs, run, post, popLogr, drained, handleHotChange, handleLogr, flush, closeStale,
       delay, quit, LoggerStates, Working
  <2> QED
    BY <1>1, <1>2, <2>1 DEF JoinsRun, Goto
<1> QED
  BY <1>3, <1>4, <1>5 DEF Manages

\* As long as there is memory, no call of the logger, nor run(), nor stop
\* waits for ever for another thread that waits.
THEOREM NobodyStuck == Spec => []NobodyIsStuck
<1>1. Init => JoinsRun
  BY LogrAssumption DEF Init, JoinsRun, Processes, Hellos
<1>2. IInv /\ JoinsRun /\ [Next]_vars => JoinsRun'
  <2> SUFFICES ASSUME IInv, JoinsRun, [Next]_vars PROVE JoinsRun'
    OBVIOUS
  <2>1. Types /\ Lifetime
    BY DEF IInv, Memory, Types, Control
  <2>2. CASE UNCHANGED vars
    BY <2>2 DEF vars, JoinsRun
  <2> QED
    BY <2>1, <2>2, CallJoinsRun, RunJoinsRun DEF Next, Over
<1>3. IInv /\ JoinsRun => NobodyIsStuck
  <2> SUFFICES ASSUME IInv, JoinsRun, Datas # heap PROVE NobodyIsStuck
    BY DEF NobodyIsStuck
  <2>1. lock = NoThread \/ LockMay
    BY DEF IInv, Memory, TypeOK, Control, Locking, LockMay
  <2>2. ASSUME NEW t \in Processes, pc[t] \in Working PROVE CallMay(t) \/ LockMay
    BY <2>1, <2>2 DEF CallMay, RoomForData, Working
  <2>3. pc[Logger] \in LoggerStates
    BY DEF IInv, Memory, Places
  <2>4. pc[Logger] \notin {"none", "ended"} => RunMay \/ LockMay
    <3>1. Logger \in Processes
      BY DEF Processes
    <3>2. CASE pc[Logger] \in Working
      BY <2>2, <3>1, <3>2 DEF RunMay
    <3> QED
      BY <2>1, <2>3, <3>2 DEF RunMay, JoinsRun, LoggerStates
  <2> QED
    BY <2>2, <2>4 DEF NobodyIsStuck, JoinsRun, Processes
<1> QED
  BY <1>1, <1>2, <1>3, Invariance, PTL DEF Spec

=============================================================================
