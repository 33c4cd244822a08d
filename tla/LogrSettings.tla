----------------------------- MODULE LogrSettings -----------------------------
(***************************************************************************)
(* The loggers of LogrerManager and their settings: createLogrger, config, *)
(* updateConfig and the set functions, called from main before start and   *)
(* afterwards from any thread, and the queue in which most settings wait   *)
(* for run().                                                              *)
(*                                                                         *)
(* A step is one set function, so that those of two threads, and the ones  *)
(* a configuration file leads to, come in any order.  What a file says is  *)
(* a function from keys to settings; LogrConfig is about how it is read.   *)
(***************************************************************************)
EXTENDS Integers, Sequences, FiniteSets

CONSTANTS
  KeyOrder,     \* all keys, in the order of std::map
  Paths,        \* the paths that are set
  Contents,     \* what the configuration file may contain
  Says,         \* what each content says, by key
  Sum,          \* the sum of its bytes
  NoFile,       \* there is no such file
  Threads,      \* threads of the program other than main and run()
  UserCalls,    \* the settings they change: key, name and value
  Updaters,     \* the threads that call updateConfig
  MaxLogrgers,  \* LOGR4Z_LOGRGER_MAX
  Unlimited,    \* (unsigned int)-1
  AutoUpdate,   \* setAutoUpdate was called
  Synchronous,  \* LOGR4Z_ALL_SYNCHRONOUS_OUTPUT
  MaxCalls,     \* bound: the calls of a thread
  MaxEdits      \* bound: how often the file changes

MainKey == "Main"
Keys == {KeyOrder[i] : i \in DOMAIN KeyOrder}

Settings == [enable : BOOLEAN, path : Paths, level : Nat, outfile : BOOLEAN, limitsize : Nat]

\* display, monthdir and fileline are set like outfile, name is like path.
Default == [enable |-> FALSE, path |-> "./logr/", level |-> 1, outfile |-> TRUE, limitsize |-> 100]

\* The keys of a map are different; a set function takes values of a type.
ASSUME SettingsAssumption ==
  /\ KeyOrder \in Seq(STRING)
  /\ \A i, j \in DOMAIN KeyOrder : KeyOrder[i] = KeyOrder[j] => i = j
  /\ MainKey \in Keys /\ MaxLogrgers \in Nat \ {0}
  /\ Default.path \in Paths
  /\ \A u \in UserCalls : u.name \in DOMAIN Default /\ [Default EXCEPT ![u.name] = u.value] \in Settings
  /\ NoFile \notin Contents
  /\ \A c \in Contents : DOMAIN Says[c] \subseteq Keys /\ \A k \in DOMAIN Says[c] : Says[c][k] \in Settings
  /\ Sum \in [Contents -> Nat]
  /\ Updaters \subseteq Threads
  /\ Unlimited \in Nat \ {0}
  /\ {AutoUpdate, Synchronous} \subseteq BOOLEAN
  /\ {MaxCalls, MaxEdits} \subseteq Nat

Main == "main"
Logger == "run"
ASSUME SettingsThreads == {Main, Logger} \cap Threads = {}
Processes == Threads \cup {Main, Logger}

VARIABLES
  running,    \* _runing
  pc,         \* where run() is
  ids,        \* _ids
  lastId,     \* _lastId
  info,       \* the settings in _logrgers
  logrs,      \* the settings that wait in the queue
  checksum,   \* _checksum
  configFile, \* _configFile is not empty
  file,       \* the content of that file
  todo,       \* the set functions each process still has to call for a file
  calls,      \* calls so far
  edits,      \* changes of the file so far
  loaded,     \* the content that was parsed last (history)
  wanted      \* what was asked for last (history)

vars == <<running, pc, ids, lastId, info, logrs, checksum, configFile, file, todo, calls, edits, loaded, wanted>>

Init ==
  /\ running = FALSE /\ pc = "none"
  /\ ids = [k \in {MainKey} |-> 0] /\ lastId = 0
  /\ info = [id \in 0 .. MaxLogrgers - 1 |-> [Default EXCEPT !.enable = (id = 0)]]
  /\ wanted = info
  /\ logrs = <<>>
  /\ checksum = 0 /\ configFile = FALSE
  /\ file \in Contents \cup {NoFile}
  /\ todo = [p \in Processes |-> <<>>]
  /\ calls = [p \in Processes |-> 0] /\ edits = 0
  /\ loaded = NoFile

-----------------------------------------------------------------------------
Setting(id, name, value) == [id |-> id, name |-> name, value |-> value]

onHotChange(s) == info' = [info EXCEPT ![s.id][s.name] = s.value]

\* Faulty variant: the file output is switched on at once as well.
ImmediateAlsoOutfile(s) ==
  \/ s.name \in {"enable", "outfile"} /\ s.value
  \/ s.name = "level" /\ s.value <= info[s.id].level
  \/ ~running \/ Synchronous

\* What takes effect at once: switching on, lowering the level, and, in
\* hotChange, everything while run() is not there or not needed.
Immediate(s) ==
  \/ s.name = "enable" /\ s.value
  \/ s.name = "level" /\ s.value <= info[s.id].level
  \/ ~running \/ Synchronous

\* setLogrgerLimitsize and setLogrgerPath look at the value first.
Accepted(s) == ~(s.name = "path" /\ s.value = "")
Effective(s) == IF s.name = "limitsize" /\ s.value = 0 THEN [s EXCEPT !.value = Unlimited] ELSE s

\* One set function.
Set(call) ==
  LET s == Effective(call) IN
    /\ \/ /\ Accepted(s) /\ Immediate(s)
          /\ onHotChange(s)
          /\ UNCHANGED logrs
       \/ /\ Accepted(s) /\ ~Immediate(s)
          /\ logrs' = Append(logrs, s)
          /\ UNCHANGED info
       \/ ~Accepted(s) /\ UNCHANGED <<info, logrs>>
    /\ wanted' = IF Accepted(s) THEN [wanted EXCEPT ![s.id][s.name] = s.value] ELSE wanted

-----------------------------------------------------------------------------
\* Pieces, one for each key, put together in the order of the map.
Along(piece) ==
  LET upto[n \in 0 .. Len(KeyOrder)] == IF n = 0 THEN <<>> ELSE upto[n - 1] \o piece[n]
  IN  upto[Len(KeyOrder)]

\* The keys among ks.
Ordered(ks) == Along([n \in DOMAIN KeyOrder |-> IF KeyOrder[n] \in ks THEN <<KeyOrder[n]>> ELSE <<>>])

\* The set functions a section leads to, in the order of the code.
SetsOf(id, s) ==
  <<Setting(id, "enable", s.enable), Setting(id, "path", s.path), Setting(id, "level", s.level),
    Setting(id, "outfile", s.outfile), Setting(id, "limitsize", s.limitsize)>>

SetsOfAll(known, says) ==
  Along([n \in DOMAIN KeyOrder |->
           LET k == KeyOrder[n]
           IN  IF k \in DOMAIN says \cap DOMAIN known THEN SetsOf(known[k], says[k]) ELSE <<>>])

\* Faulty variant: one logger too many.
CreatedOneMore(ks) ==
  LET new == Ordered(ks \ DOMAIN ids)
      room == IF lastId + Len(new) > MaxLogrgers THEN MaxLogrgers - lastId ELSE Len(new)
  IN  [k \in DOMAIN ids \cup {new[i] : i \in 1 .. room} |->
         IF k \in DOMAIN ids THEN ids[k] ELSE lastId + CHOOSE i \in 1 .. room : new[i] = k]

\* createLogrger for each of ks that is new, while there is room.
Created(ks) ==
  LET new == Ordered(ks \ DOMAIN ids)
      room == IF lastId + Len(new) >= MaxLogrgers THEN MaxLogrgers - 1 - lastId ELSE Len(new)
  IN  [k \in DOMAIN ids \cup {new[i] : i \in 1 .. room} |->
         IF k \in DOMAIN ids THEN ids[k] ELSE lastId + CHOOSE i \in 1 .. room : new[i] = k]

createLogrgers(ks) ==
  /\ ids' = Created(ks)
  /\ lastId' = Cardinality(DOMAIN ids') - 1

\* A new logger is switched on.
SwitchedOn(settings) ==
  [id \in DOMAIN settings |-> IF id > lastId /\ id <= lastId' THEN [settings[id] EXCEPT !.enable = TRUE] ELSE settings[id]]

\* Faulty variant: a key that is not known ends the loop.
configFromStringImplStops(p, c, isUpdate) ==
  /\ Sum[c] # checksum
  /\ checksum' = Sum[c] /\ loaded' = c
  /\ IF isUpdate THEN UNCHANGED <<ids, lastId>> ELSE createLogrgers(DOMAIN Says[c])
  /\ info' = SwitchedOn(info) /\ wanted' = SwitchedOn(wanted)
  /\ todo' = [todo EXCEPT ![p] = IF DOMAIN Says[c] \subseteq DOMAIN ids' THEN SetsOfAll(ids', Says[c]) ELSE <<>>]

\* Content that sums up to the same as the last is taken for loaded; an
\* update leaves out the loggers it does not know.
configFromStringImpl(p, c, isUpdate) ==
  /\ Sum[c] # checksum
  /\ checksum' = Sum[c] /\ loaded' = c
  /\ IF isUpdate THEN UNCHANGED <<ids, lastId>> ELSE createLogrgers(DOMAIN Says[c])
  /\ info' = SwitchedOn(info) /\ wanted' = SwitchedOn(wanted)
  /\ todo' = [todo EXCEPT ![p] = SetsOfAll(ids', Says[c])]

AlreadyLoaded(c) == c \in Contents => Sum[c] = checksum

-----------------------------------------------------------------------------
Preparing == pc = "none" /\ todo[Main] = <<>>

createLogrger ==
  /\ Preparing
  /\ \E k \in Keys : createLogrgers({k})
  /\ info' = SwitchedOn(info) /\ wanted' = SwitchedOn(wanted)
  /\ UNCHANGED <<running, pc, logrs, checksum, configFile, file, todo, calls, edits, loaded>>

\* Only the first call of config counts, also when there is no such file.
config ==
  /\ Preparing /\ ~configFile
  /\ configFile' = TRUE
  /\ \/ file # NoFile /\ configFromStringImpl(Main, file, FALSE)
     \/ AlreadyLoaded(file) /\ UNCHANGED <<checksum, loaded, ids, lastId, info, wanted, todo>>
  /\ UNCHANGED <<running, pc, logrs, file, calls, edits>>

configFromString ==
  /\ Preparing
  /\ \E c \in Contents : configFromStringImpl(Main, c, FALSE)
  /\ UNCHANGED <<running, pc, logrs, configFile, file, calls, edits>>

\* The next set function for the file that p has read.
apply(p) ==
  /\ todo[p] # <<>>
  /\ Set(Head(todo[p]))
  /\ todo' = [todo EXCEPT ![p] = Tail(@)]
  /\ UNCHANGED <<running, pc, ids, lastId, checksum, configFile, file, calls, edits, loaded>>

start ==
  /\ Preparing
  /\ running' = TRUE /\ pc' = "drain"
  /\ UNCHANGED <<ids, lastId, info, logrs, checksum, configFile, file, todo, calls, edits, loaded, wanted>>

stop ==
  /\ running
  /\ running' = FALSE
  /\ UNCHANGED <<pc, ids, lastId, info, logrs, checksum, configFile, file, todo, calls, edits, loaded, wanted>>

-----------------------------------------------------------------------------
Idle(t) == pc # "none" /\ todo[t] = <<>> /\ calls[t] < MaxCalls
Counted(t) == calls' = [calls EXCEPT ![t] = @ + 1]

\* A set function called by the program.
setLogrger(t) ==
  /\ Idle(t) /\ Counted(t)
  /\ \E call \in UserCalls :
       /\ call.key \in DOMAIN ids
       /\ Set(Setting(ids[call.key], call.name, call.value))
  /\ UNCHANGED <<running, pc, ids, lastId, checksum, configFile, file, todo, edits, loaded>>

\* Faulty variant: a file that is missing is given up.
updateConfigGivesUp(p) ==
  /\ configFile' = (configFile /\ file # NoFile)
  /\ \/ configFile /\ file # NoFile /\ configFromStringImpl(p, file, TRUE)
     \/ /\ ~configFile \/ AlreadyLoaded(file)
        /\ UNCHANGED <<checksum, loaded, ids, lastId, info, wanted, todo>>

\* A file that is missing is tried again the next time.
updateConfig(p) ==
  /\ UNCHANGED configFile
  /\ \/ configFile /\ file # NoFile /\ configFromStringImpl(p, file, TRUE)
     \/ /\ ~configFile \/ AlreadyLoaded(file)
        /\ UNCHANGED <<checksum, loaded, ids, lastId, info, wanted, todo>>

callUpdateConfig(t) ==
  /\ t \in Updaters /\ Idle(t) /\ Counted(t)
  /\ updateConfig(t)
  /\ UNCHANGED <<running, pc, logrs, file, edits>>

popLogr ==
  /\ pc = "drain" /\ logrs # <<>>
  /\ onHotChange(Head(logrs))
  /\ logrs' = Tail(logrs)
  /\ UNCHANGED <<running, pc, ids, lastId, checksum, configFile, file, todo, calls, edits, loaded, wanted>>

drained ==
  /\ pc = "drain" /\ logrs = <<>>
  /\ pc' = "sleep"
  /\ UNCHANGED <<running, ids, lastId, info, logrs, checksum, configFile, file, todo, calls, edits, loaded, wanted>>

\* The loop is left, and what follows it switches every logger off.
quit ==
  /\ pc = "sleep" /\ ~running /\ logrs = <<>>
  /\ pc' = "ended"
  /\ info' = [id \in DOMAIN info |-> IF id <= lastId THEN [info[id] EXCEPT !.enable = FALSE] ELSE info[id]]
  /\ UNCHANGED <<running, ids, lastId, logrs, checksum, configFile, file, todo, calls, edits, loaded, wanted>>

\* It is not time yet for an update.
goRound ==
  /\ pc = "sleep" /\ (running \/ logrs # <<>>)
  /\ pc' = "drain"
  /\ UNCHANGED <<running, ids, lastId, info, logrs, checksum, configFile, file, todo, calls, edits, loaded, wanted>>

autoUpdate ==
  /\ AutoUpdate
  /\ pc = "sleep" /\ (running \/ logrs # <<>>)
  /\ pc' = "update"
  /\ updateConfig(Logger)
  /\ UNCHANGED <<running, logrs, file, calls, edits>>

updated ==
  /\ pc = "update" /\ todo[Logger] = <<>>
  /\ pc' = "drain"
  /\ UNCHANGED <<running, ids, lastId, info, logrs, checksum, configFile, file, todo, calls, edits, loaded, wanted>>

\* Somebody edits, removes or brings back the file.
edit ==
  /\ edits < MaxEdits /\ edits' = edits + 1
  /\ file' \in (Contents \cup {NoFile}) \ {file}
  /\ UNCHANGED <<running, pc, ids, lastId, info, logrs, checksum, configFile, todo, calls, loaded, wanted>>

Runs == popLogr \/ drained \/ quit \/ goRound \/ autoUpdate \/ updated \/ apply(Logger)

Over == pc = "ended" /\ UNCHANGED vars

Next ==
  \/ createLogrger \/ config \/ configFromString \/ start \/ stop
  \/ Runs \/ edit
  \/ \E p \in Processes \ {Logger} : apply(p)
  \/ \E t \in Threads : setLogrger(t) \/ callUpdateConfig(t)
  \/ Over

Spec == Init /\ [][Next]_vars

(***************************************************************************)
(* run() goes on, and the time for an update comes round again and again.  *)
(* A thread finishes the functions it has begun.                           *)
(***************************************************************************)
FairSpec ==
  /\ Spec
  /\ WF_vars(Runs) /\ SF_vars(autoUpdate)
  /\ \A p \in Processes \ {Logger} : WF_vars(apply(p))

-----------------------------------------------------------------------------
\* Keys have numbers of their own, in the table.
TypeOK ==
  /\ running \in BOOLEAN /\ configFile \in BOOLEAN
  /\ pc \in {"none", "drain", "sleep", "update", "ended"}
  /\ lastId \in 0 .. MaxLogrgers - 1
  /\ DOMAIN ids \subseteq Keys /\ {ids[k] : k \in DOMAIN ids} = 0 .. lastId
  /\ Cardinality(DOMAIN ids) = lastId + 1
  /\ info \in [0 .. MaxLogrgers - 1 -> Settings]
  /\ \A i \in DOMAIN logrs : logrs[i].id \in 0 .. lastId
  /\ file \in Contents \cup {NoFile} /\ loaded \in Contents \cup {NoFile}
  /\ checksum \in Nat

\* The value a setting will have when the queue has been worked off.
Coming(id, name) ==
  LET waiting == {i \in DOMAIN logrs : logrs[i].id = id /\ logrs[i].name = name}
  IN  IF waiting = {} THEN info[id][name] ELSE logrs[CHOOSE i \in waiting : \A j \in waiting : j <= i].value

(***************************************************************************)
(* Of the calls for one setting, by any threads and by a configuration     *)
(* file, the last one has the last word, though it may wait in the queue   *)
(* while others are worked off; and a logger that was switched off last    *)
(* goes off.  Not so when it was switched on last, or for the level, where *)
(* a call may take effect before an earlier one that waits; nor after      *)
(* stop, when all do.                                                      *)
(***************************************************************************)
LastRequestWins ==
  running => \A id \in 0 .. lastId :
               /\ \A name \in {"path", "outfile", "limitsize"} : Coming(id, name) = wanted[id][name]
               /\ ~wanted[id].enable => ~Coming(id, "enable")

Quiet == logrs = <<>> /\ \A p \in Processes : todo[p] = <<>>

\* What a set function leads to: once run() has ended no logger is enabled.
InTheEnd(s) == IF s.name = "enable" /\ pc = "ended" THEN FALSE ELSE s.value

\* The loggers that are known have the settings c gives them.
Applied(c) ==
  \A k \in DOMAIN Says[c] \cap DOMAIN ids, name \in DOMAIN Default :
    LET s == Effective(Setting(ids[k], name, Says[c][k][name]))
    IN  Accepted(s) => info[ids[k]][name] = InTheEnd(s)

\* No thread but run() has touched the settings since start.
Undisturbed == \A t \in Threads : calls[t] = 0

\* When nothing is on its way the settings are all those of one file, the
\* one that was read last, and not a mixture with an earlier one.  They stay
\* so when run() ends, but for what it switches off itself.
FileApplied == Undisturbed /\ Quiet /\ loaded # NoFile => Applied(loaded)

\* A file that is not changed any more is followed in the end.
FileFollowed ==
  <>configFile /\ []Undisturbed =>
    \A c \in Contents : <>[](file = c /\ running) => <>[]Applied(c)

=============================================================================
