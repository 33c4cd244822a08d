# Verification of yolov5-socket

TLA+ models of the photograph-analysis server in `src/`, its client, the TCP
connections between them and its logger; the TLC configurations that check
them; and proofs, checked by TLAPS, of the safety properties for every value of
the constants.

## The system

| part | code | state | operations |
|---|---|---|---|
| server | `src/server.cpp`, `ano_detect_main.cpp` | the call `Analyse` is in, the request header, image and reply of the session, its sockets | load the model, then for ever: accept, receive header, receive image, recognise, send header, send image |
| client | `src/client.cpp`, `run_client.cpp` | the call `main` is in, its header, reply and image | connect, read the file, send header, read the file again, send image, receive header, receive image, save |
| model loading | `src/DeepNet.cpp`, `src/Recognize.cpp` | `engine640_` | `load_model` |
| registry | `RegistryFactory.h` | key to recogniser, filled before `main` | `registerRecognition`, `getRecognize` |
| recognition | `src/yolov5.cpp` | the borders and the factor of the letterbox | choose the task, letterbox, run the network, filter boxes and take them back, draw them |
| logger | `src/Logr.cpp`, `Logr.h` | running, settings, file handle, queue, pool of records, status counters, `_logrLock` | start, stop, push, pop, the thread `run()`, settings |
| logger files | `Logr.cpp` `openLogrger` | day, index and length of the file | open, rotate by day and by size |
| logger configuration | `Logr.cpp` 551-752, 1238-1314 | map of settings | parse, load, follow a file that changes |
| logger formatting | `Logr.h` `Logr4zStream` | a buffer of fixed size | `<<` |

The server serves one connection at a time in one thread; others wait in the
listen queue (20). A session is a request header (680 bytes), the pixels whose
number follows from it, a reply header, and the pixels of the reply unless
nothing was found or the request was `local`. The only other thread of the
server is the logger's.

What is hard in it: twelve ways out of a session, each with its own clean-up; TCP
returning data in any pieces; a client that dies, stops or rewrites its file; time
limits on some calls and none on others; a client that ignores all errors; requests
that end the server; a logger whose lock does not cover everything that two threads
touch; and a good many numbers that have to meet at a boundary: the end of a text
field, of a buffer, of a border, of 32 bits. `PROJECT.json` lists these hazards line
by line, with the property that watches each.

## The modules

| module | models |
|---|---|
| `Wire` | the two header structures and the registry |
| `Tcp` | connections as the two programs see them (external: the kernel) |
| `AnoServer` | the server process: one action per call `Analyse` makes, one more for each way it fails |
| `AnoClient` | the client processes, and what may happen to them from outside |
| `AnoSystem` | the two composed; fairness and the properties |
| `RequestService` | what the server promises, abstractly |
| `AnoSystemProofs` | theorems about `AnoSystem`: sockets, sessions, the abstract service |
| `AnoStreamProofs` | theorems about what its connections carry, and what stops them |
| `AnoPeerProofs` | theorems about it with the clients that are built |
| `HeaderFields` | the bytes of the two headers: what the texts copied into them leave of each other |
| `Yolov5` | the geometry of recognition: letterbox, thresholds, boxes taken back, labels |
| `LogrManager` | the logger's threads, lock, queue, pool, counters and file handle |
| `LogrManagerProofs` | theorems about `LogrManager` |
| `LogService` | what the logger promises of its file, abstractly |
| `LogrFile` | the files: names, directories, rotation by day and size, failing disks, restarts |
| `LogrFileProofs` | theorems about `LogrFile` |
| `LogrSettings` | loggers and settings: set functions, configuration files, `updateConfig`, the queue |
| `LogrSettingsProofs` | theorems about `LogrSettings` |
| `LogrConfig` | how a configuration file is read |
| `LogrRecord` | how a line is put together in its buffer |
| `LogrRecordProofs` | theorems about `LogrRecord` |
| `Conversions` | `LogrRecord`, `LogrConfig`, `HeaderFields` and `Yolov5` side by side |
| `ConversionProofs` | theorems about the last three of these |
| `MCAnoSystem`, `MCLogrManager`, `MCLogrFile`, `MCLogrSettings`, `MCConversions` | instances for TLC |

The logger is cut along its own seams. `LogrManager` has the threads and knows of
a record only whose it is; `LogrFile`, `LogrSettings` and `LogrRecord` each have the
detail of one thing that happens inside a single step of it.

Definitions whose comment starts "Faulty variant" are plausible bugs, one per
checked property; putting one in place of the definition it varies makes TLC
report the property. They are not part of any specification.

### Server, client and connections

`srv` and `cpc[c]` say which call the server and client `c` are in; the names
are those of the functions. A failed call goes where the code's early return and
`continue` lead, in the same step. Data is a length: a header is `HdrLen` units,
an image `size` units, a unit being a run of bytes that TCP delivers together.
A direction of a connection is a pair of counters (accepted by the sender's
kernel, read by the receiver), at most `Cap` apart, so that `recv` returns any
part of what is ready (`Chunk`) and `send` of an image goes as room appears.
Closing with unread data allows a reset, which may overtake data on its way.

Undefined behaviour is a choice among what the build can produce:

- A header that arrives in pieces (`HeaderSplits`) is put together with
  `recvInfo + sum`, pointer arithmetic on the structure (`server.cpp:78`,
  `client.cpp:96`). The model lets later fields hold what was in memory
  (`SplitHeader`, sizes from `JunkSizes`) or the program crash.
- `recvInfo->status` is read after `delete` (`server.cpp:282`): a local request
  stops the server or not.
- A request that names `FBGW`, the registry's own key, leaves `taskType`
  unwritten (`yolov5.cpp:271`): any task.
- A list of labels longer than `ano_res` runs into the size behind it, or off
  the stack (`server.cpp:150`).

`recv` of length 0 on an open connection waits on Linux until there is data or
the peer has closed, and then returns 0. OpenCV's `imwrite` and `cvtColor` throw
on an empty image. `cv::resize` throws on a side of 0, which the letterbox asks for
when a picture is more than 1280 times as long as wide, or the other way round
(`yolov5.cpp:9`): an image of a size in `Thin` may be such a picture, and the server
dies of it in recognition, since nothing catches the exception (`CanDetect`).

`Prompt` names clients that never let one of the 10 second limits run out. For
all others a limit may run out whenever the server waits.

### Logger

A step is what a thread does between two points at which another may get in: the
calls of `lock()`, and each unlocked read of a shared field. Critical sections that
only move pointers are one step; the synchronous write of a record is three (open,
write, close), as `run()` closes files without the lock. A `LogrData` is an address:
`heap` is what is allocated, and `pool`, `logrs` (the queue) and `mine[t]` say who
has it. Which free address `new` returns makes no difference, so the model fixes
one. `synchronous` is the build option `LOGR4Z_ALL_SYNCHRONOUS_OUTPUT`, chosen at
the start and never changed; it is true in this repository, and the other value
brings in the queue. A disk that is full takes a record only in part, or loses at
`fflush` or `fclose` what `fwrite` had put in its buffer: the code closes the file
or does not even notice, leaves the output on and goes on with the next record
(`Stored`). `promised`, the records owed to the file, and `refused`, those the disk
did not take, are history variables; `pushed` and `popped` are the two counters of
the status. Of the settings `enableLogrger` stands for all here, as the others go
through the same `hotChange` (`LogrSettings` has them). The program has one logger,
and so has this model. The program never switches a logger off and logs from `main`
and `run()` only; the runs use the class the way its header offers it, with a second
thread that logs and sets.

`LogService` is an abstract log: records are accepted, and then written in that
order or, where the output is or goes off, skipped; or lost, when the disk does not take
them, without holding up the ones behind. `LogrManager` implements it in
both builds: `owed` is what is in the queue and with `run()`, a switch-off that waits
there included, or in a synchronous build with the thread that writes; and the
output counts as on while a thread is about to write, as it has looked at the
settings before.

`LogrFile`: a step is a record (in `pushLogr` or in `run()`, as the build has it), a
change of settings, midnight, a stop or start of the program, or somebody removing
the log directories. A record is written some time after it was made, so its day may
be the day before. A file name is its directory and its index; the file system is
the set of directories, the length of each file and, as a history, the length that
the file opened last had at that moment (`opened`). `mkdir`, `fopen` and `fwrite`
may fail; a short `fwrite` leaves part of a record. `Unit` and `Width` are the 1024
* 1024 and 2^32 of the product `_limitsize * 1024 * 1024`, and that product wraps.

`LogrSettings`: a step is one set function, which either takes effect at once or
goes through the queue. A configuration file is a function from keys to settings;
applying it is a row of set functions in `todo`, between which other threads and
`run()` get in. `wanted` (what was asked for last) and `loaded` (the content that
was parsed last) are history. `Along` is a file as the row of set functions it
becomes, and `Paths` are the directories a setting may name. When `run()` ends it
switches every logger off (`quit`); `FileApplied` then asks for the rest of what the
file says (`InTheEnd`).

`LogrConfig` reads a file line by line. A line is what is left when blanks are
trimmed and letters lowered where the code does so.

`LogrRecord`: a byte is a letter that names the value it belongs to, and the
history variable `text` is the line without a limit to its length. A step is one
`<<`, or one turn of the loop in the `<<` of a container, whose elements may be
containers again (`stack`).

### Headers and images

`HeaderFields` has every byte of the structure and the code's copies in the code's
order; a byte says which text it belongs to, so that what survives where texts
overrun each other is there to see. `Yolov5` computes with integers: the floats of
the code are rationals kept exact up to the conversion to `int`, at which a whole
number may also have come out just below. What the network predicts is the place
the letterbox put a thing at, with any scores; `NMSBoxes` is external and keeps any
non-empty part of what is sure enough.

## The runs

| run | question | shows |
|---|---|---|
| `Demo` | the request of `run_client.cpp`, three clients, a queue of two | `QueuedIsAnswered`, `ServesAllRequests`; a client fails only over a photograph with nothing in it, or when one too thin to resize has brought the server down (`OnlyEmptyResultsFail`) |
| `Peers` | two clients, of which one dies and changes its file | `OnlyThinPicturesCrash`, `SocketsAccounted`, `SuccessMeansReplied`, `SavedImageIsOwn` |
| `Faults` | one client, every request, split headers, every model file | `TypeOK`, `Framing`, and nothing but two processes that wait for each other blocks a session (`OnlyMutualWaitsBlock`) |
| `Halts` | requests that end the server, and a client that stops | `ConnectedClientEnds`, `HangsOnlyInRecvImg`, and the server implements `RequestService` (`ServesRequests`) |
| `LogrThreads` | both builds, two threads and `run()`, settings, a file that may not open, a disk that may not take a record | `TypeOK`, `OneOwner`, `PoolBounded`, `PromisesKept`, `HandleLostOnlyAtEnd`, `CountersAgree`; and the logger implements `LogService` (`ServesLog`) |
| `LogrLive` | both builds, one call of each thread, a file that may not open, under fairness | `StopReturns`, `QueueMoves` |
| `LogrFile` | both builds; midnight, full files, settings, failures, restarts | `HandleIsCurrent`, `SinceOpenLimited`, `OpenFileWhole`, `OnlyDiskStops`, `ChangesWhenFull` |
| `LogrSettings` | a file that is edited, removed and brought back, and a thread that sets things itself | `TypeOK`, `FileApplied`, `LastRequestWins`, `FileFollowed` |
| `Conversions` | `LogrRecord`: buffers that end at any byte of any value | `TypeOK`, `InsideBuffer`, `LineIsText` |
| | `LogrConfig`: all files of up to four lines | `SettingsAsSaid` |
| | `HeaderFields`: texts around the ends of their fields, up to four labels | `RequestWhole`, `ReplyWhole` |
| | `Yolov5`: images of all shapes, any two predictions | `FillsNetwork`, `BoxesBack`, `LabelsAreDetected` |

The four parts in `Conversions` share nothing. A behaviour of `Conversions` picks
one of them (`part`) and is a behaviour of it, the variables of the others standing
still; a property of a part is about its own behaviours.

Three runs end in a violation, each of something the repository says:

- `ModelAbsent`: "ALL modl load successful!" (`ano_detect_main.cpp:14`) is
  printed when the model file does not exist; the first request then
  dereferences a null engine.
- `LogrHandle`: "Push logr, thread safe" (`Logr.h:187`): with a second thread,
  the end of `run()` closes the file between that thread's open and its write.
- `LogrFileSize`: "limit file's size, unit Million byte" (`Logr.cpp:283`): the
  synchronous build never counts what it writes, so its file grows without limit.

Other behaviour that the models make visible: a client that stops in the middle of
its image stops the server, as `RecvImg` has its time limit commented out; a
photograph with nothing in it makes the client throw, and one more than 1280 times
as long as wide, or the other way round, the server, which dies of it, whoever sent
it; a request for `ForeignBody` ends the server, whose 896 engine is no longer
loaded; a switch-off that comes after `stop` discards the queue; a record that a
full disk does not take is lost while the output stays on and `pushLogr` returns
true; and a switch-off that waits in the queue undoes a switch-on that came after it
and took effect at once (`LastRequestWins` says nothing of an `enable` that was last
true, nor of the level). "img already saved in demo" is printed whatever `imwrite`
returned (`saveImg`). A limit of 4096 and more wraps, and files change early:
`ChangesWhenFull` excepts those limits, and does not hold for them. Two calls of
`updateConfig` at the same time, one of them by a thread of the program, may leave a
mixture of two files (`FileApplied` is about threads that keep away), and a file
whose bytes have the sum of the one before is not loaded (`AlreadyLoaded`; the files
of the run have different sums). With synchronous output `setLogrgerPath` assigns
the string without the lock under which `openLogrger` copies it. A reply has room
for three of the longest labels, and an image with four loses its own size.

### Bounds

`Clients` (1 to 3), image sizes (0, 1, 2 units), `HdrLen` (1, or 3 where headers
split, so that they may take three pieces), `Cap` (2, or 4 with the long header: an
image and its header do not fit, so that both ends wait on each other) and the
listen queue (1 or 2: it fills up). Two clients are enough for one in hand and one
waiting; the third in `Demo` makes the queue full. A connection is one session in
the code, so a client has one. With one unit missing, an image is already
incomplete, and two pieces already make a loop go round. Junk sizes are negative,
zero, shorter and longer than the image. `Thin` is {1} in `Demo`, `Peers` and
`Faults`, so that an image of one unit may bring the server down and one of two,
which the first two runs also have, does not; it is empty in `Halts` and
`ModelAbsent`, which are about other ends of the server.

In the logger: two threads and `run()`, one or two calls of each, a pool of one (200
in the code) so that all threads meet at its limit, and as many addresses as can be
in use at once (five, or four with one call each). The disk may fail to take one
record in `LogrThreads` (`MaxLost`), and the file may fail to open there and in
`LogrLive` (`DiskFails`); whether a record is lost changes nothing for the threads.
`LogrThreads` looks at states but for which address is which (the view
`ButAddresses`), as all are alike: its properties are about states and steps, and
the view keeps a state with two owners of an address apart from the others. In
`LogrFile` a million byte is 4, 2^32 is 16 and a record 3, so that two records fill
a file of limit 1, limit 5 wraps, and the limit "none" is one unit short of
wrapping; two days are a midnight, in another month; two changes let a path be left
and come back to. In `LogrSettings` there is room for two loggers of three, so that
a file may name one too many; three files, one that says little. In `LogrRecord` the
buffer has 21 bytes and the time and level before the text 3 to 18, so that its end
falls on every byte of what may follow: containers of up to two elements nested
twice, of which one is shown (`DEPTH`, so that the dots appear). Four lines of a
configuration file are enough for a section, an attribute, the section again and
another attribute. The texts of `HeaderFields` have their real lengths, one on each
side of each end. The network of `Yolov5` is 8 by 8, for images from 1 to 20:
borders that are even, odd and none, and a side that vanishes.

`OnlyMutualWaitsBlock` has two parts. `OnlyMutualWaits` says when a session stops,
with the guards of the calls written out (`ServerMay`, `ClientMay`), and is proved; the
other part, that these are the guards of the actions, uses `ENABLED`, and is TLC's.

`CHECK_DEADLOCK FALSE` in `Peers` and `Halts`: there the system really stops,
client and server both in `recv`, which is what `OnlyMutualWaitsBlock` and
`HangsOnlyInRecvImg` are about.

### Fairness

`AnoSystem`: weak fairness of the server and of each client. The server serves in
one thread; the kernel wakes a call when there is data, room, an end or a time
limit; no process holds anything another waits for. Nothing is fair about the
outside: clients need not die, stop or change their file. `LogrManager`: weak
fairness of each thread inside a call and of `run()`, whose lock is held for
bounded times while every thread makes a bounded number of calls; `main` need not
exit. `LogrSettings`: weak fairness of `run()` and of a thread inside a function
that applies a file; strong fairness of `autoUpdate`, as the time for an update comes
round again and again but not at every turn of `run()`.

## The proofs

All hold for every value of the constants that the assumptions of the modules
allow. A theorem that assumes more says so.

### Server and clients

`AnoSystemProofs`:

- `TypeCorrect`: `Spec => []TypeOK`.
- `SocketsAlwaysAccounted`: `Spec => []SocketsAccounted`.
- `ImplementsRequestService`: `Spec => ServesRequests`, the refinement of
  `RequestService` with `queue <- backlog`, `current <- cur`, and the outcome of a
  request read off `success` and the server's sockets.
- `PresentModelIsLoaded`: `LoadedModelIsThere`, if the model file is there. The run
  `ModelAbsent` shows it false where it is not.

`IInv == Types /\ Sockets` is inductive, and neither `TypeOK` nor
`SocketsAccounted` is. A step of the server keeps its types only if the header it
works on has arrived (`HeadersKnown`, a part of `Types`), and it closes the right
socket only if the session's socket is the one that is open. `Sockets` adds to
`SocketsAccounted` that a client which has not connected has no socket on either
side, so that a connection enters the queue once; that the queue is empty before
the server listens; and that an answered client's socket is closed, so that no
request ends twice. For the refinement, accepting maps to `Begin`, connecting to
`Arrive`, every end of a session to `Finish`, a crash or stop to `Halt`, all else
to a stutter.

`AnoStreamProofs`:

- `StreamsAligned`: `Spec => []Framing`, whatever happens. `Streams` adds to `Framing`
  that a stream nobody has used yet is at its start, and that a call which starts
  to transfer finds its counter at 0.
- `SuccessIsTrue` and `OwnImageSaved`: `SuccessMeansReplied` and `SavedImageIsOwn`, if
  `Undamaged`: `recv` does not split a header, and the labels fit into `ano_res`. The
  code ensures neither, and without them both are false: a header that arrives in
  pieces has another size in it. `Letters` says how headers and images
  belong together: a request on its way is what its client announced, the server works
  on that request, and the reply announces the image that follows it.
- `OnlyMutualWaitsStop`: `Spec => []OnlyMutualWaits`. If neither the server nor the
  client of its session may go on, and the client has not stopped, then either both are
  in `recv` over a header with more pixels than follow or with none, or both are in
  `send` over a file that has grown, and no time limit runs out.
- `MutualWaitIsForEver`: the first of these two lasts, with the same client, until that
  client is killed: no timeout and no other client ends it.
- `OnlyRecvImgWaits` and `SessionsAdvance`, the safety part of `HangsOnlyInRecvImg`: in
  the session of a client that lets time limits run out, the server may go on from
  every call but `RecvImg`; and every step it takes in a session leads to a later call
  (`Stage`), or brings the count of the same call nearer to its length (`Total`). What is
  left to TLC is that a server which may go on does.

The last four rest on `Flow`: which end of a connection may be closed or dead in each
call of the server (`ServerFlow`) and of each client (`ClientFlow`), that a client which
waits in `recv` has sent all it had, and that what a call has transferred is short of
what it asks for. Without it a step of one process could not be told from a wait for
the other.

`AnoPeerProofs`, about clients as `AnoClient` is built:

- `PeersAreHarmless`: `OnlyThinPicturesCrash`, if `Undamaged` and `Usual`: clients ask for
  `GroundWater`, not `local`, under a path of at least four characters, and the model
  file is good or cannot be read. Any other request does take the server down (see
  the run `Halts`); what the clients do to the connection, and when they die, is free. The
invariant is `Up \/ ThinCrash`: the server is up and no call has a way to end it, or it
is down and the picture it died of has arrived whole.
- `OnlyEmptyFails`: `OnlyEmptyResultsFail`, if also `Calm`: no client dies or changes
  its file, none has an empty photograph and none is late. Every way a call can fail
  is then excluded by the state: `CalmClient` says that all that was announced is
  on its way or has arrived, as long as no thin picture has brought the server down.
- `NoSessionStops`: under the same conditions neither of the two waits of
  `OnlyMutualWaitsStop` happens; unless the client has stopped, one of the two processes
  of a session may always go on.

The instances of `Peers` (for the first) and `Demo` (for all three) satisfy these
conditions.

### Logger

`LogrManagerProofs`, for any threads, any pool and both builds:

- `TypesKept`, `OwnersKept`, `PoolStaysBounded`, `HandleKept`, `EveryPromiseKept`,
  `CountersKept`: `TypeOK`, `OneOwner`, `PoolBounded`, `HandleLostOnlyAtEnd`,
  `PromisesKept` and `CountersAgree`.
- `LogServed`: `Spec => ServesLog`, the refinement of `LogService`.
  `HandleKept` is about the synchronous build, the only one in which a thread opens the
  file and then writes; `run()` takes the file from it only at its end, or when the logger
  was switched off. `EveryPromiseKept` has every record that was promised in the file,
  on its way there, or among those the disk did not take.
- `MainKeepsHandle` and `HandleOfMain`: what the run `LogrHandle` shows to be false with a
  second thread holds for `main` and `run()`. If nobody switches the logger off, neither
  of them loses the handle between its open and its write, whoever else logs; if `main`
  alone logs, as in this program, that is `HandleIsWriters`. `MainLeaves` says why:
  `run()` only ends after `main` has made its last call.
- `NobodyStuck`: the logger has no deadlock. While there is memory, every call of a
  thread, and `run()`, may go on or waits for the lock, whose holder waits for nobody; and
  `stop` never waits for a `run()` that was not started. `CallMay` and `RunMay` are the
  guards of the actions written out.

No property is inductive alone. `Memory` says who may hold an address at which `pc`, and
that all of these differ; `PoolLimit` counts the threads that passed the check of
the pool's length, which is made without the lock; `Control` says what a thread that
holds the lock, and `run()` after `stop`, may rely on; `Promises` follows a record that
was accepted through the queue, together with the switch-offs before it, up to where it is
given to the file (`Settled`).

`LogrFileProofs`, for any paths, limits, units and lengths of records below the unit:

- `CurrentHandle`, `LimitKept`, `RecordsWhole`, `FileOutputStays`:
  `HandleIsCurrent`, `SinceOpenLimited`, `OpenFileWhole`, `OnlyDiskStops`.
- `FullFilesChange`: the action property `ChangesWhenFull`.

`IInv` adds to the others that the day of the open file is that of the last record
(`OpenedToday`), that the open file is as long as it was when it was opened and what
it was given since (`Disk`), from which `OpenFileWhole` follows, and that
`_curWriteLen` is what was written since the file was opened (`Counted`); that it
never wraps takes arithmetic on `limit * Unit % Width`.

- `LimitsHoldForADay`: `FilesLimited`, which the run `LogrFileSize` shows to be false in the
  synchronous build, holds in the other one until the first midnight, change of
  settings or restart, if the disk does not fail. After any of these a file that was
  written before may be opened again, whose length `_curWriteLen` then leaves out. `OneDay`
  says that the whole length of the open file is counted, and that its number is the
  highest.

`LogrSettingsProofs`, for any files, loggers and threads:

- `SettingsTypesKept`, `LastCallWins`, `WholeFileApplied`: `TypeOK`, `LastRequestWins`,
  `FileApplied`.

`IInv == Shaped /\ Phases /\ Queued /\ FromFile`: the tables; who may be in
`updateConfig` when; that the queue holds the calls for a setting in the order they
were made, the last of them the one that is wanted, for each setting that waits
there (`Waits`: path, output and limit always, `enable` when it goes off); and that
whatever the last file says is in the settings, in the queue or still in `todo`, and
nothing of an earlier file is behind it. After the end of `run()`, the `enable` of
the file counts as off. The number of a key and the row of calls a file becomes
(`Along`) are recursive functions over the naturals; what they compute is proved by
`InductionOnNat`, an induction stated about sets, which rests on the
well-foundedness of `<` (`WFMin`).

`LogrRecordProofs`, for every buffer size, depth, nesting, number of values
and lengths of texts that `RecordAssumption` allows:

- `RecordTypeCorrect`: `Spec => []TypeOK`; the length of a record never passes
  its buffer.
- `AlwaysInsideBuffer`: `Spec => []InsideBuffer`; no byte outside it is written,
  and `_cur` never steps back before where the stream began.

- `LineIsTheText`: `Spec => []LineIsText`.

`InsideBuffer` is not inductive: the `_cur -= 2` at the end of a container is safe
only because two bytes were put behind its opening, or because the buffer is full.
`IInv == TypeOK /\ Good(stream) /\ Begun /\ Behind` says so for a whole stack of
them: `Behind` is that `_cur` is two bytes further for each open `<<`, or at the
end of the buffer, or one byte before it right after an inner `<<` has stepped back;
`Good` that nothing was outside so far. For the text, `Lined` adds what is in the
buffer: `Line`, which is the text and, while a container waits for its next element,
the ", " the code has put there early. All of `Line` that fits is in the buffer
(`Shown`) but for the last two bytes, where a step back from the end may have left
something else; so `pushLogr`, which cuts three bytes off a full buffer, cuts those.
The step back itself is over that ", " and nothing else because a container with a
length has had an element when its loop ends, and one without has had none
(`Sized`). The lemmas about `writeString` and `writeData` say what each leaves; one
lemma for each group of actions follows.

### Images, configuration files and headers

`ConversionProofs`, about `Conversions`:

- `LetterboxFits`, `BoxesComeBack`, `LabelsAreTrue`: `FillsNetwork`, `BoxesBack` and
  `LabelsAreDetected`, for a network and images of any size that are not empty, any
  number of predictions and any labels but the word "empty" itself.
- `SettingsAreAsSaid`: `SettingsAsSaid`, for files of any length.
- `RequestArrives`, `ReplyArrives`: `RequestWhole` and `ReplyWhole`, for texts of
  any length but 0 in the path, the status and the result, which the two programs
  never leave empty (`run_client.cpp` writes "ok" and "none").

`ImageInv` follows an image through `recognize`, step by step. The resized side is off
the exact one by no more than the rounding, so that the borders on both sides take
up the rest; taken back, a box is off by no more than the pixel that is cut off and
one pixel of the network. `ConfigInv` is that
`key` is that of the last section before `pos`, and that `outInfo` is what the lines
before `pos` say. `HeaderInv` has `recvInfo` and `sendInfo` as the row of copies that
made them; lemmas say what each byte is after a copy (`Copied`, `Holds`, `Shows`) and
what `CString` reads of it, so that "arrives whole" becomes a question of where the
texts end. What `FlattenSeq` makes of the labels and their commas is proved by
induction over how many there are.

### Left to TLC

The liveness properties (`QueuedIsAnswered`, `ServesAllRequests`,
`ConnectedClientEnds`, `HangsOnlyInRecvImg`, `StopReturns`, `QueueMoves`,
`FileFollowed`), and of `OnlyMutualWaitsBlock` the part with `ENABLED`: neither is within
this prover's reach. What can be said of them without fairness is proved:
`OnlyMutualWaitsStop`, `OnlyRecvImgWaits` and `SessionsAdvance` for the server,
`NobodyStuck` for the logger.

## Not modelled

- Pixels, colours, normalisation and the layout of the tensor, the network itself,
  and TensorRT with its logger (`src/logger.cpp` is its sample code): numbers
  of a size and kind no model checker reaches, and code of others.
- What is printed on the screen (`showColorText`), and the text of messages.
- The length of a log file's name (`sprintf` into 100 bytes, `Logr.cpp:1678`), a
  `std::string` read while it is assigned, and memory running out (`RecvImg` leaks its
  buffer on both of its error paths).
- The branch of recognition for the 896 engine behind its first use: the engine is
  no longer loaded, and the models crash there as the program does.
- The status counters other than the two that are subtracted from each other, and
  those read in the other order.
- Several loggers in `LogrManager` and `LogrFile`: each has its own fields, and they
  share the queue and the lock, which are there.

`PROJECT.json` gives the reason for each component.
