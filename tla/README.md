# A TLA+ model of ebbrt-contrib

ebbrt-contrib holds applications for EbbRT, a library operating system whose
programs run partly on a *hosted* front end (FE, a Linux process) and partly on
*bare-metal* back ends (BE). This directory models the applications' own logic:
how a node obtains its Ebbs, the command server, the streams and files that a back
end uses through its front end, command lines and environments as text, the
multiprocessor test harness and its counters, and how the hosted programs start and end. EbbRT itself (events, `local_id_map`,
`global_id_map`, `Messenger`, TCP, `SpinBarrier`) is not in the repository: it is
modelled from how the applications use it, and marked external in PROJECT.json.

Words used throughout: an *Ebb* is a distributed object named by an EbbId; a
node's first use of it on a core runs the class's static `HandleFault`, which
must produce this node's *representative* and cache it for the core. An *event* is
a handler invocation; it owns its core until it returns or saves its context
(`SaveContext`), and `ActivateContext` makes a saved one runnable again. A core
runs one event at a time.

## Inventory

| Part | State | Operations | Interacts with | What makes it correct |
|---|---|---|---|---|
| UNIX Ebbs: root and representative (`ubench/src/{CmdLineArgs,Environment,InputStreamCommon,FS}.cc`) | the entry in `local_id_map`; per Root `lock_`, `data_` (a shared future), `theRep_` | `HandleFault`, `Root::Root`, `Root::getRep_BIN`, the constructor | `global_id_map` answers the root data; cores fault at once | one representative per node, built under the mutex from data that has arrived; every fault ends |
| CmdServer (`cmdserver/src/baremetal/CmdServer.cc`) | `buffer_`, `bufLen_`, a static port counter (not modelled); per connection `state_`, the saved context | `Receive`, `Close`/`Do`, `Send` (connect, send by windows, block), `Abort`, `AppMain` | client TCP connections; a TCP connection to the front end per command | a command reaches the front end whole, once and in order, with nothing in front of it that a client which closed has left, every send ends, a blocked event is woken once |
| Printer, CmdServer faults (`*/Printer.cc`, `CmdServer.cc`) | the entry in `local_id_map`, a local `p` written by another event | `HandleFault` and the answer's lambda | `global_id_map` | one object per node, losers deleted, none used before it is made |
| InputStream (`hosted/src/InputStream.cc`, `InputStreamCommon.cc`, `baremetal/src/InputStream.cc`) | `doRead_`, `count_`, one `buffer_`, one `stream_data_msg_`, the descriptor | `async_read_start/stop/some`, disposal of an IOBuf, START, DATA, STOP | asio, the Messenger, the consuming test | chunks in order and once, the lent buffer never changed, the read ends |
| FS (`ubench/src/FS.cc`) | `p_` (one promise), `stream_id_msg_` | `open_stream`, `process_message`, `process_exit` | FE opens and publishes, answers the id | a call gets its own stream; `p_` is never lost or used when NULL |
| ubench driver (`ubenchCommon.cc`, `Unix.h`) | parsed arguments, what is published | `UNIX::Init`, `process_args`, `init`, `AppMain` and its tests | all of the above | the tests asked for run, in order; Ebbs are published first; the program ends, and not too early |
| MPTest (`ubenchCommon.h`) | a static barrier; `count` and `context` on the caller's stack; `MPResults` | `MPTest`, the spawned event | one event per core | all cores measure at once, the report is of this call, calls end |
| Hosted Cpu (`hosted/src/ubench.cc`) | `init_lock_`, `numCpus_`, three counters, `shutdown_` | `EarlyInit`, `run`, `Shutdown`, `Exit`, `main` | threads, their event loops, SIGINT | all cores are up for AppMain; one shutdown; the program exits |
| Multiprocessor counters (`ubenchCommon.cc`) | one atomic, or one `_val` per core and `repArray` | `inc`, `dec`, `val`, `gatherVal`, `destroy` | MPTest runs them on every core | no increment is lost; what a core reads is the sum |
| Command line and environment as data (`argv.cc`, `CmdLineArgs.cc`, `Environment.cc`) | strings and pointers into them | `string_to_argv`, `Init` and the constructors of the two Ebbs | `global_id_map` carries the text, getopt and `env_test` read it | an argument is what the quoting rules say; what one node packs another unpacks |
| Hosted cmdserver, helloworld | `NumNodes`, `ALLOCATED_NODES` | `Printer::Init`, `AllocateNode`, `ReceiveMessage` | `global_id_map`, the nodes' Printer faults | no node asks before the answer exists |
| Single-core benchmarks, back-end mains, hoardThreadTest, irtk, build files, scripts, notes | none of their own | | | not modelled (see the end) |

The hard behaviours: faults of several cores at once, waits with a lock dropped,
contexts saved after the operation that will wake them was issued, one buffer or
one message used for many transfers without a copy, callbacks that refer to a
stack frame, and processes that end each other. PROJECT.json lists every hazard
with its line and the properties that watch it.

## Modules

Each module is one component; each `MC*` module gives it the instance that TLC
checks; each `*_proofs` module holds its theorems, MPTest_proofs those of Counters too,
PrinterFault_proofs those of Launcher and Ubench_proofs those of Args. Two modules, OneObject and
Stream, are abstract specifications that others implement; Counters, Launcher
and Ubench are compositions: they extend MPTest, PrinterFault and Args.

| Module | Extends | Implements |
|---|---|---|
| EbbRoot, PrinterFault | | OneObject |
| InputStream | | Stream |
| Launcher | PrinterFault | OneObject |
| Counters | MPTest | |
| Ubench | Args | |
| CmdServer, FS, Cpu | | |

An operator named
`<Action>_<Change>` right before an action is a seeded fault: the action as a
plausible bug would have it. It is used by nothing here, and each property is
known to fail when its seeded fault takes the action's place.

### OneObject
What an event that dereferences an Ebb is promised by either fault protocol: a class
has no object on the node, then one for ever; a dereference returns that one and caches
it for its core, or fails. `Ask`, `Provide`, `Return` and `Fail` are all its steps.
EbbRoot and PrinterFault instantiate it (`Object`) with `theRep_` and with the map's
entry; `StateOf` maps every place in HandleFault to `asking`, so that all the waiting,
locking and racing in between are stutters, except the one step that makes the object
known (`Provide`).

### EbbRoot (and EbbRoot_proofs)
The four UNIX classes carry four copies of one protocol, so the module has the
class as a parameter and `CmdLineArgsFault` ... `FSFault` as the four uses of it;
only `InputStream`'s constructor may throw. `pc[t]` walks through HandleFault
(`find`, `insert`, `construct`) and getRep_BIN (`lock`, `check`, `block`,
`waiting`, `get`, `relock`, `retest`, `new`), then `cacheref`. `Find` and `Insert`
wait for another's write accessor, as TBB's map does. When the Get failed,
`data_.Get()` throws while a `lock_guard` believes it holds a mutex that was
dropped: the unlock is undefined and modelled as either outcome.

### CmdServer (and CmdServer_proofs)
All connections append to one `buffer_`. `InClose` runs Do: an OutConnection is
made, connected (`BlockOnConnect`), and the buffer goes out by windows
(`SendWindow`, `BlockOnSend`), each blocking until the window's IOBuf is freed
(`Freed`). `Abort` (of an OutConnection) may come at any time. `InAbort` is a client
that resets instead of closing: the code's handler is empty, so no Do runs for it and
what it sent stays in the buffer. A byte is its sender and its number,
which is all that the properties tell apart. `recv`, `mixed`, `overlap`, `before` (what
lay in the buffer when a client connected), `delivered` and `aborted` are history. The
local port number of a connection is left out: nothing looks at it. The callbacks of an OutConnection run on the core that
issued its connect (the assumption the FIXME in ConnectAndBlock names). A
`Receive` or `Close` in the middle of a Do is what the event loop allows as
soon as the Do has saved its context. The constructor leaves `bufLen_` unset:
`Uninitialised` is the set of values it may start at, and `dirty` the clients that this
can reach.

### PrinterFault (and PrinterFault_proofs)
The other fault protocol: no Root and no lock. An event finds nothing, asks
`global_id_map`, saves its context, and is activated by a lambda that has made the
object; then it inserts or, having lost, deletes. `AnswerThrows` is the one
difference between the copies. The lambda runs on `AnswerCore`; for an event of
another core it can run before `SaveContext`, which is undefined and loses the
event here (`lost`).

### Launcher (proved in PrinterFault_proofs)
The hosted mains of cmdserver and helloworld, composed with the faults of one back end:
`PrinterInit` issues the Set, and its continuation (`SetDone`, `SetFails`,
`AllocateNodes`) allocates the nodes in one event; `NodeUp` is a NetworkId that has
become known. A node takes PrinterFault's steps only once one is allocated, and
`AsPublished` ties its answers to the front end's Set: a Get is answered with the
address if it was published, with an error if not, or if the process is gone.

### Stream
What a reader is promised: between a start and an end it is given the chunks of the
input in order, none twice, none left out (unless `io_control` fails, `lossy`). Only a
remote reader may be given something after its end (`delayed`), because DATA can be on
its way when STOP is sent. InputStream's `Reader` is the instance; a chunk is its number.

### InputStream (and InputStream_proofs)
The front end's state is one record and the C++ operations are functions of it
(`AsyncReadStart`, `AsyncReadStop`, `AsyncReadSome`, `LocalDispose`, ...), because
they call each other and every handler runs to its end. A read of a terminal is an
asio operation that a stop cancels; a read of a file is a spawned event that
nothing cancels. Locally the IOBuf is dropped when the consumer returns; remotely
it is dropped when the DATA message has been written (`Written`), and both
`buffer_` and `stream_data_msg_` are read at that moment. An input has a `len`, what its
descriptor yields, and a `size`, what `len_` counts; a file whose `len` is less (standard
input dup'ed at an offset, a file cut since the fstat) comes to reads of 0 bytes
(`FileReadEmpty`), whose IOBuf is disposed of at once and starts the next. The two consumers,
`standardin_test` and `filein_test`, are part of the model.

### FS (and FS_proofs)
One back end, its calls of `openInputStream` on one core, and the front end. The
messages name no call. `Written` reads `stream_id_msg_.id` when the message goes
out, not when it was handed over. An open that fails throws in the front end's
handler: EbbRT decides whether the process survives, so both happen. The path is
sent from a dead frame, so the front end may read any path.

### Args (proved in Ubench_proofs)
Pure operators over text. `string_to_argv` is a scan that writes its tokens in place,
`dest` behind `scan`: its state is one record, each case of its loops one operator
(`SkipSpace`, `TokenChar`, `RawChar`, `CookedChar`), and `Scanned` iterates them
(`ScanStep`) as often as any line can need (`ScanSteps`). A character is a member of the
constant `Characters`; a text may hold NULs, a string has none. What the code does in a
loop is a function of the number of turns (`Keeping`, `Scanning`, `Reading`, `GetoptTo`),
whose values are determined one by one and can be reasoned about.
`Pack` and `Unpack` are `Init` and the constructors of CmdLineArgs and Environment.
`Words` is the reference: one pass over the line that collects words by the quoting
rules and never overwrites anything. Getopt is external. In the runs a few characters
stand for all that are treated alike; `ArgvSlots` stands for the 10 slots argv starts with, so that a
short line reaches the reallocation.

### Ubench (and Ubench_proofs)
`init`, `process_args` and AppMain's list of tests, for the full build and for the
standalone ones, from an argument vector, an environment or a boot line to the tests
that run. What is published is the packed text, which each node unpacks. `-h` returns
-1, which is as true as 1, so the tests before it run. The tests are single steps; those
that read a stream block (`blocked`), and go on only if the reader is told of an end:
`given` says how standard input and the file of `-F` behave, and `StreamOver` which of
these InputStream's `ReadEnds` covers. A file that cannot be opened, or a standard input
that cannot be fstat'ed, is an exception in AppMain (`failed`). `undefined` is where the code has no defined behaviour: argc and
argv never stored after an unbalanced quote, an argument vector that points into a
copy of the root data that is gone (unless the library shares the text of string copies,
`sharing`), and an environment vector without an end. `threw`, a use of an Ebb that is not
published, is not among the places of `TypeOK`. The builds are called `full`, `hosted` and
`baremetal`, the last two being the standalone ones.

### MPTest (and MPTest_proofs)
The caller on core 0 and the spawned events. `slot` is the memory of the local
`count`: a call's frame lies where the last call's lay, and after the return it
holds anything from 0 to n. A spawned event still in `spin` reads it, dead or alive.
The barrier takes two steps, arriving and leaving, and there is one per place that
calls the template (`SiteOf`). The work is a parameter: `WorkReturns(i, r)`.

### Counters (proved in MPTest_proofs)
mp_test: MPTest with a counter as its work. A round creates a counter, increments,
decrements and reads it from every core in three calls of MPTest, and destroys it. An
atomic changes in one step, a plain int in two (`Load`, `StoreVal`); `gatherVal` reads
one slot of `repArray` per step (`GatherStep`), while other cores may do the same.

### Cpu (and Cpu_proofs)
The main thread (`CreateThread`, `EarlyInitDone`, `JoinAndExit`), one thread per
core (`Lock`, `Make`, `SpawnFirst`, `EnterLoop`, `RunFirst`, `FirstEnds`), AppMain and
SIGINT. `Looping` is boost's rule that a stopped loop starts no further handler.

## Runs

| Run | Instance | Shows |
|---|---|---|
| `faults` | 3 events on 2 cores; each faults on InputStream and on one other class | `MutexHeld`; `ImplementsOneObject`, `FaultEnds` |
| `commands` | 2 clients of up to 2 bytes that close or reset, a buffer of 4, windows of 1, one Send of AppMain, `bufLen_` starting at 0 or 1 (1,934,760 states) | `ActivatedWhenBlocked`, `NoJunkSent`, `NothingLostAlone`, `CommandIntact`; `SendEnds` |
| `cmd_overfill` | the same, `bufLen_` starting at 0 | `SegmentsFit` is violated: two clients overfill the shared buffer |
| `stream` | terminals of up to 4 chunks and files of up to 5, whole or one short of their size, every placement of '.', local with up to 3 starts or remote with 1 | `OneUseOfBuffer`, `WireIntact`; `ImplementsStream`, `ReadEnds` |
| `stream_eof` | a remote terminal of 2 chunks that is closed | `EndIsPassedOn` is violated: the relay dereferences the null IOBuf |
| `mp` | 3 cores, a negative request (all cores), each of the 3 counters, 2 iterations, 2 rounds of 3 calls | `CountsAddUp`, `ReportsThisCall`, `WorkTogether`, `FrameAlive`; `EndsOrLeftBehind` |
| `mp_repeat` | 2 cores, 2 calls from one place | `CallsEnd` is violated: a core spins on a dead frame |
| `cpu` | 3 cores | `AllUpForAppMain`; `AppMainStarts`, `InterruptExits` |
| `printer` | 3 events on 2 cores, 2 of them on the core that runs the answers; a front end asked for 2 nodes or for -1 | `SameObject`, `NoLeak`, `PrinterFound`; `ImplementsOneObject`, `FaultEnds` |
| `fs_open` | 4 opens, a path that opens and one that does not | `RightStream`, `OnePromise`; `OpenEnds` |
| `ubench` | every argument vector of up to 2 of 14 elements in both hosted builds, shorter ones without an environment, without `sharing`, or with every behaviour of standard input and of the file; every boot line of up to 5 characters | `ArgvMeans`, `RanAsAsked`, `EnvironmentShown`; `ProgramEnds` |
| `ubench_backend` | three command lines with -B, the full build | `BackendRuns` is violated: the front end exits first |

Each passing run also checks its module's type invariant. The temporal properties are
those after the semicolons; an `Implements...` is the abstract specification as a
PROPERTY.

**Bounds.** Three events on two cores give both races within a core (through
`SaveContext` and `Block`) and between cores, and a third party that finds what the
other two left. Two clients suffice for every overlap the shared buffer has: one in
its Do and one sending, or both in their Do, and for a client that resets before another
connects; a message of two windows gives an
interleaving in the middle of a send. Three starts of a stream give a restart after
a '.' and one after the end. A file short of its size by one chunk is one that never
meets `len_`; by more would be no different. Two rounds of the counters use each barrier twice, and two
iterations give a load and a store with another core's in between. Two nodes give one
that is up while the other is not, and an allocation that fails halfway; a negative
number of nodes is the empty loop. Four opens give one after a success, one after a
failure and two that meet an outstanding one. Five characters hold a quoted or escaped
character with a neighbour on both sides, an unbalanced quote behind a token, and three
tokens, which with two slots for argv takes a reallocation. The only cap on an unbounded
action is in FS (`ProcessExit`: one Exit message in flight); everything else is bounded
by the constants, which count calls, clients, bytes, chunks and starts.
`CHECK_DEADLOCK FALSE` is set everywhere because these programs end: all clients
served, all calls made, the process exited.

**Fairness.** Only weak fairness, on what EbbRT or the operating system owes: a core runs
its runnable events, a thread is scheduled, a message that was sent arrives, TCP
answers a connect and acknowledges what is written unless it aborts,
`global_id_map` answers (perhaps with an error). No fairness is put on a client
connecting, sending, closing or resetting, on an abort, on SIGINT, on a new dereference, on a new call
or on AppMain's end. In Ubench a stream is fair only if it has an end that its reader is
told of (`StreamOver`); one that has none blocks its test for ever. A core that is occupied for ever is therefore never excused.
Weak fairness of a whole event (`Fault(t)`, `Work(i)`) is enough since an event has
one step enabled at a time; in CmdServer, where the sends are finitely many, it is
enough that the core or the TCP peer does something while there is something to do. A wait for a mutex or a write accessor needs
no more: the holder's class holds it for a bounded number of steps, and in the
runs the number of faults is bounded by the cores' caches.

## What the checks say about the code

Four statements of the code do not hold of it; PROJECT.json quotes them under
"findings": the assertion of `CmdServer::Buffer` with two clients, the "PASSING EOF"
branch that is reached only after a null dereference, `-R` repetitions of a
multiprocessor test that may hang on a dead stack frame, and `-B`, whose front end
ends before its back end can run.

Other behaviours that the model shows and the properties exclude by name:

- clients of CmdServer that overlap lose bytes: what arrives during a Do is thrown
  away when the Do ends (`overlap` in `NothingLostAlone`);
- an abort between an activation and the resumption is forgotten, and the send then
  waits for ever (`aborted` in `SendEnds`);
- an error from `global_id_map` leaves a Printer fault suspended for ever
  (`failed` in `FaultEnds`), and in getRep_BIN unlocks a mutex that another event may
  hold (`data_[e] # "error"` in `MutexHeld`);
- what a client sent that then reset its connection precedes the next client's command
  (`before` in `CommandIntact`);
- an empty file, a second read at the end of a file, a failing `io_control`, and the end of
  a remote stream leave the reader waiting; a descriptor that yields less than `len_` is
  read for ever, 0 bytes at a time (`input.len = input.size`; all in `ReadEnds`);
- hence the program waits for ever in a test that reads such an input, and it ends by an
  exception if there is no standard input or `-F` names what cannot be opened
  (`InputEnds` in `ProgramEnds`);
- a remote reader may be called after it has stopped (`delayed` in Stream);
- `gatherVal` keeps the last representative's value where the sum is meant, which the
  tests cannot see because they read 0 (`CountsAddUp`);
- an event of MPTest may still loop on `count` when its call has been reported (`spin`
  in `FrameAlive`), which is what makes `-R` hang;
- `string_to_argv` does not terminate the last argument of a line that ends in it: after a
  quote or a backslash was removed it has a tail, so that `a\ b` becomes `a bb`
  (`EndsShrunk` in `ArgvMeans`); after an unbalanced quote nothing is stored, and
  the caller does not look (`Unbalanced`);
- a back end whose front end has no environment walks an `environ` without an end, and
  CmdLineArgs works only where string copies share their text (`Defined` in `ProgramEnds`);
- a node whose Get comes after the front end was interrupted waits for ever
  (`PrinterFound`);
- the first command of a CmdServer may be preceded by junk (`dirty` in `CommandIntact`);
- an open that fails leaves `p_` set: every later open of that node throws (`OpenEnds`).

## Proofs

All theorems are safety, for every value of the constants that satisfies the named
assumptions; tlapm checks every leaf.

**EbbRoot_proofs** proves `TypeOK`, `OneRep`, `MutexHeld` and `ReadyWhenBuilt` of `Spec`,
for any number of events, cores and classes, from `EbbsAssumption`,
`CoreOfAssumption`, `UsesAssumption` and `NoOneAssumption`. `OneRep` is not inductive:
a state with `built[e] = 1` and a second event in `new` satisfies it. The inductive
invariant `IInv` adds what excludes that state: whoever is in `new` saw `theRep_`
NULL and owns the mutex (`EventsOK`, `MutexHeld`); the mutex cannot have been
taken from it, because only an event whose Get failed unlocks what it does not
hold, and then the data is an error for everyone and nobody ever passes `get`
(`RootsOK`, `EventsOK`); and `theRep_` is never reset, because a Root is only
constructed by the owner of an empty, write-locked entry (`RootsOK`). There is one
lemma per action, with one step per conjunct.

`RefinesOneObject` proves `Spec => ImplementsOneObject` from the same invariant: the
initial states map to OneObject's, and every step maps to one of its steps or to a
stutter. `NewRep` is `Provide`, with `theRep_[e] = 0` and `built[e] = 0` from the
invariant making the object the number 1; `CacheRef` is `Return`, and needs `OneRep`'s
last conjunct, that the event was handed the one object there is; a step to `threw` is
`Fail`; everything else leaves the mapped state alone.

**PrinterFault_proofs** proves `TypeOK`, `SameObject`, `NoLeak` and `ConstructedFirst`.
Here nothing is locked, and the argument is another: an event that wins the
insertion caches the object for its core and returns, so no event of that core
faults on the class again (`WinnersOK`), and hence whoever deletes has an object
that never was the one in use (`LosersOK`: an event past its lambda holds its own
object). The assumptions are `EbbsAssumption`, `CoresAssumption` and `NoOneAssumption`.
`RefinesOneObject` is proved here too: the winner's insertion provides and returns the
object in one step, a later event returns what it finds, and what the losers build and
delete never shows.

`LaunchSpec` adds the front end. `LaunchIInv` says that nodes are only allocated,
and only come up, when the Printer's address is published (`NodesOK`), from which `PrinterFound`
follows for any number of nodes asked for, negative ones included.
`LaunchedNode` (`LaunchSpec => Spec`) shows that what a front end answers is among the
answers PrinterFault allows, so that `SameObject`, `NoLeak` and the refinement of
OneObject carry over. Assumption: `RequestsAssumption`, besides PrinterFault's.

**CmdServer_proofs** proves `TypeOK`, `ActivatedWhenBlocked`, `NoJunkSent`,
`NothingLostAlone` and `CommandIntact`, for any clients, messages, buffer, window and
initial `bufLen_` within the buffer (`SizesAssumption`, `MemoryAssumption`,
`ActsAssumption`). The invariant has two halves. `ControlOK` is about one connection at
a time: `state_` is BLOCKED exactly while its event waits and nobody has activated it
(`WaitingOK`), and what went out is what `sent` counts plus the window in flight
(`SentOK`). `DataOK` is about the shared buffer: places below `bufLen_`, and places a Do
has yet to read, hold bytes that clients sent once the first Do has reset `bufLen_`
(`RealOK`, for `NoJunkSent`); while nobody is served, what lies there was sent by clients
that reset (`Owned`, in `RealOK`), so that a client that no other overlapped finds what
it found when it connected and then its own bytes, in order, and nothing of a client
that closed (`AloneOK`, for `CommandIntact`); and a byte that came
while no Do was in progress is either delivered or at a place that every Do now in
progress is still to send (`PendingOK`, for `NothingLostAlone`). The last is the one that
is easy to get wrong: overlapping Dos each send the buffer, and the first to end
sets `bufLen_` to 0 under the others. What Buffer's strict assertion
leaves free is a lemma of its own (`FitsBound`).

**InputStream_proofs** proves `TypeOK`, `OneUseOfBuffer`, `WireIntact` and `RefinesStream`
(`Spec => ImplementsStream`), for inputs of any length and any number of restarts, from
`InputsAssumption` and `RemoteOnceAssumption` (a remote reader starts a stream once, as
both consumers do). The field lemmas (`SomeFields`, `StopFields`, `ConsumeFields`, ...)
say what the C++ operations do to the front end's record, once each. `OneUseOfBuffer`
holds because the next read is only started by the disposal of the last one's IOBuf, and a
second START or STOP finds `doRead_` as it left it (`LocalOK`, `RemoteOK`);
`BufferOK` adds that a file is only read while `count_` is short of `len_` (an empty read
changes neither), that everything queued points to the last chunk read, and `FlightOK` that
what is queued follows what was written, which follows what the reader has: the chunks
form one sequence through the three places, without a gap unless `io_control` fails. That
sequence is what the simulation maps: a reader's consumption of a chunk is `Give`, or `GiveLate`
when it has stopped, its `async_read_start` is `Start`, a null IOBuf handed to it is `End`,
and reading, queueing and writing for a remote reader are stutters.

**FS_proofs** proves `TypeOK`, `RightStream` and `OnePromise`, for any calls and paths
(`CallsAssumption`, `PathsAssumption`). No message names its call, so the invariant
says that the request is in one place of the pipeline (`OneAtATime`) and that it is the
request of the call `p_` points to (`ForThePromise`).

**MPTest_proofs** proves `TypeOK`, `ReportsThisCall`, `WorkTogether` and `FrameAlive` of
`Spec` and of `CtrSpec`, and `CtrTypeOK` and `CountsAddUp` of `CtrSpec`, for any cores,
requests (0 and negative ones included), iterations, sites and calls (`CpusAssumption`;
`KindsAssumption` and `SitesAssumption` for the counters). The harness's invariant
ties the code's three numbers to the workers they count: a barrier's `waiters` is n less
the cardinality of those that arrived in the current round (`BarriersOK`), and `slot`
is that of the workers past their `count++` (`CallerOK`). A core left behind in an
earlier call has not started this one, hence neither can be complete without it. The
counters' invariant (`CountsOK`) says what each counter holds in the middle of a call:
a representative of its own core the operations its core has done, a shared one
the cardinality of the set of all operations done so far (`Ops`), which AtomicOp
extends by one element (`OneMore`); a plain int between its load and its store is touched
by nobody else (`LoopOK`), and no use makes a new representative where one holds a count
(`CachedOK`). `Total` is a recursive function; that its partial sums are (i+1)*v is
shown by the least core at which another solution would differ (`Least`, `TotalIs`),
since well-foundedness of the naturals is a library theorem without an operator
parameter.

**Cpu_proofs** proves `TypeOK` and `AllUpForAppMain` for any number of cores up to
kMaxCpus (`CpusAssumption`). Each counter of the start-up is the cardinality of the
cores that passed a place (`Counted`), and AppMain is spawned by an event that
saw `inited_` reach n (`SpawnedLate`): such a counter stands for all cores.

**Ubench_proofs** proves `TypeOK`, `ArgvMeans`, `RanAsAsked` and `EnvironmentShown`: every
invariant of the driver, for all that programs may be given (`GivensAssumption`), any
characters (`CharactersAssumption`) and any number of slots from 2 (`ArgvSlotsAssumption`).
It has three layers.

*Recursion.* The functions of Args are defined by equations that CHOOSE solves. `Recursion`
shows once that such equations have a solution, from the facts that a set of natural
numbers has a least element (`Least`, from the library's well-foundedness of Nat) and that
a set that holds the first number and with each the next holds them all (`Induction`,
stated for sets, as the library's induction over a formula cannot be instantiated here).

*Text.* `UnpackPack` says that the two constructors recover every vector of strings: the
NULs of a packed text are exactly the ends of its elements (`PackLayout`, `PackedNULs`).
`StringToArgvMeans` says that `string_to_argv` computes what the quoting rules say of
every line. Its invariant `Follows` relates the scan after some steps to the reading of the
line up to `scan`: the finished words lie in memory, each before a NUL, below the start of
the current one (`Finished`); the characters of the current word lie from its start to
`dest` (`Current`); and everything from `scan` on is still the line, because `dest` never
passes `scan` (`Tape`). A quoted or escaped character moves `scan` further than `dest`, and the
invariant says that these are equal unless the word shrank, which is why only a last
word that shrank may have a tail. One lemma per loop of the code (`SpaceStep`, `TokenStep`,
`RawStep`, `CookedStep`) shows that a step keeps `Follows` or ends the scan with the `Result`;
each lessens `ToDo`, so that `ScanSteps` steps end it.

*Driver.* `IInv` has the conjuncts `Publishing` (what is in `global_id_map` is what `DataOf`
says, and all four Ebbs are there before the front end leaves UNIX::Init), `Places` (a back
end of the full build only exists once its front end is at DONE, and a bare-metal program is
`undefined` exactly if its line could not be split), and per node (at `failed` it takes no further step) `ArgsHold` (the parsed
arguments are those of `Source`, what `process_args` was given), `RanHold` (after k tests
what ran are the asked-for ones among the first k) and `ShownHold`. `RanAsAsked` speaks of the
words of the boot line where `RanHold` speaks of the vector that the scan made;
`StringToArgvMeans` makes them equal.

**Only model-checked.** The liveness properties (`FaultEnds`, `SendEnds`, `ReadEnds`,
`EndsOrLeftBehind`, `AppMainStarts`, `InterruptExits`, `OpenEnds`, `ProgramEnds`): TLAPS has no
fairness or ENABLED here. Every invariant and every refinement that a passing run checks is
also a theorem. RECURSIVE operators, which would be out of reach, are used by no module.

## Assumptions

- `local_id_map` is a TBB `concurrent_hash_map`: an accessor locks its entry; the pair
  version of Insert is atomic.
- Contexts resume on the core they were saved on; a future's continuation runs at most
  once. `global_id_map` answers a request once.
- TCP and the Messenger deliver in order and without loss until a connection is aborted.
- In CmdServer, an abort is a callback like the others; a connection that was aborted
  acknowledges nothing.
- In FS, one back end whose callers share a core, which is all the program makes. Two
  would share `stream_id_msg_`; two cores could both pass the unlocked test of `p_`.
- For the liveness of MPTest, `Requested` is not 0: with n = 0 nothing is spawned and the
  caller is never activated. Safety is proved for 0, too.
- In InputStream, a remote reader starts the stream once, as `standardin_test` and
  `filein_test` do; local readers may restart it.
- In InputStream, a file does not grow under its reader, and a read does not fail (the
  code takes its -1 for a length, n being unsigned).
- In Ubench, no Set fails: `Block()` does not look at the result, so that it would show
  at the Ebb's first use, as an exception. In Cpu, no `pthread_create` fails: the code asserts it.
- In Args, `escape_convt` converts `n` and `b`; the other letters it knows (`a`, `t`, `v`, `f`,
  `r`) stay as they are, since no property depends on what one becomes.
- In Ubench, a write one past `environ_` does no harm, and `undefined` is an end: what
  happens there is not described further.
- In Launcher, an interrupted front end answers nothing more; a node then sees an error.

## Order of work

By importance: EbbRoot, CmdServer, InputStream, MPTest, Cpu, PrinterFault, FS, Ubench
and the proofs of the two fault protocols; then OneObject and Stream with their
refinements, Counters, Args and Launcher, which replaced what the first modules took as
given (the work of MPTest, the arguments of Ubench, the answers of PrinterFault).
The proofs followed the same order, from the fault protocols to the counters and the
launcher, and the text and the driver last, whose proofs need most about data.

## Not modelled, and why

- The single-core benchmarks (null calls, C++ and Ebb counters): loops that print
  times and keep nothing another event sees. `timing_test`, `spawn_test` and `mp_test` run
  through MPTest, which is modelled; the empty events that `spawn_test` spawns are not.
- hoardThreadTest: a third-party allocator benchmark, run through MPTest.
- irtk: a wrapper of an image library that is not in the repository.
- The mains of helloworld, newbuildhelloworld and hello: one print.
- `CloseAndBlock` and `Disconnect` of CmdServer: nothing calls them.
- Printing, CRCs, timing, makefiles, scripts and notes.
