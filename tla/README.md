# Verification of mul-mec

TLA+ models of the MEC system (multi-sensor fusion in C with POSIX threads), their
TLC runs, and TLAPS proofs. Paths below are relative to the repository. The build
(`CMakeLists.txt`) links `src/video/video_processor_mock.c`, not the OpenCV
processor, and `src/common/memory_new.c`'s allocator; those are the ones modelled.

## 1. The system

One process. The main thread starts the sensors (or a simulator), a fusion thread
and a monitor thread, and then consumes a bounded queue until a signal stops it.

| Component | State | Operations | Interacts by |
|---|---|---|---|
| Message queue, `common/queue.c` | ring of messages, `head`, `tail`, `count`, mutex, two conditions | create, push, pop (forever / at once / timed), size, destroy | called by the sensor threads and main |
| Track lists, `common/track_list.c` | buffer, count, capacity, reference count | create, retain, release, add (realloc), clear | shared by sensor, queue and main |
| Sensors, `video/…_mock.c`, `radar/radar_processor.c` | output list, thread context, serial port | create, start, thread, stop, destroy | push their own list, under their own mutex |
| Message loop and lifecycle, `main.c` | `running`, `reload_config`, one pointer per object | startup, loop, signals, cleanup | everything |
| Threads, `common/thread.c` | running flag, mutex, condition, thread id | create, destroy (flag, broadcast, join), lock, unlock | embedded in each processor |
| Fusion engine, `fusion/fusion_processor.c` | track array, next id, published list | add_tracks, 20 Hz cycle, get_tracks | main adds and reads; the monitor reads the count |
| V2X encoder, `common/v2x_codec.c` | none (a caller's buffer) | encode | reads the published list |
| Logging, `common/logging.c` | file, level, target, mutex | init, log, cleanup | every thread, and the signal handler |
| Memory pools, `common/memory_new.c` | two free lists, statistics | malloc, free, calloc, realloc | every component |
| Radar frame parser, `radar_read_data` | static automaton state and frame buffer | one byte at a time | serial port, radar thread |
| Simulator, `common/simulator.c` | two lists, thread | create, start, thread, stop, destroy | main pulls and clears its video list |
| Monitor, `common/monitor.c` | socket, thread | start, thread, stop | reads the fusion engine |
| Configuration, `common/config.c` | entries, lock | load, get, reload, free | main |
| Metrics, error codes | two counters; none | record, report | main |

What is hard here: three to five threads share lists by reference count only; the
published list is read without a lock; a consumer sleeps with timeouts beside
other consumers; a shutdown has to stop threads in an order, from any point of the
startup; a signal handler logs. The full list of such places, with the line where
each bites and the property that watches it, is `hazards` in `PROJECT.json`.

What makes each component correct:

- *queue*: bounded FIFO, linearizable; no lost wakeup; a push never waits; every
  reference accounted for, also when a non-empty queue is destroyed;
- *pipeline*: counts balance, no list is used after it is freed, the queue is
  destroyed only when no thread can call it, what main ingests is never older than
  what was pushed (a video frame may be lost instead), a signal ends in a complete
  shutdown;
- *lifecycle*: users stop before what they use is freed, nothing is left at the
  return, a system that has run is cleaned up without a crash before its last free;
- *fusion*: global ids are never shared, each cycle visits each track exactly once,
  only live tracks are published, undetected tracks expire;
- *logging*: one writer at a time, and no order of threads and handlers blocks a
  shutdown on the log but the one in which a handler waits for what it interrupted;
- *memory pools*: no block is handed out twice or lost, none reaches the C library's
  `free`, and what a caller wrote stays, also while `mec_realloc` moves it;
- *parser*: only frames that came over the line in one piece are delivered, each
  once, and after a disturbance at most one good frame is missed;
- *simulation mode*: a pull of the simulator's list, which has no lock, takes each
  detection at most once and in order; descriptors stay their owners', the monitor
  can be reached, also after a crash; a signal ends simulator, monitor and main.

## 2. Modules

    BoundedFifo  <== implemented by ==  MecQueue  <-  MecQueueProofs
        ^
        | INSTANCE (as its queue)
    Pipeline  <-  MCPipeline
    Pipeline  <-  PipelineProofs

    TrackTable   <== implemented by ==  Fusion  <-  FusionProofs
    Allocator    <== implemented by ==  MemoryPool  <-  MCMemoryPool
                                        MemoryPool  <-  MemoryPoolProofs
    Logging  <-  LoggingProofs
    Lifecycle  <-  LifecycleProofs

    RadarParser  <-  MCRadarParser
    RadarParser  <-  RadarParserProofs
    Process  <-  Simulator  <-  SimulationMode  <-  MCSimulationMode
    Process  <-  Monitor    <-  SimulationMode  <-  SimulationModeProofs

An arrow `<-` is an EXTENDS. The runs of MecQueue, Fusion, Lifecycle and Logging use
the module itself; the MC modules add a symmetry set or the value of a constant.

**MecQueue** is `queue.c`. The mutex is a variable and a critical section takes
several steps, so a thread may be descheduled inside. `pc` says where a thread is;
`asleep`, `woken` and `expired` are the three fates of a wait on `not_empty`. A
message is its track-list pointer; sensor id and timestamp travel with it.
`timeout_ms` is `forever`, `zero` or `timed`. `not_full` is signalled but nobody
waits on it. The early returns on NULL arguments and `mec_queue_size` change
nothing and have no action. `Destroy` requires that no thread is in a call: that is
the caller's obligation, and Pipeline checks that `main.c` meets it
(`QueueClosedQuietly`). `Gone` lets the system rest after the destruction.

**BoundedFifo** is the promise of `mec_queue.h`: one atomic step between the
invocation and the return of each call. A message is in the FIFO from the step that
increments `count` to the step that decrements it.

**Pipeline** is the real-sensor mode: both sensor threads, the loop, the stop and
destroy calls. Its queue is BoundedFifo, which `FifoCorrect` justifies. A detection
is a serial number, so a property can say which version of a list was read.
`cells`/`count`/`room`/`block` are a list's buffer, count, capacity and how often
`realloc` has moved it; main's `ptr` is the version it points into, and a read
through an old one returns the old value or `Garbage`. `thread_destroy` on a context
destroyed before is modelled as failing at once, which is what glibc does (POSIX
leaves it undefined). Pipeline starts with both
sensors started; Lifecycle shows that `main.c` as committed never gets there.

**Lifecycle** is `main` from the signal handlers on: a startup plan per mode, each
step of which may fail, and the cleanup order. `slot` is a pointer (`unset` if a
`goto` jumped over its initialisation), `ctx` a thread context (`raw` until
`thread_create` succeeds). Reading an uninitialised pointer or context is a choice
between harmless (`Skip`, `Free`) and fatal (`Wild`, `RawStop`, `UnwindCrashes`).
So is the use of a configuration that `config_load` has freed and left to its caller
(`dangling`, after `LockFails`): main goes on as with one whose content does not
matter, or ends in `ReadsFreed`; the second free (`FreedTwice`) is noticed or not.
The second stop in each destroy function is Pipeline's subject and left out here,
as is the loop's body.

**Fusion** is the track array, with the main loop adding detections and then
encoding the published list while the fusion thread works. Which track is nearest,
if any is near enough, is any choice, and a confidence is above its threshold or
below: the properties hold for every outcome of the arithmetic. A participant of a
packet is the id that goes out, `Sent(id)`: the id modulo `WireIds`, 2^16 in the code
(`v2x_codec.c:45`). History: `named`, the tracks whose ids these are; `moved`, how long
a track's state has been predicted since its newest detection; `begun`, the array when
the cycle took the lock.
**TrackTable** is the abstract table with an atomic cycle; `ImplementsTable` places
the cycle at its unlock. The simulation mode also calls `add_tracks`; it differs in
the list it passes only.

**Logging** is the log mutex, its callers, and the handlers of SIGINT and SIGTERM,
each of which runs on top of whatever the thread was doing that its signal was
delivered to: the thread's own code (level 0), or the other handler (`signal` blocks
only the signal being handled, and only in that thread). So two may nest in a thread
and any number of threads may have one at once. If the log goes to the console, its
messages and main's status line (`main.c:241`) also share the lock of `stdout`, which
is recursive. Left out are the C library's other locks: that of the log file's stream and
of `localtime` are taken under `log_mutex` only, and a handler that interrupts `malloc`
and then formats a message might wait for `malloc`'s.
Log calls are not shown in the other modules: `StopsUnlessInterrupted` says that they
change nothing there unless a handler interrupts what it waits for (`SelfDeadlock`).

**MemoryPool** is `memory_new.c`. Every access to a free list is under its pool's
lock and every access to the statistics under theirs, so each critical section is
one step, and a call takes several: `mec_malloc` takes a block or falls back to the
heap, then counts; `mec_free` gives the block back, then uncounts; `mec_realloc` of
a block of a pool is a malloc, a copy and a free, during which other threads may do
anything. `mec_calloc` is a malloc followed by a write, `mec_realloc` without a
pointer or with size 0 a malloc or a free. A block is an address `<<pool, index>>`:
the range test of `mec_free` finds the first component and its division the second,
for any pointer that the allocator handed out. That callers pass no other is their
obligation, and `hands` is its bookkeeping. Contents are one value
per block. `asked` is history, the size a caller asked for, which the code does not
store: it says how much of a copy matters. `size_t` has `Word` values. A pool whose
initialisation failed is not `ready` and stays empty; if it was its free list that
could not be had, the pointer to its blocks is `stale` (`memory_new.c:38`), and
`Cleanup`, which is called when nothing is in use, frees them a second time.
**Allocator** is what callers of `mec_memory.h` rely on: a function from the live
addresses to their contents. A block that `mec_realloc` moves is shown at its old
address until it is given back, and at the new one from then on.

**RadarParser** is `radar_read_data` with the line that feeds it. One step reads one
byte; a call ends with a frame (`Accept`) or because no byte has come (`NothingYet`),
which may happen anywhere, since state, buffer and index are static. The line carries
frames, single bytes of noise between them, and frames whose rest is lost, until it
is `Quiet`. What is on the line is at most one frame: the bytes behind it change
nothing until they are read. `Checksum` is any function of the payload, the frame
length any number above 3. History: `wire`, the latest bytes since the last detection;
`missed`, the clean frames gone by since then or since the last disturbance. A frame
is clean if no byte behind its header is 0xAA. The conversion of the payload into
range, angle and the other fields is left out.

**Process** is what the kernel keeps: whether the process lives, and who has which
descriptor. `Opens` gives the lowest free number, `Closes` asks nobody whose it is.
**Simulator** is the replay thread. A line of the file is the sensor it is for; a
detection is named by its line, counted back from the present round. Adding is two
steps, `Store` and `Count`, because main may set the count to 0 between them: the
increment then yields the old count plus one or 1. A full list moves (`Move`) to a
block of twice the size (`Grow`), or there is no memory and the detection is lost
(`GrowFails`); the pointer of a reader that looked its cell up before is then `stale`,
and what it reads is no detection. The list that is moved or fails to grow is the
video list; nobody reads the other, so only its count is kept. **Monitor** is the server thread:
each call that can fail is a step, and its failure another. `usable` says whether
socket, path and directory are in order in this run of the process. `path` outlives
the process. **SimulationMode** composes the two with the message loop, the pull
(`TimedOut` to `Clear`: count and cell are read afresh, one step each), the
shutdown, `Killed` at any moment and `Restart`. `simulator_destroy` stops and joins
the simulator's thread a second time, which glibc answers at once: no step. The process starts with both threads
created; the failures before that are Lifecycle's. `Answer` to a visitor that has left
kills the process, as SIGPIPE does.

Operators named `…Bug` are plausible mistakes next to the definition they vary; no
specification uses them. They are the mutants of `PROJECT.json`: each property of a
passing run fails when the code is changed that way.

## 3. Runs

| Run | Shows | States |
|---|---|---|
| MecQueue | mutex discipline, ring, wakeups, reference counts; refinement of BoundedFifo; bounded pops return unless woken in vain for ever, sleepers are served | 33 k |
| Pipeline | counts, no use after free, quiet close, what main reads of a shared list; every signal leads to a complete shutdown | 393 k |
| Lifecycle | cleanup order, completeness, after the loop no crash before the last free; a signal in the loop ends the process | 1.6 k |
| Fusion | ids, publication, entries of the encoder; refinement of TrackTable; tracks expire, the main loop returns | 71 k |
| Logging | one writer at a time; shutdown unless interrupted | 19 k |
| MemoryPool | no block has two owners or none, room on the free lists; refinement of Allocator | 1.6 M (symmetry) |
| RadarParser | index bounds, only whole frames, recovery after one frame | 2.1 M |
| SimulationMode | order of the unlocked pull from a list that grows, bounds of the racing count, descriptors, the monitor after a crash; every signal ends the process | 1.0 M |

Disagreements with the repository's own words, each one run with a counterexample
(`findings` in `PROJECT.json` quotes the line):

| Run | Property | What the code does |
|---|---|---|
| PipelinePointerValid | PointerValid | the reader follows a pointer that a realloc has freed |
| LifecycleHealthyStart | HealthyStarts | `baud_rate` stays 0, so the radar never starts |
| FusionPredictionSum | PredictionsAddUp | each cycle predicts over the whole time again |
| RadarRealigns | RadarRealigns | a target that stands still may hide its header in every frame |

Others that the models follow, and that need no counterexample to be seen:

- `mec_queue_push` shares the caller's list, where `mec_queue.h:41` promises a deep
  copy. `NothingStale` is the strongest statement about the content of a message
  that does hold: a radar message shows every detection since the start, those it was
  pushed with and maybe later ones (or a value read through a stale pointer); a video
  message the pushed frame or a later one, or nothing. The video thread clears the list
  for its next frame (`video_processor_mock.c:63`): if main reads between that and the
  next add, the pushed detection is lost, and the message was empty.
- The radar thread never clears its list (`radar_processor.c:147`), so a message
  holds every detection since the start, where `mec_queue.h:7` speaks of a single
  report's packet. Nothing limits this growth.
- `main.c:286-292` stops each processor and then destroys it, which stops it again:
  a thread context is destroyed and joined twice.
- A `goto cleanup` at `main.c:59`, `68` or `101` jumps over the pointers initialised
  at `104-107`, which the cleanup then tests. `LateCrashIsLast` bounds the damage.
- `config_load` frees `*config` when it cannot initialise the lock (`config.c:31-35`)
  and leaves main's pointer to it. In simulation mode main goes on, reads it
  (`main.c:76-117`) and frees it again as its last step (`main.c:298`).
- The timeout of `main.c:223` is there to avoid waiting for ever. `queue.c:116` computes
  the deadline afresh after each wakeup, so a pop that is woken in vain again and again,
  by signals whose message another consumer takes or by none, stays as long as this
  goes on. `TimedPopReturns` says that nothing else keeps it. (main is the only
  consumer; only spurious wakeups can do this to it.)
- `v2x_codec.c:45` cuts a track's id to 16 bits: track 65536 goes out as 0 and later
  ones under the ids of others. `EntriesTellCorrect` holds up to there.
- `init_pool` frees a pool's blocks when it cannot have its free list
  (`memory_new.c:38`) and keeps the pointer: the cleanup frees them again.
- `signal_handler` handles SIGHUP, as `README.md:11` says, but is installed for
  SIGINT and SIGTERM only.
- `mec_malloc` adds the size asked for to the statistics and `mec_free` takes the
  block's off (`memory_new.c:132`, `161`): the unsigned difference wraps as soon as a
  block was not filled, and `mec_memory_get_used` exceeds the peak.
- `v2x_encode_rsm` reads the count twice (`v2x_codec.c:36`, `39`), so a fusion cycle
  in between gives a packet whose count byte disagrees with its participants.
- `signal_handler` logs (`main.c:20`), where `main.c:16` says that it makes sure the
  system can exit safely: on top of a thread, or of the other signal's handler, that is
  writing to the log it waits for itself, and the log and the shutdown with it
  (`SelfDeadlock`).
- `monitor_server_thread` closes its socket when it gives up and leaves the number to
  the stop function, which closes it again (`monitor.c:87`, `57`): it may be the
  simulator's file by then. `DescriptorsOwned` exempts this case.
- A simulator that finds no file, or no descriptor at the beginning of a round, ends
  for good, and main runs on without detections (`simulator.c:60`, `OpenFails`).
- A monitor's visitor that leaves before its answer ends the whole process: `send` at
  `monitor.c:130` raises SIGPIPE, which nobody handles (`Answer`).
- Main may set the video list's count to 0 in the middle of the simulator's increment
  (`main.c:267`, `track_list.c:61`): detections come back and are ingested by the next
  pull again, or a new one is lost. `PullInOrder` is what holds within one pull.
- The radar list of the simulator is filled and cleared, and nobody reads it.
- `config/scenario_test.txt` is comma separated, and `simulator.c:77` reads fields
  separated by blanks: no line parses, and the thread opens and reads the file again
  and again without a pause.
- `config.c` ignores section headers and does not trim a key's end, so no key of
  `config/mec.conf` is ever found and main runs on its defaults (`README.md:12`).
- With `--sim` and no configuration, `config_get_string` returns before it writes the
  default (`main.c:117`): the simulator's file name is whatever was on the stack.
- A new track's `last_update` is not set (`fusion_processor.c:273-280`), so its first
  prediction runs from the epoch, or from the slot's previous track.

### Bounds

- Queue: 1 producer, 2 consumers, 2 lists, 2 slots. The ring wraps, fills and
  empties, and two consumers compete for one wakeup. The proofs remove these bounds.
- Pipeline: 3 detections per sensor, 2 queue slots, radar list with room for one:
  the queue fills and drops, and the list is moved twice while it is queued, or
  while main reads it. The real radar list has room for 50; only the moment of the
  first move differs.
- Lifecycle: no bound.
- RadarParser: bytes of 2 bits, of which 0xAA and 0x55 keep two different values, and
  payloads of 2 bytes with the code's xor: a header, a check byte and a payload byte
  can all be taken for each other. The proofs remove these bounds.
- SimulationMode: a file of 6 lines, 3 of them video, so that a list is read, cleared
  and filled between two steps of a pull, and 2 descriptors for the 3 users, so that
  each of them meets a full table. The list begins with room for 2 tracks (100 in the
  code, `simulator.c:12`), so that a round outgrows it: it moves under the pull, or an
  add fails. No bound on crashes and signals. The proofs remove these bounds.
- Fusion: 2 slots, batches of up to 2, new messages until 2 tracks were created (so
  ids up to 3, of which `WireIds` = 3 sends the last as 0), age limit 1, 2 clock ticks. Tracks are dropped and swapped, a slot is
  filled again, the array overflows, and a dropped track's place is taken by one that
  is dropped next.
- Logging: 2 workers, 3 signals: they nest, meet in two threads, and arrive during the
  shutdown.
- MemoryPool: 2 threads, a small pool of 2 blocks, a medium one of 1, 1 heap block,
  sizes for each of the three. Both pools and the heap run out, a move falls back to
  the heap or fails, and its old block is reused while its caller still holds the new
  one. `Word` is 2: the statistics decide nothing, so their width only multiplies the
  states. The proofs remove these bounds.

### Fairness

Threads keep being scheduled. Strong fairness is assumed where a thread asks again
and again for a mutex that others release and take: the sensors sleep 10 or 100 ms
between their critical sections, the fusion thread 50 ms, and the queue's critical
sections are a few instructions. The timer of a wait fires if the wait goes on (WF):
a wakeup ends the wait, and the next one has a new deadline, so nothing is assumed of a
pop that is woken for ever (`TimedPopReturns` exempts it). In Logging every thread, and
whatever runs on top of it, is scheduled and gets a mutex that is free again and again
(SF), and a loop has finitely many messages between two tests of its flag. No fairness
is assumed for calls, detections, messages, signals, failures or spurious wakeups. In
SimulationMode each of the three threads is scheduled (WF), whatever visitors and files
do. Deadlock is checked in every run but Logging, where a handler's deadlock is the
subject.
MemoryPool assumes no fairness: it has no liveness property. RadarRealigns assumes
that the radar keeps sending, the noise ends, the thread keeps calling (WF) and a byte
on its way arrives in one of the calls (SF): the strongest the line can offer, so the
counterexample is not its fault.

## 4. Proofs

`tlapm` checks all theorems with Z3, Zenon and LS4.

### The queue

For every `Capacity > 0`, any set of producers and lists and any finite set of
consumers (`QueueAssumption`, the only assumption):

| Theorem of `MecQueueProofs` | Says |
|---|---|
| `TypeCorrect` | `[]TypeOK` |
| `MutexCorrect` | `[]MutualExclusion` |
| `RingCorrect` | `[]RingConsistent` |
| `WakeupCorrect` | `[]NoLostWakeup` |
| `RefsCorrect` | `[]RefsAccounted` |
| `FifoCorrect` | `Spec => ImplementsFifo`, the refinement |
| `HolderAloneCorrect` | `[][HolderAlone]_vars`: only the mutex's holder touches the ring, in at most two steps |
| `WaitsAsAskedCorrect` | `[]WaitsAsAsked`: a pop with timeout 0 never sleeps, only one with a deadline expires |

The argument, in the order of the module:

1. `LockInv` = `TypeOK`, `MutualExclusion` and `Reserved` (a push that passed the
   check still has its free slot, a pop its message). `TypeOK` alone is not
   inductive: `count` stays in range only because the thread that changes it is
   alone inside, since it checked.
2. `QueueInv` adds `RingInv`: `RingConsistent` speaks of the moments when the mutex
   is free, so its proof needs what holds inside a critical section. Positions are
   numbered from `head` (`At(k)`), with lemmas that `At` is a bijection on the slots;
   `Storing` and `Taking` say which position is ahead of `count`.
3. `WakeupInv`: a push adds one message and wakes one sleeper, a pop that takes a
   message is itself one of the awake. By counting finite sets of consumers.
4. `RefsInv` adds that a consumer inside a pop holds no message (`EmptyHanded`),
   so no reference is overwritten.
5. `FifoInv` adds that only timed waits expire (`ExpiredTimed`). The sequence
   `Contents` is a function on `1..count`; lemmas relate it to `Append` and `Tail`,
   and each action of `Next` maps to one action of BoundedFifo or to a stutter.
6. `HolderAlone` follows from `LockInv`: a thread that is not the holder is outside
   the critical sections (`OthersWait`). `WaitsAsAsked` is inductive with the types.

### The memory pools

For any set of threads, any positive block counts, a medium block larger than a small
one, any sizes and any word (`PoolAssumption`), and a null pointer that is no block's
(`NullAssumption`):

| Theorem of `MemoryPoolProofs` | Says |
|---|---|
| `PoolTypeCorrect` | `[]TypeOK` |
| `AccountingCorrect` | `[]BlocksAccounted` |
| `StayCorrect` | `[]PoolPointersStay` |
| `AllocatorCorrect` | `Spec => ImplementsAllocator`, the refinement |

1. `PoolInv` = `TypeOK`, `CallInv`, `BlocksAccounted` and `PoolPointersStay`.
   `CallInv` says what a call has at each place: without it a step could overwrite a
   block that only the call knows. None of the four is inductive alone.
2. `TypeOK` needs `RoomToGive`, that a free list is not full while a call has a block
   to give back: a full list has as many entries as the pool has indices and does not
   hold that block's, so by the pigeonhole principle it would hold some index twice.
3. An address passes from the list to a call (`AccountedTake`), to hands
   (`AccountedReturn`), to a call (`AccountedEnter`) and to the list
   (`AccountedGive`); every other step moves none (`AccountedFrame`).
4. `AllocInv` adds `Copied`: a block is at least as large as what it was asked for,
   so the copy of `mec_realloc` loses nothing, and the two blocks hold the same until
   the old one is given back.
5. What the callers see changes only by what the stepping thread shows
   (`SeenStep`); so each step is a stutter, or lets an address appear, vanish or move
   (`Stutters`, `Appears`, `Vanishes`, `Moves`).

### The pipeline

For any queue capacity, any room of the lists and any number of detections
(`PipelineAssumption`: the two sensors, main and the null pointer are four values,
and a list has room for at least one track). `MCPipeline` and the proofs share the
module; only the number of sensors, two, is part of it.

| Theorem of `PipelineProofs` | Says |
|---|---|
| `QuietCorrect` | `[]QueueClosedQuietly` |
| `RefsCorrect` | `[]RefsBalanced` |
| `NoUseAfterFreeCorrect` | `[]NoUseAfterFree` |
| `PipelineTypeCorrect` | `[]TypeOK`: no list beyond its room, no count beyond `Capacity + 2` |
| `NothingStaleCorrect` | `[]NothingStale` |
| `CallsLegalCorrect` | `[]CallsLegal`: BoundedFifo's conditions on its callers are met |
| `QueueSteps` | `Spec => Q!Spec` |
| `ToldFirstCorrect` | `[]ToldFirst`: main waits only for a thread it has told to stop |
| `ThreadsWindDown` | `[][WindsDown]_vars`: a thread told to stop has at most nine steps left |
| `ShutdownAdvancing` | `[][ShutsDown]_vars`: main, once out of its loop, at most fifteen |

1. `QuietInv`: a thread is inside a queue call exactly where its code is
   (`CallsKnown`), and main has gone past a sensor only once that thread has exited
   (`Stopped`), so at the destruction all have. The property alone is not
   inductive: it says nothing before the queue is closed.
2. `RefsInv` adds `Messages` (a thread pushes its own list; main has a message in
   hand exactly while it ingests one), `Balance` and `JoinedExited`. The number of
   queued messages of a list is the size of a set of positions, which a push
   enlarges by one and a pop shifts: lemmas `OfAppend` and `OfTail`.
3. A pushed message brings a reference, a pop moves it to main's hand
   (`BalancePopped`), a release, a destroy function and the closing queue give back
   what they had (`BalanceRelease`, `BalanceDrop`, `BalanceClose`); all other steps
   move none (`BalanceFrame`).
4. `NoUseAfterFree` follows by counting: where a thread runs, its owner's reference
   is still there, and where main ingests, its own is.
5. For `NothingStale`, `ListInv` says how the two lists differ: the radar's only ever
   grows, the video's holds one track that the next frame replaces, and counts none
   while that frame is made. So a message that was pushed stays `Shown` by the cells of
   its list, counted or not, through every later step of the producer:
   `PacketsInv` says it of each queued message, `ReadInv` of the one in hand, together
   with what has been read of it. A read through an old pointer (`Garbage`) is only
   possible for the radar, whose list alone can outgrow its room.
6. `CallsLegal` is why the refinement of the queue may be used: an abstract queue that
   refuses a call would otherwise hide the step of the code that makes it. With
   `QueueSteps` and `FifoCorrect`, what `queue.c` does is what the pipeline sees.
7. The safety half of `ShutdownCompletes` is a count of the steps left. `StepsLeft`
   needs `Filling` (a list that is full has room after one growth), `StopsLeft` needs
   `JoinInv` (stop and destroy both join each sensor, so each is joined twice). No
   step of another thread adds to either count. What is left to fairness is that
   main's waits end: for a mutex that its thread holds for a bounded number of steps,
   and for a thread with a bounded number of steps.

### The fusion engine

For any capacity, age limit, batch, number of ids on the wire and set of sensors
(`FusionAssumption`):

| Theorem of `FusionProofs` | Says |
|---|---|
| `FusionTypeCorrect` | `[]TypeOK`: no index leaves the track array or the published list |
| `IdsCorrect` | `[]IdsDistinct` |
| `PublishedCorrect` | `[]PublishedInStep` |
| `EntriesCorrect` | `[]EntriesExisted` |
| `EntriesTellCorrect` | `[]EntriesTell`: while ids fit 16 bits, those in a packet are distinct and of tracks that have existed |
| `TableCorrect` | `Spec => ImplementsTable`, the refinement |
| `IdsNeverReused` | `Spec => [](Gone(id) => []Gone(id))`, for any id: a dropped track stays gone |
| `CycleBounded` | `[][CycleEnds]_vars`: a cycle takes at most `2 * TrackCapacity + 2` steps |
| `EntriesFitCorrect` | `[]EntriesFit`: no packet has more participants than the table slots |
| `MessageBounded` | `[][MessageEnds]_vars`: main is done with a message after a bounded number of its steps |

`FusionInv` is the first three and `Excludes` (who holds the mutex), `Stamped` (no track
is newer than the cycle's time, so a prediction never runs backwards), `Ahead` (a
track is published before the scan moves on) and `InBounds`. `PublishedInStep`
needs `Excludes`: main must not touch the tracks during a cycle. `EntriesExisted`
needs `PacketInv`: `OutOld` says of the published list, however old, what the
encoder's entries inherit by reading it without the lock, and `NamedBehind` that a
track already in the packet is not met again, since a drop moves tracks down only. `IdsDistinct` needs that
`next_global_id` is above every id, which `TypeOK` has, and for a swap that the
freed place is cut off by the new count.

For the refinement, `TableInv` adds `SourceKnown` (the detections being added are of
one sensor) and `CycleInv`. `Scanned` follows the tracks of the beginning of a cycle
through the swap deletions: each is ahead of the scan as it was, past it advanced
once, or expired, and nothing else is in the array. When the scan has passed the
last one, the array is what `TrackTable!Cycle` makes of the table (`Cycles`). The
abstract table is read off a set of tracks with distinct ids (`TableOf`, `TableAt`,
`TableIs`), so the order in the array, which the deletions change, does not matter.

`IdsNeverReused` holds while `next_global_id`, 32 bits wide in the code, has not come
round; the model lets it grow. `CycleLeft` counts two steps for each track not yet
scanned: a drop shortens the array where a kept track advances the index.
`MessageLeft` needs `EntriesFit`, as the encoder's loop ends at a count that the
fusion thread sets to 0 and raises again under it: but never above the capacity. They
are the safety halves of `Expires` and `MainReturns`.

### The log

For any set of worker threads and any number of signals (`LoggingAssumption`),
`LoggingProofs` has `LogTypeCorrect` (`[]TypeOK`) and `OneWriterCorrect`
(`[]OneWriter`). The conjunction of the two is inductive, as `OneWriter` names the
writer by the mutex. `HolderGoesOnCorrect` says that the log can get stuck in one way
only: unless a handler waits for what it interrupted, the thread of the message being
written, at whichever level that is, or main, whose status line it waits for, has a
step that waits for nothing. `DeadlockStays` says that this way is for good. Together
they are why `StopsUnlessInterrupted` excludes exactly that case.

### The process lifecycle

Lifecycle has no constants and no bounds, so TLC has visited all of its states. The
proofs of `LifecycleProofs` say why it came out right, and will still say so when a
step is added to the startup:

| Theorem of `LifecycleProofs` | Says |
|---|---|
| `UsersGoFirstCorrect` | `[]UsersGoFirst` |
| `NothingLeftCorrect` | `[]NothingLeft` |
| `LateCrashIsLastCorrect` | `[]LateCrashIsLast` |
| `LoopNeedsSimulation` | `[](entered => sim)`: with real sensors the loop is never reached |

`LifeInv` has `StartInv`, what exists at each step of the startup, and `CleanInv`, that
what the cleanup has passed is gone; `ThreadInv` ties a thread to its object and its
context. `EnteredInv` is what the startup hands over to the cleanup: no pointer is
unset and no live object's context raw. What is left to crash is the second free of a
dangling configuration, which is the last of the cleanup order; `CleanInv` says that
all else is gone by then. That the radar never starts is in `StartInv`;
`LoopNeedsSimulation` follows, and with it that `EnteredInv` only has to hold for a
simulation.

### The frame parser

For any bytes, two different header bytes, any payload length above 0 and any check
function (`ParserAssumption`):

| Theorem of `RadarParserProofs` | Says |
|---|---|
| `ParserTypeCorrect` | `[]TypeOK` |
| `FramesCorrect` | `[]OnlyValidFrames` |
| `RecoveryCorrect` | `[]MissesAtMostOne` |

1. `WireInv`: in each state of the automaton, the last bytes that came since the last
   detection are the header and the buffer so far (`<<Head1>>`, `<<Head1, Head2>> \o buf`).
   A detection is then the end of the wire, and no byte of it is older than the one
   before it, as `HandOver` empties `wire`.
2. `MissInv` compares the automaton with the clean frame on the line: it is in step
   (where it should be after that part of the frame), or out of step and then not
   behind a header of this frame. A clean frame holds no 0xAA behind its header, so an
   automaton that is out of step at its beginning has swallowed the rest or is IDLE at
   its end; either way the next clean frame is in step from its first byte, and is
   accepted. So `missed` goes to 1 and back to 0.

### The simulation mode

For any file and any room of the lists above 0, any set of at least two descriptors, and
distinct users of them (`ProcessAssumption`, `SimulatorAssumption`,
`MonitorAssumption`, `UsersAssumption`):

| Theorem of `SimulationModeProofs` | Says |
|---|---|
| `TypeCorrect` | `[]TypeOK`, with the bound on the racing count |
| `PullCorrect` | `[]PullInOrder`, also of a list that grows or fails to |
| `DescriptorsCorrect` | `[]DescriptorsOwned` |
| `ReachableCorrect` | `[]MonitorReachable` |
| `ToldFirstCorrect` | `[]ToldFirst`: main waits only for a thread it has told to end |
| `ThreadsEnd` | `[][SimulatorEnds /\ MonitorEnds]_vars`: a thread told to end has at most ten steps left, or six |
| `MainEndsCorrect` | `[][MainEnds]_vars`: after a signal main has at most nine steps and two for each track of a round |

The inductive invariant is `TypeOK`, `PullInv` and `DescriptorInv`.

1. `Counted`: the settled cells (`Top`) are at most the video lines read so far in
   this round, and the count is that or 0: main's clearing, and a list that cannot
   grow, can only make it smaller.
   `PullInOrder` says nothing of this, and a bound on the count alone is not inductive.
2. `Sorted`: the settled cells are of this round and increase; the cell behind them
   may be the add in progress, and is the only one newer than the lines dealt with.
3. `Pulled`: what a pull has taken is behind what it takes next. The hard step is the
   end of a round while main is about to take a cell (`PullClear`): `Rounds` says that
   the whole file was read by then, and since main has not cleared the list in between,
   every cell it may look at was filled in this round. So all of them grow older
   together, and the next round writes only newer ones over them.
4. `Phases`, `Opened` and `Owned` say which thread has a number, and that only a
   monitor that gave up leaves the number of its socket behind. `Path` needs them:
   the monitor finds a free number because the file's is the only other one.
5. The safety half of `ShutdownEnds` is again a count of steps left. `MainLeft` is
   bounded though main may be in a pull from a list that the simulator fills: `TypeOK`
   bounds the list by one round, and the pull's index never goes back. A thread whose
   flag is cleared finishes the line, or the answer, in hand and starts no other.

### What is only model-checked

Liveness, which rests on fairness and ENABLED and is out of TLAPS's reach:
`TimedPopReturns`, `SleeperServed`, `ShutdownCompletes`, `SignalEndsProcess`,
`Expires`, `MainReturns`, `StopsUnlessInterrupted` and `ShutdownEnds`. For the
pipeline, the fusion engine and the simulation mode the theorems above prove that the
steps left only get fewer; that the next one is taken is what TLC checks. Every
safety invariant and every refinement that a passing run checks is a theorem.

## 5. Assumptions of the models

Sequential consistency: `thread_ctx.running`, `main`'s `running` and the unlocked
counts are plain C objects, and a compiler may keep one in a register; the models
read them afresh each time. Allocation failures appear in Lifecycle, MemoryPool and
SimulationMode only. `write` of one track is one step, although the unlocked readers could see half
of one.

## 6. Not modelled

- The Kalman matrices: floating point; only the times they are called with.
- `video_processor.cpp`, `memory.c`: not in the program the build makes.
- Metrics and error codes: counters under one lock, and a table of strings.
- The text of a configuration line and the lookup of a key: string handling without
  state; what is loaded, and what main does without it, is in Lifecycle. Reload:
  unreachable, as its signal is not installed.
- The layout of a V2X packet and the scaling of radar fields: sequences of assignments.
- The text of the monitor's answer, and a second instance of the program, which would
  take over the monitor's path.
