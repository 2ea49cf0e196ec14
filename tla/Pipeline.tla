------------------------------ MODULE Pipeline ------------------------------
(***************************************************************************)
(* Real-sensor mode of main.c: the video and radar threads produce track   *)
(* lists into the message queue, the main loop ingests them, and on a      *)
(* signal stops the threads, gives back the lists and destroys the queue.  *)
(*                                                                         *)
(* The queue is the bounded FIFO that MecQueue implements; every access to *)
(* it is a step of BoundedFifo.  Each sensor owns one track list, named    *)
(* after it, which every one of its messages points to.  A detection is    *)
(* its serial number.  The video thread is the one the build links         *)
(* (video_processor_mock.c).                                               *)
(***************************************************************************)
EXTENDS Naturals, Sequences, FiniteSets

CONSTANTS Video, Radar,    \* the sensor threads, and their track lists
          Main,            \* the main thread
          Null,            \* the NULL pointer
          Capacity,        \* of the queue (main.c:64)
          InitialRoom,     \* tracks a new list has room for, by sensor
          MaxDetections    \* bound: detections per sensor

Sensors == {Video, Radar}

ASSUME PipelineAssumption ==
  /\ Video # Radar
  /\ Main \notin Sensors
  /\ Null \notin Sensors \cup {Main}
  /\ Capacity \in Nat \ {0}
  /\ InitialRoom \in [Sensors -> Nat \ {0}]
  /\ MaxDetections \in Nat

(* What a read through a pointer into a freed block may return.            *)
Garbage == 0

VARIABLES fifo, calling, arg, wait, out, open,  \* the queue
          sensor,    \* where each sensor thread is
          on,        \* thread_ctx.running of each sensor
          cells,     \* the tracks each list's buffer holds, stale ones included
          count,     \* list->count
          room,      \* list->capacity
          block,     \* how often the buffer has been moved by a realloc
          made,      \* detections made so far
          refs,      \* list->ref_count; the list is freed when it reaches 0
          main,      \* where the main thread is
          running,   \* main.c: static int running
          target,    \* the sensor the main thread is stopping
          joins,     \* how often each thread has been joined
          index, ptr, \* i, and the block s_track points into
          got,       \* what the main loop has read of the message in hand
          packets,   \* history: what each queued message was when pushed
          packet     \* history: the same for the message in hand

queue == <<fifo, calling, arg, wait, out, open>>
lists == <<cells, count, room, block, made>>
reading == <<index, ptr, got>>
stopping == <<running, target, joins>>
history == <<packets, packet>>
vars == <<queue, sensor, on, lists, refs, main, stopping, reading, history>>

Q == INSTANCE BoundedFifo WITH
       Producers <- Sensors, Consumers <- {Main}, Lists <- Sensors

-----------------------------------------------------------------------------
Init == /\ Q!Init
        /\ sensor = [s \in Sensors |-> "check"]
        /\ on = [s \in Sensors |-> TRUE]
        /\ cells = [s \in Sensors |-> << >>]
        /\ count = [s \in Sensors |-> 0]
        /\ room = InitialRoom
        /\ block = [s \in Sensors |-> 0]
        /\ made = [s \in Sensors |-> 0]
        /\ refs = [s \in Sensors |-> 1]
        /\ main = "loop"
        /\ running = TRUE
        /\ target = Video
        /\ joins = [s \in Sensors |-> 0]
        /\ index = 0
        /\ ptr = 0
        /\ got = << >>
        /\ packets = << >>
        /\ packet = << >>

(* The sensor threads hold thread_ctx.mutex from their lock to their       *)
(* unlock; the main thread only passes through it, in one step.            *)
HoldsCtx(s) == sensor[s] \in {"clear", "store", "count", "push", "pushing",
                              "unlock"}

SensorGoto(s, place) == sensor' = [sensor EXCEPT ![s] = place]

-----------------------------------------------------------------------------
(* video_processing_thread and radar_processing_thread                     *)

(* The loop test.  The radar thread goes on only when radar_read_data      *)
(* returns a detection; until then it polls.                               *)
Detect(s) == /\ sensor[s] = "check"
             /\ on[s]
             /\ made[s] < MaxDetections
             /\ SensorGoto(s, "lock")
             /\ UNCHANGED <<queue, on, lists, refs, main, stopping, reading,
                            history>>

Exit(s) == /\ sensor[s] = "check"
           /\ ~on[s]
           /\ SensorGoto(s, "exited")
           /\ UNCHANGED <<queue, on, lists, refs, main, stopping, reading,
                          history>>

(* Variants named "... Bug" are plausible mistakes in the definition that   *)
(* follows; no specification uses them.                                    *)
LockCtxBug(s) == /\ sensor[s] = "lock"
                 /\ SensorGoto(s, "clear")  \* the radar list is cleared too
                 /\ UNCHANGED <<queue, on, lists, refs, main, stopping, reading,
                                history>>

LockCtx(s) == /\ sensor[s] = "lock"
              /\ SensorGoto(s, IF s = Video THEN "clear" ELSE "store")
              /\ UNCHANGED <<queue, on, lists, refs, main, stopping, reading,
                             history>>

(* Only the video thread clears its list before it adds.                   *)
Clear(s) == /\ sensor[s] = "clear"
            /\ count' = [count EXCEPT ![s] = 0]
            /\ SensorGoto(s, "store")
            /\ UNCHANGED <<queue, on, cells, room, block, made, refs, main,
                           stopping, reading, history>>

(* track_list_add: the realloc moves the buffer and frees the old one.     *)
Grow(s) == /\ sensor[s] = "store"
           /\ count[s] >= room[s]
           /\ room' = [room EXCEPT ![s] = 2 * @]
           /\ block' = [block EXCEPT ![s] = @ + 1]
           /\ UNCHANGED <<queue, sensor, on, cells, count, made, refs, main,
                          stopping, reading, history>>

StoreBug(s) == /\ sensor[s] = "store"  \* the room is not checked
               /\ made' = [made EXCEPT ![s] = @ + 1]
               /\ cells' = [cells EXCEPT ![s] =
                              SubSeq(@, 1, count[s]) \o <<made'[s]>>]
               /\ SensorGoto(s, "count")
               /\ UNCHANGED <<queue, on, count, room, block, refs, main,
                              stopping, reading, history>>

Store(s) == /\ sensor[s] = "store"
            /\ count[s] < room[s]
            /\ made' = [made EXCEPT ![s] = @ + 1]
            /\ cells' = [cells EXCEPT ![s] =
                           SubSeq(@, 1, count[s]) \o <<made'[s]>>]
            /\ SensorGoto(s, "count")
            /\ UNCHANGED <<queue, on, count, room, block, refs, main, stopping,
                           reading, history>>

Count(s) == /\ sensor[s] = "count"
            /\ count' = [count EXCEPT ![s] = @ + 1]
            /\ SensorGoto(s, "push")
            /\ UNCHANGED <<queue, on, cells, room, block, made, refs, main,
                           stopping, reading, history>>

Push(s) == /\ sensor[s] = "push"
           /\ Q!CallPush(s, s)
           /\ SensorGoto(s, "pushing")
           /\ UNCHANGED <<on, lists, refs, main, stopping, reading, history>>

PushOkBug(s) == /\ sensor[s] = "pushing"  \* the list is not retained
                /\ Q!PushOk(s)
                /\ packets' = Append(packets, SubSeq(cells[s], 1, count[s]))
                /\ SensorGoto(s, "unlock")
                /\ UNCHANGED <<on, lists, refs, main, stopping, reading, packet>>

(* The queue retains the list; it does not copy it.                        *)
PushOk(s) == /\ sensor[s] = "pushing"
             /\ Q!PushOk(s)
             /\ refs' = [refs EXCEPT ![s] = @ + 1]
             /\ packets' = Append(packets, SubSeq(cells[s], 1, count[s]))
             /\ SensorGoto(s, "unlock")
             /\ UNCHANGED <<on, lists, main, stopping, reading, packet>>

(* The result of mec_queue_push is ignored: a full queue drops the message.*)
PushFails(s) == /\ sensor[s] = "pushing"
                /\ Q!PushFails(s)
                /\ SensorGoto(s, "unlock")
                /\ UNCHANGED <<on, lists, refs, main, stopping, reading,
                               history>>

UnlockCtx(s) == /\ sensor[s] = "unlock"
                /\ SensorGoto(s, "check")
                /\ UNCHANGED <<queue, on, lists, refs, main, stopping, reading,
                               history>>

-----------------------------------------------------------------------------
(* The core message loop of main.c                                         *)

Poll == /\ main = "loop"
        /\ running
        /\ Q!CallPop(Main, "timed")
        /\ main' = "popping"
        /\ UNCHANGED <<sensor, on, lists, refs, stopping, reading, history>>

Popped == /\ main = "popping"
          /\ Q!PopOk(Main)
          /\ main' = "ingest"
          /\ index' = 0
          /\ got' = << >>
          /\ packet' = Head(packets)
          /\ packets' = Tail(packets)
          /\ UNCHANGED <<sensor, on, lists, refs, stopping, ptr>>

TimedOut == /\ main = "popping"
            /\ Q!PopFails(Main)
            /\ main' = "loop"
            /\ UNCHANGED <<sensor, on, lists, refs, stopping, reading, history>>

(* fusion_processor_add_tracks walks the list under the fusion mutex, not  *)
(* under the sensor's: the list may change between any two of its reads.   *)
Pick == /\ main = "ingest"
        /\ index < count[out[Main]]
        /\ ptr' = block[out[Main]]
        /\ main' = "use"
        /\ UNCHANGED <<queue, sensor, on, lists, refs, stopping, index, got,
                       history>>

Readable == {cells[out[Main]][index + 1]}
              \cup (IF ptr = block[out[Main]] THEN {} ELSE {Garbage})

Use == /\ main = "use"
       /\ \E track \in Readable : got' = Append(got, track)
       /\ index' = index + 1
       /\ main' = "ingest"
       /\ UNCHANGED <<queue, sensor, on, lists, refs, stopping, ptr, history>>

Ingested == /\ main = "ingest"
            /\ index >= count[out[Main]]
            /\ main' = "release"
            /\ UNCHANGED <<queue, sensor, on, lists, refs, stopping, reading,
                           history>>

Release == /\ main = "release"
           /\ refs' = [refs EXCEPT ![out[Main]] = @ - 1]
           /\ Q!Consume(Main)
           /\ main' = "loop"
           /\ UNCHANGED <<sensor, on, lists, stopping, reading, history>>

-----------------------------------------------------------------------------
(* Shutdown                                                                *)

(* SIGINT or SIGTERM, at any time.                                         *)
Signal == /\ running
          /\ running' = FALSE
          /\ UNCHANGED <<queue, sensor, on, lists, refs, main, target, joins,
                         reading, history>>

LeaveLoop == /\ main = "loop"
             /\ ~running
             /\ main' = "flag"
             /\ UNCHANGED <<queue, sensor, on, lists, refs, stopping, reading,
                            history>>

(* thread_destroy, which X_processor_stop and X_processor_destroy both     *)
(* call: clear the flag, pass through the mutex, join.                     *)
StopFlagBug == /\ main = "flag"  \* running is not cleared
               /\ main' = "wake"
               /\ UNCHANGED <<queue, sensor, on, lists, refs, stopping, reading,
                              history>>

StopFlag == /\ main = "flag"
            /\ on' = [on EXCEPT ![target] = FALSE]
            /\ main' = "wake"
            /\ UNCHANGED <<queue, sensor, lists, refs, stopping, reading,
                           history>>

(* The second time the mutex has been destroyed and the lock just fails.   *)
StopWake == /\ main = "wake"
            /\ ~HoldsCtx(target)
            /\ main' = "join"
            /\ UNCHANGED <<queue, sensor, on, lists, refs, stopping, reading,
                           history>>

JoinBug == /\ main = "join"  \* does not wait for the thread
           /\ joins' = [joins EXCEPT ![target] = @ + 1]
           /\ main' = IF joins[target] = 0 THEN "flag" ELSE "drop"
           /\ UNCHANGED <<queue, sensor, on, lists, refs, running, target,
                          reading, history>>

(* The second join finds the thread joined and fails at once.              *)
Join == /\ main = "join"
        /\ sensor[target] = "exited"
        /\ joins' = [joins EXCEPT ![target] = @ + 1]
        /\ main' = IF joins[target] = 0 THEN "flag" ELSE "drop"
        /\ UNCHANGED <<queue, sensor, on, lists, refs, running, target, reading,
                       history>>

DropBug == /\ main = "drop"  \* the radar is forgotten
           /\ refs' = [refs EXCEPT ![target] = @ - 1]
           /\ target' = Radar
           /\ main' = "close"
           /\ UNCHANGED <<queue, sensor, on, lists, running, joins, reading,
                          history>>

(* X_processor_destroy gives back the owner's reference to the list.       *)
Drop == /\ main = "drop"
        /\ refs' = [refs EXCEPT ![target] = @ - 1]
        /\ target' = Radar
        /\ main' = IF target = Video THEN "flag" ELSE "close"
        /\ UNCHANGED <<queue, sensor, on, lists, running, joins, reading,
                       history>>

Queued(s) == {i \in DOMAIN fifo : fifo[i] = s}

CloseQueue == /\ main = "close"
              /\ Q!Close
              /\ refs' = [s \in Sensors |-> refs[s] - Cardinality(Queued(s))]
              /\ packets' = << >>
              /\ main' = "done"
              /\ UNCHANGED <<sensor, on, lists, stopping, reading, packet>>

Done == main = "done" /\ UNCHANGED vars

-----------------------------------------------------------------------------
SensorStep(s) == \/ Detect(s)
                 \/ Exit(s)
                 \/ LockCtx(s)
                 \/ Clear(s)
                 \/ Grow(s)
                 \/ Store(s)
                 \/ Count(s)
                 \/ Push(s)
                 \/ PushOk(s)
                 \/ PushFails(s)
                 \/ UnlockCtx(s)

MainStep == \/ Poll
            \/ Popped
            \/ TimedOut
            \/ Pick
            \/ Use
            \/ Ingested
            \/ Release
            \/ LeaveLoop
            \/ StopFlag
            \/ StopWake
            \/ Join
            \/ Drop
            \/ CloseQueue

Next == \/ \E s \in Sensors : SensorStep(s)
        \/ MainStep
        \/ Signal
        \/ Done

Spec == Init /\ [][Next]_vars

(* Every thread keeps being scheduled, and the main thread gets the mutex  *)
(* of a sensor thread that releases it over and over.  Nothing has to be   *)
(* detected and no signal has to come.                                     *)
Fairness == /\ \A s \in Sensors : WF_vars(SensorStep(s))
            /\ SF_vars(MainStep)

FairSpec == Spec /\ Fairness
-----------------------------------------------------------------------------
(* Properties                                                              *)

Detections == 0 .. MaxDetections

SensorPlaces == {"check", "lock", "clear", "store", "count", "push",
                 "pushing", "unlock", "exited"}

MainPlaces == {"loop", "popping", "ingest", "use", "release", "flag", "wake",
               "join", "drop", "close", "done"}

TypeOK == /\ fifo \in Seq(Sensors) /\ Len(fifo) <= Capacity
          /\ calling \subseteq Sensors \cup {Main}
          /\ out[Main] \in Sensors \cup {Null}
          /\ open \in BOOLEAN
          /\ sensor \in [Sensors -> SensorPlaces]
          /\ on \in [Sensors -> BOOLEAN]
          /\ cells \in [Sensors -> Seq(Detections)]
          /\ \A s \in Sensors : count[s] \in 0 .. Len(cells[s])
          /\ \A s \in Sensors : Len(cells[s]) <= room[s]
          /\ made \in [Sensors -> Detections]
          /\ \A s \in Sensors : refs[s] \in 0 .. Capacity + 2
          /\ main \in MainPlaces
          /\ running \in BOOLEAN
          /\ target \in Sensors
          /\ joins \in [Sensors -> 0 .. 2]
          /\ got \in Seq(Detections)
          /\ Len(packets) = Len(fifo)

(* The references to a list are the owner's until it is destroyed, one per *)
(* queued message, and the main loop's while it ingests (queue.c:54, 81;   *)
(* main.c:232; the destroy functions).  So no thread uses a freed list,    *)
(* whatever the queue still holds when its owner goes away, and none is    *)
(* left when the system is down.                                           *)
Owned(s) == CASE main \in {"close", "done"} -> 0
              [] s = Video /\ target = Radar -> 0
              [] OTHER -> 1

RefsBalanced ==
  \A s \in Sensors :
    refs[s] = Owned(s) + Cardinality(Queued(s))
                       + Cardinality({c \in {Main} : out[c] = s})

(* A thread that still runs uses a list that is still allocated, and its   *)
(* lock and its processor are destroyed only after it has exited.          *)
NoUseAfterFree ==
  /\ \A s \in Sensors : sensor[s] # "exited" => refs[s] > 0 /\ joins[s] = 0
  /\ main \in {"ingest", "use", "release"} => refs[out[Main]] > 0

(* What main.c:281-297 owes mec_queue_destroy: no thread is inside a call  *)
(* of the queue, or can enter one again, when it is destroyed.             *)
QueueClosedQuietly ==
  main \in {"close", "done"} =>
    calling = {} /\ \A s \in Sensors : sensor[s] = "exited"

(* What the main loop has read of a message, its list being shared with a  *)
(* producer that goes on.  Of a video message: the pushed frame or a later *)
(* one; or nothing, the pushed frame being lost, if the video thread had   *)
(* cleared the list for the next frame by then (video_processor_mock.c:63).*)
(* Of a radar message: every detection since the start, once, those pushed *)
(* with it and maybe later ones (radar_processor.c never clears its list), *)
(* save what was read through a stale pointer.                             *)
NothingStale ==
  main = "release" =>
    /\ out[Main] = Video =>
         \/ Len(got) = 1 /\ got[1] >= packet[1]
         \/ /\ got = << >>
            /\ made[Video] > packet[1] \/ sensor[Video] = "store"
    /\ out[Main] = Radar =>
         /\ Len(got) \in Len(packet) .. made[Radar]
         /\ \A i \in DOMAIN got : got[i] \in {i, Garbage}

(* A signal leads to a complete shutdown, from whatever state the threads  *)
(* and the queue are in: both threads exit, and all lists are freed.       *)
ShutdownCompletes ==
  ~running ~> main = "done" /\ \A s \in Sensors : refs[s] = 0

-----------------------------------------------------------------------------
(* What the documentation promises and the code does not keep              *)

(* mec_queue.h:41: the push copies the tracks to make them safe under      *)
(* threads: the main loop then never reads through a pointer into a buffer *)
(* that the producer has freed.                                            *)
PointerValid == main = "use" => ptr = block[out[Main]]
=============================================================================
