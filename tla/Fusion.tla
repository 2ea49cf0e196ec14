------------------------------- MODULE Fusion -------------------------------
(***************************************************************************)
(* The fusion processor (fusion_processor.c) and its two users: the main   *)
(* loop adds the tracks of a message and then encodes the fused list for   *)
(* V2X (v2x_codec.c), while the fusion thread advances, drops and          *)
(* publishes tracks.  thread_ctx.mutex protects the tracks; the published  *)
(* list is read without it.                                                *)
(*                                                                         *)
(* The Kalman arithmetic is abstracted: which track a detection is nearest *)
(* to, if any is near enough, is any choice, and a confidence is only      *)
(* above the threshold or below.  Arrays are indexed from 0 as in C.       *)
(***************************************************************************)
EXTENDS Naturals, Sequences, FiniteSets

CONSTANTS Sensors,        \* sensor ids
          TrackCapacity,  \* track_capacity
          WireIds,        \* ids a packet can tell apart: target_id is a uint16_t
          MaxAge,         \* config.max_track_age
          MaxBatch,       \* bound: detections in a message
          MaxIds,         \* bound: no message once this many tracks were created
          MaxTime         \* bound: ticks of the clock

ASSUME FusionAssumption ==
  /\ Sensors # {}
  /\ TrackCapacity \in Nat \ {0}
  /\ WireIds \in Nat \ {0}
  /\ {MaxAge, MaxBatch, MaxIds, MaxTime} \subseteq Nat

VARIABLES cell,       \* processor->tracks
          trackCount, \* processor->track_count
          nextId,     \* processor->next_global_id
          outCell,    \* output_tracks->tracks, the ids in it
          outCount,   \* output_tracks->count
          lock,       \* the holder of thread_ctx.mutex
          main,       \* where the main loop is
          source,     \* the sensor of the message in hand, as a mask
          left,       \* detections of it still to add
          number,     \* the count byte of the packet being encoded
          entries,    \* its participants, the ids as they are sent
          named,      \* history: their global ids
          fusion,     \* where the fusion thread is
          i,          \* its loop index
          now,        \* its time
          clock,      \* gettimeofday; 0 is the epoch
          begun       \* history: the live tracks when the cycle began

tracks == <<cell, trackCount, nextId>>
output == <<outCell, outCount>>
packet == <<number, entries, named>>
ingest == <<source, left>>
cycle == <<fusion, i, now, begun>>
vars == <<tracks, output, lock, main, ingest, packet, cycle, clock>>

Slots == 0 .. TrackCapacity - 1
Live == 0 .. trackCount - 1

(* A fused_track_t.  stamp is its last_update; moved is history, the time   *)
(* its state has been predicted over since its newest detection.           *)
Track(id, mask, trusted, stamp) ==
  [id |-> id, mask |-> mask, trusted |-> trusted, stamp |-> stamp,
   age |-> 0, moved |-> 0]

(* What mec_calloc leaves.                                                 *)
Blank == Track(0, {}, FALSE, 0)

-----------------------------------------------------------------------------
Init == /\ cell = [k \in Slots |-> Blank]
        /\ trackCount = 0
        /\ nextId = 1
        /\ outCell = [k \in Slots |-> 0]
        /\ outCount = 0
        /\ lock = "free"
        /\ main = "idle"
        /\ source = {}
        /\ left = 0
        /\ number = 0
        /\ entries = << >>
        /\ named = << >>
        /\ fusion = "sleep"
        /\ i = 0
        /\ now = 0
        /\ clock = 1
        /\ begun = {}

-----------------------------------------------------------------------------
(* fusion_processor_add_tracks, called by the main loop                    *)

(* A message is popped.                                                    *)
Receive == /\ main = "idle"
           /\ \E sensor \in Sensors : source' = {sensor}
           /\ nextId <= MaxIds
           /\ left' \in 1 .. MaxBatch
           /\ main' = "lock"
           /\ UNCHANGED <<tracks, output, lock, packet, cycle, clock>>

AddLock == /\ main = "lock"
           /\ lock = "free"
           /\ lock' = "main"
           /\ main' = "add"
           /\ UNCHANGED <<tracks, output, ingest, packet, cycle, clock>>

Adding == main = "add" /\ left > 0

(* 0.7 of the old confidence and 0.3 of the new: on the side of the        *)
(* threshold where both are, on either side when they differ.              *)
Blend(old, new) == {old, new}

(* update_fused_track                                                      *)
UpdateTrack(j, time, trusted) ==
  /\ Adding
  /\ cell' = [cell EXCEPT ![j] =
                Track(@.id, @.mask \cup source, trusted, time)]
  /\ left' = left - 1
  /\ UNCHANGED <<trackCount, nextId, output, lock, main, source, packet, cycle,
                 clock>>

(* Variants named "... Bug" are plausible mistakes in the definition that   *)
(* follows; no specification uses them.                                    *)
CreateTrackBug(trusted) ==
  /\ Adding
  /\ trackCount < TrackCapacity
  /\ cell' = [cell EXCEPT ![trackCount] =  \* |= where the code has =
                Track(nextId, @.mask \cup source, trusted, @.stamp)]
  /\ trackCount' = trackCount + 1
  /\ nextId' = nextId + 1
  /\ left' = left - 1
  /\ UNCHANGED <<output, lock, main, source, packet, cycle, clock>>

CreateTrackFullBug(trusted) ==
  /\ Adding
  /\ cell' = [cell EXCEPT ![trackCount] =  \* no test of the capacity
                Track(nextId, source, trusted, @.stamp)]
  /\ trackCount' = trackCount + 1
  /\ nextId' = nextId + 1
  /\ left' = left - 1
  /\ UNCHANGED <<output, lock, main, source, packet, cycle, clock>>

(* The slot keeps the last_update of the track it held before: only the    *)
(* last_update of its filter is set.                                       *)
CreateTrack(trusted) ==
  /\ Adding
  /\ trackCount < TrackCapacity
  /\ cell' = [cell EXCEPT ![trackCount] =
                Track(nextId, source, trusted, @.stamp)]
  /\ trackCount' = trackCount + 1
  /\ nextId' = nextId + 1
  /\ left' = left - 1
  /\ UNCHANGED <<output, lock, main, source, packet, cycle, clock>>

(* No track is near and there is no room: the detection is dropped.        *)
Ignore == /\ Adding
          /\ trackCount = TrackCapacity
          /\ left' = left - 1
          /\ UNCHANGED <<tracks, output, lock, main, source, packet, cycle,
                         clock>>

(* The message is done with: its track list is released.                   *)
AddUnlock == /\ main = "add"
             /\ left = 0
             /\ lock' = "free"
             /\ main' = "look"
             /\ source' = {}
             /\ UNCHANGED <<tracks, output, left, packet, cycle, clock>>

-----------------------------------------------------------------------------
(* The main loop reads the published list, without the lock                *)

NothingToSend == /\ main = "look"
                 /\ outCount = 0
                 /\ main' = "idle"
                 /\ UNCHANGED <<tracks, output, lock, ingest, packet, cycle,
                                clock>>

SomethingToSend == /\ main = "look"
                   /\ outCount > 0
                   /\ main' = "number"
                   /\ UNCHANGED <<tracks, output, lock, ingest, packet, cycle,
                                  clock>>

EncodeNumber == /\ main = "number"
                /\ number' = outCount
                /\ entries' = << >>
                /\ named' = << >>
                /\ main' = "entries"
                /\ UNCHANGED <<tracks, output, lock, ingest, cycle, clock>>

(* The loop condition reads the count again.                               *)
EncodeNext == /\ main = "entries"
              /\ Len(entries) < outCount
              /\ main' = "entry"
              /\ UNCHANGED <<tracks, output, lock, ingest, packet, cycle, clock>>

(* A participant's target_id is the low 16 bits of the track's id.         *)
Sent(id) == id % WireIds

EncodeEntryOffByOneBug ==
  /\ main = "entry"
  /\ entries' = Append(entries, Sent(outCell[Len(entries) + 1]))
  /\ named' = Append(named, outCell[Len(entries) + 1])
  /\ main' = "entries"
  /\ UNCHANGED <<tracks, output, lock, ingest, number, cycle, clock>>

(* The list may have been cleared, or begun anew, since the count was read. *)
EncodeEntry == /\ main = "entry"
               /\ entries' = Append(entries, Sent(outCell[Len(entries)]))
               /\ named' = Append(named, outCell[Len(entries)])
               /\ main' = "entries"
               /\ UNCHANGED <<tracks, output, lock, ingest, number, cycle, clock>>

(* The packet is not used further: its variables are cleared with the next *)
(* step of the model.                                                      *)
EncodeDone == /\ main = "entries"
              /\ Len(entries) >= outCount
              /\ main' = "sent"
              /\ UNCHANGED <<tracks, output, lock, ingest, packet, cycle, clock>>

NextMessage == /\ main = "sent"
               /\ main' = "idle"
               /\ number' = 0
               /\ entries' = << >>
               /\ named' = << >>
               /\ UNCHANGED <<tracks, output, lock, ingest, cycle, clock>>

-----------------------------------------------------------------------------
(* fusion_processing_thread                                                *)

LiveTracks == {cell[k] : k \in Live}

CycleLock == /\ fusion = "sleep"
             /\ lock = "free"
             /\ lock' = "fusion"
             /\ now' = clock
             /\ begun' = LiveTracks
             /\ fusion' = "clear"
             /\ UNCHANGED <<tracks, output, main, ingest, packet, i, clock>>

ClearOutput == /\ fusion = "clear"
               /\ outCount' = 0
               /\ i' = 0
               /\ fusion' = "scan"
               /\ UNCHANGED <<tracks, outCell, lock, main, ingest, packet, now,
                              begun, clock>>

AdvancedBug(t) ==
  [t EXCEPT !.moved = @ + (now - t.stamp),
            !.age = IF @ < MaxAge THEN @ + 1 ELSE @]  \* stops at the limit

(* predict_track_state by the time since last_update, then age++.  A time  *)
(* of 0 predicts nothing, which moves the state by as much.                *)
Advanced(t) == [t EXCEPT !.moved = @ + (now - t.stamp), !.age = @ + 1]

Expired(t) == t.age > MaxAge \/ ~t.trusted

Scanning == fusion = "scan" /\ i < trackCount

DropTrackBug == /\ Scanning
                /\ Expired(Advanced(cell[i]))
                /\ cell' = [cell EXCEPT ![i] = cell[trackCount - 1]]
                /\ trackCount' = trackCount - 1
                /\ i' = i + 1  \* no i--
                /\ UNCHANGED <<nextId, output, lock, main, ingest, packet,
                               fusion, now, begun, clock>>

DropTrackCountBug == /\ Scanning
                     /\ Expired(Advanced(cell[i]))
                     /\ IF i < trackCount - 1
                        THEN /\ cell' = [cell EXCEPT ![i] = cell[trackCount - 1]]
                             /\ UNCHANGED trackCount  \* only without a swap
                        ELSE /\ cell' = [cell EXCEPT ![i] = Advanced(@)]
                             /\ trackCount' = trackCount - 1
                     /\ UNCHANGED <<nextId, output, lock, main, ingest, packet,
                                    cycle, clock>>

(* The last track takes the place of the one dropped, and is scanned next. *)
DropTrack == /\ Scanning
             /\ Expired(Advanced(cell[i]))
             /\ cell' = [cell EXCEPT ![i] = IF i < trackCount - 1
                                            THEN cell[trackCount - 1]
                                            ELSE Advanced(@)]
             /\ trackCount' = trackCount - 1
             /\ UNCHANGED <<nextId, output, lock, main, ingest, packet, cycle,
                            clock>>

KeepTrack == /\ Scanning
             /\ ~Expired(Advanced(cell[i]))
             /\ cell' = [cell EXCEPT ![i] = Advanced(@)]
             /\ outCell' = [outCell EXCEPT ![outCount] = cell[i].id]
             /\ fusion' = "publish"
             /\ UNCHANGED <<trackCount, nextId, outCount, lock, main, ingest,
                            packet, i, now, begun, clock>>

Publish == /\ fusion = "publish"
           /\ outCount' = outCount + 1
           /\ i' = i + 1
           /\ fusion' = "scan"
           /\ UNCHANGED <<tracks, outCell, lock, main, ingest, packet, now,
                          begun, clock>>

CycleUnlockBug == /\ fusion = "scan"  \* the unlock is missing
                  /\ i >= trackCount
                  /\ fusion' = "clear"
                  /\ UNCHANGED <<tracks, output, lock, main, ingest, packet, i,
                                 now, begun, clock>>

(* The locals of the loop body go out of scope.                            *)
CycleUnlock == /\ fusion = "scan"
               /\ i >= trackCount
               /\ lock' = "free"
               /\ fusion' = "sleep"
               /\ i' = 0
               /\ now' = 0
               /\ begun' = {}
               /\ UNCHANGED <<tracks, output, main, ingest, packet, clock>>

Tick == /\ clock < MaxTime
        /\ clock' = clock + 1
        /\ UNCHANGED <<tracks, output, lock, main, ingest, packet, cycle>>

-----------------------------------------------------------------------------
(* Adding one detection, taken at some time up to now.                     *)
AddDetection == \E trusted \in BOOLEAN :
                  \/ \E j \in Live, time \in 1 .. clock :
                       \E blended \in Blend(cell[j].trusted, trusted) :
                         UpdateTrack(j, time, blended)
                  \/ CreateTrack(trusted)

MainStep == \/ AddLock
            \/ AddDetection
            \/ Ignore
            \/ AddUnlock
            \/ NothingToSend
            \/ SomethingToSend
            \/ EncodeNumber
            \/ EncodeNext
            \/ EncodeEntry
            \/ EncodeDone
            \/ NextMessage

FusionStep == \/ CycleLock
              \/ ClearOutput
              \/ DropTrack
              \/ KeepTrack
              \/ Publish
              \/ CycleUnlock

Next == \/ Receive
        \/ MainStep
        \/ FusionStep
        \/ Tick

Spec == Init /\ [][Next]_vars

(* Both threads keep being scheduled.  Each sleeps or waits for a message  *)
(* between two turns with the mutex, so neither is kept from it for ever.  *)
(* No message has to come.                                                 *)
Fairness == SF_vars(MainStep) /\ SF_vars(FusionStep)

FairSpec == Spec /\ Fairness

-----------------------------------------------------------------------------
TrackType == [id : Nat, mask : SUBSET Sensors, trusted : BOOLEAN, stamp : Nat,
              age : Nat, moved : Nat]

(* Types, and the arrays stay within their bounds: output_tracks, created  *)
(* with track_capacity, never has to be reallocated under its readers.     *)
TypeOK == /\ cell \in [Slots -> TrackType]
          /\ trackCount \in 0 .. TrackCapacity
          /\ nextId \in Nat \ {0}
          /\ outCell \in [Slots -> Nat]
          /\ outCount \in 0 .. TrackCapacity
          /\ lock \in {"free", "main", "fusion"}
          /\ main \in {"idle", "lock", "add", "look", "number", "entries",
                       "entry", "sent"}
          /\ source \subseteq Sensors
          /\ left \in Nat
          /\ number \in 0 .. TrackCapacity
          /\ entries \in Seq(0 .. WireIds - 1)
          /\ named \in Seq(Nat)
          /\ fusion \in {"sleep", "clear", "scan", "publish"}
          /\ i \in 0 .. TrackCapacity
          /\ now \in Nat
          /\ clock \in Nat
          /\ begun \subseteq TrackType

(* No two tracks share a global id, and the next one is not in use,        *)
(* although tracks are copied over one another when one is dropped.        *)
IdsDistinct == /\ \A j, k \in Live : cell[j].id = cell[k].id => j = k
               /\ \A k \in Live : cell[k].id \in 1 .. nextId - 1

(* The list being published names exactly the tracks scanned so far, in    *)
(* their order, and all of those are young enough and trusted: the fusion  *)
(* thread neither skips a track nor publishes one that it has dropped.     *)
PublishedInStep ==
  fusion \in {"scan", "publish"} =>
    /\ outCount = i
    /\ i <= trackCount
    /\ \A k \in 0 .. i - 1 : /\ outCell[k] = cell[k].id
                             /\ ~Expired(cell[k])

(* The participants of a packet are tracks that have existed, in their low *)
(* 16 bits, and no two are of the same track, although the list is read    *)
(* without the lock: the encoder never reaches a cell that nobody has      *)
(* written, nor meets again a track that a cycle moved under it.           *)
EntriesExisted ==
  /\ Len(entries) = Len(named)
  /\ \A n \in DOMAIN named : /\ entries[n] = Sent(named[n])
                             /\ named[n] \in 1 .. nextId - 1
  /\ \A m, n \in DOMAIN named : named[m] = named[n] => m = n

(* The processor implements the table of tracks, although a cycle takes    *)
(* many steps: to those who take the lock it happens at its unlock.        *)
Visible == IF lock = "fusion" THEN begun ELSE LiveTracks

VisibleTable == [id \in {t.id : t \in Visible} |->
                   LET t == CHOOSE t \in Visible : t.id = id
                   IN  [age |-> t.age, mask |-> t.mask, trusted |-> t.trusted]]

Table == INSTANCE TrackTable WITH
           Capacity <- TrackCapacity, next <- nextId, table <- VisibleTable

ImplementsTable == Table!Spec

-----------------------------------------------------------------------------
(* The track is there and was not detected since the last cycle.           *)
Holds(id) == \E k \in Live : cell[k].id = id /\ cell[k].age > 0

(* A track that is no longer detected disappears, whatever happens to the  *)
(* others in the array around it.                                          *)
Expires == \A id \in 1 .. MaxIds + MaxBatch :
             Holds(id) ~> ~Holds(id)

(* The main loop always comes back for the next message: it gets the lock  *)
(* and its encoding ends while the list changes under it.                  *)
MainReturns == main = "lock" ~> main = "idle"

-----------------------------------------------------------------------------
(* What the repository says of the program and the program does not do     *)

(* fusion_processor.c:126: a prediction takes the state from the last step *)
(* to this one.  Those of a track since its newest detection then add up   *)
(* to the time since its last_update.                                      *)
PredictionsAddUp ==
  fusion = "publish" => cell[i].moved = now - cell[i].stamp
=============================================================================
