---------------------------- MODULE FusionProofs ----------------------------
(***************************************************************************)
(* Proofs about Fusion for every capacity, age limit and set of sensors.   *)
(***************************************************************************)
EXTENDS Fusion, FiniteSetTheorems, SequenceTheorems, TLAPS

(* Who holds the mutex is where its lock and unlock say.                   *)
Excludes == /\ main = "add" <=> lock = "main"
            /\ fusion # "sleep" <=> lock = "fusion"

(* No detection is newer than the clock, nor, as main cannot add any       *)
(* meanwhile, than the time of the cycle.                                  *)
Stamped == /\ \A k \in Slots : cell[k].stamp <= clock
           /\ fusion # "sleep" => \A k \in Slots : cell[k].stamp <= now

(* Between the two halves of fusion_processor.c:326.                       *)
Ahead == fusion = "publish" =>
           /\ i < trackCount
           /\ outCell[i] = cell[i].id
           /\ ~Expired(cell[i])

(* The encoder reads within the array, also where the list is shorter than *)
(* when it read the count.                                                 *)
InBounds == main = "entry" => Len(entries) < TrackCapacity

FusionInv == /\ TypeOK
             /\ Excludes
             /\ Stamped
             /\ IdsDistinct
             /\ PublishedInStep
             /\ Ahead
             /\ InBounds

LEMMA FusionInvInit == Init => FusionInv
<1> SUFFICES ASSUME Init PROVE FusionInv
  OBVIOUS
<1>1. TypeOK
  BY FusionAssumption DEF Init, TypeOK, TrackType, Blank, Track, Slots
<1>2. QED
  BY <1>1, FusionAssumption
  DEF Init, FusionInv, Excludes, Stamped, IdsDistinct, PublishedInStep, Ahead,
      InBounds, Live, Blank, Track, Slots

-----------------------------------------------------------------------------
(* Steps that leave the tracks and the published list alone                *)

LEMMA TracksStand ==
  ASSUME FusionInv, UNCHANGED <<tracks, output, cycle>>,
         clock' \in Nat, clock <= clock'
  PROVE  IdsDistinct' /\ PublishedInStep' /\ Ahead' /\ Stamped'
<1> USE DEF FusionInv, TypeOK, tracks, output, cycle
<1>1. IdsDistinct'
  BY DEF IdsDistinct, Live
<1>2. PublishedInStep' /\ Ahead'
  BY DEF PublishedInStep, Ahead, Expired
<1>3. Stamped'
  BY DEF Stamped, TrackType
<1>4. QED
  BY <1>1, <1>2, <1>3

LEMMA MainKeeps ==
  ASSUME FusionInv,
         \/ Receive \/ AddLock \/ Ignore \/ AddUnlock \/ NothingToSend
         \/ SomethingToSend \/ EncodeNumber \/ EncodeNext \/ EncodeDone
         \/ NextMessage \/ Tick \/ UNCHANGED vars
  PROVE  FusionInv'
<1> USE FusionAssumption
    DEF FusionInv, TypeOK, tracks, output, cycle, packet, ingest, Excludes,
        InBounds
<1>1. CASE Receive
  BY <1>1, TracksStand DEF Receive
<1>2. CASE AddLock
  BY <1>2, TracksStand DEF AddLock
<1>3. CASE Ignore
  BY <1>3, TracksStand DEF Ignore, Adding
<1>4. CASE AddUnlock
  BY <1>4, TracksStand DEF AddUnlock
<1>5. CASE NothingToSend
  BY <1>5, TracksStand DEF NothingToSend
<1>6. CASE SomethingToSend
  BY <1>6, TracksStand DEF SomethingToSend
<1>7. CASE EncodeNumber
  BY <1>7, TracksStand DEF EncodeNumber
<1>8. CASE EncodeDone
  BY <1>8, TracksStand DEF EncodeDone
<1>9. CASE NextMessage
  BY <1>9, TracksStand DEF NextMessage
<1>10. CASE Tick
  BY <1>10, TracksStand DEF Tick
<1>11. CASE UNCHANGED vars
  BY <1>11, TracksStand DEF vars
<1>12. CASE EncodeNext
  BY <1>12, TracksStand DEF EncodeNext
<1>13. QED
  BY <1>1, <1>2, <1>3, <1>4, <1>5, <1>6, <1>7, <1>8, <1>9, <1>10, <1>11, <1>12

LEMMA EncodeEntryKeeps ==
  ASSUME FusionInv, EncodeEntry
  PROVE  FusionInv'
<1>1. outCell[Len(entries)] \in Nat
  <2>1. Len(entries) \in Slots
    BY FusionAssumption DEF EncodeEntry, FusionInv, TypeOK, InBounds, Slots
  <2>2. QED
    BY <2>1 DEF FusionInv, TypeOK
<1>2. Sent(outCell[Len(entries)]) \in 0 .. WireIds - 1
  BY <1>1, FusionAssumption DEF Sent
<1>3. TypeOK'
  BY <1>1, <1>2
  DEF EncodeEntry, FusionInv, TypeOK, tracks, output, ingest, cycle
<1>4. IdsDistinct' /\ PublishedInStep' /\ Ahead' /\ Stamped'
  BY TracksStand DEF EncodeEntry, FusionInv, TypeOK
<1>5. Excludes' /\ InBounds'
  BY DEF EncodeEntry, FusionInv, Excludes, InBounds, cycle
<1>6. QED
  BY <1>3, <1>4, <1>5 DEF FusionInv

-----------------------------------------------------------------------------
(* Adding a detection                                                      *)

(* Nothing that the fusion thread is doing can be disturbed: it is asleep. *)
LEMMA AddingAlone ==
  ASSUME FusionInv, Adding
  PROVE  /\ fusion = "sleep" /\ lock = "main" /\ left - 1 \in Nat
         /\ source \subseteq Sensors
  BY DEF FusionInv, TypeOK, Excludes, Adding

LEMMA UpdateTrackKeeps ==
  ASSUME FusionInv, NEW j \in Live, NEW time \in 1 .. clock,
         NEW trusted \in BOOLEAN, UpdateTrack(j, time, trusted)
  PROVE  FusionInv'
<1> DEFINE t == Track(cell[j].id, cell[j].mask \cup source, trusted, time)
<1> USE DEF FusionInv
<1>1. /\ fusion = "sleep" /\ lock = "main" /\ left - 1 \in Nat
      /\ source \subseteq Sensors
  BY AddingAlone DEF UpdateTrack
<1>2. j \in Slots /\ time \in Nat /\ time <= clock
  BY FusionAssumption DEF TypeOK, Live, Slots
<1>3. t \in TrackType /\ t.id = cell[j].id /\ t.stamp = time
  BY <1>1, <1>2 DEF TypeOK, TrackType, Track
<1>4. cell' = [cell EXCEPT ![j] = t]
  BY DEF UpdateTrack
<1> HIDE DEF t
<1>5. \A k \in Slots : cell'[k].id = cell[k].id
  BY <1>2, <1>3, <1>4 DEF TypeOK
<1>6. TypeOK' /\ Excludes'
  BY <1>1, <1>2, <1>3, <1>4
  DEF UpdateTrack, TypeOK, Excludes, output, packet, cycle
<1>7. Stamped' /\ PublishedInStep' /\ Ahead'
  BY <1>1, <1>2, <1>3, <1>4
  DEF UpdateTrack, TypeOK, Stamped, PublishedInStep, Ahead, cycle
<1>8. IdsDistinct'
  <2>1. Live' = Live /\ Live \subseteq Slots /\ nextId' = nextId
    BY FusionAssumption DEF UpdateTrack, TypeOK, Live, Slots
  <2>2. QED
    BY <1>5, <2>1 DEF IdsDistinct
<1>9. InBounds'
  BY DEF UpdateTrack, InBounds, packet
<1>10. QED
  BY <1>6, <1>7, <1>8, <1>9

LEMMA CreateTrackKeeps ==
  ASSUME FusionInv, NEW trusted \in BOOLEAN, CreateTrack(trusted)
  PROVE  FusionInv'
<1> DEFINE t == Track(nextId, source, trusted, cell[trackCount].stamp)
<1> USE DEF FusionInv
<1>1. /\ fusion = "sleep" /\ lock = "main" /\ left - 1 \in Nat
      /\ source \subseteq Sensors
  BY AddingAlone DEF CreateTrack
<1>2. trackCount \in Slots /\ trackCount + 1 \in 0 .. TrackCapacity
      /\ trackCount \in Nat /\ nextId \in Nat \ {0}
  BY FusionAssumption DEF CreateTrack, TypeOK, Slots
<1>3. t \in TrackType /\ t.id = nextId /\ t.stamp = cell[trackCount].stamp
  BY <1>1, <1>2 DEF TypeOK, TrackType, Track
<1>4. /\ cell' = [cell EXCEPT ![trackCount] = t]
      /\ trackCount' = trackCount + 1 /\ nextId' = nextId + 1
  BY DEF CreateTrack
<1> HIDE DEF t
<1>5. TypeOK' /\ Excludes'
  BY <1>1, <1>2, <1>3, <1>4
  DEF CreateTrack, TypeOK, Excludes, output, packet, cycle
<1>6. Stamped' /\ PublishedInStep' /\ Ahead'
  BY <1>1, <1>2, <1>3, <1>4
  DEF CreateTrack, TypeOK, Stamped, PublishedInStep, Ahead, cycle
<1>7. IdsDistinct'
  <2>1. /\ Live' = Live \cup {trackCount} /\ Live \subseteq Slots
        /\ trackCount \notin Live
    BY <1>2, <1>4, FusionAssumption DEF Live, Slots, TypeOK
  <2>2. /\ cell'[trackCount].id = nextId
        /\ \A k \in Live : cell'[k].id = cell[k].id
    BY <1>2, <1>3, <1>4, <2>1 DEF TypeOK
  <2>3. \A k \in Live : cell[k].id \in 1 .. nextId - 1
    BY DEF IdsDistinct
  <2>4. QED
    BY <1>2, <1>4, <2>1, <2>2, <2>3 DEF IdsDistinct
<1>8. InBounds'
  BY DEF CreateTrack, InBounds, packet
<1>9. QED
  BY <1>5, <1>6, <1>7, <1>8

-----------------------------------------------------------------------------
(* The fusion cycle                                                        *)

(* What advancing a track of the array does to it.                         *)
LEMMA AdvancedFacts ==
  ASSUME FusionInv, Scanning
  PROVE  /\ i \in Slots /\ i \in Live /\ trackCount - 1 \in Slots
         /\ trackCount - 1 \in Nat /\ i <= trackCount - 1
         /\ Advanced(cell[i]) \in TrackType
         /\ Advanced(cell[i]).id = cell[i].id
         /\ Advanced(cell[i]).stamp = cell[i].stamp
         /\ lock = "fusion"
<1> USE DEF FusionInv, Scanning
<1>1. i \in Slots /\ i \in Live /\ trackCount - 1 \in Slots
      /\ trackCount - 1 \in Nat /\ i <= trackCount - 1
  BY FusionAssumption DEF TypeOK, Slots, Live
<1>2. cell[i] \in TrackType /\ cell[i].stamp <= now /\ now \in Nat
  BY <1>1 DEF TypeOK, Stamped
<1>3. cell[i].moved + (now - cell[i].stamp) \in Nat
  BY <1>2 DEF TrackType
<1>4. /\ Advanced(cell[i]) \in TrackType
      /\ Advanced(cell[i]).id = cell[i].id
      /\ Advanced(cell[i]).stamp = cell[i].stamp
  <2>1. PICK c \in TrackType, moved \in Nat, age \in Nat :
          c = cell[i] /\ moved = c.moved + (now - c.stamp) /\ age = c.age + 1
    BY <1>2, <1>3 DEF TrackType
  <2>2. PICK t : t = Advanced(cell[i])
    OBVIOUS
  <2>3. t = [c EXCEPT !.moved = moved, !.age = age]
    BY <2>1, <2>2 DEF Advanced
  <2>4. t \in TrackType /\ t.id = c.id /\ t.stamp = c.stamp
    BY ONLY <2>1, <2>3 DEF TrackType
  <2>5. QED
    BY <2>1, <2>2, <2>4
<1>5. lock = "fusion"
  BY DEF Excludes
<1>6. QED
  BY <1>1, <1>4, <1>5

LEMMA CycleLockKeeps ==
  ASSUME FusionInv, CycleLock
  PROVE  FusionInv'
<1> USE DEF FusionInv, CycleLock, tracks, output, ingest, packet
<1>1. LiveTracks \subseteq TrackType
  <2>1. Live \subseteq Slots
    BY FusionAssumption DEF Live, TypeOK, Slots
  <2>2. cell \in [Slots -> TrackType]
    BY DEF TypeOK
  <2>3. QED
    BY <2>1, <2>2 DEF LiveTracks
<1>2. TypeOK' /\ Excludes'
  BY <1>1 DEF TypeOK, Excludes
<1>3. Stamped' /\ PublishedInStep' /\ Ahead'
  BY DEF Stamped, PublishedInStep, Ahead
<1>4. IdsDistinct' /\ InBounds'
  BY DEF IdsDistinct, InBounds, Live
<1>5. QED
  BY <1>2, <1>3, <1>4

LEMMA ClearOutputKeeps ==
  ASSUME FusionInv, ClearOutput
  PROVE  FusionInv'
<1> USE DEF FusionInv, ClearOutput, tracks, ingest, packet
<1>1. TypeOK' /\ Excludes'
  BY FusionAssumption DEF TypeOK, Excludes
<1>2. Stamped' /\ Ahead'
  BY DEF Stamped, Ahead
<1>3. PublishedInStep'
  BY DEF PublishedInStep, TypeOK
<1>4. IdsDistinct' /\ InBounds'
  BY DEF IdsDistinct, InBounds, Live
<1>5. QED
  BY <1>1, <1>2, <1>3, <1>4

(* The last track fills the gap, so the ids stay distinct, and what has    *)
(* been published lies below the gap.                                      *)
LEMMA DropTrackKeeps ==
  ASSUME FusionInv, DropTrack
  PROVE  FusionInv'
<1> DEFINE last == trackCount - 1
           t == IF i < last THEN cell[last] ELSE Advanced(cell[i])
<1> USE DEF FusionInv
<1>1. /\ i \in Slots /\ i \in Live /\ last \in Slots /\ last \in Nat
      /\ i <= last /\ lock = "fusion" /\ i \in Nat
      /\ t \in TrackType /\ t.id = cell[last].id
      /\ \E k \in Slots : t.stamp = cell[k].stamp
  BY AdvancedFacts DEF DropTrack, TypeOK
<1>2. cell' = [cell EXCEPT ![i] = t] /\ trackCount' = last
  BY DEF DropTrack
<1>3. /\ UNCHANGED <<nextId, output, lock, main, ingest, packet, cycle, clock>>
      /\ fusion = "scan"
  BY DEF DropTrack, Scanning
<1> HIDE DEF t, last
<1>4. TypeOK' /\ Excludes'
  <2>1. trackCount' \in 0 .. TrackCapacity
    BY <1>1, <1>2, FusionAssumption DEF Slots
  <2>2. QED
    BY <1>1, <1>2, <1>3, <2>1
    DEF TypeOK, Excludes, output, ingest, packet, cycle
<1>5. Stamped' /\ Ahead'
  BY <1>1, <1>2, <1>3 DEF TypeOK, Stamped, Ahead, cycle
<1>6. IdsDistinct'
  <2>1. Live' = 0 .. last - 1 /\ Live = 0 .. last /\ Live \subseteq Slots
    <3>1. Live' = 0 .. last - 1
      BY <1>2 DEF Live
    <3>2. Live = 0 .. last
      BY DEF Live, last
    <3>3. last <= TrackCapacity - 1
      BY <1>1 DEF Slots
    <3>4. QED
      BY <1>1, <3>1, <3>2, <3>3, FusionAssumption DEF Slots
  <2>2. \A k \in Live' : cell'[k].id = cell[IF k = i THEN last ELSE k].id
    BY <1>1, <1>2, <2>1 DEF TypeOK
  <2>3. \A j, k \in Live : cell[j].id = cell[k].id => j = k
    BY DEF IdsDistinct
  <2>4. \A j, k \in Live' : cell'[j].id = cell'[k].id => j = k
    BY <1>1, <2>1, <2>2, <2>3
  <2>5. \A k \in Live' : cell'[k].id \in 1 .. nextId' - 1
    BY <1>1, <1>3, <2>1, <2>2 DEF IdsDistinct
  <2>6. QED
    BY <2>4, <2>5 DEF IdsDistinct
<1>7. PublishedInStep'
  <2>1. outCount = i /\ i <= last /\ UNCHANGED <<outCell, outCount, i>>
    BY <1>1, <1>3 DEF PublishedInStep, output, cycle
  <2>2. \A k \in 0 .. i - 1 : cell'[k] = cell[k]
    BY <1>1, <1>2 DEF TypeOK, Slots
  <2>3. QED
    BY <1>1, <1>2, <1>3, <2>1, <2>2 DEF PublishedInStep, Expired
<1>8. InBounds'
  BY <1>3 DEF InBounds, packet
<1>9. QED
  BY <1>4, <1>5, <1>6, <1>7, <1>8

LEMMA KeepTrackKeeps ==
  ASSUME FusionInv, KeepTrack
  PROVE  FusionInv'
<1> DEFINE t == Advanced(cell[i])
<1> USE DEF FusionInv
<1>1. /\ i \in Slots /\ i \in Live /\ lock = "fusion" /\ i \in Nat
      /\ i < trackCount
      /\ t \in TrackType /\ t.id = cell[i].id /\ t.stamp = cell[i].stamp
  BY AdvancedFacts DEF KeepTrack, TypeOK, Scanning
<1>2. /\ cell' = [cell EXCEPT ![i] = t] /\ ~Expired(t)
      /\ fusion = "scan" /\ fusion' = "publish"
      /\ UNCHANGED <<trackCount, nextId, outCount, lock, main, ingest, packet,
                     i, now, begun, clock>>
  BY DEF KeepTrack, Scanning
<1>3. outCount = i
  BY <1>2 DEF PublishedInStep
<1>4. outCell' = [outCell EXCEPT ![i] = cell[i].id] /\ cell[i].id \in Nat
  BY <1>1, <1>3 DEF KeepTrack, TypeOK, TrackType
<1> HIDE DEF t
<1>5. \A k \in Slots : /\ cell'[k].id = cell[k].id
                       /\ cell'[k].stamp = cell[k].stamp
                       /\ k # i => cell'[k] = cell[k] /\ outCell'[k] = outCell[k]
  BY <1>1, <1>2, <1>4 DEF TypeOK
<1>6. cell'[i] = t /\ outCell'[i] = cell[i].id
  BY <1>1, <1>2, <1>4 DEF TypeOK
<1>7. TypeOK' /\ Excludes'
  BY <1>1, <1>2, <1>4 DEF TypeOK, Excludes, ingest, packet
<1>8. Stamped' /\ Ahead'
  BY <1>1, <1>2, <1>5, <1>6 DEF Stamped, Ahead, Expired
<1>9. IdsDistinct'
  <2>1. Live' = Live /\ Live \subseteq Slots
    BY <1>2, FusionAssumption DEF Live, Slots, TypeOK
  <2>2. QED
    BY <1>2, <1>5, <2>1 DEF IdsDistinct
<1>10. PublishedInStep'
  <2>1. \A k \in 0 .. i - 1 : k \in Slots /\ k # i
    BY <1>1, FusionAssumption DEF Slots
  <2>2. QED
    BY <1>2, <1>5, <2>1 DEF PublishedInStep, Expired
<1>11. InBounds'
  BY <1>2 DEF InBounds, packet
<1>12. QED
  BY <1>7, <1>8, <1>9, <1>10, <1>11

LEMMA PublishKeeps ==
  ASSUME FusionInv, Publish
  PROVE  FusionInv'
<1> USE DEF FusionInv, Publish, tracks, ingest, packet
<1>1. /\ outCount = i /\ i < trackCount /\ i \in Nat /\ trackCount \in Nat
      /\ i + 1 \in 0 .. TrackCapacity
      /\ outCell[i] = cell[i].id /\ ~Expired(cell[i])
  BY FusionAssumption DEF PublishedInStep, Ahead, TypeOK
<1>2. TypeOK' /\ Excludes'
  BY <1>1 DEF TypeOK, Excludes
<1>3. Stamped' /\ Ahead'
  BY DEF Stamped, Ahead
<1>4. PublishedInStep'
  <2>1. \A k \in 0 .. i : /\ outCell[k] = cell[k].id
                          /\ ~Expired(cell[k])
    BY <1>1 DEF PublishedInStep
  <2>2. QED
    BY <1>1, <2>1 DEF PublishedInStep, Expired
<1>5. IdsDistinct' /\ InBounds'
  BY DEF IdsDistinct, InBounds, Live
<1>6. QED
  BY <1>2, <1>3, <1>4, <1>5

LEMMA CycleUnlockKeeps ==
  ASSUME FusionInv, CycleUnlock
  PROVE  FusionInv'
<1> USE DEF FusionInv, CycleUnlock, tracks, output, ingest, packet
<1>1. TypeOK' /\ Excludes'
  BY FusionAssumption DEF TypeOK, Excludes
<1>2. Stamped' /\ PublishedInStep' /\ Ahead'
  BY DEF Stamped, PublishedInStep, Ahead
<1>3. IdsDistinct' /\ InBounds'
  BY DEF IdsDistinct, InBounds, Live
<1>4. QED
  BY <1>1, <1>2, <1>3

-----------------------------------------------------------------------------
(* The invariant, and the properties that are part of it                   *)

LEMMA BlendType ==
  ASSUME FusionInv, NEW j \in Live, NEW trusted \in BOOLEAN
  PROVE  Blend(cell[j].trusted, trusted) \subseteq BOOLEAN
<1>1. j \in Slots /\ cell \in [Slots -> TrackType]
  BY FusionAssumption DEF FusionInv, TypeOK, Live, Slots
<1>2. cell[j].trusted \in BOOLEAN
  BY <1>1 DEF TrackType
<1>3. QED
  BY <1>2, Zenon DEF Blend

LEMMA FusionInvStep == FusionInv /\ [Next]_vars => FusionInv'
<1> SUFFICES ASSUME FusionInv, [Next]_vars
             PROVE  FusionInv'
  OBVIOUS
<1>1. CASE Receive \/ Tick \/ UNCHANGED vars
  BY <1>1, MainKeeps
<1>2. CASE AddDetection
  <2>1. PICK trusted \in BOOLEAN :
          \/ \E j \in Live, time \in 1 .. clock :
               \E blended \in Blend(cell[j].trusted, trusted) :
                 UpdateTrack(j, time, blended)
          \/ CreateTrack(trusted)
    BY <1>2 DEF AddDetection
  <2>2. CASE CreateTrack(trusted)
    BY <2>2, CreateTrackKeeps
  <2>3. ASSUME NEW j \in Live, NEW time \in 1 .. clock,
               NEW blended \in Blend(cell[j].trusted, trusted),
               UpdateTrack(j, time, blended)
        PROVE  FusionInv'
    <3>1. blended \in BOOLEAN
      BY BlendType
    <3>2. QED
      BY <2>3, <3>1, UpdateTrackKeeps
  <2>4. QED
    BY <2>1, <2>2, <2>3
<1>3. CASE MainStep /\ ~AddDetection /\ ~EncodeEntry
  BY <1>3, MainKeeps DEF MainStep
<1>4. CASE EncodeEntry
  BY <1>4, EncodeEntryKeeps
<1>5. CASE FusionStep
  BY <1>5, CycleLockKeeps, ClearOutputKeeps, DropTrackKeeps, KeepTrackKeeps,
     PublishKeeps, CycleUnlockKeeps
  DEF FusionStep
<1>6. QED
  BY <1>1, <1>2, <1>3, <1>4, <1>5 DEF Next

(* The types of the engine's state; in particular no index into the track  *)
(* array or the published list leaves it, so the list, allocated once, is  *)
(* never reallocated under its unlocked readers.                           *)
THEOREM FusionTypeCorrect == Spec => []TypeOK
<1>1. FusionInv => TypeOK
  BY DEF FusionInv
<1>2. QED
  BY <1>1, FusionInvInit, FusionInvStep, PTL DEF Spec

(* However tracks are created, dropped and moved over one another, no two  *)
(* share a global id.                                                      *)
THEOREM IdsCorrect == Spec => []IdsDistinct
<1>1. FusionInv => IdsDistinct
  BY DEF FusionInv
<1>2. QED
  BY <1>1, FusionInvInit, FusionInvStep, PTL DEF Spec

(* The fusion thread publishes exactly the tracks it has scanned and kept. *)
THEOREM PublishedCorrect == Spec => []PublishedInStep
<1>1. FusionInv => PublishedInStep
  BY DEF FusionInv
<1>2. QED
  BY <1>1, FusionInvInit, FusionInvStep, PTL DEF Spec

-----------------------------------------------------------------------------
(* What the encoder reads                                                  *)

(* After a drop every track is where it was or came down from the top.     *)
LEMMA DropMovesDown ==
  ASSUME FusionInv, DropTrack
  PROVE  \A j \in Live' : \E l \in Live : j <= l /\ cell'[j].id = cell[l].id
<1> DEFINE last == trackCount - 1
           t == IF i < last THEN cell[last] ELSE Advanced(cell[i])
<1>1. /\ i \in Slots /\ i \in Live /\ last \in Slots /\ last \in Nat
      /\ i <= last /\ Advanced(cell[i]).id = cell[i].id
  BY AdvancedFacts DEF DropTrack
<1>2. i \in Nat
  BY DEF FusionInv, TypeOK
<1>3. t.id = cell[last].id
  BY <1>1, <1>2
<1>4. cell' = [cell EXCEPT ![i] = t] /\ trackCount' = last
  BY DEF DropTrack
<1> HIDE DEF t
<1>5. Live' = 0 .. last - 1 /\ Live = 0 .. last /\ last \in Live
  BY <1>1, <1>4 DEF Live
<1>6. last <= TrackCapacity - 1
  BY <1>1 DEF Slots
<1> HIDE DEF last
<1>7. Live' \subseteq Live /\ Live \subseteq Slots
  BY <1>1, <1>5, <1>6, FusionAssumption DEF Slots
<1>8. \A k \in Live' : cell'[k].id = cell[IF k = i THEN last ELSE k].id
  BY <1>1, <1>3, <1>4, <1>7 DEF FusionInv, TypeOK
<1>9. \A k \in Live' : k <= k
  BY <1>1, <1>5
<1>10. QED
  BY <1>1, <1>5, <1>7, <1>8, <1>9

(* The published list, also an old one and what is left of it above its    *)
(* count: ids that tracks have had, each once below the count, and none    *)
(* of a track that has moved up since, for a drop moves tracks down.       *)
OutOld == /\ \A k \in Slots : outCell[k] \in 0 .. nextId - 1
          /\ \A k \in 0 .. outCount - 1 : outCell[k] # 0
          /\ \A j, k \in 0 .. outCount - 1 : outCell[j] = outCell[k] => j = k
          /\ \A j \in Live, k \in Slots : cell[j].id = outCell[k] => j <= k

(* A track that is in the packet already is behind the encoder, in the     *)
(* table and in the published list, and is not in the cell to be read.     *)
NamedBehind ==
  /\ \A n \in DOMAIN named :
       /\ \A j \in Live : cell[j].id = named[n] => j < n
       /\ \A k \in 0 .. outCount - 1 : outCell[k] = named[n] => k < n
       /\ main = "entry" => outCell[Len(entries)] # named[n]
  /\ main = "entry" => outCell[Len(entries)] # 0

PacketInv == /\ FusionInv
             /\ OutOld
             /\ NamedBehind
             /\ EntriesExisted

LEMMA PacketInvInit == Init => PacketInv
<1> SUFFICES ASSUME Init PROVE PacketInv
  OBVIOUS
<1>1. Live = {} /\ DOMAIN named = {}
  BY DEF Init, Live
<1>2. OutOld /\ NamedBehind /\ EntriesExisted
  BY <1>1 DEF Init, OutOld, NamedBehind, EntriesExisted
<1>3. QED
  BY <1>2, FusionInvInit DEF PacketInv

(* What the steps of the encoder and of the two others have in common.     *)
LEMMA PacketTypes ==
  ASSUME PacketInv
  PROVE  /\ Live \subseteq Slots /\ DOMAIN named \subseteq Nat \ {0}
         /\ \A n \in DOMAIN named : named[n] \in 1 .. nextId - 1
         /\ DOMAIN named = 1 .. Len(named) /\ Len(named) = Len(entries)
         /\ Len(named) \in Nat /\ named \in Seq(Nat)
         /\ 0 .. outCount - 1 \subseteq Slots
         /\ nextId \in Nat \ {0} /\ trackCount \in Nat /\ outCount \in Nat
  BY FusionAssumption
  DEF PacketInv, FusionInv, TypeOK, EntriesExisted, Live, Slots

LEMMA EncodeKeeps ==
  ASSUME PacketInv, UNCHANGED <<tracks, output, packet>>,
         main' = "entry" => main = "entry"
  PROVE  OutOld' /\ NamedBehind' /\ EntriesExisted'
<1> USE DEF PacketInv, tracks, output, packet
<1>1. OutOld'
  BY DEF OutOld, Live
<1>2. NamedBehind'
  BY DEF NamedBehind, Live
<1>3. EntriesExisted'
  BY DEF EntriesExisted, Sent
<1>4. QED
  BY <1>1, <1>2, <1>3

LEMMA EncodeClears ==
  ASSUME PacketInv, EncodeNumber \/ NextMessage
  PROVE  OutOld' /\ NamedBehind' /\ EntriesExisted'
<1>1. /\ UNCHANGED <<cell, trackCount, nextId, outCell, outCount>>
      /\ entries' = << >> /\ named' = << >> /\ main' # "entry"
  BY DEF EncodeNumber, NextMessage, tracks, output
<1>2. OutOld'
  BY <1>1 DEF PacketInv, OutOld, Live
<1>3. NamedBehind' /\ EntriesExisted'
  BY <1>1 DEF NamedBehind, EntriesExisted
<1>4. QED
  BY <1>2, <1>3

(* The cell below the count is of a track that is not in the packet, since *)
(* it is not behind the encoder.                                           *)
LEMMA EncodeNextKeeps ==
  ASSUME PacketInv, EncodeNext
  PROVE  OutOld' /\ NamedBehind' /\ EntriesExisted'
<1> DEFINE next == Len(entries)
<1>1. /\ UNCHANGED <<tracks, output, packet>>
      /\ next < outCount
  BY DEF EncodeNext
<1>2. OutOld' /\ EntriesExisted'
  BY <1>1 DEF PacketInv, OutOld, EntriesExisted, Live, tracks, output, packet
<1>3. next \in 0 .. outCount - 1
  BY <1>1, PacketTypes
<1>4. outCell[next] # 0
  BY <1>3 DEF PacketInv, OutOld
<1>5. \A n \in DOMAIN named : outCell[next] # named[n]
  <2> SUFFICES ASSUME NEW n \in DOMAIN named, outCell[next] = named[n]
               PROVE  FALSE
    OBVIOUS
  <2>1. next < n
    BY <1>3 DEF PacketInv, NamedBehind
  <2>2. n \in 1 .. next
    BY PacketTypes
  <2>3. QED
    BY <2>1, <2>2, PacketTypes
<1>6. NamedBehind'
  BY <1>1, <1>4, <1>5
  DEF PacketInv, NamedBehind, Live, tracks, output, packet
<1>7. QED
  BY <1>2, <1>6

(* The track just read is behind the encoder from then on.                 *)
LEMMA EncodeEntryNames ==
  ASSUME PacketInv, EncodeEntry
  PROVE  OutOld' /\ NamedBehind' /\ EntriesExisted'
<1> DEFINE next == Len(entries)
           id == outCell[next]
<1>1. /\ UNCHANGED <<cell, trackCount, nextId, outCell, outCount>>
      /\ entries' = Append(entries, Sent(id)) /\ named' = Append(named, id)
      /\ main = "entry" /\ main' = "entries"
  BY DEF EncodeEntry, tracks, output
<1>2. OutOld'
  BY <1>1 DEF PacketInv, OutOld, Live
<1>3. next \in Slots /\ next \in Nat
  BY <1>1, PacketTypes, FusionAssumption
  DEF PacketInv, FusionInv, InBounds, Slots
<1>4. id \in 1 .. nextId - 1 /\ \A n \in DOMAIN named : id # named[n]
  <2>1. id # 0 /\ \A n \in DOMAIN named : id # named[n]
    BY <1>1 DEF PacketInv, NamedBehind
  <2>2. id \in 0 .. nextId - 1
    BY <1>3 DEF PacketInv, OutOld
  <2>3. QED
    BY <2>1, <2>2, PacketTypes
<1>5. /\ \A j \in Live : cell[j].id = id => j < next + 1
      /\ \A k \in 0 .. outCount - 1 : outCell[k] = id => k < next + 1
  <2>1. \A j \in Live : cell[j].id = id => j <= next
    BY <1>3 DEF PacketInv, OutOld
  <2>2. ASSUME NEW k \in 0 .. outCount - 1, outCell[k] = id
        PROVE  k < next + 1
    <3>1. CASE next < outCount
      <4>1. next \in 0 .. outCount - 1
        BY <1>3, <3>1, PacketTypes
      <4>2. k = next
        BY <2>2, <4>1 DEF PacketInv, OutOld
      <4>3. QED
        BY <1>3, <4>2
    <3>2. CASE ~(next < outCount)
      BY <1>3, <3>2, PacketTypes
    <3>3. QED
      BY <3>1, <3>2
  <2>3. \A j \in Live : j \in Nat
    BY DEF Live
  <2>4. QED
    BY <1>3, <2>1, <2>2, <2>3
<1> HIDE DEF id
<1>6. /\ DOMAIN named' = 1 .. next + 1 /\ DOMAIN named = 1 .. next
      /\ named'[next + 1] = id
      /\ \A n \in 1 .. next : named'[n] = named[n]
      /\ Len(named') = next + 1
  <2>1. id \in Nat
    BY <1>4, PacketTypes
  <2>2. named \in Seq(Nat) /\ Len(named) = next
    BY PacketTypes
  <2> HIDE DEF next
  <2>3. QED
    BY <1>1, <2>1, <2>2
<1>7. /\ Len(entries') = next + 1 /\ entries'[next + 1] = Sent(id)
      /\ \A n \in 1 .. next : entries'[n] = entries[n]
  <2>1. entries \in Seq(0 .. WireIds - 1) /\ id \in Nat
    BY <1>4, PacketTypes DEF PacketInv, FusionInv, TypeOK
  <2>2. QED
    BY <1>1, <2>1
<1> HIDE DEF next
<1>8. NamedBehind'
  <2>1. Live' = Live
    BY <1>1 DEF Live
  <2>2. ASSUME NEW n \in DOMAIN named'
        PROVE  /\ \A j \in Live : cell[j].id = named'[n] => j < n
               /\ \A k \in 0 .. outCount - 1 : outCell[k] = named'[n] => k < n
    <3>1. CASE n = next + 1
      BY <1>5, <1>6, <3>1
    <3>2. CASE n # next + 1
      <4>1. n \in DOMAIN named /\ named'[n] = named[n]
        BY <1>3, <1>6, <3>2
      <4>2. QED
        BY <4>1 DEF PacketInv, NamedBehind
    <3>3. QED
      BY <3>1, <3>2
  <2>3. QED
    BY <1>1, <2>1, <2>2 DEF NamedBehind
<1>9. EntriesExisted'
  <2>1. ASSUME NEW n \in DOMAIN named'
        PROVE  /\ entries'[n] = Sent(named'[n])
               /\ named'[n] \in 1 .. nextId - 1
    <3>1. CASE n = next + 1
      BY <1>4, <1>6, <1>7, <3>1
    <3>2. CASE n # next + 1
      <4>1. n \in DOMAIN named /\ n \in 1 .. next /\ named'[n] = named[n]
        BY <1>3, <1>6, <3>2
      <4>2. QED
        BY <1>7, <4>1 DEF PacketInv, EntriesExisted
    <3>3. QED
      BY <3>1, <3>2
  <2>2. ASSUME NEW m \in DOMAIN named', NEW n \in DOMAIN named',
               named'[m] = named'[n]
        PROVE  m = n
    <3>1. \A l \in DOMAIN named' \ {next + 1} :
            l \in DOMAIN named /\ named'[l] = named[l]
      BY <1>3, <1>6
    <3>2. CASE m = next + 1 \/ n = next + 1
      BY <1>4, <1>6, <2>2, <3>1, <3>2
    <3>3. CASE m # next + 1 /\ n # next + 1
      BY <2>2, <3>1, <3>3 DEF PacketInv, EntriesExisted
    <3>4. QED
      BY <3>2, <3>3
  <2>3. Len(entries') = Len(named')
    BY <1>6, <1>7
  <2>4. \A n \in DOMAIN named' : Sent(named[n])' = Sent(named'[n])
    BY DEF Sent
  <2>5. QED
    BY <1>1, <2>1, <2>2, <2>3, <2>4 DEF EntriesExisted
<1>10. QED
  BY <1>2, <1>8, <1>9

(* A detection leaves the ids where they are, or adds one that is new.     *)
LEMMA DetectionKeeps ==
  ASSUME PacketInv, AddDetection
  PROVE  OutOld' /\ NamedBehind' /\ EntriesExisted'
<1>0. /\ main = "add" /\ main' = main
      /\ UNCHANGED <<outCell, outCount, entries, named>>
      /\ nextId' \in {nextId, nextId + 1}
  BY DEF AddDetection, UpdateTrack, CreateTrack, Adding, output, packet
<1>1. ASSUME NEW j \in Live'
      PROVE  \/ j \in Live /\ cell'[j].id = cell[j].id
             \/ cell'[j].id = nextId
  <2>1. cell \in [Slots -> TrackType] /\ Live \subseteq Slots
    BY PacketTypes DEF PacketInv, FusionInv, TypeOK
  <2>2. ASSUME NEW k \in Live, NEW time, NEW trusted,
               UpdateTrack(k, time, trusted)
        PROVE  j \in Live /\ cell'[j].id = cell[j].id
    <3>1. /\ cell' = [cell EXCEPT ![k] = Track(cell[k].id,
                        cell[k].mask \cup source, trusted, time)]
          /\ trackCount' = trackCount
      BY <2>2 DEF UpdateTrack
    <3>2. j \in Live /\ j \in Slots
      BY <2>1, <3>1 DEF Live
    <3>3. QED
      BY <2>1, <3>1, <3>2 DEF Track
  <2>3. ASSUME NEW trusted, CreateTrack(trusted)
        PROVE  \/ j \in Live /\ cell'[j].id = cell[j].id
               \/ cell'[j].id = nextId
    <3>1. /\ cell' = [cell EXCEPT ![trackCount] =
                        Track(nextId, source, trusted, @.stamp)]
          /\ trackCount' = trackCount + 1 /\ trackCount \in Slots
      BY <2>3, PacketTypes, FusionAssumption
      DEF CreateTrack, PacketInv, FusionInv, TypeOK, Slots
    <3>2. CASE j = trackCount
      BY <2>1, <3>1, <3>2 DEF Track
    <3>3. CASE j # trackCount
      <4>1. j \in Live
        BY <3>1, <3>3, PacketTypes DEF Live
      <4>2. QED
        BY <2>1, <3>1, <3>3, <4>1
    <3>4. QED
      BY <3>2, <3>3
  <2>4. QED
    BY <2>2, <2>3 DEF AddDetection
<1>2. OutOld'
  <2>1. \A k \in Slots : outCell[k] \in 0 .. nextId' - 1
    BY <1>0, PacketTypes DEF PacketInv, OutOld
  <2>2. ASSUME NEW j \in Live', NEW k \in Slots, cell'[j].id = outCell[k]
        PROVE  j <= k
    <3>1. outCell[k] # nextId
      BY PacketTypes DEF PacketInv, OutOld
    <3>2. j \in Live /\ cell[j].id = outCell[k]
      BY <1>1, <2>2, <3>1
    <3>3. QED
      BY <3>2 DEF PacketInv, OutOld
  <2>3. QED
    BY <1>0, <2>1, <2>2 DEF PacketInv, OutOld
<1>3. NamedBehind'
  <2>1. ASSUME NEW n \in DOMAIN named, NEW j \in Live',
               cell'[j].id = named[n]
        PROVE  j < n
    <3>1. named[n] # nextId
      BY PacketTypes
    <3>2. j \in Live /\ cell[j].id = named[n]
      BY <1>1, <2>1, <3>1
    <3>3. QED
      BY <3>2 DEF PacketInv, NamedBehind
  <2>2. QED
    BY <1>0, <2>1 DEF PacketInv, NamedBehind
<1>4. EntriesExisted'
  BY <1>0, PacketTypes DEF PacketInv, EntriesExisted, Sent
<1>5. QED
  BY <1>2, <1>3, <1>4

(* A drop moves a track down, never up.                                    *)
LEMMA DropKeepsPacket ==
  ASSUME PacketInv, DropTrack
  PROVE  OutOld' /\ NamedBehind' /\ EntriesExisted'
<1> DEFINE last == trackCount - 1
<1>0. UNCHANGED <<nextId, outCell, outCount, main, entries, named>>
  BY DEF DropTrack, output, packet
<1>1. ASSUME NEW j \in Live'
      PROVE  \E l \in Live : j <= l /\ cell'[j].id = cell[l].id
  BY DropMovesDown DEF PacketInv
<1>2. \A j \in Live' : j \in Nat
  BY DEF Live
<1>3. \A j \in Live : j \in Nat
  BY DEF Live
<1>4. \A k \in Slots : k \in Nat
  BY DEF Slots
<1>5. OutOld'
  <2>1. ASSUME NEW j \in Live', NEW k \in Slots, cell'[j].id = outCell[k]
        PROVE  j <= k
    <3>1. PICK l \in Live : j <= l /\ cell'[j].id = cell[l].id
      BY <1>1
    <3>2. l <= k
      BY <2>1, <3>1 DEF PacketInv, OutOld
    <3>3. QED
      BY <1>2, <1>3, <1>4, <3>1, <3>2
  <2>2. QED
    BY <1>0, <2>1 DEF PacketInv, OutOld
<1>6. NamedBehind'
  <2>1. ASSUME NEW n \in DOMAIN named, NEW j \in Live',
               cell'[j].id = named[n]
        PROVE  j < n
    <3>1. PICK l \in Live : j <= l /\ cell'[j].id = cell[l].id
      BY <1>1
    <3>2. l < n
      BY <2>1, <3>1 DEF PacketInv, NamedBehind
    <3>3. n \in Nat
      BY PacketTypes
    <3>4. QED
      BY <1>2, <1>3, <3>1, <3>2, <3>3
  <2>2. QED
    BY <1>0, <2>1 DEF PacketInv, NamedBehind
<1>7. EntriesExisted'
  BY <1>0 DEF PacketInv, EntriesExisted, Sent
<1>8. QED
  BY <1>5, <1>6, <1>7

(* A kept track is written to its own slot's cell: behind the encoder if   *)
(* it is in the packet, at the encoder or ahead of it if not.              *)
LEMMA KeepKeepsPacket ==
  ASSUME PacketInv, KeepTrack
  PROVE  OutOld' /\ NamedBehind' /\ EntriesExisted'
<1>0. /\ UNCHANGED <<trackCount, nextId, outCount, main, entries, named>>
      /\ Scanning
  BY DEF KeepTrack, packet
<1>1. /\ i \in Slots /\ i \in Live /\ i \in Nat
      /\ Advanced(cell[i]).id = cell[i].id
  BY <1>0, AdvancedFacts DEF PacketInv, FusionInv, TypeOK
<1>2. outCount = i
  BY <1>0 DEF PacketInv, FusionInv, PublishedInStep, Scanning
<1>3. /\ outCell'[i] = cell[i].id
      /\ \A k \in Slots \ {i} : outCell'[k] = outCell[k]
  BY <1>1, <1>2 DEF KeepTrack, PacketInv, FusionInv, TypeOK
<1>4. Live' = Live /\ \A j \in Live : cell'[j].id = cell[j].id
  <2>1. cell \in [Slots -> TrackType] /\ Live \subseteq Slots
    BY PacketTypes DEF PacketInv, FusionInv, TypeOK
  <2>2. cell' = [cell EXCEPT ![i] = Advanced(cell[i])]
    BY DEF KeepTrack
  <2>3. QED
    BY <1>0, <1>1, <2>1, <2>2 DEF Live
<1>5. cell[i].id \in 1 .. nextId - 1
  BY <1>1 DEF PacketInv, FusionInv, IdsDistinct
<1>6. \A k \in 0 .. outCount - 1 : k \in Slots \ {i}
  BY <1>1, <1>2, PacketTypes
<1>7. OutOld'
  <2>1. ASSUME NEW j \in Live, NEW k \in Slots, cell[j].id = outCell'[k]
        PROVE  j <= k
    <3>1. CASE k = i
      <4>1. j = i
        BY <1>1, <1>3, <2>1, <3>1 DEF PacketInv, FusionInv, IdsDistinct
      <4>2. QED
        BY <1>1, <3>1, <4>1
    <3>2. CASE k # i
      BY <1>3, <2>1, <3>2 DEF PacketInv, OutOld
    <3>3. QED
      BY <3>1, <3>2
  <2>2. \A k \in Slots : outCell'[k] \in 0 .. nextId - 1
    BY <1>3, <1>5, PacketTypes DEF PacketInv, OutOld
  <2>3. /\ \A k \in 0 .. outCount - 1 : outCell'[k] # 0
        /\ \A j, k \in 0 .. outCount - 1 : outCell'[j] = outCell'[k] => j = k
    BY <1>3, <1>6 DEF PacketInv, OutOld
  <2>4. QED
    BY <1>0, <1>4, <2>1, <2>2, <2>3 DEF OutOld
<1>8. NamedBehind'
  <2>1. \A n \in DOMAIN named, j \in Live : cell'[j].id = named[n] => j < n
    BY <1>4 DEF PacketInv, NamedBehind
  <2>2. \A n \in DOMAIN named, k \in 0 .. outCount - 1 :
          outCell'[k] = named[n] => k < n
    BY <1>3, <1>6 DEF PacketInv, NamedBehind
  <2>3. ASSUME main = "entry"
        PROVE  /\ outCell'[Len(entries)] # 0
               /\ \A n \in DOMAIN named : outCell'[Len(entries)] # named[n]
    <3>1. Len(entries) \in Slots
      BY <2>3, PacketTypes, FusionAssumption
      DEF PacketInv, FusionInv, InBounds, Slots
    <3>2. CASE Len(entries) # i
      BY <1>3, <2>3, <3>1, <3>2 DEF PacketInv, NamedBehind
    <3>3. CASE Len(entries) = i
      <4>1. outCell'[Len(entries)] = cell[i].id /\ cell[i].id # 0
        BY <1>3, <1>5, <3>3
      <4>2. ASSUME NEW n \in DOMAIN named, cell[i].id = named[n]
            PROVE  FALSE
        <5>1. i < n
          BY <1>1, <4>2 DEF PacketInv, NamedBehind
        <5>2. n \in 1 .. i
          BY <3>3, PacketTypes
        <5>3. QED
          BY <1>1, <5>1, <5>2
      <4>3. QED
        BY <4>1, <4>2
    <3>4. QED
      BY <3>2, <3>3
  <2>4. QED
    BY <1>0, <1>4, <2>1, <2>2, <2>3 DEF NamedBehind
<1>9. EntriesExisted'
  BY <1>0 DEF PacketInv, EntriesExisted, Sent
<1>10. QED
  BY <1>7, <1>8, <1>9

(* What becomes visible with the count is the track in the slot.           *)
LEMMA PublishKeepsPacket ==
  ASSUME PacketInv, Publish
  PROVE  OutOld' /\ NamedBehind' /\ EntriesExisted'
<1>0. /\ UNCHANGED <<cell, trackCount, nextId, outCell, main, entries, named>>
      /\ outCount' = outCount + 1 /\ fusion = "publish"
  BY DEF Publish, tracks, packet
<1>1. /\ outCount = i /\ i \in Live /\ i \in Slots /\ i \in Nat
      /\ outCell[i] = cell[i].id
  <2>1. outCount = i /\ i < trackCount /\ outCell[i] = cell[i].id /\ i \in Nat
    BY <1>0 DEF PacketInv, FusionInv, PublishedInStep, Ahead, TypeOK
  <2>2. QED
    BY <2>1, PacketTypes DEF Live
<1>2. outCell[i] \in 1 .. nextId - 1
  BY <1>1 DEF PacketInv, FusionInv, IdsDistinct
<1>3. \A k \in 0 .. outCount' - 1 : k \in 0 .. outCount - 1 \/ k = i
  BY <1>0, <1>1
<1>4. \A k \in 0 .. outCount - 1 : k \in Live /\ outCell[k] = cell[k].id
  <2>1. \A k \in 0 .. i - 1 : outCell[k] = cell[k].id
    BY <1>0 DEF PacketInv, FusionInv, PublishedInStep
  <2>2. \A k \in 0 .. i - 1 : k \in Live
    BY <1>1, PacketTypes DEF Live
  <2>3. QED
    BY <1>1, <2>1, <2>2
<1>5. \A k \in 0 .. outCount' - 1 : k \in Live /\ outCell[k] = cell[k].id
  BY <1>1, <1>3, <1>4
<1>6. OutOld'
  <2>1. \A j, k \in 0 .. outCount' - 1 : outCell[j] = outCell[k] => j = k
    BY <1>5 DEF PacketInv, FusionInv, IdsDistinct
  <2>2. \A k \in 0 .. outCount' - 1 : outCell[k] # 0
    BY <1>2, <1>3 DEF PacketInv, OutOld
  <2>3. QED
    BY <1>0, <2>1, <2>2 DEF PacketInv, OutOld, Live
<1>7. NamedBehind'
  <2>1. \A n \in DOMAIN named, k \in 0 .. outCount' - 1 :
          outCell[k] = named[n] => k < n
    BY <1>5 DEF PacketInv, NamedBehind
  <2>2. QED
    BY <1>0, <2>1 DEF PacketInv, NamedBehind, Live
<1>8. EntriesExisted'
  BY <1>0 DEF PacketInv, EntriesExisted, Sent
<1>9. QED
  BY <1>6, <1>7, <1>8

LEMMA ClearKeepsPacket ==
  ASSUME PacketInv, ClearOutput
  PROVE  OutOld' /\ NamedBehind' /\ EntriesExisted'
<1>1. /\ UNCHANGED <<cell, trackCount, nextId, outCell, main, entries, named>>
      /\ 0 .. outCount' - 1 = {}
  BY DEF ClearOutput, tracks, packet
<1>2. OutOld'
  BY <1>1 DEF PacketInv, OutOld, Live
<1>3. NamedBehind'
  BY <1>1 DEF PacketInv, NamedBehind, Live
<1>4. EntriesExisted'
  BY <1>1 DEF PacketInv, EntriesExisted, Sent
<1>5. QED
  BY <1>2, <1>3, <1>4

LEMMA PacketInvStep == PacketInv /\ [Next]_vars => PacketInv'
<1> SUFFICES ASSUME PacketInv, [Next]_vars
             PROVE  PacketInv'
  OBVIOUS
<1>1. FusionInv'
  BY FusionInvStep DEF PacketInv
<1>2. CASE \/ Receive \/ AddLock \/ Ignore \/ AddUnlock \/ NothingToSend
           \/ SomethingToSend \/ EncodeDone \/ Tick \/ CycleLock
           \/ CycleUnlock \/ UNCHANGED vars
  <2>1. /\ UNCHANGED <<tracks, output, packet>>
        /\ main' = "entry" => main = "entry"
    BY <1>2 DEF Receive, AddLock, Ignore, AddUnlock, NothingToSend,
                SomethingToSend, EncodeDone, Tick, CycleLock, CycleUnlock, vars
  <2>2. QED
    BY <1>1, <2>1, EncodeKeeps DEF PacketInv
<1>3. CASE MainStep
  BY <1>1, <1>2, <1>3, EncodeClears, EncodeNextKeeps, EncodeEntryNames,
     DetectionKeeps
  DEF MainStep, PacketInv
<1>4. CASE FusionStep
  BY <1>1, <1>2, <1>4, DropKeepsPacket, KeepKeepsPacket, PublishKeepsPacket,
     ClearKeepsPacket
  DEF FusionStep, PacketInv
<1>5. QED
  BY <1>2, <1>3, <1>4 DEF Next

LEMMA PacketInvAlways == Spec => []PacketInv
  BY PacketInvInit, PacketInvStep, PTL DEF Spec

(* A packet of the V2X encoder, which reads the list without the lock,     *)
(* names no track twice and none that did not exist, each by the low bits  *)
(* of its id (v2x_codec.c:45).                                             *)
THEOREM EntriesCorrect == Spec => []EntriesExisted
<1>1. PacketInv => EntriesExisted
  BY DEF PacketInv
<1>2. QED
  BY <1>1, PacketInvAlways, PTL

(* As long as no id is too wide, the ids that are sent are ids of tracks   *)
(* that have existed, and no two of a packet are alike.                    *)
EntriesTell ==
  nextId <= WireIds =>
    /\ \A n \in DOMAIN entries : entries[n] \in 1 .. nextId - 1
    /\ \A m, n \in DOMAIN entries : entries[m] = entries[n] => m = n

(* For the first 65535 tracks the receiver of a packet can tell its        *)
(* participants apart by their target_id.                                  *)
THEOREM EntriesTellCorrect == Spec => []EntriesTell
<1>1. ASSUME PacketInv, nextId <= WireIds
      PROVE  /\ \A n \in DOMAIN entries : entries[n] \in 1 .. nextId - 1
             /\ \A m, n \in DOMAIN entries : entries[m] = entries[n] => m = n
  <2>1. DOMAIN entries = DOMAIN named
    BY <1>1, PacketTypes DEF PacketInv, FusionInv, TypeOK
  <2>2. \A n \in DOMAIN named : entries[n] = named[n]
    <3> SUFFICES ASSUME NEW n \in DOMAIN named PROVE entries[n] = named[n]
      OBVIOUS
    <3>1. named[n] \in 0 .. WireIds - 1 /\ entries[n] = Sent(named[n])
      BY <1>1, PacketTypes, FusionAssumption DEF PacketInv, EntriesExisted
    <3>2. \A id \in 0 .. WireIds - 1 : id % WireIds = id
      BY FusionAssumption
    <3>3. QED
      BY <3>1, <3>2 DEF Sent
  <2>3. QED
    BY <1>1, <2>1, <2>2 DEF PacketInv, EntriesExisted
<1>2. PacketInv => EntriesTell
  BY <1>1 DEF EntriesTell
<1>3. QED
  BY <1>2, PacketInvAlways, PTL

-----------------------------------------------------------------------------
(* The abstract table of a set of tracks with distinct ids                 *)

IdsOf(V) == {t.id : t \in V}

Row(t) == [age |-> t.age, mask |-> t.mask, trusted |-> t.trusted]

Of(V, id) == CHOOSE t \in V : t.id = id

TableOf(V) == [id \in IdsOf(V) |-> Row(Of(V, id))]

Apart(V) == \A s, t \in V : s.id = t.id => s = t

LEMMA TableAt ==
  ASSUME NEW V, Apart(V)
  PROVE  /\ DOMAIN TableOf(V) = IdsOf(V)
         /\ \A t \in V : t.id \in IdsOf(V) /\ TableOf(V)[t.id] = Row(t)
         /\ \A id \in IdsOf(V) : \E t \in V : t.id = id
<1>1. DOMAIN TableOf(V) = IdsOf(V)
  BY DEF TableOf
<1>2. ASSUME NEW t \in V
      PROVE  t.id \in IdsOf(V) /\ TableOf(V)[t.id] = Row(t)
  <2>1. t.id \in IdsOf(V)
    BY DEF IdsOf
  <2>2. Of(V, t.id) \in V /\ Of(V, t.id).id = t.id
    BY DEF Of
  <2>3. Of(V, t.id) = t
    BY <2>2 DEF Apart
  <2>4. QED
    BY <2>1, <2>3 DEF TableOf
<1>3. \A id \in IdsOf(V) : \E t \in V : t.id = id
  BY DEF IdsOf
<1>4. QED
  BY <1>1, <1>2, <1>3

(* A table is known from its rows.                                         *)
LEMMA TableIs ==
  ASSUME NEW V, Apart(V), NEW f, f = [id \in IdsOf(V) |-> f[id]],
         \A t \in V : f[t.id] = Row(t)
  PROVE  TableOf(V) = f
<1>1. \A id \in IdsOf(V) : TableOf(V)[id] = f[id]
  BY TableAt
<1>2. TableOf(V) = [id \in IdsOf(V) |-> TableOf(V)[id]]
  BY DEF TableOf
<1>3. QED
  BY <1>1, <1>2

LEMMA SeenTable == /\ VisibleTable = TableOf(Visible)
                   /\ VisibleTable' = TableOf(Visible')
<1>1. VisibleTable = TableOf(Visible)
  BY Zenon DEF VisibleTable, TableOf, IdsOf, Row, Of
<1>2. VisibleTable' = TableOf(Visible')
  BY Zenon DEF VisibleTable, TableOf, IdsOf, Row, Of
<1>3. QED
  BY <1>1, <1>2

-----------------------------------------------------------------------------
(* The source of the detections being added is one sensor.                 *)
SourceKnown == main \in {"lock", "add"} => \E s \in Sensors : source = {s}

LEMMA LiveApart ==
  /\ FusionInv => Apart(LiveTracks)
  /\ FusionInv' => Apart(LiveTracks')
  BY DEF FusionInv, IdsDistinct, Apart, LiveTracks

LEMMA Stutters ==
  ASSUME Visible' = Visible, nextId' = nextId
  PROVE  UNCHANGED Table!tableVars
  BY SeenTable DEF Table!tableVars

LEMMA Refreshes ==
  ASSUME FusionInv, FusionInv', SourceKnown,
         NEW j \in Live, NEW time \in 1 .. clock,
         NEW trusted \in BOOLEAN, UpdateTrack(j, time, trusted)
  PROVE  Table!Next
<1> DEFINE V == LiveTracks
           W == LiveTracks'
           t == Track(cell[j].id, cell[j].mask \cup source, trusted, time)
           f == [TableOf(V) EXCEPT ![cell[j].id] = Row(t)]
<1>1. lock = "main" /\ lock' = "main"
  BY AddingAlone DEF UpdateTrack
<1>2. Visible = V /\ Visible' = W /\ Apart(V) /\ Apart(W)
  BY <1>1, LiveApart DEF Visible
<1>3. PICK s \in Sensors : source = {s}
  BY DEF SourceKnown, UpdateTrack, Adding
<1>4. /\ j \in Slots /\ Live' = Live /\ Live \subseteq Slots
      /\ cell \in [Slots -> TrackType]
      /\ cell' = [cell EXCEPT ![j] = t] /\ nextId' = nextId
  <2>1. cell' = [cell EXCEPT ![j] = t] /\ UNCHANGED <<trackCount, nextId>>
    BY DEF UpdateTrack
  <2>2. cell \in [Slots -> TrackType] /\ trackCount \in 0 .. TrackCapacity
    BY DEF FusionInv, TypeOK
  <2>3. j \in Slots /\ Live \subseteq Slots
    BY <2>2, FusionAssumption DEF Live, Slots
  <2>4. QED
    BY <2>1, <2>2, <2>3 DEF Live
<1>5. /\ t.id = cell[j].id
      /\ Row(t) = [age |-> 0, mask |-> cell[j].mask \cup {s},
                   trusted |-> trusted]
  BY <1>3 DEF Row, Track
<1> HIDE DEF t
<1>6. /\ V = {cell[k] : k \in Live} /\ W = {cell'[k] : k \in Live}
  BY <1>4 DEF LiveTracks
<1>7. cell'[j] = t /\ \A k \in Live \ {j} : cell'[k] = cell[k]
  BY <1>4
<1>8. \A k \in Live : cell[k].id = cell[j].id => k = j
  BY DEF FusionInv, IdsDistinct
<1> HIDE DEF V, W
<1>9. cell[j] \in V /\ cell[j].id \in IdsOf(V)
  BY <1>6 DEF IdsOf
<1>10. TableOf(V)[cell[j].id] = Row(cell[j])
  BY <1>2, <1>9, TableAt
<1>11. IdsOf(W) = IdsOf(V)
  BY <1>5, <1>6, <1>7 DEF IdsOf
<1>12. f = [id \in IdsOf(W) |-> f[id]]
  BY <1>11 DEF TableOf
<1>13. ASSUME NEW u \in W
       PROVE  f[u.id] = Row(u)
  <2>1. PICK k \in Live : u = cell'[k]
    BY <1>6
  <2>2. CASE k = j
    BY <2>1, <2>2, <1>5, <1>7, <1>9 DEF TableOf
  <2>3. CASE k # j
    <3>1. u = cell[k] /\ u \in V /\ u.id # cell[j].id
      BY <2>1, <2>3, <1>6, <1>7, <1>8
    <3>2. TableOf(V)[u.id] = Row(u) /\ u.id \in IdsOf(V)
      BY <3>1, <1>2, TableAt
    <3>3. QED
      BY <3>1, <3>2 DEF TableOf
  <2>4. QED
    BY <2>2, <2>3
<1> HIDE DEF f
<1>14. TableOf(W) = f
  BY <1>2, <1>12, <1>13, TableIs
<1>15. Row(t) = Table!Entry(0, TableOf(V)[cell[j].id].mask \cup {s}, trusted)
  BY <1>5, <1>10 DEF Row, Table!Entry
<1>16. Table!Refresh(cell[j].id, s, trusted)
  <2>1. VisibleTable = TableOf(V) /\ VisibleTable' = TableOf(W)
    BY <1>2, SeenTable
  <2>2. QED
    BY <2>1, <1>4, <1>14, <1>15 DEF Table!Refresh, f
<1>17. cell[j].id \in Table!Ids
  BY <1>2, <1>9, SeenTable, TableAt DEF Table!Ids
<1>18. QED
  BY <1>3, <1>16, <1>17 DEF Table!Next

LEMMA IdsCounted ==
  ASSUME TypeOK
  PROVE  IsFiniteSet(IdsOf(LiveTracks))
         /\ Cardinality(IdsOf(LiveTracks)) <= trackCount
<1> DEFINE g == [k \in Live |-> cell[k].id]
<1>1. trackCount \in Nat /\ Live = 0 .. trackCount - 1
  BY FusionAssumption DEF TypeOK, Live
<1>2. IsFiniteSet(Live) /\ Cardinality(Live) = trackCount
  BY <1>1, FS_Interval
<1>3. g \in Surjection(Live, IdsOf(LiveTracks))
  <2>1. \A k \in Live : g[k] \in IdsOf(LiveTracks)
    BY DEF IdsOf, LiveTracks
  <2>2. \A id \in IdsOf(LiveTracks) : \E k \in Live : g[k] = id
    BY DEF IdsOf, LiveTracks
  <2>3. QED
    BY <2>1, <2>2 DEF Surjection
<1>4. QED
  BY <1>1, <1>2, <1>3, FS_Surjection

LEMMA Opens ==
  ASSUME FusionInv, FusionInv', SourceKnown,
         NEW trusted \in BOOLEAN, CreateTrack(trusted)
  PROVE  Table!Next
<1> DEFINE V == LiveTracks
           W == LiveTracks'
           t == Track(nextId, source, trusted, cell[trackCount].stamp)
           f == [id \in IdsOf(V) \cup {nextId} |->
                   IF id = nextId THEN Row(t) ELSE TableOf(V)[id]]
<1>1. lock = "main" /\ lock' = "main"
  BY AddingAlone DEF CreateTrack
<1>2. Visible = V /\ Visible' = W /\ Apart(V) /\ Apart(W)
  BY <1>1, LiveApart DEF Visible
<1>3. PICK s \in Sensors : source = {s}
  BY DEF SourceKnown, CreateTrack, Adding
<1>0. /\ trackCount \in Nat /\ nextId \in Nat /\ trackCount < TrackCapacity
      /\ nextId' = nextId + 1 /\ trackCount' = trackCount + 1
      /\ TrackCapacity \in Nat
  BY FusionAssumption DEF CreateTrack, FusionInv, TypeOK
<1>4. /\ cell \in [Slots -> TrackType]
      /\ cell' = [cell EXCEPT ![trackCount] = t]
      /\ trackCount \in Slots /\ Live \subseteq Slots
      /\ Live' = Live \cup {trackCount} /\ trackCount \notin Live
  <2>1. cell' = [cell EXCEPT ![trackCount] = t] /\ cell \in [Slots -> TrackType]
    BY DEF CreateTrack, FusionInv, TypeOK
  <2>2. /\ trackCount \in Slots /\ Live \subseteq Slots
        /\ Live' = Live \cup {trackCount} /\ trackCount \notin Live
    BY <1>0 DEF Slots, Live
  <2>3. QED
    BY <2>1, <2>2
<1>5. /\ t.id = nextId
      /\ Row(t) = [age |-> 0, mask |-> {s}, trusted |-> trusted]
  BY <1>3 DEF Row, Track
<1> HIDE DEF t
<1>6. /\ cell'[trackCount] = t
      /\ \A k \in Live : cell'[k] = cell[k]
  BY <1>4
<1>7. W = V \cup {t}
  BY <1>4, <1>6 DEF LiveTracks
<1>8. nextId \notin IdsOf(V)
  BY <1>0 DEF FusionInv, IdsDistinct, IdsOf, LiveTracks
<1>9. Cardinality(IdsOf(V)) < TrackCapacity
  <2>1. /\ Cardinality(IdsOf(V)) \in Nat /\ trackCount \in Nat
        /\ Cardinality(IdsOf(V)) <= trackCount
    <3>0. TypeOK
      BY DEF FusionInv
    <3>1. TypeOK /\ trackCount \in Nat
      BY ONLY <3>0, FusionAssumption DEF TypeOK
    <3>2. /\ IsFiniteSet(IdsOf(V)) /\ Cardinality(IdsOf(V)) <= trackCount
      BY <3>1, IdsCounted
    <3>3. Cardinality(IdsOf(V)) \in Nat
      BY <3>2, FS_CardinalityType
    <3>4. QED
      BY <3>1, <3>2, <3>3
  <2>2. QED
    BY <2>1, <1>0
<1> HIDE DEF V, W
<1>10. IdsOf(W) = IdsOf(V) \cup {nextId}
  BY <1>5, <1>7 DEF IdsOf
<1>11. f = [id \in IdsOf(W) |-> f[id]]
  BY <1>10
<1>12. ASSUME NEW u \in W
       PROVE  f[u.id] = Row(u)
  <2>1. CASE u = t
    BY <2>1, <1>5
  <2>2. CASE u \in V
    <3>1. TableOf(V)[u.id] = Row(u) /\ u.id \in IdsOf(V)
      BY <2>2, <1>2, TableAt
    <3>2. QED
      BY <3>1, <1>8
  <2>3. QED
    BY <2>1, <2>2, <1>7
<1>13. TableOf(W) = [id \in IdsOf(V) \cup {nextId} |->
                       IF id = nextId THEN Row(t) ELSE TableOf(V)[id]]
  <2> HIDE DEF f
  <2>1. TableOf(W) = f
    BY <1>2, <1>11, <1>12, TableIs
  <2>2. QED
    BY <2>1 DEF f
<1>14. Row(t) = Table!Entry(0, {s}, trusted)
  BY <1>5 DEF Table!Entry
<1>15. Table!Ids = IdsOf(V)
  BY <1>2, SeenTable, TableAt DEF Table!Ids
<1>16. VisibleTable = TableOf(V) /\ VisibleTable' = TableOf(W)
  BY <1>2, SeenTable
<1>17. Table!Open(s, trusted)
  <2>1. \A S : Table!Cardinality(S) = Cardinality(S)
    BY Zenon DEF Cardinality, Table!Cardinality
  <2>2. QED
    BY <2>1, <1>0, <1>9, <1>13, <1>14, <1>15, <1>16 DEF Table!Open
<1>18. QED
  BY <1>3, <1>17 DEF Table!Next

-----------------------------------------------------------------------------
(* The cycle                                                               *)

(* The tracks that the scan is past.                                       *)
Past == IF fusion = "publish" THEN i + 1 ELSE i

(* Where the tracks of the beginning of a cycle have gone: ahead of the    *)
(* scan as they were, past it advanced, or dropped.                        *)
Scanned ==
  /\ \A k \in Past .. trackCount - 1 : cell[k] \in begun
  /\ \A k \in 0 .. Past - 1 :
       \E t \in begun : cell[k] = Advanced(t) /\ ~Expired(cell[k])
  /\ \A t \in begun : \/ \E k \in Past .. trackCount - 1 : cell[k] = t
                      \/ \E k \in 0 .. Past - 1 : cell[k] = Advanced(t)
                      \/ Expired(Advanced(t))

CycleInv == /\ fusion = "clear" => begun = LiveTracks
            /\ fusion \in {"scan", "publish"} => Scanned
            /\ Apart(begun)

TableInv == FusionInv /\ SourceKnown /\ CycleInv

LEMMA TableInvInit == Init => SourceKnown /\ CycleInv
  BY DEF Init, SourceKnown, CycleInv, Apart

(* Main and the clock change nothing that a cycle has in hand.             *)
LEMMA CycleInvMain ==
  ASSUME FusionInv, CycleInv, Receive \/ MainStep \/ Tick \/ UNCHANGED vars
  PROVE  CycleInv'
<1>1. CASE UNCHANGED <<tracks, cycle>>
  <2>1. /\ cell' = cell /\ trackCount' = trackCount /\ fusion' = fusion
        /\ i' = i /\ now' = now /\ begun' = begun
    BY <1>1 DEF tracks, cycle
  <2>2. Past' = Past /\ LiveTracks' = LiveTracks
    BY <2>1 DEF Past, LiveTracks, Live
  <2>3. \A t : Advanced(t)' = Advanced(t) /\ Expired(t)' = Expired(t)
    BY <2>1 DEF Advanced, Expired
  <2>4. Scanned => Scanned'
    BY <2>1, <2>2, <2>3 DEF Scanned
  <2>5. QED
    BY <2>1, <2>2, <2>4 DEF CycleInv, Apart
<1>2. CASE AddDetection
  <2>1. fusion = "sleep" /\ UNCHANGED cycle
    BY <1>2, AddingAlone DEF AddDetection, UpdateTrack, CreateTrack
  <2>2. QED
    BY <2>1 DEF CycleInv, Apart, cycle
<1>3. CASE Receive \/ Tick \/ UNCHANGED vars
  BY <1>1, <1>3 DEF Receive, Tick, vars
<1>4. CASE MainStep /\ ~AddDetection
  BY <1>1, <1>4
  DEF MainStep, AddLock, Ignore, AddUnlock, NothingToSend, SomethingToSend,
      EncodeNumber, EncodeNext, EncodeEntry, EncodeDone, NextMessage
<1>5. QED
  BY <1>2, <1>3, <1>4

LEMMA SourceKnownStep ==
  ASSUME SourceKnown, [Next]_vars
  PROVE  SourceKnown'
<1> USE DEF SourceKnown
<1>1. CASE Receive
  BY <1>1 DEF Receive
<1>2. CASE AddDetection
  BY <1>2 DEF AddDetection, UpdateTrack, CreateTrack, ingest
<1>3. CASE MainStep /\ ~AddDetection
  BY <1>3
  DEF MainStep, AddLock, Ignore, AddUnlock, NothingToSend, SomethingToSend,
      EncodeNumber, EncodeNext, EncodeEntry, EncodeDone, NextMessage, ingest
<1>4. CASE FusionStep
  BY <1>4 DEF FusionStep, CycleLock, ClearOutput, DropTrack, KeepTrack,
              Publish, CycleUnlock, ingest
<1>5. CASE Tick \/ UNCHANGED vars
  BY <1>5 DEF Tick, vars, ingest
<1>6. QED
  BY <1>1, <1>2, <1>3, <1>4, <1>5 DEF Next

LEMMA CycleInvEnds ==
  ASSUME FusionInv, CycleInv, CycleLock \/ ClearOutput \/ Publish \/ CycleUnlock
  PROVE  CycleInv'
<1>1. CASE CycleLock
  BY <1>1, LiveApart DEF CycleLock, CycleInv, LiveTracks, Live, Apart, tracks
<1>2. CASE ClearOutput
  <2>1. /\ UNCHANGED <<cell, trackCount, now, begun>> /\ begun = LiveTracks
        /\ fusion' = "scan" /\ i' = 0 /\ Past' = 0 /\ trackCount \in Nat
    BY <1>2 DEF ClearOutput, CycleInv, Past, tracks, FusionInv, TypeOK
  <2>2. Scanned'
    BY <2>1 DEF Scanned, LiveTracks, Live
  <2>3. QED
    BY <2>1, <2>2 DEF CycleInv, Apart
<1>3. CASE Publish
  <2>1. /\ UNCHANGED <<cell, trackCount, now, begun>> /\ fusion' = "scan"
        /\ Past' = Past /\ fusion = "publish"
    BY <1>3 DEF Publish, Past, tracks
  <2>2. Scanned'
    BY <2>1 DEF Scanned, CycleInv, Expired, Advanced
  <2>3. QED
    BY <2>1, <2>2 DEF CycleInv, Apart
<1>4. CASE CycleUnlock
  BY <1>4 DEF CycleUnlock, CycleInv, Apart
<1>5. QED
  BY <1>1, <1>2, <1>3, <1>4

LEMMA CycleInvDrop ==
  ASSUME FusionInv, CycleInv, DropTrack
  PROVE  CycleInv'
<1> DEFINE last == trackCount - 1
<1>1. /\ i \in Nat /\ last \in Nat /\ i <= last /\ i \in Slots /\ last \in Slots
      /\ cell \in [Slots -> TrackType]
  BY AdvancedFacts DEF DropTrack, FusionInv, TypeOK
<1>2. /\ fusion = "scan" /\ Expired(Advanced(cell[i]))
      /\ UNCHANGED <<fusion, i, now, begun>> /\ trackCount' = last
      /\ cell'[i] = IF i < last THEN cell[last] ELSE Advanced(cell[i])
      /\ \A k \in Slots \ {i} : cell'[k] = cell[k]
  BY <1>1 DEF DropTrack, Scanning, cycle
<1>3. /\ \A k \in i .. last : cell[k] \in begun
      /\ \A k \in 0 .. i - 1 :
           \E t \in begun : cell[k] = Advanced(t) /\ ~Expired(cell[k])
      /\ \A t \in begun : \/ \E k \in i .. last : cell[k] = t
                          \/ \E k \in 0 .. i - 1 : cell[k] = Advanced(t)
                          \/ Expired(Advanced(t))
  BY <1>2 DEF CycleInv, Scanned, Past
<1>4. \A k \in i .. last : k \in Slots
  BY <1>1, FusionAssumption DEF Slots
<1>5. \A k \in 0 .. i - 1 : cell'[k] = cell[k]
  BY <1>1, <1>2, FusionAssumption DEF Slots
<1>6. \A t : Advanced(t)' = Advanced(t) /\ Expired(t)' = Expired(t)
  BY <1>2 DEF Advanced, Expired
<1> HIDE DEF last
<1>7. \A k \in i .. last - 1 : cell'[k] \in begun
  BY <1>1, <1>2, <1>3, <1>4
<1>8. ASSUME NEW t \in begun
      PROVE  \/ \E k \in i .. last - 1 : cell'[k] = t
             \/ \E k \in 0 .. i - 1 : cell'[k] = Advanced(t)
             \/ Expired(Advanced(t))
  <2>1. CASE \E k \in i .. last : cell[k] = t
    <3>1. PICK k \in i .. last : cell[k] = t
      BY <2>1
    <3>2. CASE k = i
      BY <1>2, <3>1, <3>2
    <3>3. CASE k # i /\ k # last
      BY <1>1, <1>2, <1>4, <3>1, <3>3
    <3>4. CASE k # i /\ k = last
      <4>1. i \in i .. last - 1 /\ cell'[i] = t
        BY <1>1, <1>2, <3>1, <3>4
      <4>2. QED
        BY <4>1
    <3>5. QED
      BY <3>2, <3>3, <3>4
  <2>2. QED
    BY <2>1, <1>3, <1>5
<1>9. Scanned'
  BY <1>2, <1>3, <1>5, <1>6, <1>7, <1>8 DEF Scanned, Past
<1>10. QED
  BY <1>2, <1>9 DEF CycleInv, Apart

LEMMA CycleInvKeep ==
  ASSUME FusionInv, CycleInv, KeepTrack
  PROVE  CycleInv'
<1> DEFINE last == trackCount - 1
<1>1. /\ i \in Nat /\ last \in Nat /\ i <= last /\ i \in Slots
      /\ cell \in [Slots -> TrackType]
  BY AdvancedFacts DEF KeepTrack, FusionInv, TypeOK
<1>2. /\ fusion = "scan" /\ ~Expired(Advanced(cell[i])) /\ fusion' = "publish"
      /\ UNCHANGED <<i, now, begun, trackCount>>
      /\ cell'[i] = Advanced(cell[i])
      /\ \A k \in Slots \ {i} : cell'[k] = cell[k]
  BY <1>1 DEF KeepTrack, Scanning
<1>3. /\ \A k \in i .. last : cell[k] \in begun
      /\ \A k \in 0 .. i - 1 :
           \E t \in begun : cell[k] = Advanced(t) /\ ~Expired(cell[k])
      /\ \A t \in begun : \/ \E k \in i .. last : cell[k] = t
                          \/ \E k \in 0 .. i - 1 : cell[k] = Advanced(t)
                          \/ Expired(Advanced(t))
  BY <1>2 DEF CycleInv, Scanned, Past
<1>4. \A k \in 0 .. last : k \in Slots
  BY <1>1, FusionAssumption DEF Slots, FusionInv, TypeOK
<1>5. \A k \in 0 .. last : k # i => cell'[k] = cell[k]
  BY <1>2, <1>4
<1>6. \A t : Advanced(t)' = Advanced(t) /\ Expired(t)' = Expired(t)
  BY <1>2 DEF Advanced, Expired
<1>7. \A k \in i + 1 .. last : cell'[k] \in begun
  BY <1>1, <1>3, <1>5
<1>8. ASSUME NEW k \in 0 .. i
      PROVE  \E t \in begun : cell'[k] = Advanced(t) /\ ~Expired(cell'[k])
  <2>1. CASE k = i
    <3>1. cell[i] \in begun
      BY <1>1, <1>3
    <3>2. QED
      BY <1>2, <2>1, <3>1
  <2>2. CASE k # i
    BY <1>1, <1>3, <1>5, <2>2
  <2>3. QED
    BY <2>1, <2>2
<1>9. ASSUME NEW t \in begun
      PROVE  \/ \E k \in i + 1 .. last : cell'[k] = t
             \/ \E k \in 0 .. i : cell'[k] = Advanced(t)
             \/ Expired(Advanced(t))
  <2>1. CASE \E k \in i .. last : cell[k] = t
    <3>1. PICK k \in i .. last : cell[k] = t
      BY <2>1
    <3>2. CASE k = i
      BY <1>1, <1>2, <3>1, <3>2
    <3>3. CASE k # i
      BY <1>1, <1>5, <3>1, <3>3
    <3>4. QED
      BY <3>2, <3>3
  <2>2. CASE \E k \in 0 .. i - 1 : cell[k] = Advanced(t)
    BY <1>1, <1>5, <2>2
  <2>3. QED
    BY <2>1, <2>2, <1>3
<1>10. Past' = i + 1 /\ (i + 1) - 1 = i /\ trackCount' - 1 = last
  BY <1>1, <1>2 DEF Past
<1>11. Scanned'
  BY <1>2, <1>6, <1>7, <1>8, <1>9, <1>10 DEF Scanned
<1>12. QED
  BY <1>2, <1>11 DEF CycleInv, Apart

-----------------------------------------------------------------------------
(* The steps of the table                                                  *)

(* What an advanced track shows of itself.                                 *)
LEMMA AdvancedRow ==
  ASSUME NEW t \in TrackType
  PROVE  /\ Advanced(t).id = t.id
         /\ Row(Advanced(t)) = [Row(t) EXCEPT !.age = @ + 1]
         /\ ~Expired(Advanced(t)) <=> Row(t).age < MaxAge /\ Row(t).trusted
<1>1. MaxAge \in Nat /\ t.age \in Nat
  BY FusionAssumption DEF TrackType
<1>2. PICK moved, age : moved = t.moved + (now - t.stamp) /\ age = t.age + 1
  OBVIOUS
<1>3. PICK a : a = [t EXCEPT !.moved = moved, !.age = age]
  OBVIOUS
<1>4. Advanced(t) = a
  BY <1>2, <1>3 DEF Advanced
<1>5. /\ a.id = t.id /\ a.age = age /\ a.mask = t.mask
      /\ a.trusted = t.trusted
  BY ONLY <1>3, t \in TrackType DEF TrackType
<1>6. QED
  BY <1>1, <1>2, <1>4, <1>5 DEF Row, Expired

(* At its unlock the cycle has done to the live tracks of its beginning    *)
(* what the table does at once.                                            *)
LEMMA Cycles ==
  ASSUME TableInv, TableInv', CycleUnlock
  PROVE  Table!Cycle
<1> DEFINE V == begun
           W == LiveTracks'
           kept == {id \in IdsOf(V) :
                      TableOf(V)[id].age < MaxAge /\ TableOf(V)[id].trusted}
           f == [id \in kept |-> [TableOf(V)[id] EXCEPT !.age = @ + 1]]
<1>1. /\ lock = "fusion" /\ lock' = "free" /\ Apart(V) /\ V \subseteq TrackType
      /\ nextId' = nextId /\ W = LiveTracks
  BY DEF CycleUnlock, TableInv, FusionInv, Excludes, CycleInv, TypeOK,
         LiveTracks, Live, tracks
<1>2. Apart(W)
  BY LiveApart DEF TableInv
<1>3. /\ \A u \in W : \E t \in V : u = Advanced(t) /\ ~Expired(u)
      /\ \A t \in V : Advanced(t) \in W \/ Expired(Advanced(t))
  <2>1. fusion = "scan" /\ i >= trackCount /\ i \in Nat /\ trackCount \in Nat
    BY DEF CycleUnlock, TableInv, FusionInv, TypeOK
  <2>2. i = trackCount
    BY <2>1 DEF TableInv, FusionInv, PublishedInStep, TypeOK
  <2>3. /\ \A k \in Live : \E t \in begun : cell[k] = Advanced(t)
                                            /\ ~Expired(cell[k])
        /\ \A t \in begun : \/ \E k \in Live : cell[k] = Advanced(t)
                            \/ Expired(Advanced(t))
    BY <2>1, <2>2 DEF TableInv, CycleInv, Scanned, Past, Live
  <2>4. QED
    BY <1>1, <2>3 DEF LiveTracks
<1>4. VisibleTable = TableOf(V) /\ VisibleTable' = TableOf(W)
  BY <1>1, SeenTable DEF Visible
<1>5. ASSUME NEW t \in V
      PROVE  /\ t.id \in IdsOf(V) /\ Advanced(t).id = t.id
             /\ Row(Advanced(t)) = [TableOf(V)[t.id] EXCEPT !.age = @ + 1]
             /\ t.id \in kept <=> ~Expired(Advanced(t))
  <2>1. t.id \in IdsOf(V) /\ TableOf(V)[t.id] = Row(t)
    BY <1>1, TableAt
  <2>2. QED
    BY <1>1, <2>1, AdvancedRow
<1> HIDE DEF V, W
<1>6. IdsOf(W) = kept
  <2>1. ASSUME NEW u \in W PROVE u.id \in kept
    BY <1>3, <1>5
  <2>2. ASSUME NEW id \in kept PROVE \E u \in W : u.id = id
    <3>1. PICK t \in V : t.id = id
      BY DEF IdsOf
    <3>2. Advanced(t) \in W /\ Advanced(t).id = id
      BY <1>3, <1>5, <3>1
    <3>3. QED
      BY <3>2
  <2> HIDE DEF kept
  <2>3. QED
    BY <2>1, <2>2 DEF IdsOf
<1>7. ASSUME NEW u \in W
      PROVE  f[u.id] = Row(u)
  <2>1. PICK t \in V : u = Advanced(t) /\ ~Expired(u)
    BY <1>3
  <2>2. u.id = t.id /\ t.id \in kept
    BY <1>5, <2>1
  <2> HIDE DEF kept
  <2>3. QED
    BY <1>5, <2>1, <2>2
<1>8. TableOf(W) = f
  <2>1. f = [id \in IdsOf(W) |-> f[id]]
    BY <1>6
  <2> HIDE DEF f
  <2>2. QED
    BY <1>2, <1>7, <2>1, TableIs
<1>9. Table!Ids = IdsOf(V)
  BY <1>1, <1>4, TableAt DEF Table!Ids
<1>10. Table!Kept = kept
  BY <1>4, <1>9 DEF Table!Kept
<1>11. QED
  BY <1>1, <1>4, <1>8, <1>10 DEF Table!Cycle

LEMMA TableStep ==
  ASSUME TableInv, TableInv', [Next]_vars
  PROVE  [Table!Next]_Table!tableVars
<1> USE DEF TableInv
<1>1. CASE AddDetection
  <2>1. PICK trusted \in BOOLEAN :
          \/ \E j \in Live, time \in 1 .. clock :
               \E blended \in Blend(cell[j].trusted, trusted) :
                 UpdateTrack(j, time, blended)
          \/ CreateTrack(trusted)
    BY <1>1 DEF AddDetection
  <2>2. CASE CreateTrack(trusted)
    BY <2>2, Opens
  <2>3. ASSUME NEW j \in Live, NEW time \in 1 .. clock,
               NEW blended \in Blend(cell[j].trusted, trusted),
               UpdateTrack(j, time, blended)
        PROVE  Table!Next
    <3>1. blended \in BOOLEAN
      BY BlendType
    <3>2. QED
      BY <2>3, <3>1, Refreshes
  <2>4. QED
    BY <2>1, <2>2, <2>3
<1>2. CASE CycleUnlock
  BY <1>2, Cycles DEF Table!Next
<1>3. CASE CycleLock
  <2>1. Visible' = Visible /\ nextId' = nextId
    BY <1>3 DEF CycleLock, Visible, tracks
  <2>2. QED
    BY <2>1, Stutters
<1>4. CASE ClearOutput \/ DropTrack \/ KeepTrack \/ Publish
  <2>1. lock = "fusion" /\ UNCHANGED <<lock, begun, nextId>>
    BY <1>4 DEF FusionInv, Excludes, ClearOutput, DropTrack, KeepTrack,
                Publish, Scanning, tracks, cycle
  <2>2. Visible' = Visible
    BY <2>1 DEF Visible
  <2>3. QED
    BY <2>1, <2>2, Stutters
<1>5. CASE AddLock \/ Ignore \/ AddUnlock
  <2>1. UNCHANGED <<tracks, begun>> /\ lock # "fusion" /\ lock' # "fusion"
    BY <1>5 DEF AddLock, Ignore, Adding, AddUnlock, FusionInv, Excludes, cycle
  <2>2. Visible' = Visible /\ nextId' = nextId
    BY <2>1 DEF Visible, LiveTracks, Live, tracks
  <2>3. QED
    BY <2>2, Stutters
<1>6. CASE UNCHANGED <<tracks, begun, lock>>
  <2>1. Visible' = Visible /\ nextId' = nextId
    BY <1>6 DEF Visible, LiveTracks, Live, tracks
  <2>2. QED
    BY <2>1, Stutters
<1>7. CASE Receive \/ Tick \/ UNCHANGED vars
  BY <1>6, <1>7 DEF Receive, Tick, vars, cycle
<1>8. CASE \/ NothingToSend \/ SomethingToSend \/ EncodeNumber \/ EncodeNext
           \/ EncodeEntry \/ EncodeDone \/ NextMessage
  BY <1>6, <1>8
  DEF NothingToSend, SomethingToSend, EncodeNumber, EncodeNext, EncodeEntry,
      EncodeDone, NextMessage, cycle
<1>9. QED
  BY <1>1, <1>2, <1>3, <1>4, <1>5, <1>7, <1>8 DEF Next, MainStep, FusionStep

(* To those who take its lock the processor is the table of TrackTable: a  *)
(* cycle of many steps happens at its unlock, whatever the capacity, the   *)
(* age limit and the tracks that are dropped and moved on the way.         *)
THEOREM TableCorrect == Spec => ImplementsTable
<1>1. Init => TableInv
  BY FusionInvInit, TableInvInit DEF TableInv
<1>2. TableInv /\ [Next]_vars => TableInv'
  BY FusionInvStep, SourceKnownStep, CycleInvMain, CycleInvEnds, CycleInvDrop,
     CycleInvKeep
  DEF TableInv, Next, FusionStep
<1>3. Init => Table!Init
  <2> SUFFICES ASSUME Init PROVE Table!Init
    OBVIOUS
  <2>1. Visible = {} /\ nextId = 1
    BY DEF Init, Visible, LiveTracks, Live
  <2>2. IdsOf({}) = {}
    BY DEF IdsOf
  <2>3. TableOf({}) = << >>
    BY <2>2 DEF TableOf
  <2>4. QED
    BY <2>1, <2>3, SeenTable DEF Table!Init
<1>4. TableInv /\ TableInv' /\ [Next]_vars => [Table!Next]_Table!tableVars
  BY TableStep
<1>5. QED
  BY <1>1, <1>2, <1>3, <1>4, PTL DEF Spec, ImplementsTable, Table!Spec

-----------------------------------------------------------------------------
(* Ids, and the length of a cycle                                          *)

LiveIds == {cell[k].id : k \in Live}

(* The track with this id existed and is no longer in the table.           *)
Gone(id) == id \in 1 .. nextId - 1 /\ id \notin LiveIds

LEMMA LiveIdsDrop ==
  ASSUME FusionInv, DropTrack
  PROVE  LiveIds' \subseteq LiveIds
  BY DropMovesDown DEF LiveIds

LEMMA LiveIdsStep ==
  ASSUME FusionInv, [Next]_vars
  PROVE  /\ LiveIds' \subseteq LiveIds \cup {nextId}
         /\ nextId' \in {nextId, nextId + 1}
<1>0. /\ Live \subseteq Slots /\ cell \in [Slots -> TrackType]
      /\ nextId \in Nat
  BY FusionAssumption DEF FusionInv, TypeOK, Live, Slots
<1>1. CASE UNCHANGED tracks
  BY <1>1 DEF tracks, LiveIds, Live
<1>2. CASE AddDetection
  <2>1. ASSUME NEW j \in Live, NEW time, NEW trusted,
               UpdateTrack(j, time, trusted)
        PROVE  LiveIds' \subseteq LiveIds /\ nextId' = nextId
    <3>1. UNCHANGED <<trackCount, nextId>>
          /\ cell' = [cell EXCEPT ![j] =
                        Track(@.id, @.mask \cup source, trusted, time)]
      BY <2>1 DEF UpdateTrack
    <3>2. \A k \in Live : cell'[k].id = cell[k].id
      BY <1>0, <3>1 DEF Track
    <3>3. QED
      BY <3>1, <3>2 DEF LiveIds, Live
  <2>2. ASSUME NEW trusted, CreateTrack(trusted)
        PROVE  LiveIds' \subseteq LiveIds \cup {nextId} /\ nextId' = nextId + 1
    <3>1. /\ trackCount' = trackCount + 1 /\ nextId' = nextId + 1
          /\ trackCount \in Slots
          /\ cell' = [cell EXCEPT ![trackCount] =
                        Track(nextId, source, trusted, @.stamp)]
      BY <2>2, FusionAssumption DEF CreateTrack, FusionInv, TypeOK, Slots
    <3>2. Live' \subseteq Live \cup {trackCount}
      BY <3>1 DEF Live, Slots
    <3>3. cell'[trackCount].id = nextId
      BY <1>0, <3>1 DEF Track
    <3>4. \A k \in Live \ {trackCount} : cell'[k].id = cell[k].id
      BY <1>0, <3>1
    <3>5. QED
      BY <3>1, <3>2, <3>3, <3>4 DEF LiveIds
  <2>3. QED
    BY <1>2, <2>1, <2>2 DEF AddDetection
<1>3. CASE DropTrack
  BY <1>3, LiveIdsDrop DEF DropTrack
<1>4. CASE KeepTrack
  <2>1. /\ UNCHANGED <<trackCount, nextId>> /\ i \in Slots
        /\ cell' = [cell EXCEPT ![i] = Advanced(@)]
    BY <1>0, <1>4 DEF KeepTrack, Scanning, FusionInv, TypeOK, Live, Slots
  <2>2. \A k \in Live : cell'[k].id = cell[k].id
    BY <1>0, <2>1 DEF Advanced, TrackType
  <2>3. QED
    BY <2>1, <2>2 DEF LiveIds, Live
<1>5. QED
  BY <1>1, <1>2, <1>3, <1>4
  DEF Next, MainStep, FusionStep, vars, Receive, AddLock, Ignore, AddUnlock,
      NothingToSend, SomethingToSend, EncodeNumber, EncodeNext, EncodeEntry,
      EncodeDone, NextMessage, CycleLock, ClearOutput, Publish, CycleUnlock, Tick

(* A track that has been dropped never comes back, and its global id is    *)
(* never given to another, whatever slots the tracks are moved to, as long *)
(* as next_global_id has not come round (fusion_processor.c).              *)
THEOREM IdsNeverReused ==
  ASSUME NEW id \in Nat
  PROVE  Spec => [](Gone(id) => []Gone(id))
<1>1. FusionInv /\ [Next]_vars /\ Gone(id) => Gone(id)'
  <2> SUFFICES ASSUME FusionInv, [Next]_vars, Gone(id)
               PROVE  Gone(id)'
    OBVIOUS
  <2>1. id \in 1 .. nextId - 1 /\ id \notin LiveIds /\ nextId \in Nat
    BY DEF Gone, FusionInv, TypeOK
  <2>2. id # nextId /\ \A n \in {nextId, nextId + 1} : id \in 1 .. n - 1
    BY <2>1
  <2>3. QED
    BY <2>1, <2>2, LiveIdsStep DEF Gone
<1>2. QED
  BY <1>1, FusionInvInit, FusionInvStep, PTL DEF Spec

(* What is left of a cycle: two steps for each track not yet scanned.      *)
CycleLeft == CASE fusion = "clear" -> 2 * trackCount + 2
               [] fusion = "scan" -> 2 * (trackCount - i) + 1
               [] fusion = "publish" -> 2 * (trackCount - i)
               [] fusion = "sleep" -> 0

CycleEnds ==
  fusion # "sleep" =>
    /\ CycleLeft \in 1 .. 2 * TrackCapacity + 2
    /\ FusionStep => CycleLeft' < CycleLeft
    /\ ~FusionStep => CycleLeft' = CycleLeft

LEMMA CycleLeftAt ==
  /\ fusion = "clear" => CycleLeft = 2 * trackCount + 2
  /\ fusion = "scan" => CycleLeft = 2 * (trackCount - i) + 1
  /\ fusion = "publish" => CycleLeft = 2 * (trackCount - i)
  /\ fusion = "sleep" => CycleLeft = 0
  BY DEF CycleLeft

LEMMA CycleLeftAfter ==
  /\ fusion' = "scan" => CycleLeft' = 2 * (trackCount' - i') + 1
  /\ fusion' = "publish" => CycleLeft' = 2 * (trackCount' - i')
  /\ fusion' = "sleep" => CycleLeft' = 0
  BY DEF CycleLeft

LEMMA CycleEndsStep ==
  ASSUME FusionInv, [Next]_vars, fusion # "sleep"
  PROVE  CycleEnds
<1>1. /\ trackCount \in 0 .. TrackCapacity /\ i \in 0 .. TrackCapacity
      /\ trackCount \in Nat /\ i \in Nat
  BY FusionAssumption DEF FusionInv, TypeOK
<1>2. fusion \in {"clear", "scan", "publish"} /\ lock = "fusion"
  BY DEF FusionInv, TypeOK, Excludes
<1>3. /\ fusion = "scan" => i <= trackCount
      /\ fusion = "publish" => i < trackCount
  BY DEF FusionInv, PublishedInStep, Ahead
<1>4. CycleLeft \in 1 .. 2 * TrackCapacity + 2
  <2>1. CASE fusion = "clear"
    <3>1. CycleLeft = 2 * trackCount + 2
      BY <2>1, CycleLeftAt
    <3>2. QED
      BY <1>1, <3>1, FusionAssumption
  <2>2. CASE fusion = "scan"
    <3>1. CycleLeft = 2 * (trackCount - i) + 1 /\ i <= trackCount
      BY <1>3, <2>2, CycleLeftAt
    <3>2. QED
      BY <1>1, <3>1, FusionAssumption
  <2>3. CASE fusion = "publish"
    <3>1. CycleLeft = 2 * (trackCount - i) /\ i < trackCount
      BY <1>3, <2>3, CycleLeftAt
    <3>2. QED
      BY <1>1, <3>1, FusionAssumption
  <2>4. QED
    BY <1>2, <2>1, <2>2, <2>3
<1>5. ASSUME FusionStep
      PROVE  CycleLeft' < CycleLeft
  <2>1. CASE ClearOutput
    <3>1. fusion = "clear" /\ fusion' = "scan" /\ i' = 0
          /\ trackCount' = trackCount
      BY <2>1 DEF ClearOutput, tracks
    <3>2. CycleLeft = 2 * trackCount + 2
          /\ CycleLeft' = 2 * (trackCount' - i') + 1
      BY <3>1, CycleLeftAt, CycleLeftAfter
    <3>3. trackCount' = trackCount /\ i' = 0
      BY <3>1
    <3>4. QED
      BY <1>1, <3>2, <3>3
  <2>2. CASE DropTrack
    <3>1. fusion = "scan" /\ fusion' = "scan" /\ i' = i
          /\ trackCount' = trackCount - 1
      BY <2>2 DEF DropTrack, Scanning, cycle
    <3>2. CycleLeft = 2 * (trackCount - i) + 1
          /\ CycleLeft' = 2 * (trackCount' - i') + 1
      BY <3>1, CycleLeftAt, CycleLeftAfter
    <3>3. trackCount' = trackCount - 1 /\ i' = i
      BY <3>1
    <3>4. QED
      BY <1>1, <3>2, <3>3
  <2>3. CASE KeepTrack
    <3>1. fusion = "scan" /\ fusion' = "publish"
          /\ UNCHANGED <<i, trackCount>>
      BY <2>3 DEF KeepTrack, Scanning
    <3>2. CycleLeft = 2 * (trackCount - i) + 1
          /\ CycleLeft' = 2 * (trackCount' - i')
      BY <3>1, CycleLeftAt, CycleLeftAfter
    <3>3. trackCount' = trackCount /\ i' = i
      BY <3>1
    <3>4. QED
      BY <1>1, <3>2, <3>3
  <2>4. CASE Publish
    <3>1. fusion = "publish" /\ fusion' = "scan" /\ i' = i + 1
          /\ trackCount' = trackCount
      BY <2>4 DEF Publish, tracks
    <3>2. CycleLeft = 2 * (trackCount - i)
          /\ CycleLeft' = 2 * (trackCount' - i') + 1
      BY <3>1, CycleLeftAt, CycleLeftAfter
    <3>3. trackCount' = trackCount /\ i' = i + 1
      BY <3>1
    <3>4. QED
      BY <1>1, <3>2, <3>3
  <2>5. CASE CycleUnlock
    <3>1. CycleLeft' = 0
      BY <2>5, CycleLeftAfter DEF CycleUnlock
    <3>2. QED
      BY <1>4, <3>1, FusionAssumption
  <2>6. QED
    BY <1>5, <2>1, <2>2, <2>3, <2>4, <2>5 DEF FusionStep, CycleLock
<1>6. ASSUME ~FusionStep
      PROVE  CycleLeft' = CycleLeft
  <2>1. ~AddDetection
    BY <1>2, AddingAlone DEF AddDetection, UpdateTrack, CreateTrack
  <2>2. UNCHANGED <<fusion, i, trackCount>>
    BY <1>6, <2>1
    DEF Next, MainStep, vars, tracks, cycle, Receive, AddLock, Ignore,
        AddUnlock, NothingToSend, SomethingToSend, EncodeNumber, EncodeNext,
        EncodeEntry, EncodeDone, NextMessage, Tick
  <2>3. QED
    BY <2>2 DEF CycleLeft
<1>7. QED
  BY <1>4, <1>5, <1>6 DEF CycleEnds

(* The fusion thread holds the mutex for at most two steps a track and two *)
(* more: each of its steps is one fewer, although a dropped track leaves   *)
(* the index where it is and another is put under it, and nothing main     *)
(* does in the meantime adds a step.                                       *)
THEOREM CycleBounded == Spec => [][CycleEnds]_vars
<1>1. FusionInv /\ [Next]_vars => CycleEnds
  BY CycleEndsStep DEF CycleEnds
<1>2. QED
  BY <1>1, FusionInvInit, FusionInvStep, PTL DEF Spec

-----------------------------------------------------------------------------
(* The safety half of MainReturns                                          *)

(* The packet has no more participants than the table has slots, whatever  *)
(* the fusion thread publishes while it is encoded.                        *)
EntriesFit == Len(entries) <= TrackCapacity

(* What main still does with the message in hand: its detections, and a    *)
(* packet of at most TrackCapacity participants.                           *)
MessageLeft == CASE main = "lock" -> 2 * TrackCapacity + left + 6
                 [] main = "add" -> 2 * TrackCapacity + left + 5
                 [] main = "look" -> 2 * TrackCapacity + 4
                 [] main = "number" -> 2 * TrackCapacity + 3
                 [] main = "entries" -> 2 * (TrackCapacity - Len(entries)) + 2
                 [] main = "entry" -> 2 * (TrackCapacity - Len(entries)) + 1
                 [] main = "sent" -> 1
                 [] main = "idle" -> 0

MessageEnds ==
  main # "idle" =>
    /\ MessageLeft \in 1 .. 2 * TrackCapacity + left + 6
    /\ MainStep => MessageLeft' < MessageLeft
    /\ ~MainStep => MessageLeft' = MessageLeft

LEMMA EntriesFitStep ==
  ASSUME FusionInv, EntriesFit, [Next]_vars
  PROVE  EntriesFit'
<1>1. CASE EncodeEntry
  <2>1. /\ entries' = Append(entries, Sent(outCell[Len(entries)]))
        /\ Len(entries) < TrackCapacity
    BY <1>1 DEF EncodeEntry, FusionInv, InBounds
  <2>2. /\ entries \in Seq(0 .. WireIds - 1)
        /\ TrackCapacity \in Nat
    BY FusionAssumption DEF FusionInv, TypeOK
  <2>3. Len(entries') = Len(entries) + 1 /\ Len(entries) \in Nat
    BY <2>1, <2>2
  <2>4. QED
    BY <2>1, <2>2, <2>3 DEF EntriesFit
<1>2. CASE EncodeNumber \/ NextMessage
  <2>1. entries' = << >>
    BY <1>2 DEF EncodeNumber, NextMessage
  <2>2. QED
    BY <2>1, FusionAssumption DEF EntriesFit
<1>3. CASE UNCHANGED entries
  BY <1>3 DEF EntriesFit
<1>4. QED
  BY <1>1, <1>2, <1>3
  DEF Next, MainStep, FusionStep, vars, packet, Receive, AddLock,
      AddDetection, UpdateTrack, CreateTrack, Ignore, AddUnlock,
      NothingToSend, SomethingToSend, EncodeNext, EncodeDone, CycleLock,
      ClearOutput, DropTrack, KeepTrack, Publish, CycleUnlock, Tick

LEMMA EntriesFitAlways == Spec => [](FusionInv /\ EntriesFit)
<1>1. Init => EntriesFit
  BY FusionAssumption DEF Init, EntriesFit
<1>2. QED
  BY <1>1, EntriesFitStep, FusionInvInit, FusionInvStep, PTL DEF Spec

(* However the published list grows, shrinks and begins anew under the     *)
(* unlocked encoder, its packet never has more participants than the table *)
(* has slots.                                                              *)
THEOREM EntriesFitCorrect == Spec => []EntriesFit
  BY EntriesFitAlways, PTL

LEMMA MessageLeftAt ==
  /\ main = "lock" => MessageLeft = 2 * TrackCapacity + left + 6
  /\ main = "add" => MessageLeft = 2 * TrackCapacity + left + 5
  /\ main = "look" => MessageLeft = 2 * TrackCapacity + 4
  /\ main = "number" => MessageLeft = 2 * TrackCapacity + 3
  /\ main = "entries" => MessageLeft = 2 * (TrackCapacity - Len(entries)) + 2
  /\ main = "entry" => MessageLeft = 2 * (TrackCapacity - Len(entries)) + 1
  /\ main = "sent" => MessageLeft = 1
  BY DEF MessageLeft

LEMMA MessageLeftAfter ==
  /\ main' = "add" => MessageLeft' = 2 * TrackCapacity + left' + 5
  /\ main' = "look" => MessageLeft' = 2 * TrackCapacity + 4
  /\ main' = "number" => MessageLeft' = 2 * TrackCapacity + 3
  /\ main' = "entries" =>
       MessageLeft' = 2 * (TrackCapacity - Len(entries')) + 2
  /\ main' = "entry" => MessageLeft' = 2 * (TrackCapacity - Len(entries')) + 1
  /\ main' = "sent" => MessageLeft' = 1
  /\ main' = "idle" => MessageLeft' = 0
  BY DEF MessageLeft

LEMMA MessageAdvances ==
  ASSUME FusionInv, EntriesFit, MainStep
  PROVE  MessageLeft' < MessageLeft
<1>0. /\ TrackCapacity \in Nat /\ left \in Nat /\ Len(entries) \in Nat
      /\ Len(entries) <= TrackCapacity /\ entries \in Seq(0 .. WireIds - 1)
  BY FusionAssumption DEF FusionInv, TypeOK, EntriesFit
<1>1. CASE AddLock
  <2>1. /\ MessageLeft = 2 * TrackCapacity + left + 6
        /\ MessageLeft' = 2 * TrackCapacity + left' + 5
    BY <1>1, MessageLeftAt, MessageLeftAfter DEF AddLock
  <2>2. left' = left
    BY <1>1 DEF AddLock, ingest
  <2>3. QED
    BY <1>0, <2>1, <2>2
<1>2. CASE AddDetection \/ Ignore
  <2>1. Adding /\ main' = main /\ left' = left - 1
    BY <1>2 DEF AddDetection, UpdateTrack, CreateTrack, Ignore
  <2>2. /\ MessageLeft = 2 * TrackCapacity + left + 5
        /\ MessageLeft' = 2 * TrackCapacity + left' + 5
    BY <2>1, MessageLeftAt, MessageLeftAfter DEF Adding
  <2>3. left' = left - 1
    BY <2>1
  <2>4. QED
    BY <1>0, <2>2, <2>3
<1>3. CASE AddUnlock
  <2>1. /\ MessageLeft = 2 * TrackCapacity + left + 5
        /\ MessageLeft' = 2 * TrackCapacity + 4
    BY <1>3, MessageLeftAt, MessageLeftAfter DEF AddUnlock
  <2>2. QED
    BY <1>0, <2>1
<1>4. CASE NothingToSend
  <2>1. MessageLeft = 2 * TrackCapacity + 4 /\ MessageLeft' = 0
    BY <1>4, MessageLeftAt, MessageLeftAfter DEF NothingToSend
  <2>2. QED
    BY <1>0, <2>1
<1>5. CASE SomethingToSend
  <2>1. /\ MessageLeft = 2 * TrackCapacity + 4
        /\ MessageLeft' = 2 * TrackCapacity + 3
    BY <1>5, MessageLeftAt, MessageLeftAfter DEF SomethingToSend
  <2>2. QED
    BY <1>0, <2>1
<1>6. CASE EncodeNumber
  <2>1. /\ MessageLeft = 2 * TrackCapacity + 3
        /\ MessageLeft' = 2 * (TrackCapacity - Len(entries')) + 2
    BY <1>6, MessageLeftAt, MessageLeftAfter DEF EncodeNumber
  <2>2. Len(entries') = 0
    BY <1>6 DEF EncodeNumber
  <2>3. QED
    BY <1>0, <2>1, <2>2
<1>7. CASE EncodeEntry
  <2>1. /\ MessageLeft = 2 * (TrackCapacity - Len(entries)) + 1
        /\ MessageLeft' = 2 * (TrackCapacity - Len(entries')) + 2
    BY <1>7, MessageLeftAt, MessageLeftAfter DEF EncodeEntry
  <2>2. Len(entries') = Len(entries) + 1
    BY <1>0, <1>7 DEF EncodeEntry
  <2>3. QED
    BY <1>0, <2>1, <2>2
<1>8. CASE EncodeDone
  <2>1. /\ MessageLeft = 2 * (TrackCapacity - Len(entries)) + 2
        /\ MessageLeft' = 1
    BY <1>8, MessageLeftAt, MessageLeftAfter DEF EncodeDone
  <2>2. QED
    BY <1>0, <2>1
<1>9. CASE NextMessage
  <2>1. MessageLeft = 1 /\ MessageLeft' = 0
    BY <1>9, MessageLeftAt, MessageLeftAfter DEF NextMessage
  <2>2. QED
    BY <2>1
<1>10. CASE EncodeNext
  <2>1. /\ MessageLeft = 2 * (TrackCapacity - Len(entries)) + 2
        /\ MessageLeft' = 2 * (TrackCapacity - Len(entries')) + 1
    BY <1>10, MessageLeftAt, MessageLeftAfter DEF EncodeNext
  <2>2. entries' = entries
    BY <1>10 DEF EncodeNext, packet
  <2>3. QED
    BY <1>0, <2>1, <2>2
<1>11. QED
  BY <1>1, <1>2, <1>3, <1>4, <1>5, <1>6, <1>7, <1>8, <1>9, <1>10 DEF MainStep

LEMMA MessageEndsStep ==
  ASSUME FusionInv, EntriesFit, [Next]_vars, main # "idle"
  PROVE  MessageEnds
<1>1. MessageLeft \in 1 .. 2 * TrackCapacity + left + 6
  <2>1. /\ TrackCapacity \in Nat /\ left \in Nat /\ Len(entries) \in Nat
        /\ Len(entries) <= TrackCapacity
    BY FusionAssumption DEF FusionInv, TypeOK, EntriesFit
  <2>2. main \in {"lock", "add", "look", "number", "entries", "entry",
                "sent"}
    BY DEF FusionInv, TypeOK
  <2>3. MessageLeft \in {2 * TrackCapacity + left + 6,
                         2 * TrackCapacity + left + 5,
                         2 * TrackCapacity + 4, 2 * TrackCapacity + 3,
                         2 * (TrackCapacity - Len(entries)) + 2,
                         2 * (TrackCapacity - Len(entries)) + 1, 1}
    BY <2>2, Zenon, MessageLeftAt
  <2>4. QED
    BY <2>1, <2>3
<1>2. ASSUME ~MainStep
      PROVE  UNCHANGED <<main, left, entries>>
  <2>1. CASE FusionStep
    BY <2>1 DEF FusionStep, CycleLock, ClearOutput, DropTrack, KeepTrack,
                Publish, CycleUnlock, ingest, packet
  <2>2. CASE Tick \/ UNCHANGED vars
    BY <2>2 DEF Tick, vars, ingest, packet
  <2>3. QED
    BY <1>2, <2>1, <2>2 DEF Next, Receive
<1>3. ~MainStep => MessageLeft' = MessageLeft
  BY <1>2 DEF MessageLeft
<1>4. QED
  BY <1>1, <1>3, MessageAdvances DEF MessageEnds

(* Main is done with a message after one step for each of its detections,  *)
(* at most two for each slot of the table, and six more: each of its steps *)
(* is one fewer, and the fusion thread, which changes the list under the   *)
(* encoder's loop condition, never adds one.                               *)
THEOREM MessageBounded == Spec => [][MessageEnds]_vars
<1>1. FusionInv /\ EntriesFit /\ [Next]_vars => MessageEnds
  BY MessageEndsStep DEF MessageEnds
<1>2. QED
  BY <1>1, EntriesFitAlways, PTL DEF Spec
=============================================================================
