--------------------------- MODULE PipelineProofs ---------------------------
(***************************************************************************)
(* Proofs about Pipeline for every capacity, initial size of the lists and *)
(* number of detections.                                                   *)
(***************************************************************************)
EXTENDS Pipeline, FiniteSetTheorems, SequenceTheorems, TLAPS

Places == /\ calling \subseteq Sensors \cup {Main}
          /\ sensor \in [Sensors -> SensorPlaces]
          /\ main \in MainPlaces
          /\ target \in Sensors

(* A thread is inside a call of the queue exactly where its code says so.  *)
CallsKnown == /\ \A s \in Sensors : s \in calling <=> sensor[s] = "pushing"
              /\ Main \in calling <=> main = "popping"

(* How far main.c:286-297 has got: it goes on to the next sensor, and to   *)
(* the queue, only past a thread that has exited.                          *)
Stopped == /\ main = "drop" => sensor[target] = "exited"
           /\ target = Radar => sensor[Video] = "exited"
           /\ main \in {"close", "done"} =>
                \A s \in Sensors : sensor[s] = "exited"

QuietInv == Places /\ CallsKnown /\ Stopped

LEMMA QuietInvInit == Init => QuietInv
  BY PipelineAssumption
  DEF Init, Q!Init, QuietInv, Places, CallsKnown, Stopped, Sensors,
      SensorPlaces, MainPlaces

(* A step of a sensor thread: it was running, and enters or leaves a call  *)
(* only as CallsKnown says.                                                *)
LEMMA QuietSensorFrame ==
  ASSUME QuietInv, NEW s \in Sensors, NEW place \in SensorPlaces,
         sensor[s] # "exited", sensor' = [sensor EXCEPT ![s] = place],
         calling' = IF place = "pushing" THEN calling \cup {s}
                                         ELSE calling \ {s},
         main' = main, target' = target
  PROVE  QuietInv'
<1> USE DEF QuietInv
<1>1. /\ sensor'[s] = place
      /\ \A u \in Sensors \ {s} : sensor'[u] = sensor[u]
  BY DEF Places
<1>2. Places'
  BY DEF Places
<1>3. CallsKnown'
  BY <1>1, PipelineAssumption DEF CallsKnown
<1>4. Stopped'
  BY <1>1, PipelineAssumption DEF Stopped, Places, Sensors
<1>5. QED
  BY <1>2, <1>3, <1>4

LEMMA QuietSensor ==
  ASSUME QuietInv, NEW s \in Sensors, SensorStep(s)
  PROVE  QuietInv'
<1>1. s \in calling <=> sensor[s] = "pushing"
  BY DEF QuietInv, CallsKnown
<1> USE DEF SensorGoto, SensorPlaces, queue, stopping
<1>2. CASE Detect(s)
  BY <1>1, <1>2, QuietSensorFrame DEF Detect
<1>3. CASE Exit(s)
  <2>1. /\ sensor[s] = "check" /\ UNCHANGED <<calling, main, target>>
        /\ sensor' = [sensor EXCEPT ![s] = "exited"]
    BY <1>3 DEF Exit
  <2>2. calling' = calling \ {s}
    BY <1>1, <2>1
  <2>3. QED
    BY <2>1, <2>2, QuietSensorFrame
<1>4. CASE LockCtx(s)
  <2>1. PICK place \in {"clear", "store"} :
          sensor' = [sensor EXCEPT ![s] = place]
    BY <1>4 DEF LockCtx
  <2>2. /\ sensor[s] = "lock" /\ UNCHANGED <<main, target>>
        /\ calling' = calling \ {s}
    BY <1>1, <1>4 DEF LockCtx
  <2>3. QED
    BY <2>1, <2>2, QuietSensorFrame
<1>5. CASE Clear(s)
  BY <1>1, <1>5, QuietSensorFrame DEF Clear
<1>6. CASE Grow(s)
  BY <1>6 DEF Grow, QuietInv, Places, CallsKnown, Stopped
<1>7. CASE Store(s)
  BY <1>1, <1>7, QuietSensorFrame DEF Store
<1>8. CASE Count(s)
  BY <1>1, <1>8, QuietSensorFrame DEF Count
<1>9. CASE Push(s)
  BY <1>1, <1>9, QuietSensorFrame DEF Push, Q!CallPush
<1>10. CASE PushOk(s)
  BY <1>1, <1>10, QuietSensorFrame DEF PushOk, Q!PushOk
<1>11. CASE PushFails(s)
  BY <1>1, <1>11, QuietSensorFrame DEF PushFails, Q!PushFails
<1>12. CASE UnlockCtx(s)
  BY <1>1, <1>12, QuietSensorFrame DEF UnlockCtx
<1>13. QED
  BY <1>2, <1>3, <1>4, <1>5, <1>6, <1>7, <1>8, <1>9, <1>10, <1>11, <1>12
  DEF SensorStep

LEMMA QuietMain ==
  ASSUME QuietInv, MainStep \/ Signal \/ UNCHANGED vars
  PROVE  QuietInv'
<1> USE PipelineAssumption
    DEF QuietInv, Places, CallsKnown, Stopped, MainPlaces, Sensors, queue,
        stopping
<1>1. CASE Poll
  BY <1>1 DEF Poll, Q!CallPop
<1>2. CASE Popped
  BY <1>2 DEF Popped, Q!PopOk
<1>3. CASE TimedOut
  BY <1>3 DEF TimedOut, Q!PopFails
<1>4. CASE Pick \/ Use \/ Ingested
  BY <1>4 DEF Pick, Use, Ingested
<1>5. CASE Release
  BY <1>5 DEF Release, Q!Consume
<1>6. CASE LeaveLoop \/ StopFlag \/ StopWake
  BY <1>6 DEF LeaveLoop, StopFlag, StopWake
<1>7. CASE Join
  BY <1>7 DEF Join
<1>8. CASE Drop
  BY <1>8 DEF Drop
<1>9. CASE CloseQueue
  BY <1>9 DEF CloseQueue, Q!Close
<1>10. CASE Signal
  BY <1>10 DEF Signal
<1>11. CASE UNCHANGED vars
  BY <1>11 DEF vars
<1>12. QED
  BY <1>1, <1>2, <1>3, <1>4, <1>5, <1>6, <1>7, <1>8, <1>9, <1>10, <1>11
  DEF MainStep

(* When main destroys the queue no thread is inside a call of it or can    *)
(* enter one: what mec_queue_destroy relies on, for any number of messages *)
(* and wherever the signal came.                                           *)
THEOREM QuietCorrect == Spec => []QueueClosedQuietly
<1>1. QuietInv /\ [Next]_vars => QuietInv'
  BY QuietSensor, QuietMain DEF Next, Done
<1>2. QuietInv => QueueClosedQuietly
  BY DEF QuietInv, Places, CallsKnown, Stopped, QueueClosedQuietly
<1>3. QED
  BY <1>1, <1>2, QuietInvInit, PTL DEF Spec

-----------------------------------------------------------------------------
(* How many messages of a sequence carry a list                            *)

Of(f, s) == {k \in DOMAIN f : f[k] = s}

LEMMA OfFinite ==
  ASSUME NEW f \in Seq(Sensors), NEW s
  PROVE  IsFiniteSet(Of(f, s)) /\ Cardinality(Of(f, s)) \in Nat
<1>1. IsFiniteSet(DOMAIN f)
  BY FS_Interval
<1>2. Of(f, s) \subseteq DOMAIN f
  BY DEF Of
<1>3. QED
  BY <1>1, <1>2, FS_Subset, FS_CardinalityType

LEMMA OfAppend ==
  ASSUME NEW f \in Seq(Sensors), NEW x \in Sensors, NEW s
  PROVE  Cardinality(Of(Append(f, x), s)) =
           Cardinality(Of(f, s)) + (IF x = s THEN 1 ELSE 0)
<1> DEFINE g == Append(f, x)
           n == Len(f) + 1
<1>1. /\ n \in Nat \ {0} /\ DOMAIN f = 1 .. n - 1 /\ DOMAIN g = 1 .. n
      /\ g[n] = x /\ \A k \in 1 .. n - 1 : g[k] = f[k]
  BY AppendProperties
<1> HIDE DEF g, n
<1>2. /\ Of(g, s) = {k \in 1 .. n : g[k] = s}
      /\ Of(f, s) = {k \in 1 .. n - 1 : f[k] = s}
  BY <1>1 DEF Of
<1>3. CASE x = s
  <2>1. Of(g, s) = Of(f, s) \cup {n} /\ n \notin Of(f, s)
    <3>1. \A k \in 1 .. n : k = n \/ (k \in 1 .. n - 1 /\ g[k] = f[k])
      BY <1>1
    <3>2. n \in 1 .. n /\ n \notin 1 .. n - 1 /\ 1 .. n - 1 \subseteq 1 .. n
      BY <1>1
    <3>3. g[n] = s
      BY <1>1, <1>3
    <3> QED
      BY <1>2, <3>1, <3>2, <3>3, Zenon
  <2>2. IsFiniteSet(Of(f, s)) /\ Cardinality(Of(f, s)) \in Nat
    BY OfFinite
  <2>3. Cardinality(Of(g, s)) = Cardinality(Of(f, s)) + 1
    BY <2>1, <2>2, FS_AddElement
  <2>4. QED
    BY <1>3, <2>3 DEF g
<1>4. CASE x # s
  <2>1. Of(g, s) = Of(f, s)
    BY <1>1, <1>2, <1>4
  <2>2. Cardinality(Of(f, s)) \in Nat
    BY OfFinite
  <2>3. QED
    BY <1>4, <2>1, <2>2 DEF g
<1>5. QED
  BY <1>3, <1>4

LEMMA OfTail ==
  ASSUME NEW f \in Seq(Sensors), f # << >>, NEW s
  PROVE  Cardinality(Of(Tail(f), s)) =
           Cardinality(Of(f, s)) - (IF Head(f) = s THEN 1 ELSE 0)
<1> DEFINE g == Tail(f)
           n == Len(f)
           S == Of(f, s) \ {1}
           T == Of(g, s)
           shift == [k \in S |-> k - 1]
<1>1. /\ n \in Nat \ {0} /\ DOMAIN f = 1 .. n /\ DOMAIN g = 1 .. n - 1
      /\ f[1] = Head(f) /\ \A k \in 1 .. n - 1 : g[k] = f[k + 1]
  BY HeadTailProperties, EmptySeq
<1> HIDE DEF g, n
<1>2. S = {k \in 2 .. n : f[k] = s}
  BY <1>1 DEF Of
<1>3. T = {k \in 1 .. n - 1 : f[k + 1] = s}
  BY <1>1 DEF Of
<1>4. shift \in Bijection(S, T)
  <2> HIDE DEF S, T
  <2>1. \A k \in S : k \in Int /\ k - 1 \in T
    BY <1>1, <1>2, <1>3
  <2>2. \A k \in T : k \in Int /\ k + 1 \in S /\ (k + 1) - 1 = k
    BY <1>1, <1>2, <1>3
  <2>3. shift \in [S -> T]
    BY <2>1
  <2>4. \A j, k \in S : shift[j] = shift[k] => j = k
    BY <2>1
  <2>5. \A k \in T : \E j \in S : shift[j] = k
    BY <2>2
  <2>6. QED
    BY <2>3, <2>4, <2>5 DEF Bijection, Injection, Surjection, IsInjective
<1>5. IsFiniteSet(S) /\ Cardinality(S) =
        Cardinality(Of(f, s)) - (IF Head(f) = s THEN 1 ELSE 0)
  <2>1. 1 \in Of(f, s) <=> Head(f) = s
    BY <1>1 DEF Of
  <2>2. IsFiniteSet(Of(f, s)) /\ Cardinality(Of(f, s)) \in Nat
    BY OfFinite
  <2>3. QED
    BY <2>1, <2>2, FS_RemoveElement
<1>6. Cardinality(T) = Cardinality(S)
  <2> HIDE DEF S, T, shift
  <2>1. QED
    BY <1>4, <1>5, FS_Bijection DEF ExistsBijection
<1>7. QED
  BY <1>5, <1>6 DEF g

-----------------------------------------------------------------------------
(* The references to a list                                                *)

Hand(s) == IF out[Main] = s THEN 1 ELSE 0

(* What the queue carries: a thread pushes its own list, and the main loop *)
(* has a message in hand whenever it ingests one.                          *)
Messages == /\ fifo \in Seq(Sensors)
            /\ arg \in [Sensors -> Sensors \cup {Null}]
            /\ out \in [{Main} -> Sensors \cup {Null}]
            /\ \A s \in Sensors : sensor[s] = "pushing" => arg[s] = s
            /\ out[Main] # Null <=> main \in {"ingest", "use", "release"}

Balance == /\ refs \in [Sensors -> Int]
           /\ \A s \in Sensors :
                refs[s] = Owned(s) + Cardinality(Of(fifo, s)) + Hand(s)

JoinedExited == /\ joins \in [Sensors -> Nat]
                /\ \A s \in Sensors : sensor[s] # "exited" => joins[s] = 0

LEMMA HandCounts ==
  ASSUME NEW s
  PROVE  Cardinality({c \in {Main} : out[c] = s}) = Hand(s)
<1>1. CASE out[Main] = s
  <2>1. {c \in {Main} : out[c] = s} = {Main}
    BY <1>1
  <2>2. QED
    BY <1>1, <2>1, FS_Singleton DEF Hand
<1>2. CASE out[Main] # s
  <2>1. {c \in {Main} : out[c] = s} = {}
    BY <1>2
  <2>2. QED
    BY <1>2, <2>1, FS_EmptySet DEF Hand
<1>3. QED
  BY <1>1, <1>2

LEMMA OwnedType == \A s : Owned(s) \in {0, 1}
  BY DEF Owned

LEMMA OfEmpty == \A s : Cardinality(Of(<< >>, s)) = 0
<1>1. \A s : Of(<< >>, s) = {}
  BY DEF Of
<1>2. QED
  BY <1>1, FS_EmptySet

-----------------------------------------------------------------------------
LEMMA MessagesInit == Init => Messages
  BY PipelineAssumption DEF Init, Q!Init, Messages

LEMMA MessagesSensor ==
  ASSUME QuietInv, Messages, NEW s \in Sensors, SensorStep(s)
  PROVE  Messages'
<1>0. /\ sensor \in [Sensors -> SensorPlaces]
      /\ s \in calling <=> sensor[s] = "pushing"
  BY DEF QuietInv, Places, CallsKnown
<1> USE DEF Messages, queue, SensorGoto
<1>1. CASE Push(s)
  BY <1>0, <1>1 DEF Push, Q!CallPush
<1>2. CASE PushOk(s)
  <2>1. /\ fifo' = Append(fifo, s) /\ UNCHANGED <<arg, out, main>>
        /\ sensor' = [sensor EXCEPT ![s] = "unlock"]
    BY <1>2 DEF PushOk, Q!PushOk
  <2>2. fifo' \in Seq(Sensors)
    BY <2>1, AppendProperties
  <2>3. QED
    BY <1>0, <2>1, <2>2
<1>3. CASE PushFails(s)
  BY <1>0, <1>3 DEF PushFails, Q!PushFails
<1>4. CASE Detect(s) \/ Exit(s) \/ LockCtx(s) \/ UnlockCtx(s)
  BY <1>0, <1>4 DEF Detect, Exit, LockCtx, UnlockCtx
<1>5. CASE Clear(s) \/ Grow(s) \/ Store(s) \/ Count(s)
  BY <1>0, <1>5 DEF Clear, Grow, Store, Count
<1>6. QED
  BY <1>1, <1>2, <1>3, <1>4, <1>5 DEF SensorStep

LEMMA MessagesMain ==
  ASSUME QuietInv, Messages, MainStep \/ Signal \/ UNCHANGED vars
  PROVE  Messages'
<1> USE DEF Messages, queue, stopping
<1>1. CASE Poll
  BY <1>1 DEF Poll, Q!CallPop
<1>2. CASE Popped
  <2>1. /\ fifo # << >> /\ fifo' = Tail(fifo)
        /\ out' = [out EXCEPT ![Main] = Head(fifo)]
        /\ UNCHANGED <<arg, sensor>> /\ main' = "ingest"
    BY <1>2 DEF Popped, Q!PopOk
  <2>2. Head(fifo) \in Sensors /\ Tail(fifo) \in Seq(Sensors)
    BY <2>1, HeadTailProperties
  <2>3. Head(fifo) # Null
    BY <2>2, PipelineAssumption
  <2>4. QED
    BY <2>1, <2>2, <2>3
<1>3. CASE TimedOut
  BY <1>3 DEF TimedOut, Q!PopFails
<1>4. CASE Pick \/ Use \/ Ingested
  BY <1>4 DEF Pick, Use, Ingested
<1>5. CASE Release
  BY <1>5 DEF Release, Q!Consume
<1>6. CASE LeaveLoop \/ StopFlag \/ StopWake
  BY <1>6 DEF LeaveLoop, StopFlag, StopWake
<1>7. CASE Join \/ Drop \/ Signal
  BY <1>7 DEF Join, Drop, Signal
<1>8. CASE CloseQueue
  BY <1>8 DEF CloseQueue, Q!Close
<1>9. CASE UNCHANGED vars
  BY <1>9 DEF vars
<1>10. QED
  BY <1>1, <1>2, <1>3, <1>4, <1>5, <1>6, <1>7, <1>8, <1>9 DEF MainStep

-----------------------------------------------------------------------------
LEMMA JoinedExitedStep ==
  ASSUME QuietInv, JoinedExited, [Next]_vars
  PROVE  JoinedExited'
<1> USE PipelineAssumption DEF JoinedExited, stopping
<1>0. sensor \in [Sensors -> SensorPlaces]
  BY DEF QuietInv, Places
<1>1. ASSUME NEW s \in Sensors, SensorStep(s)
      PROVE  JoinedExited'
  <2>1. joins' = joins
    BY <1>1 DEF SensorStep, Detect, Exit, LockCtx, Clear, Grow, Store, Count,
                Push, PushOk, PushFails, UnlockCtx
  <2>2. \A u \in Sensors : sensor[u] = "exited" => sensor'[u] = "exited"
    BY <1>0, <1>1
    DEF SensorStep, SensorGoto, Detect, Exit, LockCtx, Clear, Grow, Store,
        Count, Push, PushOk, PushFails, UnlockCtx
  <2>3. QED
    BY <2>1, <2>2
<1>2. CASE Join
  BY <1>2 DEF Join, QuietInv, Places
<1>3. CASE Poll \/ Popped \/ TimedOut \/ Pick \/ Use \/ Ingested
  BY <1>3 DEF Poll, Popped, TimedOut, Pick, Use, Ingested
<1>4. CASE Release \/ LeaveLoop \/ StopFlag \/ StopWake \/ Drop \/ CloseQueue
  BY <1>4 DEF Release, LeaveLoop, StopFlag, StopWake, Drop, CloseQueue
<1>5. CASE Signal \/ UNCHANGED vars
  BY <1>5 DEF Signal, vars
<1>6. QED
  BY <1>1, <1>2, <1>3, <1>4, <1>5 DEF Next, MainStep, Done

-----------------------------------------------------------------------------
LEMMA BalanceInit == Init => Balance /\ JoinedExited
<1> SUFFICES ASSUME Init PROVE Balance /\ JoinedExited
  OBVIOUS
<1>1. /\ fifo = << >> /\ out[Main] = Null /\ target = Video /\ main = "loop"
      /\ refs = [s \in Sensors |-> 1] /\ joins = [s \in Sensors |-> 0]
  BY DEF Init, Q!Init
<1>2. \A s \in Sensors : Owned(s) = 1 /\ Hand(s) = 0
  BY <1>1, PipelineAssumption DEF Owned, Hand
<1>3. QED
  BY <1>1, <1>2, OfEmpty DEF Balance, JoinedExited

(* Most steps move no reference and end no ownership.                      *)
LEMMA BalanceFrame ==
  ASSUME Balance, UNCHANGED <<refs, fifo, out, target>>,
         main' \in {"close", "done"} <=> main \in {"close", "done"}
  PROVE  Balance'
<1>1. \A s : Owned(s)' = Owned(s) /\ Hand(s)' = Hand(s)
  BY DEF Owned, Hand
<1>2. \A s : Of(fifo, s)' = Of(fifo, s)
  BY DEF Of
<1>3. QED
  BY <1>1, <1>2 DEF Balance

LEMMA BalanceSensor ==
  ASSUME QuietInv, Messages, Balance, NEW s \in Sensors, SensorStep(s)
  PROVE  Balance'
<1> USE DEF queue, stopping
<1>1. CASE PushOk(s)
  <2>1. /\ fifo' = Append(fifo, s) /\ UNCHANGED <<out, target, main>>
        /\ refs' = [refs EXCEPT ![s] = @ + 1]
    BY <1>1 DEF PushOk, Q!PushOk, QuietInv, CallsKnown, Messages
  <2>2. \A u \in Sensors :
          Cardinality(Of(fifo', u)) =
            Cardinality(Of(fifo, u)) + (IF s = u THEN 1 ELSE 0)
    BY <2>1, OfAppend DEF Messages
  <2>3. \A u \in Sensors : Cardinality(Of(fifo, u)) \in Nat
    BY OfFinite DEF Messages
  <2>4. \A u : Owned(u)' = Owned(u) /\ Hand(u)' = Hand(u)
    BY <2>1 DEF Owned, Hand
  <2>5. \A u : Owned(u) \in {0, 1} /\ Hand(u) \in {0, 1}
    BY OwnedType DEF Hand
  <2>6. refs' \in [Sensors -> Int]
    BY <2>1 DEF Balance
  <2>7. ASSUME NEW u \in Sensors
        PROVE  refs'[u] = Owned(u)' + Cardinality(Of(fifo', u)) + Hand(u)'
    <3>1. refs'[u] = refs[u] + (IF s = u THEN 1 ELSE 0)
      BY <2>1 DEF Balance
    <3>2. refs[u] = Owned(u) + Cardinality(Of(fifo, u)) + Hand(u)
      BY DEF Balance
    <3>3. QED
      BY <3>1, <3>2, <2>2, <2>3, <2>4, <2>5
  <2>8. QED
    BY <2>6, <2>7 DEF Balance
<1>2. CASE Push(s) \/ PushFails(s)
  BY <1>2, BalanceFrame DEF Push, Q!CallPush, PushFails, Q!PushFails
<1>3. CASE Detect(s) \/ Exit(s) \/ LockCtx(s) \/ UnlockCtx(s)
  BY <1>3, BalanceFrame DEF Detect, Exit, LockCtx, UnlockCtx
<1>4. CASE Clear(s) \/ Grow(s) \/ Store(s) \/ Count(s)
  BY <1>4, BalanceFrame DEF Clear, Grow, Store, Count
<1>5. QED
  BY <1>1, <1>2, <1>3, <1>4 DEF SensorStep

(* A popped message's reference passes from the queue to the main loop,    *)
(* which gives it back when it releases the message.                       *)
LEMMA BalancePopped ==
  ASSUME Messages, Balance, Popped, out[Main] = Null
  PROVE  Balance'
<1>1. /\ fifo # << >> /\ fifo' = Tail(fifo) /\ out'[Main] = Head(fifo)
      /\ refs' = refs /\ target' = target
      /\ main = "popping" /\ main' = "ingest"
  BY DEF Popped, Q!PopOk, Messages, stopping
<1>2. \A u \in Sensors :
        Cardinality(Of(fifo', u)) =
          Cardinality(Of(fifo, u)) - (IF Head(fifo) = u THEN 1 ELSE 0)
  BY <1>1, OfTail DEF Messages
<1>3. \A u \in Sensors : Cardinality(Of(fifo, u)) \in Nat
  BY OfFinite DEF Messages
<1>4. \A u : Owned(u)' = Owned(u) /\ Owned(u) \in {0, 1}
  BY <1>1, OwnedType DEF Owned
<1>5. \A u \in Sensors : Hand(u) = 0
                         /\ Hand(u)' = IF Head(fifo) = u THEN 1 ELSE 0
  BY <1>1, PipelineAssumption DEF Hand
<1>6. ASSUME NEW u \in Sensors
      PROVE  refs'[u] = Owned(u)' + Cardinality(Of(fifo', u)) + Hand(u)'
  BY <1>1, <1>2, <1>3, <1>4, <1>5 DEF Balance
<1>7. QED
  BY <1>1, <1>6 DEF Balance

LEMMA BalanceRelease ==
  ASSUME Messages, Balance, Release
  PROVE  Balance'
<1>1. /\ fifo' = fifo /\ out'[Main] = Null /\ out[Main] \in Sensors
      /\ refs' = [refs EXCEPT ![out[Main]] = @ - 1] /\ target' = target
      /\ main = "release" /\ main' = "loop"
  BY DEF Release, Q!Consume, Messages, stopping
<1>2. \A u : Owned(u)' = Owned(u) /\ Owned(u) \in {0, 1}
  BY <1>1, OwnedType DEF Owned
<1>3. \A u \in Sensors : Hand(u)' = 0
                         /\ Hand(u) = IF out[Main] = u THEN 1 ELSE 0
  BY <1>1, PipelineAssumption DEF Hand
<1>4. \A u \in Sensors : Cardinality(Of(fifo, u)) \in Nat
  BY OfFinite DEF Messages
<1>5. refs' \in [Sensors -> Int]
  BY <1>1 DEF Balance
<1>6. ASSUME NEW u \in Sensors
      PROVE  refs'[u] = Owned(u)' + Cardinality(Of(fifo', u)) + Hand(u)'
  <2>1. refs'[u] = refs[u] - (IF out[Main] = u THEN 1 ELSE 0)
    BY <1>1 DEF Balance
  <2>2. Of(fifo', u) = Of(fifo, u)
    BY <1>1 DEF Of
  <2>3. refs[u] = Owned(u) + Cardinality(Of(fifo, u)) + Hand(u)
    BY DEF Balance
  <2>4. QED
    BY <2>1, <2>2, <2>3, <1>2, <1>3, <1>4
<1>7. QED
  BY <1>5, <1>6 DEF Balance

(* The owner gives its reference back when its processor is destroyed, and *)
(* the queue those of the messages it still holds.                         *)
LEMMA BalanceDrop ==
  ASSUME QuietInv, Messages, Balance, Drop
  PROVE  Balance'
<1>1. /\ fifo' = fifo /\ out' = out /\ target' = Radar /\ target \in Sensors
      /\ refs' = [refs EXCEPT ![target] = @ - 1]
      /\ main = "drop" /\ main' = IF target = Video THEN "flag" ELSE "close"
  BY DEF Drop, QuietInv, Places, queue
<1>2. \A u \in Sensors :
        Owned(u)' = Owned(u) - (IF target = u THEN 1 ELSE 0)
  BY <1>1, PipelineAssumption DEF Owned, Sensors
<1>3. \A u : Owned(u) \in {0, 1} /\ Hand(u) \in {0, 1}
  BY OwnedType DEF Hand
<1>4. \A u \in Sensors : Cardinality(Of(fifo, u)) \in Nat
  BY OfFinite DEF Messages
<1>5. refs' \in [Sensors -> Int]
  BY <1>1 DEF Balance
<1>6. ASSUME NEW u \in Sensors
      PROVE  refs'[u] = Owned(u)' + Cardinality(Of(fifo', u)) + Hand(u)'
  <2>1. refs'[u] = refs[u] - (IF target = u THEN 1 ELSE 0)
    BY <1>1 DEF Balance
  <2>2. Of(fifo', u) = Of(fifo, u) /\ Hand(u)' = Hand(u)
    BY <1>1 DEF Of, Hand
  <2>3. refs[u] = Owned(u) + Cardinality(Of(fifo, u)) + Hand(u)
    BY DEF Balance
  <2>4. QED
    BY <2>1, <2>2, <2>3, <1>2, <1>3, <1>4
<1>7. QED
  BY <1>5, <1>6 DEF Balance

LEMMA BalanceClose ==
  ASSUME Messages, Balance, CloseQueue
  PROVE  Balance'
<1>1. /\ fifo' = << >> /\ out' = out /\ target' = target
      /\ refs' = [s \in Sensors |-> refs[s] - Cardinality(Of(fifo, s))]
      /\ main = "close" /\ main' = "done"
  BY DEF CloseQueue, Q!Close, Queued, Of, stopping
<1>2. \A u : /\ Owned(u)' = 0 /\ Owned(u) = 0 /\ Hand(u)' = Hand(u)
             /\ Hand(u) \in {0, 1}
  BY <1>1 DEF Owned, Hand
<1>3. \A u \in Sensors : Cardinality(Of(fifo, u)) \in Nat
  BY OfFinite DEF Messages
<1>4. \A u \in Sensors : Cardinality(Of(fifo', u)) = 0
  BY <1>1, OfEmpty
<1>5. \A u \in Sensors :
        refs'[u] = Owned(u)' + Cardinality(Of(fifo', u)) + Hand(u)'
  BY <1>1, <1>2, <1>3, <1>4 DEF Balance
<1>6. refs' \in [Sensors -> Int]
  BY <1>1, <1>3 DEF Balance
<1>7. QED
  BY <1>5, <1>6 DEF Balance

LEMMA BalanceMain ==
  ASSUME QuietInv, Messages, Balance,
         MainStep \/ Signal \/ UNCHANGED vars
  PROVE  Balance'
<1> USE DEF queue, stopping
<1>1. CASE Popped
  BY <1>1, BalancePopped DEF Popped, Messages
<1>2. CASE Release \/ Drop \/ CloseQueue
  BY <1>2, BalanceRelease, BalanceDrop, BalanceClose
<1>3. CASE Poll \/ TimedOut
  BY <1>3, BalanceFrame DEF Poll, Q!CallPop, TimedOut, Q!PopFails
<1>4. CASE Pick \/ Use \/ Ingested
  BY <1>4, BalanceFrame DEF Pick, Use, Ingested
<1>5. CASE LeaveLoop \/ StopFlag \/ StopWake
  BY <1>5, BalanceFrame DEF LeaveLoop, StopFlag, StopWake
<1>6. CASE Join
  BY <1>6, BalanceFrame DEF Join
<1>7. CASE Signal \/ UNCHANGED vars
  BY <1>7, BalanceFrame DEF Signal, vars
<1>8. QED
  BY <1>1, <1>2, <1>3, <1>4, <1>5, <1>6, <1>7 DEF MainStep

-----------------------------------------------------------------------------
RefsInv == QuietInv /\ Messages /\ Balance /\ JoinedExited

LEMMA RefsInvCorrect == Spec => []RefsInv
<1>1. Init => RefsInv
  BY QuietInvInit, MessagesInit, BalanceInit DEF RefsInv
<1>2. RefsInv /\ [Next]_vars => RefsInv'
  BY QuietSensor, QuietMain, MessagesSensor, MessagesMain, BalanceSensor,
     BalanceMain, JoinedExitedStep
  DEF RefsInv, Next, Done
<1>3. QED
  BY <1>1, <1>2, PTL DEF Spec

(* Every reference to a track list is accounted for: the owner's, one per  *)
(* queued message and the main loop's, from mec_queue_push's retain to the *)
(* releases of main.c, the destroy functions and the queue.                *)
THEOREM RefsCorrect == Spec => []RefsBalanced
<1>1. RefsInv => RefsBalanced
  <2> SUFFICES ASSUME RefsInv, NEW s \in Sensors
               PROVE  refs[s] = Owned(s) + Cardinality(Queued(s))
                                  + Cardinality({c \in {Main} : out[c] = s})
    BY DEF RefsBalanced
  <2>1. Queued(s) = Of(fifo, s)
    BY DEF Queued, Of
  <2>2. QED
    BY <2>1, HandCounts DEF RefsInv, Balance
<1>2. QED
  BY <1>1, RefsInvCorrect, PTL

(* No thread uses a freed list or a destroyed processor: the count that    *)
(* balances covers every place that still holds the list.                  *)
THEOREM NoUseAfterFreeCorrect == Spec => []NoUseAfterFree
<1>1. RefsInv => NoUseAfterFree
  <2> SUFFICES ASSUME RefsInv PROVE NoUseAfterFree
    OBVIOUS
  <2>1. \A s \in Sensors :
          /\ refs[s] = Owned(s) + Cardinality(Of(fifo, s)) + Hand(s)
          /\ Owned(s) \in {0, 1} /\ Hand(s) \in {0, 1}
          /\ Cardinality(Of(fifo, s)) \in Nat
    BY OwnedType, OfFinite DEF RefsInv, Balance, Messages, Hand
  <2>2. ASSUME NEW s \in Sensors, sensor[s] # "exited"
        PROVE  refs[s] > 0 /\ joins[s] = 0
    <3>1. Owned(s) = 1
      BY <2>2 DEF Owned, RefsInv, QuietInv, Stopped
    <3>2. QED
      BY <2>1, <2>2, <3>1 DEF RefsInv, JoinedExited
  <2>3. ASSUME main \in {"ingest", "use", "release"}
        PROVE  refs[out[Main]] > 0
    <3>1. out[Main] \in Sensors /\ Hand(out[Main]) = 1
      BY <2>3 DEF RefsInv, Messages, Hand
    <3>2. QED
      BY <2>1, <3>1
  <2>4. QED
    BY <2>2, <2>3 DEF NoUseAfterFree
<1>2. QED
  BY <1>1, RefsInvCorrect, PTL
-----------------------------------------------------------------------------
(* The lists, the messages and what the main loop reads of them            *)

ListTypes == /\ cells \in [Sensors -> Seq(Detections)]
             /\ count \in [Sensors -> Nat]
             /\ room \in [Sensors -> Nat \ {0}]
             /\ block \in [Sensors -> Nat]
             /\ made \in [Sensors -> Detections]

Filling == \A s \in Sensors :
             /\ count[s] <= Len(cells[s]) /\ Len(cells[s]) <= room[s]
             /\ sensor[s] = "count" => Len(cells[s]) = count[s] + 1
             /\ sensor[s] \in {"lock", "clear", "store"} =>
                  made[s] < MaxDetections

(* The radar thread only ever adds to its list; that of the video holds    *)
(* one track, which the next frame replaces.                               *)
RadarList == /\ sensor[Radar] # "clear"
             /\ sensor[Radar] # "count" => count[Radar] = Len(cells[Radar])

VideoList == /\ Len(cells[Video]) <= 1
             /\ block[Video] = 0
             /\ sensor[Video] \in {"store", "count"} => count[Video] = 0
             /\ sensor[Video] \in {"push", "pushing"} => count[Video] = 1
             /\ cells[Video] # << >> => cells[Video][1] <= made[Video]

ListInv == ListTypes /\ Filling /\ RadarList /\ VideoList

(* A message as it was pushed, p, found again in the lists: that of the    *)
(* radar still holds all of it, that of the video this frame or a later.   *)
Shown(s, p, tracks, n) ==
  /\ s = Video => /\ Len(p) = 1
                  /\ Len(tracks[Video]) >= 1
                  /\ p[1] <= tracks[Video][1]
  /\ s = Radar => /\ Len(p) <= n[Radar]
                  /\ \A i \in 1 .. Len(p) : p[i] = tracks[Radar][i]

PacketsInv == /\ packets \in Seq(Seq(Detections))
              /\ Len(packets) = Len(fifo)
              /\ Len(fifo) <= Capacity
              /\ \A k \in 1 .. Len(fifo) :
                   Shown(fifo[k], packets[k], cells, count)

(* The main loop stays inside the buffer, even when the list has been      *)
(* cleared since it looked at the count, and it is never behind the        *)
(* message it has in hand.                                                 *)
ReadTypes == /\ index \in Nat /\ ptr \in Nat
             /\ packet \in Seq(Detections)
             /\ got \in Seq(Detections)

InBuffer == main = "use" => /\ index < Len(cells[out[Main]])
                            /\ out[Main] = Video => ptr = 0

ReadSoFar ==
  main \in {"ingest", "use", "release"} =>
    /\ Shown(out[Main], packet, cells, count)
    /\ Len(got) = index
    /\ out[Main] = Video => \A i \in 1 .. Len(got) : got[i] >= packet[1]
    /\ out[Main] = Radar =>
         /\ Len(got) <= Len(cells[Radar])
         /\ \A i \in 1 .. Len(got) : got[i] \in {cells[Radar][i], Garbage}

ReadAll == main = "release" /\ out[Main] = Radar => Len(packet) <= Len(got)

ReadInv == ReadTypes /\ InBuffer /\ ReadSoFar /\ ReadAll

-----------------------------------------------------------------------------
(* track_list_add behind the first n tracks of a buffer                    *)
LEMMA Stored ==
  ASSUME NEW c \in Seq(Detections), NEW n \in Nat, n <= Len(c),
         NEW d \in Detections, NEW w, w = SubSeq(c, 1, n) \o <<d>>
  PROVE  /\ w \in Seq(Detections) /\ Len(w) = n + 1 /\ w[n + 1] = d
         /\ \A i \in 1 .. n : w[i] = c[i]
<1> DEFINE b == SubSeq(c, 1, n)
<1>1. b \in Seq(Detections) /\ Len(b) = n /\ \A i \in 1 .. n : b[i] = c[i]
  BY SubSeqProperties
<1>2. <<d>> \in Seq(Detections) /\ Len(<<d>>) = 1 /\ <<d>>[1] = d
  OBVIOUS
<1> HIDE DEF b
<1>3. /\ w \in Seq(Detections) /\ Len(w) = n + 1
      /\ \A i \in 1 .. n + 1 : w[i] = IF i <= n THEN b[i] ELSE <<d>>[i - n]
  <2>1. w = b \o <<d>>
    BY DEF b
  <2>2. QED
    BY <2>1, <1>1, <1>2, ConcatProperties
<1>4. w[n + 1] = d
  BY <1>2, <1>3
<1>5. \A i \in 1 .. n : w[i] = c[i]
  BY <1>1, <1>3
<1>6. QED
  BY <1>3, <1>4, <1>5

(* What a thread may do to its list in one step: nothing that is in the    *)
(* list of the radar changes, and the video track becomes no older.        *)
Grown == /\ Len(cells[Video]) >= 1 => /\ Len(cells'[Video]) >= 1
                                      /\ cells[Video][1] <= cells'[Video][1]
         /\ count[Radar] <= count'[Radar]
         /\ Len(cells[Radar]) <= Len(cells'[Radar])
         /\ \A i \in 1 .. Len(cells[Radar]) :
              cells'[Radar][i] = cells[Radar][i]

LEMMA SensorFacts == /\ Video \in Sensors /\ Radar \in Sensors
                     /\ Video # Radar
                     /\ \A s \in Sensors : s = Video \/ s = Radar
                     /\ MaxDetections \in Nat
                     /\ Detections = 0 .. MaxDetections
  BY PipelineAssumption DEF Sensors, Detections

LEMMA FirstDetection ==
  ASSUME NEW q \in Seq(Detections), Len(q) >= 1
  PROVE  q[1] \in Detections /\ q[1] \in Nat
<1>1. q[1] \in Detections
  OBVIOUS
<1>2. QED
  BY <1>1, SensorFacts

LEMMA OnlyDetection ==
  ASSUME NEW q \in Seq(Detections), Len(q) = 1
  PROVE  q[1] \in Nat
<1>1. Len(q) >= 1
  OBVIOUS
<1>2. QED
  BY <1>1, FirstDetection

(* The buffers stand, and the radar's count grows or stands.               *)
LEMMA GrownCount ==
  ASSUME ListInv, cells' = cells, count[Radar] <= count'[Radar]
  PROVE  Grown
<1>1. cells[Video] \in Seq(Detections) /\ Len(cells[Radar]) \in Nat
  BY SensorFacts DEF ListInv, ListTypes
<1>2. Len(cells[Video]) >= 1 => cells[Video][1] \in Nat
  BY <1>1, FirstDetection
<1>3. QED
  BY <1>1, <1>2 DEF Grown

LEMMA GrownRefl ==
  ASSUME ListInv, cells' = cells, count' = count
  PROVE  Grown
<1>1. count[Radar] \in Nat
  BY SensorFacts DEF ListInv, ListTypes
<1>2. QED
  BY <1>1, GrownCount

LEMMA ListInit == Init => ListInv
<1> SUFFICES ASSUME Init PROVE ListInv
  OBVIOUS
<1>1. /\ cells = [s \in Sensors |-> << >>] /\ room = InitialRoom
      /\ count = [s \in Sensors |-> 0] /\ block = [s \in Sensors |-> 0]
      /\ made = [s \in Sensors |-> 0] /\ sensor = [s \in Sensors |-> "check"]
  BY DEF Init
<1>2. << >> \in Seq(Detections) /\ Len(<< >>) = 0
  OBVIOUS
<1>3. \A s \in Sensors : /\ cells[s] = << >> /\ Len(cells[s]) = 0
                         /\ count[s] = 0 /\ block[s] = 0
                         /\ sensor[s] = "check"
                         /\ room[s] \in Nat \ {0}
  BY <1>1, <1>2, PipelineAssumption
<1>4. ListTypes
  BY <1>1, <1>2, SensorFacts, PipelineAssumption DEF ListTypes
<1>5. Filling
  BY <1>3 DEF Filling
<1>6. RadarList /\ VideoList
  BY <1>3, SensorFacts DEF RadarList, VideoList
<1>7. QED
  BY <1>4, <1>5, <1>6 DEF ListInv

(* A step that leaves the lists alone keeps ListInv if it leads to a place *)
(* of which ListInv asks no more.                                          *)
LEMMA ListFrame ==
  ASSUME QuietInv, ListInv, UNCHANGED lists,
         NEW s \in Sensors, NEW place, sensor' = [sensor EXCEPT ![s] = place],
         \/ place \in {"check", "exited", "push", "unlock"} /\ s # Video
         \/ place \in {"check", "exited", "unlock"}
         \/ place = "lock" /\ made[s] < MaxDetections
         \/ sensor[s] = "lock" /\ place = IF s = Video THEN "clear" ELSE "store"
         \/ sensor[s] = "push" /\ place = "pushing",
         sensor[s] # "count"
  PROVE  ListInv' /\ Grown
<1>1. UNCHANGED <<cells, count, room, block, made>>
  BY DEF lists
<1>2. sensor \in [Sensors -> SensorPlaces]
  BY DEF QuietInv, Places
<1>3. sensor'[s] = place /\ \A u \in Sensors \ {s} : sensor'[u] = sensor[u]
  BY <1>2
<1>4. ListTypes'
  BY <1>1 DEF ListInv, ListTypes
<1>5. Filling'
  <2>1. \A u \in Sensors : sensor'[u] = "count" => sensor[u] = "count"
    BY <1>3
  <2>2. \A u \in Sensors : sensor'[u] \in {"lock", "clear", "store"} =>
                             made[u] < MaxDetections
    BY <1>3 DEF ListInv, Filling
  <2>3. QED
    BY <1>1, <2>1, <2>2 DEF ListInv, Filling
<1>6. RadarList'
  <2>1. sensor'[Radar] # "clear"
    BY <1>3, SensorFacts DEF ListInv, RadarList
  <2>2. count[Radar] = Len(cells[Radar]) \/ sensor'[Radar] = "count"
    BY <1>3, SensorFacts DEF ListInv, RadarList
  <2>3. QED
    BY <1>1, <2>1, <2>2 DEF RadarList
<1>7. VideoList'
  <2>1. sensor'[Video] \in {"store", "count"} => count[Video] = 0
    BY <1>3, SensorFacts DEF ListInv, VideoList
  <2>2. sensor'[Video] \in {"push", "pushing"} => count[Video] = 1
    BY <1>3, SensorFacts DEF ListInv, VideoList
  <2>3. QED
    BY <1>1, <2>1, <2>2 DEF ListInv, VideoList
<1>8. QED
  BY <1>1, <1>4, <1>5, <1>6, <1>7, GrownRefl DEF ListInv

LEMMA ListStore ==
  ASSUME QuietInv, ListInv, NEW s \in Sensors, Store(s)
  PROVE  ListInv' /\ Grown
<1> DEFINE c == cells[s]
           d == made[s] + 1
           w == SubSeq(c, 1, count[s]) \o <<d>>
<1>1. /\ sensor[s] = "store" /\ count[s] < room[s]
      /\ UNCHANGED <<count, room, block>>
      /\ made' = [made EXCEPT ![s] = @ + 1]
      /\ sensor' = [sensor EXCEPT ![s] = "count"]
      /\ cells' = [cells EXCEPT ![s] = SubSeq(@, 1, count[s]) \o <<made'[s]>>]
  BY DEF Store, SensorGoto
<1>2. sensor \in [Sensors -> SensorPlaces]
  BY DEF QuietInv, Places
<1>3. /\ sensor'[s] = "count"
      /\ \A u \in Sensors \ {s} : sensor'[u] = sensor[u]
  BY <1>1, <1>2
<1>4. /\ made \in [Sensors -> Detections] /\ count \in [Sensors -> Nat]
      /\ cells \in [Sensors -> Seq(Detections)]
      /\ room \in [Sensors -> Nat \ {0}]
  BY DEF ListInv, ListTypes
<1>5. made[s] < MaxDetections /\ count[s] <= Len(cells[s])
  BY <1>1 DEF ListInv, Filling
<1>6. d \in Detections /\ made[s] < d
  BY <1>4, <1>5, SensorFacts
<1>7. made'[s] = d /\ made' \in [Sensors -> Detections]
      /\ \A u \in Sensors \ {s} : made'[u] = made[u]
  BY <1>1, <1>4, <1>6
<1>8. /\ w \in Seq(Detections) /\ Len(w) = count[s] + 1
      /\ w[count[s] + 1] = d /\ \A i \in 1 .. count[s] : w[i] = c[i]
  <2>1. c \in Seq(Detections) /\ count[s] \in Nat /\ count[s] <= Len(c)
    BY <1>4, <1>5
  <2>2. \A n \in Nat : n <= Len(c) /\ w = SubSeq(c, 1, n) \o <<d>> =>
          /\ w \in Seq(Detections) /\ Len(w) = n + 1 /\ w[n + 1] = d
          /\ \A i \in 1 .. n : w[i] = c[i]
    <3> HIDE DEF w
    <3>1. QED
      BY <2>1, <1>6, Stored
  <2>3. w = SubSeq(c, 1, count[s]) \o <<d>>
    OBVIOUS
  <2> HIDE DEF c, d, w
  <2>4. QED
    BY <2>1, <2>2, <2>3
<1>9. /\ cells' = [cells EXCEPT ![s] = w]
  BY <1>1, <1>7
<1> HIDE DEF w, d
<1>10. /\ cells' \in [Sensors -> Seq(Detections)] /\ cells'[s] = w
       /\ \A u \in Sensors \ {s} : cells'[u] = cells[u]
  BY <1>4, <1>8, <1>9
<1>11. ListTypes'
  BY <1>1, <1>7, <1>10 DEF ListInv, ListTypes
<1>12. Filling'
  <2>1. \A u \in Sensors \ {s} :
          /\ count'[u] <= Len(cells'[u]) /\ Len(cells'[u]) <= room'[u]
          /\ sensor'[u] = "count" => Len(cells'[u]) = count'[u] + 1
          /\ sensor'[u] \in {"lock", "clear", "store"} =>
               made'[u] < MaxDetections
    BY <1>1, <1>3, <1>7, <1>10 DEF ListInv, Filling
  <2>2. /\ count'[s] <= Len(cells'[s]) /\ Len(cells'[s]) <= room'[s]
        /\ Len(cells'[s]) = count'[s] + 1
    BY <1>1, <1>4, <1>8, <1>10
  <2>3. sensor'[s] \notin {"lock", "clear", "store"}
    BY <1>3
  <2>4. QED
    BY <2>1, <2>2, <2>3 DEF Filling
<1>13. CASE s = Radar
  <2>1. /\ cells'[Video] = cells[Video] /\ sensor'[Video] = sensor[Video]
        /\ made'[Video] = made[Video]
    BY <1>3, <1>7, <1>10, <1>13, SensorFacts
  <2>2. VideoList'
    BY <2>1, <1>1 DEF ListInv, VideoList
  <2>3. RadarList'
    BY <1>3, <1>13 DEF RadarList
  <2>4. count[Radar] = Len(cells[Radar])
    BY <1>1, <1>13 DEF ListInv, RadarList
  <2>5. cells[Video] \in Seq(Detections)
    BY <1>4, SensorFacts
  <2>6. Len(cells[Video]) >= 1 => cells[Video][1] \in Nat
    BY <2>5, SensorFacts
  <2>7. Grown
    BY <2>1, <2>4, <2>6, <1>1, <1>4, <1>8, <1>10, <1>13 DEF Grown
  <2>8. QED
    BY <1>11, <1>12, <2>2, <2>3, <2>7 DEF ListInv
<1>14. CASE s = Video
  <2>1. /\ cells'[Radar] = cells[Radar] /\ sensor'[Radar] = sensor[Radar]
    BY <1>3, <1>10, <1>14, SensorFacts
  <2>2. RadarList'
    BY <2>1, <1>1 DEF ListInv, RadarList
  <2>3. count[Video] = 0 /\ block[Video] = 0
    BY <1>1, <1>14 DEF ListInv, VideoList
  <2>4. Len(cells'[Video]) = 1 /\ cells'[Video][1] = d
    <3>1. count[s] = 0 /\ cells'[Video] = w
      BY <2>3, <1>10, <1>14
    <3>2. count[s] + 1 = 1
      BY <3>1
    <3>3. Len(w) = 1 /\ w[1] = d
      BY <3>2, <1>8
    <3>4. QED
      BY <3>1, <3>3
  <2>5. d <= made'[Video] /\ d \in Nat
    BY <1>6, <1>7, <1>14, SensorFacts
  <2>6. VideoList'
    BY <2>3, <2>4, <2>5, <1>1, <1>3, <1>14 DEF VideoList
  <2>7. Len(cells[Video]) >= 1 => cells[Video] # << >>
    OBVIOUS
  <2>8. cells[Video] \in Seq(Detections)
    BY <1>4, SensorFacts
  <2>9. Len(cells[Video]) >= 1 => /\ cells[Video][1] \in Nat
                                  /\ cells[Video][1] <= made[Video]
    BY <2>7, <2>8, SensorFacts DEF ListInv, VideoList
  <2>10. Len(cells[Video]) >= 1 => cells[Video][1] <= d
    BY <2>9, <1>4, <1>6, <1>14, SensorFacts
  <2>11. count[Radar] \in Nat /\ Len(cells[Radar]) \in Nat
    BY <1>4, SensorFacts
  <2>12. Grown
    BY <2>1, <2>4, <2>10, <2>11, <1>1 DEF Grown
  <2>13. QED
    BY <1>11, <1>12, <2>2, <2>6, <2>12 DEF ListInv
<1>15. QED
  BY <1>13, <1>14, SensorFacts

LEMMA ListClear ==
  ASSUME QuietInv, ListInv, NEW s \in Sensors, Clear(s)
  PROVE  ListInv' /\ Grown
<1>1. /\ sensor[s] = "clear" /\ UNCHANGED <<cells, room, block, made>>
      /\ count' = [count EXCEPT ![s] = 0]
      /\ sensor' = [sensor EXCEPT ![s] = "store"]
  BY DEF Clear, SensorGoto
<1>2. s = Video
  BY <1>1, SensorFacts DEF ListInv, RadarList
<1>3. /\ sensor'[Video] = "store"
      /\ \A u \in Sensors \ {Video} : sensor'[u] = sensor[u]
  BY <1>1, <1>2 DEF QuietInv, Places
<1>4. /\ count' \in [Sensors -> Nat] /\ count'[Video] = 0
      /\ \A u \in Sensors \ {Video} : count'[u] = count[u]
  BY <1>1, <1>2 DEF ListInv, ListTypes
<1>5. made[Video] < MaxDetections
  BY <1>1, <1>2 DEF ListInv, Filling
<1>6. \A u \in Sensors : Len(cells[u]) \in Nat
  BY DEF ListInv, ListTypes
<1>7. ListTypes'
  BY <1>1, <1>4 DEF ListInv, ListTypes
<1>8. Filling'
  <2>1. \A u \in Sensors \ {Video} :
          /\ count'[u] <= Len(cells'[u]) /\ Len(cells'[u]) <= room'[u]
          /\ sensor'[u] = "count" => Len(cells'[u]) = count'[u] + 1
          /\ sensor'[u] \in {"lock", "clear", "store"} =>
               made'[u] < MaxDetections
    BY <1>1, <1>3, <1>4 DEF ListInv, Filling
  <2>2. /\ count'[Video] <= Len(cells'[Video])
        /\ Len(cells'[Video]) <= room'[Video]
        /\ sensor'[Video] # "count" /\ made'[Video] < MaxDetections
    BY <1>1, <1>3, <1>4, <1>5, <1>6, SensorFacts DEF ListInv, Filling
  <2>3. QED
    BY <2>1, <2>2 DEF Filling
<1>9. VideoList'
  BY <1>1, <1>3, <1>4 DEF ListInv, VideoList
<1>10. count'[Radar] = count[Radar] /\ sensor'[Radar] = sensor[Radar]
  BY <1>3, <1>4, SensorFacts
<1>11. RadarList'
  BY <1>1, <1>10 DEF ListInv, RadarList
<1>12. count[Radar] \in Nat
  BY SensorFacts DEF ListInv, ListTypes
<1>13. Grown
  BY <1>1, <1>10, <1>12, GrownCount
<1>14. QED
  BY <1>7, <1>8, <1>9, <1>11, <1>13 DEF ListInv

(* The list of the video never grows: it has room for its one track.       *)
LEMMA ListGrow ==
  ASSUME QuietInv, ListInv, NEW s \in Sensors, Grow(s)
  PROVE  ListInv' /\ Grown
<1>1. /\ sensor[s] = "store" /\ count[s] >= room[s]
      /\ UNCHANGED <<cells, count, made, sensor>>
      /\ room' = [room EXCEPT ![s] = 2 * @]
      /\ block' = [block EXCEPT ![s] = @ + 1]
  BY DEF Grow
<1>2. room[s] \in Nat \ {0} /\ block \in [Sensors -> Nat]
      /\ room \in [Sensors -> Nat \ {0}]
  BY DEF ListInv, ListTypes
<1>3. s # Video
  BY <1>1, <1>2, SensorFacts DEF ListInv, VideoList
<1>4. room' \in [Sensors -> Nat \ {0}] /\ block' \in [Sensors -> Nat]
      /\ \A u \in Sensors : room[u] <= room'[u]
  BY <1>1, <1>2
<1>5. ListTypes'
  BY <1>1, <1>4 DEF ListInv, ListTypes
<1>6. \A u \in Sensors : /\ Len(cells[u]) \in Nat
                         /\ room[u] \in Nat /\ room'[u] \in Nat
  BY <1>4 DEF ListInv, ListTypes
<1>7. Filling'
  <2>1. \A u \in Sensors : Len(cells[u]) <= room'[u]
    BY <1>4, <1>6 DEF ListInv, Filling
  <2>2. QED
    BY <2>1, <1>1 DEF ListInv, Filling
<1>8. block'[Video] = block[Video]
  BY <1>1, <1>2, <1>3, SensorFacts
<1>9. RadarList' /\ VideoList'
  BY <1>1, <1>8 DEF ListInv, RadarList, VideoList
<1>10. QED
  BY <1>1, <1>5, <1>7, <1>9, GrownRefl DEF ListInv

LEMMA ListCount ==
  ASSUME QuietInv, ListInv, NEW s \in Sensors, Count(s)
  PROVE  ListInv' /\ Grown
<1>1. /\ sensor[s] = "count" /\ UNCHANGED <<cells, room, block, made>>
      /\ count' = [count EXCEPT ![s] = @ + 1]
      /\ sensor' = [sensor EXCEPT ![s] = "push"]
  BY DEF Count, SensorGoto
<1>2. /\ sensor'[s] = "push"
      /\ \A u \in Sensors \ {s} : sensor'[u] = sensor[u]
  BY <1>1 DEF QuietInv, Places
<1>3. count \in [Sensors -> Nat]
  BY DEF ListInv, ListTypes
<1>4. /\ count' \in [Sensors -> Nat] /\ count'[s] = count[s] + 1
      /\ \A u \in Sensors \ {s} : count'[u] = count[u]
  BY <1>1, <1>3
<1>5. Len(cells[s]) = count[s] + 1
  BY <1>1 DEF ListInv, Filling
<1>6. ListTypes'
  BY <1>1, <1>4 DEF ListInv, ListTypes
<1>7. Filling'
  <2>1. \A u \in Sensors \ {s} :
          /\ count'[u] <= Len(cells'[u]) /\ Len(cells'[u]) <= room'[u]
          /\ sensor'[u] = "count" => Len(cells'[u]) = count'[u] + 1
          /\ sensor'[u] \in {"lock", "clear", "store"} =>
               made'[u] < MaxDetections
    BY <1>1, <1>2, <1>4 DEF ListInv, Filling
  <2>2. count'[s] <= Len(cells'[s]) /\ Len(cells'[s]) <= room'[s]
    BY <1>1, <1>3, <1>4, <1>5 DEF ListInv, Filling
  <2>3. sensor'[s] \notin {"count", "lock", "clear", "store"}
    BY <1>2
  <2>4. QED
    BY <2>1, <2>2, <2>3 DEF Filling
<1>8. ASSUME s = Radar PROVE ListInv'
  <2>1. /\ count'[Video] = count[Video] /\ sensor'[Video] = sensor[Video]
    BY <1>2, <1>4, <1>8, SensorFacts
  <2>2. VideoList'
    BY <2>1, <1>1 DEF ListInv, VideoList
  <2>3. count'[Radar] = Len(cells'[Radar]) /\ sensor'[Radar] # "clear"
    BY <1>1, <1>2, <1>4, <1>5, <1>8
  <2>4. RadarList'
    BY <2>3 DEF RadarList
  <2>5. QED
    BY <1>6, <1>7, <2>2, <2>4 DEF ListInv
<1>9. ASSUME s = Video PROVE ListInv'
  <2>1. /\ count'[Radar] = count[Radar] /\ sensor'[Radar] = sensor[Radar]
    BY <1>2, <1>4, <1>9, SensorFacts
  <2>2. RadarList'
    BY <2>1, <1>1 DEF ListInv, RadarList
  <2>3. count[Video] = 0
    BY <1>1, <1>9 DEF ListInv, VideoList
  <2>4. count'[Video] = 1 /\ sensor'[Video] = "push"
    BY <2>3, <1>2, <1>4, <1>9
  <2>5. VideoList'
    BY <2>4, <1>1 DEF ListInv, VideoList
  <2>6. QED
    BY <1>6, <1>7, <2>2, <2>5 DEF ListInv
<1>10. Grown
  <2>1. count[Radar] <= count'[Radar]
    BY <1>3, <1>4, SensorFacts
  <2>2. QED
    BY <2>1, <1>1, GrownCount
<1>11. QED
  BY <1>8, <1>9, <1>10, SensorFacts

LEMMA ListSensor ==
  ASSUME QuietInv, ListInv, NEW s \in Sensors, SensorStep(s)
  PROVE  ListInv' /\ Grown
<1> USE DEF SensorGoto
<1>1. CASE Detect(s)
  BY <1>1, ListFrame DEF Detect
<1>2. CASE Exit(s)
  BY <1>2, ListFrame DEF Exit
<1>3. CASE LockCtx(s)
  <2>1. /\ sensor[s] = "lock" /\ UNCHANGED lists
        /\ sensor' = [sensor EXCEPT ![s] = IF s = Video THEN "clear"
                                                        ELSE "store"]
    BY <1>3 DEF LockCtx
  <2>2. QED
    BY <2>1, ListFrame
<1>4. CASE Push(s)
  BY <1>4, ListFrame DEF Push
<1>5. CASE PushOk(s)
  BY <1>5, ListFrame DEF PushOk
<1>6. CASE PushFails(s)
  BY <1>6, ListFrame DEF PushFails
<1>7. CASE UnlockCtx(s)
  BY <1>7, ListFrame DEF UnlockCtx
<1>8. QED
  BY <1>1, <1>2, <1>3, <1>4, <1>5, <1>6, <1>7, ListStore, ListClear,
     ListGrow, ListCount
  DEF SensorStep

LEMMA ListMain ==
  ASSUME QuietInv, ListInv, MainStep \/ Signal \/ UNCHANGED vars
  PROVE  ListInv'
<1>1. UNCHANGED <<cells, count, room, block, made, sensor>>
  BY DEF MainStep, Signal, vars, lists, Poll, Popped, TimedOut, Pick, Use,
         Ingested, Release, LeaveLoop, StopFlag, StopWake, Join, Drop,
         CloseQueue
<1>2. QED
  BY <1>1 DEF ListInv, ListTypes, Filling, RadarList, VideoList

-----------------------------------------------------------------------------
LEMMA ShownGrows ==
  ASSUME ListInv, Grown, NEW s \in Sensors, NEW p \in Seq(Detections),
         ListInv', Shown(s, p, cells, count)
  PROVE  Shown(s, p, cells', count')
<1>1. \A i \in 1 .. Len(p) : p[i] \in Nat
  BY SensorFacts
<1>2. Len(p) \in Nat
  OBVIOUS
<1>3. ASSUME s = Video PROVE Shown(s, p, cells', count')
  <2>1. /\ Len(p) = 1 /\ Len(cells[Video]) >= 1 /\ p[1] <= cells[Video][1]
    BY <1>3 DEF Shown
  <2>2. Len(cells'[Video]) >= 1 /\ cells[Video][1] <= cells'[Video][1]
    BY <2>1 DEF Grown
  <2>3. cells[Video] \in Seq(Detections) /\ cells'[Video] \in Seq(Detections)
    BY SensorFacts DEF ListInv, ListTypes
  <2>4. cells[Video][1] \in Nat /\ cells'[Video][1] \in Nat /\ p[1] \in Nat
    <3>1. cells[Video][1] \in Nat
      BY <2>1, <2>3, FirstDetection
    <3>2. cells'[Video][1] \in Nat
      BY <2>2, <2>3, FirstDetection
    <3>3. Len(p) >= 1
      BY <2>1
    <3>4. p[1] \in Nat
      BY <3>3, FirstDetection
    <3>5. QED
      BY <3>1, <3>2, <3>4
  <2>5. p[1] <= cells'[Video][1]
    BY <2>1, <2>2, <2>4
  <2>6. QED
    BY <2>1, <2>2, <2>5, <1>3, SensorFacts DEF Shown
<1>4. ASSUME s = Radar PROVE Shown(s, p, cells', count')
  <2>1. Len(p) <= count[Radar] /\ \A i \in 1 .. Len(p) : p[i] = cells[Radar][i]
    BY <1>4 DEF Shown
  <2>2. /\ count[Radar] \in Nat /\ count'[Radar] \in Nat
        /\ count[Radar] <= Len(cells[Radar]) /\ Len(cells[Radar]) \in Nat
    BY SensorFacts DEF ListInv, ListTypes, Filling
  <2>3. Len(p) <= count'[Radar]
    BY <2>1, <2>2, <1>2 DEF Grown
  <2>4. \A i \in 1 .. Len(p) : i \in 1 .. Len(cells[Radar])
    BY <2>1, <2>2, <1>2
  <2>5. \A i \in 1 .. Len(p) : p[i] = cells'[Radar][i]
    BY <2>1, <2>4 DEF Grown
  <2>6. QED
    BY <2>3, <2>5, <1>4, SensorFacts DEF Shown
<1>5. QED
  BY <1>3, <1>4, SensorFacts

LEMMA PrefixShown ==
  ASSUME ListInv, NEW s \in Sensors, sensor[s] = "pushing",
         NEW p \in Seq(Detections), Len(p) = count[s],
         \A i \in 1 .. count[s] : p[i] = cells[s][i]
  PROVE  Shown(s, p, cells, count)
<1>1. /\ cells[s] \in Seq(Detections) /\ count[s] \in Nat
      /\ count[s] <= Len(cells[s])
  BY DEF ListInv, ListTypes, Filling
<1>2. ASSUME s = Video
      PROVE  /\ Len(p) = 1 /\ Len(cells[s]) >= 1
             /\ p[1] <= cells[s][1]
  <2>1. count[s] = 1
    BY <1>2 DEF ListInv, VideoList
  <2>2. Len(p) = 1 /\ Len(cells[s]) >= 1
    BY <2>1, <1>1
  <2>3. p[1] = cells[s][1]
    BY <2>1
  <2>4. p[1] \in Nat
    <3>1. Len(p) >= 1
      BY <2>2
    <3>2. QED
      BY <3>1, FirstDetection
  <2>5. QED
    BY <2>2, <2>3, <2>4
<1>3. Len(p) <= count[s] /\ \A i \in 1 .. Len(p) : p[i] = cells[s][i]
  BY <1>1
<1>4. QED
  BY <1>2, <1>3 DEF Shown

(* What mec_queue_push retains when it succeeds.                           *)
LEMMA PushedShown ==
  ASSUME ListInv, NEW s \in Sensors, sensor[s] = "pushing",
         NEW p, p = SubSeq(cells[s], 1, count[s])
  PROVE  p \in Seq(Detections) /\ Shown(s, p, cells, count)
<1>1. /\ cells[s] \in Seq(Detections) /\ count[s] \in Nat
      /\ count[s] <= Len(cells[s])
  BY DEF ListInv, ListTypes, Filling
<1>2. /\ p \in Seq(Detections) /\ Len(p) = count[s]
      /\ \A i \in 1 .. count[s] : p[i] = cells[s][i]
  BY <1>1, SubSeqProperties
<1>3. QED
  BY <1>2, PrefixShown

LEMMA PacketsInit == Init => PacketsInv
<1> SUFFICES ASSUME Init PROVE PacketsInv
  OBVIOUS
<1>1. packets = << >> /\ fifo = << >>
  BY DEF Init, Q!Init
<1>2. << >> \in Seq(Seq(Detections)) /\ Len(<< >>) = 0 /\ 1 .. 0 = {}
  OBVIOUS
<1>3. QED
  BY <1>1, <1>2, PipelineAssumption DEF PacketsInv

LEMMA PacketsSensor ==
  ASSUME QuietInv, Messages, ListInv, PacketsInv, Grown, ListInv',
         NEW s \in Sensors, SensorStep(s)
  PROVE  PacketsInv'
<1>1. CASE PushOk(s)
  <2> DEFINE p == SubSeq(cells[s], 1, count[s])
             n == Len(fifo)
  <2>1. /\ fifo' = Append(fifo, arg[s]) /\ Len(fifo) < Capacity
        /\ packets' = Append(packets, p) /\ sensor[s] = "pushing"
        /\ UNCHANGED <<cells, count>>
    BY <1>1 DEF PushOk, Q!PushOk, lists
  <2>2. p \in Seq(Detections) /\ Shown(s, p, cells, count)
    BY <2>1, PushedShown
  <2>3. arg[s] = s
    BY <2>1 DEF Messages
  <2>4. fifo \in Seq(Sensors) /\ packets \in Seq(Seq(Detections))
        /\ n \in Nat /\ n = Len(packets) /\ n + 1 <= Capacity
    BY <2>1, PipelineAssumption DEF Messages, PacketsInv
  <2> HIDE DEF p, n
  <2>5. /\ Len(fifo') = n + 1 /\ fifo'[n + 1] = s
        /\ \A k \in 1 .. n : fifo'[k] = fifo[k]
    BY <2>1, <2>3, <2>4, AppendProperties DEF n
  <2>6. /\ packets' \in Seq(Seq(Detections))
        /\ Len(packets') = n + 1 /\ packets'[n + 1] = p
        /\ \A k \in 1 .. n : packets'[k] = packets[k]
    BY <2>1, <2>2, <2>4, AppendProperties
  <2>7. ASSUME NEW k \in 1 .. n + 1
        PROVE  Shown(fifo'[k], packets'[k], cells', count')
    <3>1. CASE k = n + 1
      BY <3>1, <2>1, <2>2, <2>5, <2>6
    <3>2. CASE k \in 1 .. n
      <4>1. Shown(fifo[k], packets[k], cells, count)
        BY <3>2 DEF PacketsInv, n
      <4>2. QED
        BY <4>1, <3>2, <2>1, <2>5, <2>6
    <3>3. QED
      BY <3>1, <3>2, <2>4
  <2>8. QED
    BY <2>4, <2>5, <2>6, <2>7 DEF PacketsInv
<1>2. ASSUME UNCHANGED <<fifo, packets>> PROVE PacketsInv'
  <2>1. ASSUME NEW k \in 1 .. Len(fifo)
        PROVE  Shown(fifo[k], packets[k], cells', count')
    <3>1. fifo \in Seq(Sensors) /\ packets \in Seq(Seq(Detections))
          /\ Len(packets) = Len(fifo)
      BY DEF Messages, PacketsInv
    <3>2. fifo[k] \in Sensors /\ packets[k] \in Seq(Detections)
      BY <3>1
    <3>3. Shown(fifo[k], packets[k], cells, count)
      BY DEF PacketsInv
    <3>4. QED
      BY <3>2, <3>3, ShownGrows
  <2>2. QED
    BY <1>2, <2>1 DEF PacketsInv
<1>3. CASE ~PushOk(s)
  <2>1. UNCHANGED <<fifo, packets>>
    BY <1>3 DEF SensorStep, queue, history, Detect, Exit, LockCtx, Clear,
                Grow, Store, Count, Push, Q!CallPush, PushFails, Q!PushFails,
                UnlockCtx
  <2>2. QED
    BY <1>2, <2>1
<1>4. QED
  BY <1>1, <1>3

LEMMA PacketsMain ==
  ASSUME QuietInv, Messages, PacketsInv, MainStep \/ Signal \/ UNCHANGED vars
  PROVE  PacketsInv'
<1>1. UNCHANGED <<cells, count>>
  BY DEF MainStep, Signal, vars, lists, Poll, Popped, TimedOut, Pick, Use,
         Ingested, Release, LeaveLoop, StopFlag, StopWake, Join, Drop,
         CloseQueue
<1>2. CASE Popped
  <2>1. /\ fifo # << >> /\ fifo' = Tail(fifo) /\ packets' = Tail(packets)
    BY <1>2 DEF Popped, Q!PopOk
  <2>2. /\ fifo \in Seq(Sensors) /\ packets \in Seq(Seq(Detections))
        /\ Len(packets) = Len(fifo)
    BY DEF Messages, PacketsInv
  <2>3. packets # << >>
    BY <2>1, <2>2
  <2>4. Len(fifo) \in Nat \ {0}
    BY <2>1, <2>2
  <2>5. /\ fifo' \in Seq(Sensors) /\ Len(fifo') = Len(fifo) - 1
        /\ \A k \in 1 .. Len(fifo) - 1 : fifo'[k] = fifo[k + 1]
    BY <2>1, <2>2, HeadTailProperties
  <2>6. /\ packets' \in Seq(Seq(Detections))
        /\ Len(packets') = Len(packets) - 1
        /\ \A k \in 1 .. Len(packets) - 1 : packets'[k] = packets[k + 1]
    BY <2>1, <2>2, <2>3, HeadTailProperties
  <2>7. ASSUME NEW k \in 1 .. Len(fifo')
        PROVE  Shown(fifo'[k], packets'[k], cells', count')
    <3>1. k \in 1 .. Len(fifo) - 1 /\ k + 1 \in 1 .. Len(fifo)
      BY <2>4, <2>5
    <3>2. Shown(fifo[k + 1], packets[k + 1], cells, count)
      BY <3>1 DEF PacketsInv
    <3>3. QED
      BY <3>1, <3>2, <2>2, <2>5, <2>6, <1>1
  <2>8. Len(fifo') <= Capacity
    BY <2>4, <2>5, PipelineAssumption DEF PacketsInv
  <2>9. QED
    BY <2>2, <2>5, <2>6, <2>7, <2>8 DEF PacketsInv
<1>3. CASE CloseQueue
  <2>1. fifo' = << >> /\ packets' = << >>
    BY <1>3 DEF CloseQueue, Q!Close
  <2>2. << >> \in Seq(Seq(Detections)) /\ Len(<< >>) = 0 /\ 1 .. 0 = {}
    OBVIOUS
  <2>3. QED
    BY <2>1, <2>2, PipelineAssumption DEF PacketsInv
<1>4. CASE ~Popped /\ ~CloseQueue
  <2>1. UNCHANGED <<fifo, packets>>
    BY <1>4 DEF MainStep, Signal, vars, queue, history, Poll, Q!CallPop,
                TimedOut, Q!PopFails, Pick, Use, Ingested, Release, Q!Consume,
                LeaveLoop, StopFlag, StopWake, Join, Drop
  <2>2. QED
    BY <2>1, <1>1 DEF PacketsInv
<1>5. QED
  BY <1>2, <1>3, <1>4

-----------------------------------------------------------------------------
LEMMA ReadInit == Init => ReadInv
<1> SUFFICES ASSUME Init PROVE ReadInv
  OBVIOUS
<1>1. /\ main = "loop" /\ index = 0 /\ ptr = 0 /\ got = << >>
      /\ packet = << >>
  BY DEF Init
<1>2. << >> \in Seq(Detections)
  OBVIOUS
<1>3. QED
  BY <1>1, <1>2 DEF ReadInv, ReadTypes, InBuffer, ReadSoFar, ReadAll

(* Whatever the threads do to their lists meanwhile.                       *)
LEMMA ReadSensor ==
  ASSUME Messages, ListInv, ReadInv, Grown, ListInv',
         UNCHANGED <<main, out, index, ptr, got, packet>>
  PROVE  ReadInv'
<1>1. ReadTypes' /\ ReadAll'
  BY DEF ReadInv, ReadTypes, ReadAll
<1>2. \A s \in Sensors : Len(cells[s]) \in Nat /\ Len(cells'[s]) \in Nat
  BY DEF ListInv, ListTypes
<1>3. main \in {"ingest", "use", "release"} => out[Main] \in Sensors
  BY DEF Messages
<1>4. InBuffer'
  <2>1. SUFFICES ASSUME main = "use"
                 PROVE  /\ index < Len(cells'[out[Main]])
                        /\ out[Main] = Video => ptr = 0
    BY DEF InBuffer
  <2>2. /\ index < Len(cells[out[Main]]) /\ index \in Nat
        /\ out[Main] = Video => ptr = 0
    BY <2>1 DEF ReadInv, InBuffer, ReadTypes
  <2>3. out[Main] \in Sensors
    BY <2>1, <1>3
  <2>4. CASE out[Main] = Video
    <3>1. Len(cells[Video]) <= 1
      BY DEF ListInv, VideoList
    <3>2. index = 0 /\ Len(cells[Video]) >= 1
      BY <3>1, <2>2, <2>4, <1>2, SensorFacts
    <3>3. Len(cells'[Video]) >= 1
      BY <3>2 DEF Grown
    <3>4. QED
      BY <3>2, <3>3, <2>2, <2>4, <1>2, SensorFacts
  <2>5. CASE out[Main] = Radar
    <3>1. Len(cells[Radar]) <= Len(cells'[Radar])
      BY DEF Grown
    <3>2. QED
      BY <3>1, <2>2, <2>5, <1>2, SensorFacts
  <2>6. QED
    BY <2>3, <2>4, <2>5, SensorFacts
<1>5. ReadSoFar'
  <2>1. SUFFICES ASSUME main \in {"ingest", "use", "release"}
                 PROVE  /\ Shown(out[Main], packet, cells', count')
                        /\ Len(got) = index
                        /\ out[Main] = Video =>
                             \A i \in 1 .. Len(got) : got[i] >= packet[1]
                        /\ out[Main] = Radar =>
                             /\ Len(got) <= Len(cells'[Radar])
                             /\ \A i \in 1 .. Len(got) :
                                  got[i] \in {cells'[Radar][i], Garbage}
    BY DEF ReadSoFar
  <2>2. /\ Shown(out[Main], packet, cells, count)
        /\ Len(got) = index
        /\ out[Main] = Video => \A i \in 1 .. Len(got) : got[i] >= packet[1]
        /\ out[Main] = Radar =>
             /\ Len(got) <= Len(cells[Radar])
             /\ \A i \in 1 .. Len(got) : got[i] \in {cells[Radar][i], Garbage}
    BY <2>1 DEF ReadInv, ReadSoFar
  <2>3. packet \in Seq(Detections) /\ Len(got) \in Nat
    BY DEF ReadInv, ReadTypes
  <2>4. Shown(out[Main], packet, cells', count')
    BY <2>1, <2>2, <2>3, <1>3, ShownGrows
  <2>5. ASSUME out[Main] = Radar
        PROVE  /\ Len(got) <= Len(cells'[Radar])
               /\ \A i \in 1 .. Len(got) :
                    got[i] \in {cells'[Radar][i], Garbage}
    <3>1. /\ Len(cells[Radar]) <= Len(cells'[Radar])
          /\ \A i \in 1 .. Len(cells[Radar]) :
               cells'[Radar][i] = cells[Radar][i]
      BY DEF Grown
    <3>2. Len(cells[Radar]) \in Nat /\ Len(cells'[Radar]) \in Nat
      BY <1>2, SensorFacts
    <3>3. \A i \in 1 .. Len(got) : i \in 1 .. Len(cells[Radar])
      BY <3>2, <2>2, <2>3, <2>5
    <3>4. QED
      BY <3>1, <3>2, <3>3, <2>2, <2>3, <2>5
  <2>6. QED
    BY <2>2, <2>4, <2>5
<1>6. QED
  BY <1>1, <1>4, <1>5 DEF ReadInv

LEMMA ReadPopped ==
  ASSUME Messages, ListInv, PacketsInv, ReadInv, Popped
  PROVE  ReadInv'
<1>1. /\ fifo # << >> /\ out'[Main] = Head(fifo) /\ main' = "ingest"
      /\ index' = 0 /\ got' = << >> /\ packet' = Head(packets)
      /\ ptr' = ptr /\ UNCHANGED <<cells, count>>
  BY DEF Popped, Q!PopOk, Messages, lists
<1>2. /\ fifo \in Seq(Sensors) /\ packets \in Seq(Seq(Detections))
      /\ Len(packets) = Len(fifo)
  BY DEF Messages, PacketsInv
<1>3. Len(fifo) \in Nat \ {0} /\ packets # << >>
  BY <1>1, <1>2
<1>4. Head(fifo) = fifo[1] /\ Head(packets) = packets[1]
      /\ packets[1] \in Seq(Detections)
  BY <1>1, <1>2, <1>3
<1>5. Shown(fifo[1], packets[1], cells, count)
  BY <1>3 DEF PacketsInv
<1>6. << >> \in Seq(Detections) /\ Len(<< >>) = 0 /\ 1 .. 0 = {}
  OBVIOUS
<1>7. ReadTypes'
  BY <1>1, <1>4, <1>6 DEF ReadInv, ReadTypes
<1>8. InBuffer' /\ ReadAll'
  BY <1>1 DEF InBuffer, ReadAll
<1>9. Len(cells[Radar]) \in Nat
  BY SensorFacts DEF ListInv, ListTypes
<1>10. Len(got') = index' /\ Len(got') = 0 /\ 1 .. Len(got') = {}
  BY <1>1, <1>6
<1>11. Shown(out'[Main], packet', cells', count')
  BY <1>1, <1>4, <1>5
<1>12. ReadSoFar'
  BY <1>1, <1>9, <1>10, <1>11 DEF ReadSoFar
<1>13. QED
  BY <1>7, <1>8, <1>12 DEF ReadInv

LEMMA ReadPick ==
  ASSUME Messages, ListInv, ReadInv, Pick
  PROVE  ReadInv'
<1>1. /\ main = "ingest" /\ main' = "use" /\ index < count[out[Main]]
      /\ ptr' = block[out[Main]]
      /\ UNCHANGED <<cells, count, out, index, got, packet>>
  BY DEF Pick, queue, lists, history
<1>2. out[Main] \in Sensors
  BY <1>1 DEF Messages
<1>3. /\ count[out[Main]] \in Nat /\ block[out[Main]] \in Nat
      /\ count[out[Main]] <= Len(cells[out[Main]])
      /\ Len(cells[out[Main]]) \in Nat
  BY <1>2 DEF ListInv, ListTypes, Filling
<1>4. index \in Nat
  BY DEF ReadInv, ReadTypes
<1>5. ReadTypes'
  BY <1>1, <1>3 DEF ReadInv, ReadTypes
<1>6. out[Main] = Video => ptr' = 0
  BY <1>1 DEF ListInv, VideoList
<1>7. index < Len(cells[out[Main]])
  BY <1>1, <1>3, <1>4
<1>8. InBuffer'
  BY <1>1, <1>6, <1>7 DEF InBuffer
<1>9. ReadAll'
  BY <1>1 DEF ReadAll
<1>10. ReadSoFar'
  BY <1>1 DEF ReadInv, ReadSoFar
<1>11. QED
  BY <1>5, <1>8, <1>9, <1>10 DEF ReadInv

(* A track of the buffer, or whatever is at the place of the old one.      *)
LEMMA ReadUse ==
  ASSUME Messages, ListInv, ReadInv, Use
  PROVE  ReadInv'
<1> DEFINE s == out[Main]
<1>1. /\ main = "use" /\ main' = "ingest" /\ index' = index + 1
      /\ UNCHANGED <<cells, count, block, out, ptr, packet>>
  BY DEF Use, queue, lists, history
<1>2. PICK track \in Readable : got' = Append(got, track)
  BY DEF Use
<1>3. s \in Sensors
  BY <1>1 DEF Messages
<1>4. index < Len(cells[s]) /\ (s = Video => ptr = 0)
  BY <1>1 DEF ReadInv, InBuffer
<1>5. /\ index \in Nat /\ ptr \in Nat /\ got \in Seq(Detections)
      /\ packet \in Seq(Detections)
  BY DEF ReadInv, ReadTypes
<1>6. /\ Shown(s, packet, cells, count) /\ Len(got) = index
      /\ s = Video => \A i \in 1 .. Len(got) : got[i] >= packet[1]
      /\ s = Radar =>
           \A i \in 1 .. Len(got) : got[i] \in {cells[Radar][i], Garbage}
  BY <1>1 DEF ReadInv, ReadSoFar
<1>7. cells[s] \in Seq(Detections) /\ Len(cells[s]) \in Nat
  BY <1>3 DEF ListInv, ListTypes
<1> DEFINE here == cells[s][index + 1]
<1>8. here \in Detections
  BY <1>4, <1>5, <1>7
<1>9. track \in {here, Garbage} /\ (ptr = block[s] => track = here)
  BY <1>2 DEF Readable
<1>10. Garbage \in Detections
  BY SensorFacts DEF Garbage
<1>11. track \in Detections
  BY <1>8, <1>9, <1>10
<1> HIDE DEF here
<1>12. /\ got' \in Seq(Detections) /\ Len(got') = index + 1
       /\ got'[index + 1] = track
       /\ \A i \in 1 .. index : got'[i] = got[i]
  BY <1>2, <1>5, <1>6, <1>11, AppendProperties
<1>13. ReadTypes'
  BY <1>1, <1>5, <1>12 DEF ReadTypes
<1>14. InBuffer' /\ ReadAll'
  BY <1>1 DEF InBuffer, ReadAll
<1>15. ASSUME s = Video, NEW i \in 1 .. Len(got')
       PROVE  got'[i] >= packet[1]
  <2>1. Len(cells[Video]) <= 1 /\ block[Video] = 0
    BY DEF ListInv, VideoList
  <2>2. index = 0
    BY <2>1, <1>4, <1>5, <1>7, <1>15
  <2>3. here = cells[Video][1]
    BY <2>2, <1>15 DEF here
  <2>4. track = here
    BY <2>1, <1>4, <1>9, <1>15
  <2>5. Len(packet) = 1 /\ packet[1] <= cells[Video][1]
    BY <1>6, <1>15 DEF Shown
  <2>6. packet[1] \in Nat /\ here \in Nat
    <3>1. packet[1] \in Detections
      BY <2>5, <1>5, FirstDetection
    <3>2. QED
      BY <3>1, <1>8, SensorFacts
  <2>7. here >= packet[1]
    BY <2>3, <2>5, <2>6
  <2>8. i = index + 1
    BY <2>2, <1>12
  <2>9. QED
    BY <2>4, <2>7, <2>8, <1>12
<1>16. ASSUME s = Radar
       PROVE  /\ Len(got') <= Len(cells'[Radar])
              /\ \A i \in 1 .. Len(got') :
                   got'[i] \in {cells'[Radar][i], Garbage}
  <2>1. Len(got') <= Len(cells'[Radar])
    BY <1>1, <1>4, <1>5, <1>7, <1>12, <1>16
  <2>2. got'[index + 1] \in {cells'[Radar][index + 1], Garbage}
    BY <1>1, <1>9, <1>12, <1>16 DEF here
  <2>3. ASSUME NEW i \in 1 .. index
        PROVE  got'[i] \in {cells'[Radar][i], Garbage}
    <3>1. got[i] \in {cells[Radar][i], Garbage} /\ got'[i] = got[i]
      BY <1>6, <1>12, <1>16
    <3>2. QED
      BY <3>1, <1>1
  <2>4. \A i \in 1 .. index + 1 : i \in 1 .. index \/ i = index + 1
    BY <1>5
  <2>5. QED
    BY <2>1, <2>2, <2>3, <2>4, <1>12
<1>17. Shown(out'[Main], packet', cells', count') /\ Len(got') = index'
  BY <1>1, <1>6, <1>12
<1>18. ReadSoFar'
  BY <1>1, <1>15, <1>16, <1>17 DEF ReadSoFar
<1>19. QED
  BY <1>13, <1>14, <1>18 DEF ReadInv

(* The loop test ends the reading only past all that was pushed.           *)
LEMMA ReadIngested ==
  ASSUME Messages, ListInv, ReadInv, Ingested
  PROVE  ReadInv'
<1>1. /\ main = "ingest" /\ main' = "release" /\ index >= count[out[Main]]
      /\ UNCHANGED <<cells, count, out, index, ptr, got, packet>>
  BY DEF Ingested, queue, lists, reading, history
<1>2. ReadTypes'
  BY <1>1 DEF ReadInv, ReadTypes
<1>3. InBuffer'
  BY <1>1 DEF InBuffer
<1>4. Shown(out[Main], packet, cells, count) /\ Len(got) = index
  BY <1>1 DEF ReadInv, ReadSoFar
<1>5. ASSUME out[Main] = Radar PROVE Len(packet) <= Len(got)
  <2>1. Len(packet) <= count[Radar]
    BY <1>4, <1>5 DEF Shown
  <2>2. count[Radar] \in Nat /\ index \in Nat /\ Len(packet) \in Nat
    BY SensorFacts DEF ListInv, ListTypes, ReadInv, ReadTypes
  <2>3. QED
    BY <2>1, <2>2, <1>1, <1>4, <1>5
<1>6. ReadAll'
  BY <1>1, <1>5 DEF ReadAll
<1>7. ReadSoFar'
  BY <1>1 DEF ReadInv, ReadSoFar
<1>8. QED
  BY <1>2, <1>3, <1>6, <1>7 DEF ReadInv

LEMMA ReadMain ==
  ASSUME Messages, ListInv, PacketsInv, ReadInv,
         MainStep \/ Signal \/ UNCHANGED vars
  PROVE  ReadInv'
<1>1. CASE Popped \/ Pick \/ Use \/ Ingested
  BY <1>1, ReadPopped, ReadPick, ReadUse, ReadIngested
<1>2. CASE Signal \/ UNCHANGED vars
  BY <1>2
  DEF Signal, vars, queue, lists, reading, history, ReadInv, ReadTypes,
      InBuffer, ReadSoFar, ReadAll
<1>3. CASE ~(Popped \/ Pick \/ Use \/ Ingested \/ Signal \/ UNCHANGED vars)
  <2>1. /\ UNCHANGED <<index, ptr, got, packet>>
        /\ main' \notin {"ingest", "use", "release"}
    BY <1>3 DEF MainStep, reading, history, Poll, TimedOut, Release,
                LeaveLoop, StopFlag, StopWake, Join, Drop, CloseQueue
  <2>2. QED
    BY <2>1 DEF ReadInv, ReadTypes, InBuffer, ReadSoFar, ReadAll
<1>4. QED
  BY <1>1, <1>2, <1>3

-----------------------------------------------------------------------------
(* How often main.c:286-297 joins each thread: by the stop and by the      *)
(* destroy function of its sensor, the video first.                        *)
JoinInv == /\ joins \in [Sensors -> 0 .. 2]
           /\ on \in [Sensors -> BOOLEAN]
           /\ running \in BOOLEAN
           /\ open \in BOOLEAN
           /\ target = Video => joins[Radar] = 0
           /\ main \in {"flag", "wake", "join"} => joins[target] \in {0, 1}
           /\ main \in {"loop", "popping", "ingest", "use", "release"} =>
                target = Video /\ joins[Video] = 0

LEMMA JoinInit == Init => JoinInv
  BY SensorFacts DEF Init, Q!Init, JoinInv

LEMMA JoinMain ==
  ASSUME QuietInv, JoinInv, MainStep
  PROVE  JoinInv'
<1>0. target \in Sensors
  BY DEF QuietInv, Places
<1> USE DEF JoinInv, queue, stopping
<1>1. CASE Join
  <2>1. /\ main = "join" /\ joins' = [joins EXCEPT ![target] = @ + 1]
        /\ main' = IF joins[target] = 0 THEN "flag" ELSE "drop"
        /\ UNCHANGED <<on, running, open, target>>
    BY <1>1 DEF Join
  <2>2. joins[target] \in {0, 1} /\ joins \in [Sensors -> 0 .. 2]
    BY <2>1
  <2>3. joins' \in [Sensors -> 0 .. 2] /\ joins'[target] = joins[target] + 1
        /\ \A s \in Sensors \ {target} : joins'[s] = joins[s]
    BY <2>1, <2>2, <1>0
  <2>4. joins[target] = 0 => joins'[target] \in {0, 1}
    BY <2>3
  <2>5. target = Video => joins'[Radar] = 0
    BY <2>3, <1>0, SensorFacts
  <2>6. QED
    BY <2>1, <2>3, <2>4, <2>5
<1>2. CASE Drop
  <2>1. /\ main = "drop" /\ target' = Radar
        /\ main' = IF target = Video THEN "flag" ELSE "close"
        /\ UNCHANGED <<on, running, open, joins>>
    BY <1>2 DEF Drop
  <2>2. main' = "flag" => joins[Radar] = 0
    BY <2>1
  <2>3. QED
    BY <2>1, <2>2, SensorFacts
<1>3. CASE StopFlag
  BY <1>3, <1>0 DEF StopFlag
<1>4. CASE LeaveLoop \/ StopWake
  BY <1>4, SensorFacts DEF LeaveLoop, StopWake
<1>5. CASE Poll \/ Popped \/ TimedOut
  BY <1>5
  DEF Poll, Q!CallPop, Popped, Q!PopOk, TimedOut, Q!PopFails
<1>6. CASE Pick \/ Use \/ Ingested
  BY <1>6 DEF Pick, Use, Ingested
<1>7. CASE Release \/ CloseQueue
  BY <1>7 DEF Release, Q!Consume, CloseQueue, Q!Close
<1>8. QED
  BY <1>1, <1>2, <1>3, <1>4, <1>5, <1>6, <1>7 DEF MainStep

LEMMA JoinStep ==
  ASSUME QuietInv, JoinInv, [Next]_vars
  PROVE  JoinInv'
<1>1. ASSUME NEW s \in Sensors, SensorStep(s)
      PROVE  UNCHANGED <<joins, on, running, open, target, main>>
  BY <1>1 DEF SensorStep, queue, stopping, Detect, Exit, LockCtx, Clear, Grow,
              Store, Count, Push, Q!CallPush, PushOk, Q!PushOk, PushFails,
              Q!PushFails, UnlockCtx
<1>2. CASE \E s \in Sensors : SensorStep(s)
  BY <1>1, <1>2 DEF JoinInv
<1>3. CASE Signal
  BY <1>3 DEF Signal, JoinInv, queue
<1>4. CASE UNCHANGED vars
  BY <1>4 DEF JoinInv, vars, queue, stopping
<1>5. QED
  BY <1>2, <1>3, <1>4, JoinMain DEF Next, Done

-----------------------------------------------------------------------------
DataInv == RefsInv /\ ListInv /\ PacketsInv /\ ReadInv /\ JoinInv

LEMMA DataSensor ==
  ASSUME DataInv, NEW s \in Sensors, SensorStep(s)
  PROVE  (ListInv /\ PacketsInv /\ ReadInv)'
<1>1. ListInv' /\ Grown
  BY ListSensor DEF DataInv, RefsInv
<1>2. PacketsInv'
  BY <1>1, PacketsSensor DEF DataInv, RefsInv
<1>3. UNCHANGED <<main, out, index, ptr, got, packet>>
  BY DEF SensorStep, queue, reading, history, Detect, Exit, LockCtx, Clear,
         Grow, Store, Count, Push, Q!CallPush, PushOk, Q!PushOk, PushFails,
         Q!PushFails, UnlockCtx
<1>4. QED
  BY <1>1, <1>2, <1>3, ReadSensor DEF DataInv, RefsInv

LEMMA DataInvCorrect == Spec => []DataInv
<1>1. Init => ListInv /\ PacketsInv /\ ReadInv /\ JoinInv
  BY ListInit, PacketsInit, ReadInit, JoinInit
<1>2. DataInv /\ [Next]_vars => (ListInv /\ PacketsInv /\ ReadInv /\ JoinInv)'
  <2> SUFFICES ASSUME DataInv, [Next]_vars
               PROVE  (ListInv /\ PacketsInv /\ ReadInv /\ JoinInv)'
    OBVIOUS
  <2>1. QuietInv /\ Messages /\ ListInv /\ PacketsInv /\ ReadInv /\ JoinInv
    BY DEF DataInv, RefsInv
  <2>2. JoinInv'
    BY <2>1, JoinStep
  <2>3. ASSUME MainStep \/ Signal \/ UNCHANGED vars
        PROVE  (ListInv /\ PacketsInv /\ ReadInv)'
    BY <2>1, <2>3, ListMain, PacketsMain, ReadMain
  <2>4. QED
    BY <2>2, <2>3, DataSensor DEF Next, Done
<1>3. QED
  BY <1>1, <1>2, RefsInvCorrect, PTL DEF Spec, DataInv

(* The numbers in the lists and in the messages                            *)

(* Detection k of the radar is in cell k of its list, which is never       *)
(* cleared.                                                                *)
RadarNumbers == /\ Len(cells[Radar]) = made[Radar]
                /\ \A k \in 1 .. Len(cells[Radar]) : cells[Radar][k] = k

(* The video list is empty only while its next frame is being made.        *)
VideoShown == cells[Video] # << >> /\ sensor[Video] \notin {"store", "count"}
                => count[Video] = 1

(* A video message is no newer than the frames made, and older once the    *)
(* next one is in the buffer.                                              *)
Behind(p) == /\ p[1] <= made[Video]
             /\ sensor[Video] = "count" => p[1] < made[Video]

QueueBehind == \A k \in 1 .. Len(fifo) : fifo[k] = Video => Behind(packets[k])

InHand == main \in {"ingest", "use", "release"} /\ out[Main] = Video

HandBehind == InHand => Behind(packet)

(* What is missing from a message was cleared for the next frame.          *)
Overtaken == main = "release" /\ out[Main] = Video /\ got = << >> =>
               packet[1] < made[Video] \/ sensor[Video] = "store"

OneFrame == InHand => Len(got) <= 1

NumbersInv == /\ RadarNumbers /\ VideoShown /\ QueueBehind /\ HandBehind
              /\ Overtaken /\ OneFrame

LEMMA NumbersInit == Init => NumbersInv
<1> SUFFICES ASSUME Init PROVE NumbersInv
  OBVIOUS
<1>1. /\ cells = [s \in Sensors |-> << >>] /\ made = [s \in Sensors |-> 0]
      /\ main = "loop" /\ fifo = << >>
  BY DEF Init, Q!Init
<1>2. Len(<< >>) = 0 /\ 1 .. 0 = {}
  OBVIOUS
<1>3. cells[Video] = << >> /\ cells[Radar] = << >> /\ made[Radar] = 0
  BY <1>1, SensorFacts
<1>4. QED
  BY <1>1, <1>2, <1>3
  DEF NumbersInv, RadarNumbers, VideoShown, QueueBehind, HandBehind,
      Overtaken, OneFrame, InHand

(* What a sensor's step does to the numbers.                               *)
Numbered == /\ RadarNumbers' /\ VideoShown'
            /\ made[Video] <= made'[Video]
            /\ sensor'[Video] = "count" /\ sensor[Video] # "count"
                 => made[Video] < made'[Video]
            /\ sensor[Video] = "store" /\ sensor'[Video] # "store"
                 => made[Video] < made'[Video]

LEMMA NumberedStore ==
  ASSUME QuietInv, ListInv, NumbersInv, NEW s \in Sensors, Store(s)
  PROVE  Numbered
<1> DEFINE c == cells[s]
           d == made[s] + 1
           w == SubSeq(c, 1, count[s]) \o <<d>>
<1>1. /\ sensor[s] = "store" /\ count' = count
      /\ made' = [made EXCEPT ![s] = @ + 1]
      /\ sensor' = [sensor EXCEPT ![s] = "count"]
      /\ cells' = [cells EXCEPT ![s] = SubSeq(@, 1, count[s]) \o <<made'[s]>>]
  BY DEF Store, SensorGoto
<1>2. sensor \in [Sensors -> SensorPlaces]
  BY DEF QuietInv, Places
<1>3. /\ sensor'[s] = "count"
      /\ \A u \in Sensors \ {s} : sensor'[u] = sensor[u]
  BY <1>1, <1>2
<1>4. /\ made \in [Sensors -> Detections] /\ count[s] \in Nat
      /\ cells \in [Sensors -> Seq(Detections)]
      /\ made[s] < MaxDetections /\ count[s] <= Len(cells[s])
  BY <1>1 DEF ListInv, ListTypes, Filling
<1>5. d \in Detections /\ made[s] < d /\ made[s] \in Nat
  BY <1>4, SensorFacts
<1>6. made'[s] = d /\ \A u \in Sensors \ {s} : made'[u] = made[u]
  BY <1>1, <1>4
<1>7. cells'[s] = w /\ \A u \in Sensors \ {s} : cells'[u] = cells[u]
  BY <1>1, <1>4, <1>6
<1>8. /\ Len(w) = count[s] + 1 /\ w[count[s] + 1] = d
      /\ \A i \in 1 .. count[s] : w[i] = c[i]
  <2>1. c \in Seq(Detections) /\ count[s] \in Nat /\ count[s] <= Len(c)
    BY <1>4
  <2>2. \A n \in Nat : n <= Len(c) /\ w = SubSeq(c, 1, n) \o <<d>> =>
          /\ Len(w) = n + 1 /\ w[n + 1] = d
          /\ \A i \in 1 .. n : w[i] = c[i]
    <3> HIDE DEF w
    <3>1. QED
      BY <2>1, <1>5, Stored
  <2>3. w = SubSeq(c, 1, count[s]) \o <<d>>
    OBVIOUS
  <2> HIDE DEF c, d, w
  <2>4. QED
    BY <2>1, <2>2, <2>3
<1> HIDE DEF w
<1>9. CASE s = Radar
  <2>1. /\ cells'[Video] = cells[Video] /\ sensor'[Video] = sensor[Video]
        /\ made'[Video] = made[Video] /\ made[Video] \in Nat
    BY <1>3, <1>4, <1>6, <1>7, <1>9, SensorFacts
  <2>2. VideoShown'
    BY <2>1, <1>1 DEF NumbersInv, VideoShown
  <2>3. count[s] = Len(c) /\ Len(c) = made[s]
        /\ \A k \in 1 .. count[s] : c[k] = k
    BY <1>1, <1>9 DEF ListInv, RadarList, NumbersInv, RadarNumbers
  <2>4. Len(cells'[Radar]) = made'[Radar]
    BY <2>3, <1>6, <1>7, <1>8, <1>9
  <2>5. ASSUME NEW k \in 1 .. Len(cells'[Radar])
        PROVE  cells'[Radar][k] = k
    <3>1. k \in 1 .. count[s] \/ k = count[s] + 1
      BY <1>4, <1>7, <1>8, <1>9
    <3>2. w[k] = k
      BY <3>1, <2>3, <1>8
    <3>3. QED
      BY <3>2, <1>7, <1>9
  <2>6. RadarNumbers'
    BY <2>4, <2>5 DEF RadarNumbers
  <2>7. QED
    BY <2>1, <2>2, <2>6 DEF Numbered
<1>10. CASE s = Video
  <2>1. cells'[Radar] = cells[Radar] /\ made'[Radar] = made[Radar]
    BY <1>6, <1>7, <1>10, SensorFacts
  <2>2. RadarNumbers'
    BY <2>1 DEF NumbersInv, RadarNumbers
  <2>3. VideoShown'
    BY <1>3, <1>10 DEF VideoShown
  <2>4. made[Video] < made'[Video] /\ made[Video] <= made'[Video]
    BY <1>5, <1>6, <1>10
  <2>5. QED
    BY <2>2, <2>3, <2>4 DEF Numbered
<1>11. QED
  BY <1>9, <1>10, SensorFacts

LEMMA NumberedSensor ==
  ASSUME QuietInv, ListInv, NumbersInv, NEW s \in Sensors, SensorStep(s)
  PROVE  Numbered
<1>1. CASE Store(s)
  BY <1>1, NumberedStore
<1>2. CASE ~Store(s)
  <2>1. UNCHANGED <<cells, made>>
    BY <1>2 DEF SensorStep, lists, Detect, Exit, LockCtx, Clear, Grow, Count,
                Push, PushOk, PushFails, UnlockCtx
  <2>2. RadarNumbers'
    BY <2>1 DEF NumbersInv, RadarNumbers
  <2>3. made[Video] \in Nat
    BY SensorFacts DEF ListInv, ListTypes
  <2>4. sensor \in [Sensors -> SensorPlaces]
    BY DEF QuietInv, Places
  <2>5. /\ sensor'[Video] = "count" => sensor[Video] = "count"
        /\ sensor[Video] = "store" => sensor'[Video] = "store"
    BY <1>2, <2>4, SensorFacts
    DEF SensorStep, SensorGoto, Detect, Exit, LockCtx, Clear, Grow, Count,
        Push, PushOk, PushFails, UnlockCtx
  <2>6. VideoShown'
    <3>1. count \in [Sensors -> Nat]
      BY DEF ListInv, ListTypes
    <3>2. CASE Count(s) /\ s = Video
      <4>1. count[Video] = 0
        BY <3>2 DEF Count, ListInv, VideoList
      <4>2. count'[Video] = 1
        BY <4>1, <3>1, <3>2, SensorFacts DEF Count
      <4>3. QED
        BY <4>2 DEF VideoShown
    <3>3. CASE Clear(s) /\ s = Video
      <4>1. sensor'[Video] = "store"
        BY <3>3, <2>4, SensorFacts DEF Clear, SensorGoto
      <4>2. QED
        BY <4>1 DEF VideoShown
    <3>4. CASE ~(Count(s) /\ s = Video) /\ ~(Clear(s) /\ s = Video)
      <4>1. count'[Video] = count[Video]
        BY <1>2, <3>1, <3>4, SensorFacts
        DEF SensorStep, lists, Detect, Exit, LockCtx, Clear, Grow, Count,
            Push, PushOk, PushFails, UnlockCtx
      <4>2. sensor[Video] \in {"store", "count"} =>
              sensor'[Video] \in {"store", "count"}
        BY <1>2, <2>4, <3>4, SensorFacts
        DEF SensorStep, SensorGoto, Detect, Exit, LockCtx, Clear, Grow, Count,
            Push, PushOk, PushFails, UnlockCtx
      <4>3. QED
        BY <4>1, <4>2, <2>1 DEF NumbersInv, VideoShown
    <3>5. QED
      BY <3>2, <3>3, <3>4
  <2>7. QED
    BY <2>1, <2>2, <2>3, <2>5, <2>6 DEF Numbered
<1>3. QED
  BY <1>1, <1>2

LEMMA NumbersSensor ==
  ASSUME DataInv, DataInv', NumbersInv, NEW s \in Sensors, SensorStep(s)
  PROVE  NumbersInv'
<1>1. /\ QuietInv /\ Messages /\ ListInv /\ ListInv' /\ PacketsInv /\ ReadInv
  BY DEF DataInv, RefsInv
<1>2. Numbered
  BY <1>1, NumberedSensor
<1>3. UNCHANGED <<main, index, got, packet>> /\ out' = out
  BY DEF SensorStep, queue, reading, history, Detect, Exit, LockCtx, Clear,
         Grow, Store, Count, Push, Q!CallPush, PushOk, Q!PushOk, PushFails,
         Q!PushFails, UnlockCtx
<1>4. QueueBehind'
  <2>1. CASE PushOk(s)
    <3> DEFINE q == SubSeq(cells[s], 1, count[s])
               n == Len(fifo)
    <3>1. /\ fifo' = Append(fifo, arg[s]) /\ packets' = Append(packets, q)
          /\ sensor[s] = "pushing"
          /\ sensor' = [sensor EXCEPT ![s] = "unlock"]
          /\ UNCHANGED <<cells, count, made>>
      BY <2>1 DEF PushOk, Q!PushOk, lists, SensorGoto
    <3>2. arg[s] = s
      BY <1>1, <3>1 DEF Messages
    <3>3. /\ fifo \in Seq(Sensors) /\ packets \in Seq(Seq(Detections))
          /\ n \in Nat /\ n = Len(packets)
      BY <1>1 DEF Messages, PacketsInv
    <3>4. q \in Seq(Detections) /\ Shown(s, q, cells, count)
      BY <1>1, <3>1, PushedShown
    <3> HIDE DEF q, n
    <3>5. /\ Len(fifo') = n + 1 /\ fifo'[n + 1] = s
          /\ \A k \in 1 .. n : fifo'[k] = fifo[k]
      BY <3>1, <3>2, <3>3, AppendProperties DEF n
    <3>6. /\ packets'[n + 1] = q
          /\ \A k \in 1 .. n : packets'[k] = packets[k]
      BY <3>1, <3>3, <3>4, AppendProperties
    <3>7. ASSUME NEW k \in 1 .. Len(fifo'), fifo'[k] = Video
          PROVE  /\ packets'[k][1] <= made'[Video]
                 /\ sensor'[Video] = "count" =>
                      packets'[k][1] < made'[Video]
      <4>1. CASE k = n + 1
        <5>1. s = Video
          BY <4>1, <3>5, <3>7
        <5>2. /\ Len(q) = 1 /\ q[1] <= cells[Video][1]
              /\ Len(cells[Video]) >= 1
          BY <5>1, <3>4 DEF Shown
        <5>3. cells[Video] # << >> /\ cells[Video] \in Seq(Detections)
          BY <1>1, <5>2, SensorFacts DEF ListInv, ListTypes
        <5>4. cells[Video][1] <= made[Video] /\ made[Video] \in Nat
          BY <1>1, <5>3, SensorFacts DEF ListInv, VideoList, ListTypes
        <5>5. cells[Video][1] \in Nat /\ q[1] \in Nat
          BY <5>2, <5>3, <3>4, FirstDetection, OnlyDetection
        <5>6. sensor'[Video] = "unlock"
          BY <5>1, <3>1, <1>1 DEF QuietInv, Places
        <5>7. q[1] <= made'[Video]
          BY <5>2, <5>4, <5>5, <3>1
        <5>8. packets'[k] = q
          BY <4>1, <3>6
        <5>9. QED
          BY <5>6, <5>7, <5>8
      <4>2. CASE k \in 1 .. n
        <5>1. fifo[k] = Video /\ packets'[k] = packets[k]
          BY <4>2, <3>5, <3>6, <3>7
        <5>2. Behind(packets[k]) /\ Shown(fifo[k], packets[k], cells, count)
          BY <1>1, <4>2, <5>1 DEF NumbersInv, QueueBehind, PacketsInv, n
        <5>3. packets[k] \in Seq(Detections) /\ Len(packets[k]) = 1
          BY <5>1, <5>2, <4>2, <3>3 DEF Shown
        <5>4. packets[k][1] \in Nat
          BY <5>3, OnlyDetection
        <5>5. made[Video] \in Nat /\ made'[Video] \in Nat
          BY <1>1, SensorFacts DEF ListInv, ListTypes
        <5>6. QED
          BY <5>1, <5>2, <5>4, <5>5, <1>2 DEF Numbered, Behind
      <4>3. QED
        BY <4>1, <4>2, <3>3, <3>5, <3>7
    <3>8. QED
      BY <3>7 DEF QueueBehind, Behind
  <2>2. CASE ~PushOk(s)
    <3>1. UNCHANGED <<fifo, packets>>
      BY <2>2 DEF SensorStep, queue, history, Detect, Exit, LockCtx, Clear,
                  Grow, Store, Count, Push, Q!CallPush, PushFails,
                  Q!PushFails, UnlockCtx
    <3>2. ASSUME NEW k \in 1 .. Len(fifo), fifo[k] = Video
          PROVE  /\ packets[k][1] <= made'[Video]
                 /\ sensor'[Video] = "count" => packets[k][1] < made'[Video]
      <4>1. Behind(packets[k]) /\ Shown(fifo[k], packets[k], cells, count)
        BY <1>1, <3>2 DEF NumbersInv, QueueBehind, PacketsInv
      <4>2. packets \in Seq(Seq(Detections)) /\ Len(packets) = Len(fifo)
        BY <1>1 DEF PacketsInv
      <4>3. packets[k] \in Seq(Detections) /\ Len(packets[k]) = 1
        BY <4>1, <4>2, <3>2 DEF Shown
      <4>4. packets[k][1] \in Nat
        BY <4>3, OnlyDetection
      <4>5. made[Video] \in Nat /\ made'[Video] \in Nat
        BY <1>1, SensorFacts DEF ListInv, ListTypes
      <4>6. QED
        BY <4>1, <4>4, <4>5, <1>2 DEF Numbered, Behind
    <3>3. QED
      BY <3>1, <3>2 DEF QueueBehind, Behind
  <2>3. QED
    BY <2>1, <2>2
<1>5. ASSUME InHand
      PROVE  /\ packet \in Seq(Detections) /\ Len(packet) = 1
             /\ Behind(packet) /\ Behind(packet)'
  <2>1. Shown(out[Main], packet, cells, count) /\ packet \in Seq(Detections)
    BY <1>1, <1>5 DEF InHand, ReadInv, ReadSoFar, ReadTypes
  <2>2. Len(packet) = 1
    BY <2>1, <1>5 DEF InHand, Shown
  <2>3. Behind(packet)
    BY <1>5 DEF NumbersInv, HandBehind
  <2>4. packet[1] \in Nat /\ made[Video] \in Nat /\ made'[Video] \in Nat
    BY <1>1, <2>1, <2>2, OnlyDetection, SensorFacts DEF ListInv, ListTypes
  <2>5. Behind(packet)'
    BY <2>3, <2>4, <1>2, <1>3 DEF Numbered, Behind
  <2>6. QED
    BY <2>1, <2>2, <2>3, <2>5
<1>6. HandBehind' /\ OneFrame'
  BY <1>3, <1>5 DEF NumbersInv, HandBehind, OneFrame, InHand
<1>7. Overtaken'
  <2>1. SUFFICES ASSUME main = "release", out[Main] = Video, got = << >>
                 PROVE  packet[1] < made'[Video] \/ sensor'[Video] = "store"
    BY <1>3 DEF Overtaken
  <2>2. packet[1] < made[Video] \/ sensor[Video] = "store"
    BY <2>1 DEF NumbersInv, Overtaken
  <2>3. Behind(packet) /\ packet \in Seq(Detections) /\ Len(packet) = 1
    BY <2>1, <1>5 DEF InHand
  <2>4. packet[1] \in Nat /\ made[Video] \in Nat /\ made'[Video] \in Nat
    BY <1>1, <2>3, OnlyDetection, SensorFacts DEF ListInv, ListTypes
  <2>5. QED
    BY <2>2, <2>3, <2>4, <1>2 DEF Numbered, Behind
<1>8. QED
  BY <1>2, <1>4, <1>6, <1>7 DEF NumbersInv, Numbered

LEMMA NumbersMain ==
  ASSUME DataInv, NumbersInv, MainStep \/ Signal \/ UNCHANGED vars
  PROVE  NumbersInv'
<1>1. /\ QuietInv /\ Messages /\ ListInv /\ PacketsInv /\ ReadInv
  BY DEF DataInv, RefsInv
<1>2. UNCHANGED <<cells, count, made, sensor>>
  BY DEF MainStep, Signal, vars, lists, Poll, Popped, TimedOut, Pick, Use,
         Ingested, Release, LeaveLoop, StopFlag, StopWake, Join, Drop,
         CloseQueue
<1>3. RadarNumbers' /\ VideoShown'
  BY <1>2 DEF NumbersInv, RadarNumbers, VideoShown
<1>4. QueueBehind'
  <2>1. CASE Popped
    <3>1. /\ fifo # << >> /\ fifo' = Tail(fifo) /\ packets' = Tail(packets)
      BY <2>1 DEF Popped, Q!PopOk
    <3>2. /\ fifo \in Seq(Sensors) /\ packets \in Seq(Seq(Detections))
          /\ Len(packets) = Len(fifo) /\ packets # << >>
          /\ Len(fifo) \in Nat \ {0}
      BY <1>1, <3>1 DEF Messages, PacketsInv
    <3>3. /\ Len(fifo') = Len(fifo) - 1
          /\ \A k \in 1 .. Len(fifo) - 1 : fifo'[k] = fifo[k + 1]
      BY <3>1, <3>2, HeadTailProperties
    <3>4. \A k \in 1 .. Len(packets) - 1 : packets'[k] = packets[k + 1]
      BY <3>1, <3>2, HeadTailProperties
    <3>5. \A k \in 1 .. Len(fifo') : /\ fifo'[k] = fifo[k + 1]
                                     /\ packets'[k] = packets[k + 1]
                                     /\ k + 1 \in 1 .. Len(fifo)
      BY <3>2, <3>3, <3>4
    <3>6. QED
      BY <3>5, <1>2 DEF NumbersInv, QueueBehind, Behind
  <2>2. CASE CloseQueue
    <3>1. fifo' = << >>
      BY <2>2 DEF CloseQueue, Q!Close
    <3>2. Len(<< >>) = 0 /\ 1 .. 0 = {}
      OBVIOUS
    <3>3. QED
      BY <3>1, <3>2 DEF QueueBehind
  <2>3. CASE ~Popped /\ ~CloseQueue
    <3>1. UNCHANGED <<fifo, packets>>
      BY <2>3 DEF MainStep, Signal, vars, queue, history, Poll, Q!CallPop,
                  TimedOut, Q!PopFails, Pick, Use, Ingested, Release,
                  Q!Consume, LeaveLoop, StopFlag, StopWake, Join, Drop
    <3>2. QED
      BY <3>1, <1>2 DEF NumbersInv, QueueBehind, Behind
  <2>4. QED
    BY <2>1, <2>2, <2>3
<1>5. CASE Popped
  <2>1. /\ fifo # << >> /\ out'[Main] = Head(fifo) /\ main' = "ingest"
        /\ got' = << >> /\ packet' = Head(packets)
    BY <1>1, <1>5 DEF Popped, Q!PopOk, Messages
  <2>2. /\ fifo \in Seq(Sensors) /\ packets \in Seq(Seq(Detections))
        /\ Len(packets) = Len(fifo) /\ Len(fifo) \in Nat \ {0}
    BY <1>1, <2>1 DEF Messages, PacketsInv
  <2>3. Head(fifo) = fifo[1] /\ Head(packets) = packets[1]
        /\ 1 \in 1 .. Len(fifo)
    BY <2>1, <2>2
  <2>4. fifo[1] = Video => Behind(packets[1])
    BY <2>3 DEF NumbersInv, QueueBehind
  <2>5. HandBehind'
    BY <2>1, <2>3, <2>4, <1>2 DEF HandBehind, InHand, Behind
  <2>6. Overtaken'
    BY <2>1 DEF Overtaken
  <2>7. OneFrame'
    BY <2>1 DEF OneFrame
  <2>8. QED
    BY <2>5, <2>6, <2>7, <1>3, <1>4 DEF NumbersInv
<1>6. CASE Use
  <2>1. /\ main = "use" /\ main' = "ingest" /\ index' = index + 1
        /\ out' = out /\ packet' = packet
    BY <1>6 DEF Use, queue, history
  <2>2. PICK track \in Readable : got' = Append(got, track)
    BY <1>6 DEF Use
  <2>3. HandBehind'
    BY <2>1, <1>2 DEF NumbersInv, HandBehind, InHand, Behind
  <2>4. ASSUME out[Main] = Video PROVE Len(got') <= 1
    <3>1. /\ Len(got) = index /\ index < Len(cells[Video]) /\ index \in Nat
          /\ got \in Seq(Detections)
      BY <1>1, <2>1, <2>4 DEF ReadInv, ReadSoFar, InBuffer, ReadTypes
    <3>2. Len(cells[Video]) <= 1 /\ Len(cells[Video]) \in Nat
      BY <1>1, SensorFacts DEF ListInv, VideoList, ListTypes
    <3>3. Len(got) = 0
      BY <3>1, <3>2
    <3>4. Len(Append(got, track)) = Len(got) + 1
      BY <3>1
    <3>5. QED
      BY <3>3, <3>4, <2>2
  <2>5. OneFrame'
    BY <2>1, <2>4 DEF OneFrame, InHand
  <2>6. Overtaken'
    BY <2>1 DEF Overtaken
  <2>7. QED
    BY <2>3, <2>5, <2>6, <1>3, <1>4 DEF NumbersInv
<1>7. CASE Ingested
  <2>1. /\ main = "ingest" /\ main' = "release" /\ index >= count[out[Main]]
        /\ UNCHANGED <<out, index, got, packet>>
    BY <1>7 DEF Ingested, queue, reading, history
  <2>2. HandBehind' /\ OneFrame'
    BY <2>1, <1>2 DEF NumbersInv, HandBehind, OneFrame, InHand, Behind
  <2>3. ASSUME out[Main] = Video, got = << >>
        PROVE  packet[1] < made[Video] \/ sensor[Video] = "store"
    <3>1. /\ Shown(Video, packet, cells, count) /\ Len(got) = index
      BY <1>1, <2>1, <2>3 DEF ReadInv, ReadSoFar
    <3>2. Len(<< >>) = 0
      OBVIOUS
    <3>3. index = 0 /\ count[Video] \in Nat /\ count[Video] <= index
      BY <1>1, <2>1, <2>3, <3>1, <3>2, SensorFacts DEF ListInv, ListTypes
    <3>4. count[Video] # 1
      BY <3>3
    <3>5. cells[Video] # << >>
      BY <3>1, <3>2 DEF Shown
    <3>6. sensor[Video] \in {"store", "count"}
      BY <3>4, <3>5 DEF NumbersInv, VideoShown
    <3>7. sensor[Video] = "count" => packet[1] < made[Video]
      BY <2>1, <2>3 DEF NumbersInv, HandBehind, InHand, Behind
    <3>8. QED
      BY <3>6, <3>7
  <2>4. Overtaken'
    BY <2>1, <2>3, <1>2 DEF Overtaken
  <2>5. QED
    BY <2>2, <2>4, <1>3, <1>4 DEF NumbersInv
<1>8. CASE Pick
  <2>1. main = "ingest" /\ main' = "use" /\ UNCHANGED <<out, got, packet>>
    BY <1>8 DEF Pick, queue, history
  <2>2. QED
    BY <2>1, <1>2, <1>3, <1>4
    DEF NumbersInv, HandBehind, OneFrame, InHand, Behind, Overtaken
<1>9. CASE Signal \/ UNCHANGED vars
  <2>1. UNCHANGED <<main, out, got, packet>>
    BY <1>9 DEF Signal, vars, queue, reading, history
  <2>2. QED
    BY <2>1, <1>2, <1>3, <1>4
    DEF NumbersInv, HandBehind, OneFrame, InHand, Behind, Overtaken
<1>10. CASE ~(Popped \/ Pick \/ Use \/ Ingested \/ Signal \/ UNCHANGED vars)
  <2>1. main' \notin {"ingest", "use", "release"}
    BY <1>10 DEF MainStep, Poll, TimedOut, Release, LeaveLoop, StopFlag,
                 StopWake, Join, Drop, CloseQueue
  <2>2. QED
    BY <2>1, <1>3, <1>4 DEF NumbersInv, HandBehind, OneFrame, InHand, Overtaken
<1>11. QED
  BY <1>5, <1>6, <1>7, <1>8, <1>9, <1>10

LEMMA NumbersInvCorrect == Spec => [](DataInv /\ NumbersInv)
<1>1. DataInv /\ DataInv' /\ NumbersInv /\ [Next]_vars => NumbersInv'
  BY NumbersSensor, NumbersMain DEF Next, Done
<1>2. QED
  BY <1>1, NumbersInit, DataInvCorrect, PTL DEF Spec

LEMMA OfBounded ==
  ASSUME NEW f \in Seq(Sensors), NEW s
  PROVE  Cardinality(Of(f, s)) \in 0 .. Len(f)
<1>1. IsFiniteSet(1 .. Len(f)) /\ Cardinality(1 .. Len(f)) = Len(f)
  <2>1. \A n \in Nat : IsFiniteSet(1 .. n) /\ Cardinality(1 .. n) = n
    <3>1. TAKE n \in Nat
    <3>2. 1 \in Int /\ n \in Int
      OBVIOUS
    <3>3. /\ IsFiniteSet(1 .. n)
          /\ Cardinality(1 .. n) = IF 1 > n THEN 0 ELSE n - 1 + 1
      BY <3>2, FS_Interval
    <3>4. QED
      BY <3>3
  <2>2. Len(f) \in Nat
    OBVIOUS
  <2>3. QED
    BY <2>1, <2>2
<1>2. Of(f, s) \subseteq 1 .. Len(f)
  BY DEF Of
<1>3. Cardinality(Of(f, s)) <= Cardinality(1 .. Len(f))
  BY <1>1, <1>2, FS_Subset
<1>4. QED
  BY <1>1, <1>3, OfFinite

(* The types: in particular a list never has more references than the      *)
(* queue has slots and two more, and the radar list never more tracks than *)
(* it has room for.                                                        *)
THEOREM PipelineTypeCorrect == Spec => []TypeOK
<1>1. DataInv => TypeOK
  <2> SUFFICES ASSUME DataInv PROVE TypeOK
    OBVIOUS
  <2>1. QuietInv /\ Messages /\ Balance /\ ListInv /\ PacketsInv /\ ReadInv
        /\ JoinInv
    BY DEF DataInv, RefsInv
  <2>2. /\ calling \subseteq Sensors \cup {Main}
        /\ sensor \in [Sensors -> SensorPlaces]
        /\ main \in MainPlaces /\ target \in Sensors
    BY <2>1 DEF QuietInv, Places
  <2>3. /\ fifo \in Seq(Sensors) /\ out[Main] \in Sensors \cup {Null}
        /\ Len(fifo) <= Capacity /\ Len(packets) = Len(fifo)
    BY <2>1 DEF Messages, PacketsInv
  <2>4. /\ cells \in [Sensors -> Seq(Detections)]
        /\ made \in [Sensors -> Detections]
    BY <2>1 DEF ListInv, ListTypes
  <2>5. \A s \in Sensors : count[s] \in 0 .. Len(cells[s])
                           /\ Len(cells[s]) <= room[s]
    BY <2>1 DEF ListInv, ListTypes, Filling
  <2>6. ASSUME NEW s \in Sensors PROVE refs[s] \in 0 .. Capacity + 2
    <3>1. refs[s] = Owned(s) + Cardinality(Of(fifo, s)) + Hand(s)
      BY <2>1 DEF Balance
    <3>2. Owned(s) \in {0, 1} /\ Hand(s) \in {0, 1}
      BY OwnedType DEF Hand
    <3>3. Cardinality(Of(fifo, s)) \in 0 .. Len(fifo) /\ Len(fifo) \in Nat
      BY <2>3, OfBounded
    <3>4. QED
      BY <3>1, <3>2, <3>3, <2>3, PipelineAssumption
  <2>7. got \in Seq(Detections)
    BY <2>1 DEF ReadInv, ReadTypes
  <2>8. /\ joins \in [Sensors -> 0 .. 2] /\ on \in [Sensors -> BOOLEAN]
        /\ running \in BOOLEAN /\ open \in BOOLEAN
    BY <2>1 DEF JoinInv
  <2>9. QED
    BY <2>2, <2>3, <2>4, <2>5, <2>6, <2>7, <2>8 DEF TypeOK
<1>2. QED
  BY <1>1, DataInvCorrect, PTL

(* A video message yields its frame or a later one, or nothing when the    *)
(* next frame has been begun; a radar message every detection since the    *)
(* start once, those pushed with it included: although the list is shared  *)
(* with a thread that goes on clearing, storing and reallocating.          *)
THEOREM NothingStaleCorrect == Spec => []NothingStale
<1>1. DataInv /\ NumbersInv => NothingStale
  <2> SUFFICES ASSUME DataInv, NumbersInv, main = "release"
               PROVE  /\ out[Main] = Video =>
                           \/ Len(got) = 1 /\ got[1] >= packet[1]
                           \/ /\ got = << >>
                              /\ \/ made[Video] > packet[1]
                                 \/ sensor[Video] = "store"
                      /\ out[Main] = Radar =>
                           /\ Len(got) \in Len(packet) .. made[Radar]
                           /\ \A i \in DOMAIN got : got[i] \in {i, Garbage}
    BY DEF NothingStale
  <2>1. ReadTypes /\ ReadSoFar /\ ReadAll /\ ListInv
    BY DEF DataInv, ReadInv
  <2>2. /\ DOMAIN got = 1 .. Len(got) /\ got \in Seq(Detections)
        /\ Len(got) \in Nat /\ Len(packet) \in Nat
        /\ packet \in Seq(Detections)
    BY <2>1 DEF ReadTypes
  <2>3. /\ Shown(out[Main], packet, cells, count)
        /\ out[Main] = Video => \A i \in 1 .. Len(got) : got[i] >= packet[1]
        /\ out[Main] = Radar =>
             /\ Len(got) <= Len(cells[Radar])
             /\ \A i \in 1 .. Len(got) : got[i] \in {cells[Radar][i], Garbage}
    BY <2>1 DEF ReadSoFar
  <2>4. ASSUME out[Main] = Video, got # << >>
        PROVE  Len(got) = 1 /\ got[1] >= packet[1]
    <3>1. Len(got) <= 1
      BY <2>4 DEF NumbersInv, OneFrame, InHand
    <3>2. Len(got) = 1
      BY <3>1, <2>2, <2>4, EmptySeq
    <3>3. QED
      BY <3>2, <2>3, <2>4
  <2>5. ASSUME out[Main] = Video, got = << >>
        PROVE  made[Video] > packet[1] \/ sensor[Video] = "store"
    <3>1. packet[1] < made[Video] \/ sensor[Video] = "store"
      BY <2>5 DEF NumbersInv, Overtaken
    <3>2. Len(packet) = 1
      BY <2>3, <2>5 DEF Shown
    <3>3. packet[1] \in Nat /\ made[Video] \in Nat
      BY <2>1, <2>2, <3>2, OnlyDetection, SensorFacts DEF ListInv, ListTypes
    <3>4. QED
      BY <3>1, <3>3
  <2>6. ASSUME out[Main] = Radar
        PROVE  /\ Len(got) \in Len(packet) .. made[Radar]
               /\ \A i \in DOMAIN got : got[i] \in {i, Garbage}
    <3>1. Len(packet) <= Len(got)
      BY <2>1, <2>6 DEF ReadAll
    <3>2. /\ Len(cells[Radar]) = made[Radar]
          /\ \A k \in 1 .. Len(cells[Radar]) : cells[Radar][k] = k
      BY DEF NumbersInv, RadarNumbers
    <3>3. made[Radar] \in Nat
      BY <2>1, SensorFacts DEF ListInv, ListTypes
    <3>4. \A i \in 1 .. Len(got) : i \in 1 .. Len(cells[Radar])
      BY <2>2, <2>3, <2>6, <3>2, <3>3
    <3>5. QED
      BY <3>1, <3>2, <3>3, <3>4, <2>2, <2>3, <2>6
  <2>7. QED
    BY <2>4, <2>5, <2>6
<1>2. QED
  BY <1>1, NumbersInvCorrect, PTL

-----------------------------------------------------------------------------
(* The guards of BoundedFifo, which queue.c does not test                  *)

(* Whoever is about to call the queue, or is inside a call, finds it       *)
(* there, calls it once at a time, and drops its message before the next.  *)
CallsLegal ==
  /\ \A s \in Sensors :
       /\ sensor[s] = "push" => open /\ s \notin calling
       /\ sensor[s] = "pushing" => open /\ arg[s] = s
  /\ main = "loop" => open /\ Main \notin calling /\ out[Main] = Null
  /\ main = "popping" => open
  /\ main = "release" => out[Main] \in Sensors
  /\ main = "close" => open /\ calling = {}

(* The main thread waits only for a thread that it has told to stop.       *)
ToldFirst == main \in {"wake", "join", "drop"} => ~on[target]

CallsInv == /\ open <=> main # "done"
            /\ on \in [Sensors -> BOOLEAN]
            /\ ToldFirst

LEMMA CallsInvInit == Init => CallsInv
  BY DEF Init, Q!Init, CallsInv, ToldFirst

LEMMA CallsInvMain ==
  ASSUME QuietInv, CallsInv, MainStep \/ Signal \/ UNCHANGED vars
  PROVE  CallsInv'
<1>0. target \in Sensors
  BY DEF QuietInv, Places
<1> USE DEF CallsInv, ToldFirst, queue, stopping
<1>1. CASE Poll \/ Popped \/ TimedOut
  BY <1>1 DEF Poll, Q!CallPop, Popped, Q!PopOk, TimedOut, Q!PopFails
<1>2. CASE Pick \/ Use \/ Ingested
  BY <1>2 DEF Pick, Use, Ingested
<1>3. CASE Release \/ LeaveLoop
  BY <1>3 DEF Release, Q!Consume, LeaveLoop
<1>4. CASE StopFlag
  BY <1>0, <1>4 DEF StopFlag
<1>5. CASE StopWake \/ Join \/ Drop
  BY <1>5 DEF StopWake, Join, Drop
<1>6. CASE CloseQueue
  BY <1>6 DEF CloseQueue, Q!Close
<1>7. CASE Signal \/ UNCHANGED vars
  BY <1>7 DEF Signal, vars
<1>8. QED
  BY <1>1, <1>2, <1>3, <1>4, <1>5, <1>6, <1>7 DEF MainStep

LEMMA CallsInvCorrect == Spec => [](RefsInv /\ CallsInv)
<1>1. ASSUME NEW s \in Sensors, SensorStep(s)
      PROVE  UNCHANGED <<on, open, target, main>>
  BY <1>1 DEF SensorStep, queue, stopping, Detect, Exit, LockCtx, Clear, Grow,
              Store, Count, Push, Q!CallPush, PushOk, Q!PushOk, PushFails,
              Q!PushFails, UnlockCtx
<1>2. RefsInv /\ CallsInv /\ [Next]_vars => CallsInv'
  <2> SUFFICES ASSUME RefsInv, CallsInv, [Next]_vars PROVE CallsInv'
    OBVIOUS
  <2>1. CASE \E s \in Sensors : SensorStep(s)
    BY <1>1, <2>1 DEF CallsInv, ToldFirst
  <2>2. QED
    BY <2>1, CallsInvMain DEF RefsInv, Next, Done
<1>3. QED
  BY <1>2, CallsInvInit, RefsInvCorrect, PTL DEF Spec

(* Every call of the queue is legal where the code makes it: the queue is  *)
(* not destroyed under a push or a pop (main.c:297), and no thread is in   *)
(* two calls.  So the guards of BoundedFifo keep back no step of the code. *)
THEOREM CallsLegalCorrect == Spec => []CallsLegal
<1>1. RefsInv /\ CallsInv => CallsLegal
  <2> SUFFICES ASSUME RefsInv, CallsInv PROVE CallsLegal
    OBVIOUS
  <2>1. /\ calling \subseteq Sensors \cup {Main}
        /\ \A s \in Sensors : s \in calling <=> sensor[s] = "pushing"
        /\ Main \in calling <=> main = "popping"
        /\ main \in {"close", "done"} =>
             \A s \in Sensors : sensor[s] = "exited"
    BY DEF RefsInv, QuietInv, Places, CallsKnown, Stopped
  <2>2. /\ \A s \in Sensors : sensor[s] = "pushing" => arg[s] = s
        /\ out[Main] \in Sensors \cup {Null}
        /\ out[Main] # Null <=> main \in {"ingest", "use", "release"}
    BY DEF RefsInv, Messages
  <2>3. open <=> main # "done"
    BY DEF CallsInv
  <2>4. QED
    BY <2>1, <2>2, <2>3 DEF CallsLegal
<1>2. QED
  BY <1>1, CallsInvCorrect, PTL

(* thread_destroy clears the flag before it takes the mutex of the thread  *)
(* and joins it (thread.c:18): it waits for no thread that may run on.     *)
THEOREM ToldFirstCorrect == Spec => []ToldFirst
<1>1. CallsInv => ToldFirst
  BY DEF CallsInv
<1>2. QED
  BY <1>1, CallsInvCorrect, PTL

(* What the threads and main do to the queue are steps of BoundedFifo,     *)
(* which MecQueue implements.                                              *)
THEOREM QueueSteps == Spec => Q!Spec
<1>1. Init => Q!Init
  BY DEF Init
<1>2. ASSUME Messages, NEW s \in Sensors, SensorStep(s)
      PROVE  Q!Next \/ UNCHANGED queue
  <2>1. CASE Push(s) \/ PushOk(s) \/ PushFails(s)
    BY <2>1 DEF Push, PushOk, PushFails, Q!Next
  <2>2. CASE ~(Push(s) \/ PushOk(s) \/ PushFails(s))
    BY <1>2, <2>2 DEF SensorStep, Detect, Exit, LockCtx, Clear, Grow, Store,
                      Count, UnlockCtx
  <2>3. QED
    BY <2>1, <2>2
<1>3. ASSUME MainStep
      PROVE  Q!Next \/ UNCHANGED queue
  <2>1. CASE Poll
    BY <2>1 DEF Poll, Q!Next, Q!Waits
  <2>2. CASE Popped \/ TimedOut \/ Release \/ CloseQueue
    BY <2>2 DEF Popped, TimedOut, Release, CloseQueue, Q!Next
  <2>3. CASE ~(Poll \/ Popped \/ TimedOut \/ Release \/ CloseQueue)
    BY <1>3, <2>3 DEF MainStep, Pick, Use, Ingested, LeaveLoop, StopFlag,
                      StopWake, Join, Drop
  <2>4. QED
    BY <2>1, <2>2, <2>3
<1>4. RefsInv /\ [Next]_vars => [Q!Next]_(Q!vars)
  <2>1. UNCHANGED vars \/ Signal => UNCHANGED queue
    BY DEF vars, Signal
  <2>2. UNCHANGED queue => UNCHANGED Q!vars
    BY DEF queue, Q!vars
  <2>3. QED
    BY <1>2, <1>3, <2>1, <2>2 DEF RefsInv, Next, Done
<1>5. QED
  BY <1>1, <1>4, RefsInvCorrect, PTL DEF Spec, Q!Spec

-----------------------------------------------------------------------------
(* The safety half of ShutdownCompletes: what is left to do only shrinks   *)

(* The steps a thread that has been told to stop still takes: it finishes  *)
(* the detection in hand, with at most one growth of its list, and leaves  *)
(* at the loop test.                                                       *)
LeftAt(place, full) ==
  CASE place = "exited"  -> 0
    [] place = "check"   -> 1
    [] place = "unlock"  -> 2
    [] place = "pushing" -> 3
    [] place = "push"    -> 4
    [] place = "count"   -> 5
    [] place = "store"   -> IF full THEN 7 ELSE 6
    [] place = "clear"   -> 8
    [] place = "lock"    -> 9

StepsLeft(s) == LeftAt(sensor[s], count[s] >= room[s])

(* The steps the shutdown still takes: flag, wake and join, twice for each *)
(* sensor, its drop, and the queue.                                        *)
StopPlaces == {"flag", "wake", "join", "drop", "close", "done"}

StopsAt(place, sofar) ==
  CASE place = "flag" -> 8 - 3 * sofar
    [] place = "wake" -> 7 - 3 * sofar
    [] place = "join" -> 6 - 3 * sofar
    [] place = "drop" -> 2
    [] place = "close" -> 1
    [] place = "done" -> 0

StopsLeft == StopsAt(main, joins[target]) + (IF target = Video THEN 7 ELSE 0)

WindsDown ==
  \A s \in Sensors : ~on[s] =>
    /\ ~on'[s]
    /\ StepsLeft(s) \in 0 .. 9
    /\ SensorStep(s) => StepsLeft(s)' < StepsLeft(s)
    /\ ~SensorStep(s) => StepsLeft(s)' = StepsLeft(s)

ShutsDown ==
  main \in StopPlaces =>
    /\ main' \in StopPlaces
    /\ StopsLeft \in 0 .. 15
    /\ MainStep => StopsLeft' < StopsLeft
    /\ ~MainStep => StopsLeft' = StopsLeft

LEMMA LeftAtValues ==
  /\ \A full \in BOOLEAN :
       /\ LeftAt("exited", full) = 0
       /\ LeftAt("check", full) = 1
       /\ LeftAt("unlock", full) = 2
       /\ LeftAt("pushing", full) = 3
       /\ LeftAt("push", full) = 4
       /\ LeftAt("count", full) = 5
       /\ LeftAt("store", full) \in {6, 7}
       /\ LeftAt("clear", full) = 8
       /\ LeftAt("lock", full) = 9
  /\ LeftAt("store", TRUE) = 7
  /\ LeftAt("store", FALSE) = 6
  BY DEF LeftAt

LEMMA LeftAtBound ==
  ASSUME NEW place \in SensorPlaces, NEW full \in BOOLEAN
  PROVE  LeftAt(place, full) \in 0 .. 9
<1>1. {0, 1, 2, 3, 4, 5, 6, 7, 8, 9} \subseteq 0 .. 9
  OBVIOUS
<1>2. LeftAt(place, full) \in {0, 1, 2, 3, 4, 5, 6, 7, 8, 9}
  BY Zenon DEF LeftAt, SensorPlaces
<1>3. QED
  BY <1>1, <1>2

(* A step of a thread told to stop takes it closer to its exit.            *)
LEMMA ThreadAdvances ==
  ASSUME ListTypes, Filling, Places, NEW s \in Sensors, ~on[s], SensorStep(s)
  PROVE  StepsLeft(s)' < StepsLeft(s)
<1> DEFINE full == count[s] >= room[s]
           after == count'[s] >= room'[s]
<1>0. /\ full \in BOOLEAN /\ after \in BOOLEAN
      /\ StepsLeft(s) = LeftAt(sensor[s], full)
      /\ StepsLeft(s)' = LeftAt(sensor'[s], after)
  BY DEF StepsLeft
<1>1. ASSUME NEW place \in SensorPlaces, SensorGoto(s, place)
      PROVE  sensor'[s] = place
  BY <1>1 DEF SensorGoto, Places
<1> DEFINE Moves(p, q) == sensor[s] = p /\ sensor'[s] = q
<1> HIDE DEF full, after
<1>2. \/ Moves("check", "exited") \/ Moves("lock", "clear")
      \/ Moves("lock", "store") \/ Moves("clear", "store")
      \/ Moves("count", "push") \/ Moves("push", "pushing")
      \/ Moves("pushing", "unlock") \/ Moves("unlock", "check")
      => StepsLeft(s)' < StepsLeft(s)
  <2>1. CASE Moves("check", "exited") \/ Moves("unlock", "check")
    BY <1>0, <2>1, LeftAtValues
  <2>2. CASE Moves("lock", "clear") \/ Moves("lock", "store")
    BY <1>0, <2>2, LeftAtValues
  <2>3. CASE Moves("clear", "store")
    BY <1>0, <2>3, LeftAtValues
  <2>4. CASE \/ Moves("count", "push") \/ Moves("push", "pushing")
             \/ Moves("pushing", "unlock")
    BY <1>0, <2>4, LeftAtValues
  <2>5. QED
    BY <2>1, <2>2, <2>3, <2>4
<1>3. ~Detect(s)
  BY DEF Detect
<1>4. CASE Exit(s) \/ LockCtx(s)
  BY <1>2, <1>1, <1>4 DEF Exit, LockCtx, SensorPlaces
<1>5. CASE Clear(s) \/ Count(s) \/ Push(s) \/ UnlockCtx(s)
  BY <1>2, <1>1, <1>5 DEF Clear, Count, Push, UnlockCtx, SensorPlaces
<1>6. CASE PushOk(s) \/ PushFails(s)
  BY <1>2, <1>1, <1>6 DEF PushOk, PushFails, SensorPlaces
<1>7. CASE Grow(s)
  <2>1. /\ sensor[s] = "store" /\ sensor' = sensor /\ count' = count
        /\ count[s] >= room[s] /\ room' = [room EXCEPT ![s] = 2 * @]
    BY <1>7 DEF Grow
  <2>2. /\ count[s] \in Nat /\ Len(cells[s]) \in Nat
        /\ room[s] \in Nat \ {0}
        /\ count[s] <= Len(cells[s]) /\ Len(cells[s]) <= room[s]
    BY DEF ListTypes, Filling
  <2>3. room'[s] = 2 * room[s]
    BY <2>1 DEF ListTypes
  <2>4. count'[s] = count[s]
    BY <2>1
  <2>5. full = TRUE
    BY <2>1 DEF full
  <2>6. after = FALSE
    BY <2>2, <2>3, <2>4 DEF after
  <2>7. sensor[s] = "store" /\ sensor'[s] = "store"
    BY <2>1
  <2>8. StepsLeft(s) = 7 /\ StepsLeft(s)' = 6
    BY <2>5, <2>6, <2>7, <1>0, LeftAtValues
  <2>9. QED
    BY <2>8
<1>8. CASE Store(s)
  <2>1. sensor[s] = "store" /\ SensorGoto(s, "count")
    BY <1>8 DEF Store
  <2>2. sensor'[s] = "count"
    BY <1>1, <2>1 DEF SensorPlaces
  <2>3. StepsLeft(s)' = 5 /\ StepsLeft(s) \in {6, 7}
    BY <1>0, <2>1, <2>2, LeftAtValues
  <2>4. QED
    BY <2>3
<1>9. QED
  BY <1>3, <1>4, <1>5, <1>6, <1>7, <1>8 DEF SensorStep

(* What a thread does leaves the others where they are.                    *)
LEMMA OthersStay ==
  ASSUME ListTypes, Places, [Next]_vars, NEW s \in Sensors, ~SensorStep(s)
  PROVE  sensor'[s] = sensor[s] /\ count'[s] = count[s] /\ room'[s] = room[s]
<1>1. CASE \E u \in Sensors : SensorStep(u)
  <2>1. PICK u \in Sensors \ {s} : SensorStep(u)
    BY <1>1
  <2>2. \/ sensor' = sensor
        \/ \E place : sensor' = [sensor EXCEPT ![u] = place]
    BY <2>1
    DEF SensorStep, SensorGoto, Detect, Exit, LockCtx, Clear, Grow, Store,
        Count, Push, PushOk, PushFails, UnlockCtx
  <2>3. /\ count' = count \/ \E n : count' = [count EXCEPT ![u] = n]
        /\ room' = room \/ \E n : room' = [room EXCEPT ![u] = n]
    BY <2>1
    DEF SensorStep, lists, Detect, Exit, LockCtx, Clear, Grow, Store, Count,
        Push, PushOk, PushFails, UnlockCtx
  <2>4. QED
    BY <2>2, <2>3 DEF ListTypes, Places
<1>2. CASE MainStep
  BY <1>2
  DEF MainStep, lists, Poll, Popped, TimedOut, Pick, Use, Ingested, Release,
      LeaveLoop, StopFlag, StopWake, Join, Drop, CloseQueue
<1>3. CASE Signal \/ UNCHANGED vars
  BY <1>3 DEF Signal, vars, lists
<1>4. QED
  BY <1>1, <1>2, <1>3 DEF Next, Done

LEMMA WindsDownStep ==
  ASSUME DataInv, [Next]_vars
  PROVE  WindsDown
<1>1. Places /\ ListTypes /\ Filling /\ on \in [Sensors -> BOOLEAN]
      /\ target \in Sensors
  BY DEF DataInv, RefsInv, QuietInv, Places, ListInv, JoinInv
<1>2. ASSUME NEW s \in Sensors, ~on[s]
      PROVE  ~on'[s]
  <2>1. CASE \E u \in Sensors : SensorStep(u)
    BY <1>2, <2>1
    DEF SensorStep, Detect, Exit, LockCtx, Clear, Grow, Store, Count, Push,
        PushOk, PushFails, UnlockCtx
  <2>2. CASE MainStep
    BY <1>1, <1>2, <2>2
    DEF MainStep, Poll, Popped, TimedOut, Pick, Use, Ingested, Release,
        LeaveLoop, StopFlag, StopWake, Join, Drop, CloseQueue
  <2>3. CASE Signal \/ UNCHANGED vars
    BY <1>2, <2>3 DEF Signal, vars
  <2>4. QED
    BY <2>1, <2>2, <2>3 DEF Next, Done
<1>3. ASSUME NEW s \in Sensors
      PROVE  StepsLeft(s) \in 0 .. 9
  <2>1. sensor[s] \in SensorPlaces /\ (count[s] >= room[s]) \in BOOLEAN
    BY <1>1 DEF Places
  <2>2. QED
    BY <2>1, LeftAtBound DEF StepsLeft
<1>4. ASSUME NEW s \in Sensors, ~SensorStep(s)
      PROVE  StepsLeft(s)' = StepsLeft(s)
  BY <1>1, <1>4, OthersStay DEF StepsLeft
<1>5. QED
  BY <1>1, <1>2, <1>3, <1>4, ThreadAdvances DEF WindsDown

(* A thread that has been told to stop is never started again, and has at  *)
(* most nine steps left: each of them brings it nearer to its exit, and    *)
(* nothing that main or the other thread does takes it back.  So main's    *)
(* join (thread.c) waits for a bounded number of steps.                    *)
THEOREM ThreadsWindDown == Spec => [][WindsDown]_vars
<1>1. DataInv /\ [Next]_vars => [WindsDown]_vars
  BY WindsDownStep
<1>2. QED
  BY <1>1, DataInvCorrect, PTL DEF Spec

LEMMA StopsAtValues ==
  ASSUME NEW j \in {0, 1}
  PROVE  /\ StopsAt("flag", j) = 8 - 3 * j
         /\ StopsAt("wake", j) = 7 - 3 * j
         /\ StopsAt("join", j) = 6 - 3 * j
  BY DEF StopsAt

LEMMA StopsAtEnds ==
  \A j : /\ StopsAt("drop", j) = 2
         /\ StopsAt("close", j) = 1
         /\ StopsAt("done", j) = 0
  BY DEF StopsAt

LEMMA StopsLeftBound ==
  ASSUME Places, JoinInv, main \in StopPlaces
  PROVE  StopsLeft \in 0 .. 15
<1>1. /\ main \in {"flag", "wake", "join"} => joins[target] \in {0, 1}
      /\ target \in Sensors
  BY DEF JoinInv, Places
<1>2. StopsAt(main, joins[target]) \in 0 .. 8
  <2>1. CASE main \in {"flag", "wake", "join"}
    <3>1. \A j \in {0, 1} : /\ 8 - 3 * j \in 0 .. 8
                           /\ 7 - 3 * j \in 0 .. 8
                           /\ 6 - 3 * j \in 0 .. 8
      OBVIOUS
    <3>2. QED
      BY <1>1, <2>1, <3>1, StopsAtValues
  <2>2. CASE main \in {"drop", "close", "done"}
    BY <2>2, StopsAtEnds
  <2>3. QED
    BY <2>1, <2>2 DEF StopPlaces
<1>3. QED
  BY <1>2 DEF StopsLeft

(* What main does once it has left its loop.                               *)
LEMMA ShutdownAdvances ==
  ASSUME Places, JoinInv, main \in StopPlaces, MainStep
  PROVE  main' \in StopPlaces /\ StopsLeft' < StopsLeft
<1> DEFINE extra == IF target = Video THEN 7 ELSE 0
           extraAfter == IF target' = Video THEN 7 ELSE 0
<1>0. /\ StopsLeft = StopsAt(main, joins[target]) + extra
      /\ StopsLeft' = StopsAt(main', joins'[target']) + extraAfter
      /\ extra \in {0, 7}
      /\ target' = target => extraAfter = extra
  BY DEF StopsLeft
<1>1. /\ main \in {"flag", "wake", "join"} => joins[target] \in {0, 1}
      /\ target \in Sensors
      /\ joins \in [Sensors -> 0 .. 2]
      /\ target = Video => joins[Radar] = 0
  BY DEF JoinInv, Places
<1> USE DEF stopping
<1>2. CASE StopFlag
  <2>1. main = "flag" /\ main' = "wake" /\ UNCHANGED <<target, joins>>
    BY <1>2 DEF StopFlag
  <2>2. StopsAt(main, joins[target]) = 8 - 3 * joins[target]
        /\ StopsAt(main', joins'[target']) = 7 - 3 * joins[target]
    BY <1>1, <2>1, StopsAtValues
  <2>3. joins[target] \in {0, 1}
    BY <1>1, <2>1
  <2>4. StopsLeft' < StopsLeft
    BY <1>0, <2>1, <2>2, <2>3
  <2>5. QED
    BY <2>1, <2>4 DEF StopPlaces
<1>3. CASE StopWake
  <2>1. main = "wake" /\ main' = "join" /\ UNCHANGED <<target, joins>>
    BY <1>3 DEF StopWake
  <2>2. StopsAt(main, joins[target]) = 7 - 3 * joins[target]
        /\ StopsAt(main', joins'[target']) = 6 - 3 * joins[target]
    BY <1>1, <2>1, StopsAtValues
  <2>3. joins[target] \in {0, 1}
    BY <1>1, <2>1
  <2>4. StopsLeft' < StopsLeft
    BY <1>0, <2>1, <2>2, <2>3
  <2>5. QED
    BY <2>1, <2>4 DEF StopPlaces
<1>4. CASE Join
  <2>1. /\ main = "join" /\ joins' = [joins EXCEPT ![target] = @ + 1]
        /\ main' = IF joins[target] = 0 THEN "flag" ELSE "drop"
        /\ target' = target
    BY <1>4 DEF Join
  <2>2. joins'[target'] = joins[target] + 1
    BY <1>1, <2>1
  <2>3. StopsAt(main, joins[target]) = 6 - 3 * joins[target]
    BY <1>1, <2>1, StopsAtValues
  <2>4. CASE joins[target] = 0
    <3>1. joins'[target'] = 1 /\ main' = "flag"
      BY <2>1, <2>2, <2>4
    <3>2. StopsAt(main', joins'[target']) = 8 - 3 * 1
      BY <3>1, StopsAtValues
    <3>3. StopsLeft' < StopsLeft
      BY <1>0, <2>1, <2>3, <2>4, <3>2
    <3>4. QED
      BY <3>1, <3>3 DEF StopPlaces
  <2>5. CASE joins[target] = 1
    <3>1. main' = "drop"
      BY <2>1, <2>5
    <3>2. StopsAt(main', joins'[target']) = 2
      BY <3>1, StopsAtEnds
    <3>3. StopsLeft' < StopsLeft
      BY <1>0, <2>1, <2>3, <2>5, <3>2
    <3>4. QED
      BY <3>1, <3>3 DEF StopPlaces
  <2>6. QED
    BY <1>1, <2>1, <2>4, <2>5
<1>5. CASE Drop
  <2>1. /\ main = "drop" /\ target' = Radar /\ joins' = joins
        /\ main' = IF target = Video THEN "flag" ELSE "close"
    BY <1>5 DEF Drop
  <2>2. StopsAt(main, joins[target]) = 2
    BY <2>1, StopsAtEnds
  <2>3. extraAfter = 0
    BY <2>1, PipelineAssumption
  <2>4. CASE target = Video
    <3>1. main' = "flag" /\ joins'[target'] = 0 /\ extra = 7
      BY <1>1, <2>1, <2>4
    <3>2. StopsAt(main', joins'[target']) = 8 - 3 * 0
      BY <3>1, StopsAtValues
    <3>3. StopsLeft' = 8 /\ StopsLeft = 9
      BY <1>0, <2>2, <2>3, <3>1, <3>2
    <3>4. QED
      BY <3>1, <3>3 DEF StopPlaces
  <2>5. CASE target # Video
    <3>1. main' = "close" /\ extra = 0
      BY <2>1, <2>5
    <3>2. StopsAt(main', joins'[target']) = 1
      BY <3>1, StopsAtEnds
    <3>3. StopsLeft' = 1 /\ StopsLeft = 2
      BY <1>0, <2>2, <2>3, <3>1, <3>2
    <3>4. QED
      BY <3>1, <3>3 DEF StopPlaces
  <2>6. QED
    BY <2>4, <2>5
<1>6. CASE CloseQueue
  <2>1. main = "close" /\ main' = "done" /\ UNCHANGED <<target, joins>>
    BY <1>6 DEF CloseQueue
  <2>2. StopsAt(main, joins[target]) = 1 /\ StopsAt(main', joins'[target']) = 0
    BY <2>1, StopsAtEnds
  <2>3. StopsLeft' < StopsLeft
    BY <1>0, <2>1, <2>2
  <2>4. QED
    BY <2>1, <2>3 DEF StopPlaces
<1>7. ~(Poll \/ Popped \/ TimedOut \/ Pick \/ Use \/ Ingested \/ Release
        \/ LeaveLoop)
  BY DEF StopPlaces, Poll, Popped, TimedOut, Pick, Use, Ingested, Release,
         LeaveLoop
<1>8. QED
  BY <1>2, <1>3, <1>4, <1>5, <1>6, <1>7 DEF MainStep

LEMMA ShutsDownStep ==
  ASSUME DataInv, [Next]_vars
  PROVE  ShutsDown
<1>1. Places /\ JoinInv
  BY DEF DataInv, RefsInv, QuietInv
<1>2. ASSUME ~MainStep
      PROVE  UNCHANGED <<main, target, joins>>
  <2>1. CASE \E s \in Sensors : SensorStep(s)
    BY <2>1
    DEF SensorStep, stopping, Detect, Exit, LockCtx, Clear, Grow, Store,
        Count, Push, PushOk, PushFails, UnlockCtx
  <2>2. CASE Signal \/ UNCHANGED vars
    BY <2>2 DEF Signal, vars, stopping
  <2>3. QED
    BY <1>2, <2>1, <2>2 DEF Next, Done
<1>3. QED
  BY <1>1, <1>2, ShutdownAdvances, StopsLeftBound DEF ShutsDown, StopsLeft

(* Once main has left its loop it never goes back, and has at most fifteen *)
(* steps left: every step of its own is one fewer, and no thread or signal *)
(* adds one, though stop and destroy both stop and join each thread.  With *)
(* ThreadsWindDown, that a shutdown ends rests on fairness alone.          *)
THEOREM ShutdownAdvancing == Spec => [][ShutsDown]_vars
<1>1. DataInv /\ [Next]_vars => [ShutsDown]_vars
  BY ShutsDownStep
<1>2. QED
  BY <1>1, DataInvCorrect, PTL DEF Spec

=============================================================================
