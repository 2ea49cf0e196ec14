--------------------------- MODULE MecQueueProofs ---------------------------
(***************************************************************************)
(* Proofs about MecQueue for every number of threads and every capacity.   *)
(***************************************************************************)
EXTENDS MecQueue, FiniteSetTheorems, SequenceTheorems, TLAPS

(* A producer between its store and its increment of count has room for    *)
(* it, and a consumer between its take and its decrement has a message to  *)
(* account for: what keeps count within 0 .. Capacity.                     *)
Reserved == /\ \A p \in Producers : pc[p] = "push_count" => count < Capacity
            /\ \A c \in Consumers : pc[c] = "pop_advance" => count > 0

LockInv == TypeOK /\ MutualExclusion /\ Reserved

-----------------------------------------------------------------------------
(* Index arithmetic                                                        *)

(* On the sums of an index and a count, % Capacity subtracts Capacity at   *)
(* most once.                                                              *)
LEMMA Wrap ==
  \A x \in 0 .. 2 * Capacity - 1 :
    x % Capacity = IF x < Capacity THEN x ELSE x - Capacity
  BY QueueAssumption

(* The successor of a slot is a slot (queue.c:88, 133).                    *)
LEMMA NextSlot ==
  ASSUME NEW i \in Slots
  PROVE  (i + 1) % Capacity \in Slots
  BY QueueAssumption, Wrap DEF Slots

(* Sets of slots can be counted.                                           *)
LEMMA SlotSets ==
  ASSUME NEW S \in SUBSET Slots
  PROVE  IsFiniteSet(S) /\ Cardinality(S) \in Nat
<1>1. IsFiniteSet(Slots)
  BY QueueAssumption, FS_Interval DEF Slots
<1>2. QED
  BY <1>1, FS_Subset, FS_CardinalityType

-----------------------------------------------------------------------------
(* Types and the mutex                                                     *)

LEMMA LockInvInit == Init => LockInv
  BY QueueAssumption
  DEF Init, LockInv, TypeOK, MutualExclusion, Reserved, Slots, Waits,
      Threads, Inside, PushPlaces, PopPlaces

LEMMA LockInvPush ==
  ASSUME LockInv, NEW p \in Producers, Push(p)
  PROVE  LockInv'
<1> USE QueueAssumption DEF LockInv, TypeOK, MutualExclusion, Reserved,
        Threads, Inside, PushPlaces, PopPlaces, Goto, ring, Lock, Unlock
<1>1. CASE PushLock(p)
  BY <1>1 DEF PushLock
<1>2. CASE PushFull(p)
  BY <1>2 DEF PushFull
<1>3. CASE PushStore(p)
  BY <1>3, NextSlot DEF PushStore
<1>4. CASE PushSignal(p)
  BY <1>4 DEF PushSignal, Asleep
<1>5. QED
  BY <1>1, <1>2, <1>3, <1>4 DEF Push

LEMMA LockInvPop ==
  ASSUME LockInv, NEW c \in Consumers, Pop(c)
  PROVE  LockInv'
<1> USE QueueAssumption DEF LockInv, TypeOK, MutualExclusion, Reserved,
        Threads, Inside, PushPlaces, PopPlaces, Goto, ring, Lock, Unlock
<1>1. CASE PopLock(c)
  BY <1>1 DEF PopLock
<1>2. CASE PopEmpty(c)
  BY <1>2 DEF PopEmpty
<1>3. CASE PopSleep(c)
  BY <1>3 DEF PopSleep
<1>4. CASE PopExpired(c)
  BY <1>4 DEF PopExpired
<1>5. CASE PopTake(c)
  BY <1>5 DEF PopTake
<1>6. CASE PopReturn(c)
  BY <1>6, NextSlot DEF PopReturn
<1>7. QED
  BY <1>1, <1>2, <1>3, <1>4, <1>5, <1>6 DEF Pop
LEMMA LockInvDestroy ==
  ASSUME LockInv, Destroy
  PROVE  LockInv'
<1>1. refs' \in [Lists -> Int]
  <2>1. \A l \in Lists : SlotsOf(l) \cap Backlog \in SUBSET Slots
    BY DEF SlotsOf
  <2>2. \A l \in Lists :
          refs[l] - Cardinality(SlotsOf(l) \cap Backlog) \in Int
    BY <2>1, SlotSets DEF LockInv, TypeOK
  <2>3. QED
    BY <2>2 DEF Destroy
<1>2. buffer' \in [Slots -> Lists \cup {Null}]
  BY DEF Destroy
<1>3. head' \in Slots /\ tail' \in Slots /\ count' \in 0 .. Capacity
  BY QueueAssumption DEF Destroy, Slots
<1>4. open' \in BOOLEAN
  BY DEF Destroy
<1>5. /\ UNCHANGED <<mutex, pc, arg, wait, out>>
      /\ \A t \in Threads : pc[t] = "idle"
  BY DEF Destroy
<1>6. QED
  BY <1>1, <1>2, <1>3, <1>4, <1>5
  DEF LockInv, TypeOK, MutualExclusion, Reserved, Threads, Inside

LEMMA LockInvStep == LockInv /\ [Next]_vars => LockInv'
<1> SUFFICES ASSUME LockInv, [Next]_vars
             PROVE  LockInv'
  OBVIOUS
<1> USE QueueAssumption DEF LockInv, TypeOK, MutualExclusion, Reserved,
        Threads, Inside, PushPlaces, PopPlaces, Goto, ring
<1>1. ASSUME NEW p \in Producers, NEW l \in Lists, PushCall(p, l)
      PROVE  LockInv'
  BY <1>1 DEF PushCall
<1>2. ASSUME NEW p \in Producers, Push(p)
      PROVE  LockInv'
  BY <1>2, LockInvPush
<1>3. ASSUME NEW c \in Consumers, NEW w \in Waits, PopCall(c, w)
      PROVE  LockInv'
  BY <1>3 DEF PopCall
<1>4. ASSUME NEW c \in Consumers, Pop(c)
      PROVE  LockInv'
  BY <1>4, LockInvPop
<1>5. ASSUME NEW c \in Consumers, SpuriousWakeup(c) \/ PopTimeout(c)
      PROVE  LockInv'
  BY <1>5 DEF SpuriousWakeup, PopTimeout
<1>6. ASSUME NEW c \in Consumers, Release(c)
      PROVE  LockInv'
  BY <1>6 DEF Release
<1>7. CASE Destroy
  BY <1>7, LockInvDestroy
<1>8. CASE UNCHANGED vars
  BY <1>8 DEF vars
<1>9. QED
  BY <1>1, <1>2, <1>3, <1>4, <1>5, <1>6, <1>7, <1>8 DEF Next, Gone

(* Every variable keeps its type; in particular count stays within         *)
(* 0 .. Capacity and the indexes within the buffer (queue.c:84-89,         *)
(* 130-134).                                                               *)
THEOREM TypeCorrect == Spec => []TypeOK
<1>1. LockInv => TypeOK
  BY DEF LockInv
<1>2. QED
  BY <1>1, LockInvInit, LockInvStep, PTL DEF Spec

(* The mutex is held exactly by the thread inside a critical section.      *)
THEOREM MutexCorrect == Spec => []MutualExclusion
<1>1. LockInv => MutualExclusion
  BY DEF LockInv
<1>2. QED
  BY <1>1, LockInvInit, LockInvStep, PTL DEF Spec

-----------------------------------------------------------------------------
(* The ring                                                                *)

At(k) == (head + k) % Capacity

Storing == \E p \in Producers : pc[p] = "push_count"

Taking == \E c \in Consumers : pc[c] = "pop_advance"

(* RingConsistent says nothing while a thread is inside, so it is not      *)
(* inductive.  RingInv follows the thread inside: a stored message that    *)
(* is not counted yet is at position count, and a message taken that is    *)
(* still counted has left position 0 for out.                              *)
RingInv ==
  /\ tail = IF Storing THEN At(count + 1) ELSE At(count)
  /\ \A k \in Slots :
       buffer[At(k)] # Null <=> /\ k < count \/ (k = count /\ Storing)
                               /\ ~(k = 0 /\ Taking)
  /\ \A p \in Producers :
       pc[p] = "push_count" => buffer[At(count)] = arg[p]
  /\ \A c \in Consumers : pc[c] = "pop_advance" => out[c] # Null

QueueInv == LockInv /\ RingInv

(* Positions and slots correspond one to one.                              *)
LEMMA WrapSum ==
  ASSUME NEW h \in Slots, NEW k \in 0 .. Capacity
  PROVE  (h + k) % Capacity = IF h + k < Capacity THEN h + k
                                                  ELSE h + k - Capacity
  BY QueueAssumption DEF Slots

LEMMA AtValue ==
  ASSUME head \in Slots, NEW k \in 0 .. Capacity
  PROVE  At(k) = IF head + k < Capacity THEN head + k ELSE head + k - Capacity
  BY WrapSum DEF At

LEMMA AtSlot ==
  ASSUME head \in Slots, NEW k \in 0 .. Capacity
  PROVE  At(k) \in Slots
<1>1. At(k) = IF head + k < Capacity THEN head + k ELSE head + k - Capacity
  BY AtValue
<1>2. QED
  BY <1>1, QueueAssumption DEF Slots

LEMMA AtInjective ==
  ASSUME head \in Slots, NEW j \in Slots, NEW k \in Slots, At(j) = At(k)
  PROVE  j = k
<1>1. At(j) = IF head + j < Capacity THEN head + j ELSE head + j - Capacity
  BY AtValue, QueueAssumption DEF Slots
<1>2. At(k) = IF head + k < Capacity THEN head + k ELSE head + k - Capacity
  BY AtValue, QueueAssumption DEF Slots
<1>3. \A a \in Slots, x, y \in Slots :
         /\ a = IF head + x < Capacity THEN head + x ELSE head + x - Capacity
         /\ a = IF head + y < Capacity THEN head + y ELSE head + y - Capacity
         => x = y
  BY QueueAssumption DEF Slots
<1>4. At(j) \in Slots
  BY AtSlot, QueueAssumption DEF Slots
<1>5. QED
  BY <1>1, <1>2, <1>3, <1>4

LEMMA AtSurjective ==
  ASSUME head \in Slots, NEW i \in Slots
  PROVE  \E k \in Slots : At(k) = i
<1>1. CASE i >= head
  <2>1. i - head \in Slots
    BY <1>1, QueueAssumption DEF Slots
  <2>2. At(i - head) = i
    BY <1>1, <2>1, AtValue, QueueAssumption DEF Slots
  <2>3. QED
    BY <2>1, <2>2
<1>2. CASE i < head
  <2>1. i - head + Capacity \in Slots
    BY <1>2, QueueAssumption DEF Slots
  <2>2. At(i - head + Capacity) = i
    BY <1>2, <2>1, AtValue, QueueAssumption DEF Slots
  <2>3. QED
    BY <2>1, <2>2
<1>3. QED
  BY <1>1, <1>2, QueueAssumption DEF Slots

LEMMA AtNext ==
  ASSUME head \in Slots, NEW k \in Slots
  PROVE  (At(k) + 1) % Capacity = At(k + 1)
<1>1. At(k) = IF head + k < Capacity THEN head + k ELSE head + k - Capacity
  BY AtValue, QueueAssumption DEF Slots
<1>2. At(k + 1) = IF head + k + 1 < Capacity THEN head + k + 1
                                             ELSE head + k + 1 - Capacity
  BY AtValue, QueueAssumption DEF Slots
<1>3. At(k) \in Slots
  BY AtSlot, QueueAssumption DEF Slots
<1>4. (At(k) + 1) % Capacity
        = IF At(k) + 1 < Capacity THEN At(k) + 1 ELSE At(k) + 1 - Capacity
  BY <1>3, WrapSum, QueueAssumption
<1>5. QED
  BY <1>1, <1>2, <1>4, QueueAssumption DEF Slots

(* Advancing head shifts the positions down by one.                        *)
LEMMA AtShift ==
  ASSUME head \in Slots, NEW k \in Slots, head' = (head + 1) % Capacity
  PROVE  (head' + k) % Capacity = At(k + 1)
<1>1. head' = IF head + 1 < Capacity THEN head + 1 ELSE 0
  BY Wrap, QueueAssumption DEF Slots
<1>2. head' \in Slots
  BY <1>1, QueueAssumption DEF Slots
<1>3. (head' + k) % Capacity
         = IF head' + k < Capacity THEN head' + k ELSE head' + k - Capacity
  <2>1. k \in 0 .. Capacity
    BY QueueAssumption DEF Slots
  <2>2. QED
    BY <1>2, <2>1, WrapSum
<1>4. At(k + 1) = IF head + k + 1 < Capacity THEN head + k + 1
                                             ELSE head + k + 1 - Capacity
  BY AtValue, QueueAssumption DEF Slots
<1>5. QED
  BY <1>1, <1>3, <1>4, QueueAssumption DEF Slots

(* A thread inside a critical section is alone there.                      *)
LEMMA Alone ==
  ASSUME LockInv, NEW t \in Threads, pc[t] \in Inside
  PROVE  \A u \in Threads \ {t} : pc[u] \notin Inside
  BY DEF LockInv, MutualExclusion

LEMMA RingInvInit == Init => RingInv
<1> SUFFICES ASSUME Init
             PROVE  RingInv
  OBVIOUS
<1>1. 0 \in Slots /\ head = 0 /\ count = 0 /\ tail = 0
  BY QueueAssumption DEF Init, Slots
<1>2. At(0) = 0
  BY <1>1, AtValue, QueueAssumption DEF Slots
<1>3. ~Storing /\ ~Taking
  BY DEF Init, Storing, Taking, Threads
<1>4. \A k \in Slots : buffer[At(k)] = Null
  BY <1>1, AtSlot, QueueAssumption DEF Init, Slots
<1>5. \A t \in Threads : pc[t] = "idle"
  BY DEF Init
<1>6. \A k \in Slots : ~(k < count)
  BY <1>1 DEF Slots
<1>7. QED
  BY <1>1, <1>2, <1>3, <1>4, <1>5, <1>6 DEF RingInv, Threads

(* The steps that leave the ring alone and neither enter nor leave the     *)
(* middle of a push or of a pop.                                           *)
LEMMA RingInvFrame ==
  ASSUME RingInv,
         UNCHANGED ring,
         \A p \in Producers : pc'[p] = "push_count" <=> pc[p] = "push_count",
         \A p \in Producers : pc[p] = "push_count" => arg'[p] = arg[p],
         \A c \in Consumers : pc'[c] = "pop_advance" <=> pc[c] = "pop_advance",
         \A c \in Consumers : pc[c] = "pop_advance" => out'[c] = out[c]
  PROVE  RingInv'
<1>1. Storing' = Storing /\ Taking' = Taking
  BY DEF Storing, Taking
<1>2. \A k : At(k)' = At(k)
  BY DEF At, ring
<1>3. QED
  BY <1>1, <1>2 DEF RingInv, ring

LEMMA RingInvStore ==
  ASSUME QueueInv, NEW p \in Producers, PushStore(p)
  PROVE  RingInv'
<1> DEFINE n == count
<1>1. /\ head \in Slots /\ n \in Slots
      /\ buffer \in [Slots -> Lists \cup {Null}]
      /\ arg[p] \in Lists /\ arg[p] # Null
  BY QueueAssumption DEF QueueInv, LockInv, TypeOK, PushStore, Slots, Threads,
     PushPlaces
<1>2. ~Storing /\ ~Taking
  BY Alone DEF QueueInv, Inside, Storing, Taking, Threads, PushStore
<1>3. Storing' /\ ~Taking'
  BY <1>2 DEF QueueInv, LockInv, TypeOK, PushStore, Goto, Storing, Taking,
     Threads, PopPlaces, PushPlaces
<1>4. tail = At(n)
  BY <1>2 DEF QueueInv, RingInv
<1>5. tail' = At(n + 1)
  BY <1>1, <1>4, AtNext DEF PushStore
<1>6. \A k : At(k)' = At(k)
  BY DEF At, PushStore
<1>7. At(n) \in Slots /\ buffer' = [buffer EXCEPT ![At(n)] = arg[p]]
  BY <1>1, <1>4, AtSlot, QueueAssumption DEF PushStore, Slots
<1>8. ASSUME NEW k \in Slots
      PROVE  buffer'[At(k)] # Null <=> k < n \/ k = n
  <2>1. At(k) \in Slots
    BY <1>1, AtSlot, QueueAssumption DEF Slots
  <2>2. CASE k = n
    BY <1>1, <1>7, <2>2
  <2>3. CASE k # n
    <3>1. At(k) # At(n)
      BY <1>1, <2>3, AtInjective
    <3>2. buffer'[At(k)] = buffer[At(k)]
      BY <1>1, <1>7, <2>1, <3>1
    <3>3. QED
      BY <3>2, <2>3, <1>2 DEF QueueInv, RingInv
  <2>4. QED
    BY <2>2, <2>3
<1>9. \A q \in Producers : pc'[q] = "push_count" => q = p
  BY <1>2 DEF QueueInv, LockInv, TypeOK, PushStore, Goto, Storing, Threads
<1>10. UNCHANGED <<count, arg>>
  BY DEF PushStore
<1>11. QED
  BY <1>1, <1>3, <1>5, <1>6, <1>7, <1>8, <1>9, <1>10 DEF RingInv, Taking

LEMMA RingInvSignal ==
  ASSUME QueueInv, NEW p \in Producers, PushSignal(p)
  PROVE  RingInv'
<1>1. Storing
  BY DEF PushSignal, Storing
<1>2. /\ \A q \in Producers \ {p} : pc[q] # "push_count"
      /\ \A c \in Consumers : pc[c] # "pop_advance"
  BY Alone, QueueAssumption DEF QueueInv, Inside, Threads, PushSignal
<1>3. /\ \A q \in Producers : pc'[q] # "push_count"
      /\ \A c \in Consumers : pc'[c] # "pop_advance"
  BY <1>2, QueueAssumption DEF QueueInv, LockInv, TypeOK, PushSignal, Goto,
     Threads, Asleep
<1>4. ~Taking /\ ~Storing' /\ ~Taking'
  BY <1>2, <1>3 DEF Storing, Taking
<1>5. \A k : At(k)' = At(k)
  BY DEF At, PushSignal
<1>6. count \in Nat /\ count' = count + 1 /\ UNCHANGED <<buffer, tail>>
  BY QueueAssumption DEF QueueInv, LockInv, TypeOK, PushSignal
<1>7. tail' = At(count)'
  BY <1>1, <1>6 DEF QueueInv, RingInv, At, PushSignal
<1>8. \A k \in Slots : buffer[At(k)] # Null <=> k < count'
  BY <1>1, <1>4, <1>6, QueueAssumption DEF QueueInv, RingInv, Slots
<1>9. QED
  BY <1>3, <1>4, <1>5, <1>6, <1>7, <1>8 DEF RingInv

LEMMA RingInvTake ==
  ASSUME QueueInv, NEW c \in Consumers, PopTake(c)
  PROVE  RingInv'
<1>1. /\ head \in Slots /\ 0 \in Slots /\ count \in Nat /\ 0 < count
      /\ buffer \in [Slots -> Lists \cup {Null}]
      /\ out \in [Consumers -> Lists \cup {Null}]
  BY QueueAssumption DEF QueueInv, LockInv, TypeOK, PopTake, Slots
<1>2. ~Storing /\ ~Taking
  BY Alone DEF QueueInv, Inside, Storing, Taking, Threads, PopTake
<1>3. ~Storing' /\ Taking'
  BY <1>2 DEF QueueInv, LockInv, TypeOK, PopTake, Goto, Storing, Taking,
     Threads, PopPlaces, PushPlaces
<1>4. At(0) = head
  BY <1>1, AtValue, QueueAssumption DEF Slots
<1>5. \A k : At(k)' = At(k)
  BY DEF At, PopTake
<1>6. buffer[head] # Null
  BY <1>1, <1>2, <1>4 DEF QueueInv, RingInv
<1>7. ASSUME NEW k \in Slots
      PROVE  buffer'[At(k)] # Null <=> k < count /\ k # 0
  <2>1. At(k) \in Slots
    BY <1>1, AtSlot, QueueAssumption DEF Slots
  <2>2. CASE k = 0
    BY <1>1, <1>4, <2>2 DEF PopTake
  <2>3. CASE k # 0
    <3>1. At(k) # head
      BY <1>1, <1>4, <2>3, AtInjective
    <3>2. buffer'[At(k)] = buffer[At(k)]
      BY <1>1, <2>1, <3>1 DEF PopTake
    <3>3. QED
      BY <3>2, <2>3, <1>2 DEF QueueInv, RingInv
  <2>4. QED
    BY <2>2, <2>3
<1>8. /\ \A d \in Consumers : pc'[d] = "pop_advance" => d = c
      /\ out'[c] = buffer[head]
  BY <1>1, <1>2 DEF QueueInv, LockInv, TypeOK, PopTake, Goto, Taking, Threads
<1>9. tail' = At(count)' /\ count' = count
  BY <1>2, <1>5 DEF QueueInv, RingInv, PopTake
<1>10. QED
  BY <1>3, <1>5, <1>6, <1>7, <1>8, <1>9 DEF RingInv, Storing

LEMMA RingInvReturn ==
  ASSUME QueueInv, NEW c \in Consumers, PopReturn(c)
  PROVE  RingInv'
<1>1. /\ head \in Slots /\ 0 \in Slots /\ count \in 1 .. Capacity
      /\ Capacity \in Nat
  BY QueueAssumption
  DEF QueueInv, LockInv, TypeOK, Reserved, PopReturn, Slots
<1>2. Taking
  BY DEF PopReturn, Taking
<1>3. /\ \A p \in Producers : pc[p] # "push_count"
      /\ \A d \in Consumers \ {c} : pc[d] # "pop_advance"
  BY Alone, QueueAssumption DEF QueueInv, Inside, Threads, PopReturn
<1>4. /\ \A p \in Producers : pc'[p] # "push_count"
      /\ \A d \in Consumers : pc'[d] # "pop_advance"
  BY <1>3, QueueAssumption DEF QueueInv, LockInv, TypeOK, PopReturn, Goto,
     Threads
<1>5. ~Storing /\ ~Storing' /\ ~Taking'
  BY <1>3, <1>4 DEF Storing, Taking
<1>6. \A k \in Slots : (head' + k) % Capacity = At(k + 1)
  BY <1>1, AtShift DEF PopReturn
<1>7. count' = count - 1 /\ UNCHANGED <<buffer, tail>>
  BY DEF PopReturn
<1>8. tail' = At(count)'
  <2>1. count - 1 \in Slots /\ (count - 1) + 1 = count
    BY <1>1 DEF Slots
  <2>2. (head' + (count - 1)) % Capacity = At(count)
    BY <2>1, <1>6
  <2>3. At(count)' = At(count)
    BY <2>2, <1>7 DEF At
  <2>4. QED
    BY <2>3, <1>5, <1>7 DEF QueueInv, RingInv
<1>9. ASSUME NEW k \in Slots
      PROVE  buffer[(head' + k) % Capacity] # Null <=> k < count - 1
  <2>1. CASE k + 1 \in Slots
    <3>1. buffer[At(k + 1)] # Null <=> k + 1 < count
      BY <2>1, <1>1, <1>5 DEF QueueInv, RingInv, Slots
    <3>2. QED
      BY <3>1, <1>1, <1>6 DEF Slots
  <2>2. CASE k + 1 \notin Slots
    <3>1. k + 1 = Capacity
      BY <2>2, <1>1 DEF Slots
    <3>2. At(k + 1) = At(0)
      BY <3>1, <1>1, AtValue, QueueAssumption DEF Slots
    <3>3. buffer[At(0)] = Null
      BY <1>1, <1>2 DEF QueueInv, RingInv
    <3>4. QED
      BY <3>1, <3>2, <3>3, <1>1, <1>6 DEF Slots
  <2>3. QED
    BY <2>1, <2>2
<1>10. QED
  BY <1>4, <1>5, <1>7, <1>8, <1>9 DEF RingInv, At

LEMMA RingInvDestroy ==
  ASSUME QueueInv, Destroy
  PROVE  RingInv'
<1>1. /\ head' = 0 /\ count' = 0 /\ tail' = 0 /\ 0 \in Slots
      /\ pc' = pc /\ \A t \in Threads : pc[t] = "idle"
      /\ buffer' = [i \in Slots |-> Null]
  BY QueueAssumption DEF Destroy, Slots
<1>2. \A k \in Slots : (0 + k) % Capacity = k
  BY QueueAssumption DEF Slots
<1>3. ~Storing' /\ ~Taking'
  BY <1>1 DEF Storing, Taking, Threads
<1>4. At(count)' = 0
  BY <1>1, <1>2 DEF At
<1>5. \A k \in Slots : ~(k < 0)
  BY DEF Slots
<1>6. \A k \in Slots : buffer'[(head' + k) % Capacity] = Null
  BY <1>1, <1>2
<1>7. QED
  BY <1>1, <1>3, <1>4, <1>5, <1>6 DEF RingInv, Threads, At

LEMMA QueueInvStep == QueueInv /\ [Next]_vars => QueueInv'
<1> SUFFICES ASSUME QueueInv, [Next]_vars
             PROVE  RingInv'
  BY LockInvStep DEF QueueInv
<1>0. /\ RingInv /\ pc \in [Threads -> {"idle"} \cup PushPlaces \cup PopPlaces]
      /\ arg \in [Producers -> Lists \cup {Null}]
      /\ out \in [Consumers -> Lists \cup {Null}]
  BY DEF QueueInv, LockInv, TypeOK
<1>1. ASSUME NEW p \in Producers, NEW l \in Lists, PushCall(p, l)
      PROVE  RingInv'
  BY <1>0, <1>1, RingInvFrame, QueueAssumption DEF PushCall, Goto, Threads
<1>2. ASSUME NEW p \in Producers, PushLock(p) \/ PushFull(p)
      PROVE  RingInv'
  BY <1>0, <1>2, RingInvFrame, QueueAssumption
  DEF PushLock, PushFull, Goto, Threads
<1>3. ASSUME NEW p \in Producers, Push(p)
      PROVE  RingInv'
  BY <1>2, <1>3, RingInvStore, RingInvSignal DEF Push
<1>4. ASSUME NEW c \in Consumers, NEW w \in Waits, PopCall(c, w)
      PROVE  RingInv'
  BY <1>0, <1>4, RingInvFrame, QueueAssumption DEF PopCall, Goto, Threads
<1>5. ASSUME NEW c \in Consumers,
             \/ PopLock(c) \/ PopEmpty(c) \/ PopSleep(c) \/ PopExpired(c)
             \/ SpuriousWakeup(c) \/ PopTimeout(c)
      PROVE  RingInv'
  BY <1>0, <1>5, RingInvFrame, QueueAssumption
  DEF PopLock, PopEmpty, PopSleep, PopExpired, SpuriousWakeup, PopTimeout,
      Goto, Threads
<1>6. ASSUME NEW c \in Consumers, Pop(c)
      PROVE  RingInv'
  BY <1>5, <1>6, RingInvTake, RingInvReturn DEF Pop
<1>7. ASSUME NEW c \in Consumers, Release(c)
      PROVE  RingInv'
  BY <1>0, <1>7, RingInvFrame DEF Release
<1>8. CASE Destroy
  BY <1>8, RingInvDestroy
<1>9. CASE UNCHANGED vars
  BY <1>0, <1>9, RingInvFrame DEF vars, ring
<1>10. QED
  BY <1>1, <1>3, <1>4, <1>5, <1>6, <1>7, <1>8, <1>9 DEF Next, Gone

LEMMA RingHolds == QueueInv => RingConsistent
<1> SUFFICES ASSUME QueueInv, mutex = NoThread
             PROVE  /\ tail = (head + count) % Capacity
                    /\ {i \in Slots : buffer[i] # Null} = Backlog
  BY DEF RingConsistent
<1>1. ~Storing /\ ~Taking
  BY QueueAssumption
  DEF QueueInv, LockInv, MutualExclusion, Inside, Threads, Storing, Taking
<1>2. tail = At(count)
  BY <1>1 DEF QueueInv, RingInv
<1>3. \A k \in Slots : buffer[At(k)] # Null <=> k < count
  BY <1>1 DEF QueueInv, RingInv
<1>4. head \in Slots /\ count \in 0 .. Capacity
  BY DEF QueueInv, LockInv, TypeOK
<1>5. Backlog = {At(k) : k \in 0 .. count - 1}
  BY DEF Backlog, At
<1>6. \A k \in 0 .. count - 1 : k \in Slots /\ At(k) \in Slots /\ k < count
  BY <1>4, AtSlot, QueueAssumption DEF Slots
<1>7. \A k \in Slots : k < count => k \in 0 .. count - 1
  BY <1>4, QueueAssumption DEF Slots
<1>8. {i \in Slots : buffer[i] # Null} = Backlog
  BY <1>3, <1>4, <1>5, <1>6, <1>7, AtSurjective
<1>9. QED
  BY <1>2, <1>8 DEF At

(* While nobody is inside, the messages are in the count slots from head   *)
(* on and nowhere else, and the next push goes to the slot after them.     *)
THEOREM RingCorrect == Spec => []RingConsistent
<1>1. Init => QueueInv
  BY LockInvInit, RingInvInit DEF QueueInv
<1>2. QED
  BY <1>1, RingHolds, QueueInvStep, PTL DEF Spec

-----------------------------------------------------------------------------
(* Wakeups                                                                 *)

WakeupInv == LockInv /\ NoLostWakeup

LEMMA ConsumerSets ==
  ASSUME NEW S \in SUBSET Consumers
  PROVE  IsFiniteSet(S) /\ Cardinality(S) \in Nat
  BY QueueAssumption, FS_Subset, FS_CardinalityType

(* No consumer falls asleep, none stops being awake, count is unchanged.   *)
LEMMA WakeupFrame ==
  ASSUME LockInv, NoLostWakeup, count' = count,
         Asleep' \subseteq Asleep, Awake \subseteq Awake'
  PROVE  NoLostWakeup'
<1>1. Awake \in SUBSET Consumers /\ Awake' \in SUBSET Consumers
  BY DEF Awake
<1>2. Cardinality(Awake) <= Cardinality(Awake')
  BY <1>1, ConsumerSets, FS_Subset
<1>3. Cardinality(Awake) \in Nat /\ Cardinality(Awake') \in Nat
  BY <1>1, ConsumerSets
<1>4. count \in Int
  BY QueueAssumption DEF LockInv, TypeOK
<1>5. QED
  BY <1>2, <1>3, <1>4 DEF NoLostWakeup

LEMMA WakeupSignal ==
  ASSUME WakeupInv, NEW p \in Producers, PushSignal(p)
  PROVE  NoLostWakeup'
<1>1. p \notin Consumers /\ Awake \in SUBSET Consumers
      /\ pc \in [Threads -> {"idle"} \cup PushPlaces \cup PopPlaces]
  BY QueueAssumption DEF Awake, WakeupInv, LockInv, TypeOK
<1>2. CASE Asleep = {}
  <2>1. Asleep' = {}
    BY <1>1, <1>2 DEF PushSignal, Goto, Asleep, Threads
  <2>2. QED
    BY <2>1 DEF NoLostWakeup
<1>3. ASSUME NEW c \in Asleep,
             pc' = [pc EXCEPT ![p] = "idle", ![c] = "woken"]
      PROVE  NoLostWakeup'
  <2>1. c \in Consumers /\ c \notin Awake
    BY <1>3 DEF Asleep, Awake
  <2>2. Awake' = Awake \cup {c}
    BY <1>1, <1>3, <2>1 DEF Awake, Threads
  <2>3. Cardinality(Awake') = Cardinality(Awake) + 1
    BY <1>1, <2>1, <2>2, ConsumerSets, FS_AddElement
  <2>4. count <= Cardinality(Awake)
    BY <1>3 DEF WakeupInv, NoLostWakeup
  <2>5. count \in Nat /\ count' = count + 1 /\ Cardinality(Awake) \in Nat
    BY <1>1, ConsumerSets, QueueAssumption
    DEF PushSignal, WakeupInv, LockInv, TypeOK
  <2>6. QED
    BY <2>3, <2>4, <2>5 DEF NoLostWakeup
<1>4. QED
  BY <1>2, <1>3 DEF PushSignal

LEMMA WakeupReturn ==
  ASSUME WakeupInv, NEW c \in Consumers, PopReturn(c)
  PROVE  NoLostWakeup'
<1>1. Awake \in SUBSET Consumers /\ c \in Awake
      /\ pc \in [Threads -> {"idle"} \cup PushPlaces \cup PopPlaces]
  BY DEF PopReturn, Awake, WakeupInv, LockInv, TypeOK
<1>2. Awake' = Awake \ {c} /\ Asleep' = Asleep
  BY <1>1 DEF PopReturn, Goto, Awake, Asleep, Threads
<1>3. Cardinality(Awake') = Cardinality(Awake) - 1
  BY <1>1, <1>2, ConsumerSets, FS_RemoveElement
<1>4. count \in Nat /\ count' = count - 1 /\ Cardinality(Awake) \in Nat
  BY <1>1, ConsumerSets, QueueAssumption
  DEF PopReturn, WakeupInv, LockInv, TypeOK
<1>5. QED
  BY <1>2, <1>3, <1>4 DEF WakeupInv, NoLostWakeup

LEMMA WakeupInvStep == WakeupInv /\ [Next]_vars => WakeupInv'
<1> SUFFICES ASSUME WakeupInv, [Next]_vars
             PROVE  NoLostWakeup'
  BY LockInvStep DEF WakeupInv
<1>0. /\ LockInv /\ NoLostWakeup
      /\ pc \in [Threads -> {"idle"} \cup PushPlaces \cup PopPlaces]
      /\ Producers \cap Consumers = {}
  BY QueueAssumption DEF WakeupInv, LockInv, TypeOK
<1>1. ASSUME NEW p \in Producers, NEW l \in Lists, PushCall(p, l)
      PROVE  NoLostWakeup'
  BY <1>0, <1>1, WakeupFrame DEF PushCall, Goto, Threads, Asleep, Awake, ring
<1>2. ASSUME NEW p \in Producers, Push(p)
      PROVE  NoLostWakeup'
  <2>1. ASSUME PushLock(p) \/ PushFull(p) \/ PushStore(p)
        PROVE  NoLostWakeup'
    BY <1>0, <2>1, WakeupFrame
    DEF PushLock, PushFull, PushStore, Goto, Threads, Asleep, Awake, ring
  <2>2. QED
    BY <1>2, <2>1, WakeupSignal DEF Push
<1>3. ASSUME NEW c \in Consumers, NEW w \in Waits, PopCall(c, w)
      PROVE  NoLostWakeup'
  BY <1>0, <1>3, WakeupFrame DEF PopCall, Goto, Threads, Asleep, Awake, ring
<1>4. ASSUME NEW c \in Consumers, Pop(c)
      PROVE  NoLostWakeup'
  <2>1. ASSUME PopLock(c) \/ PopExpired(c) \/ PopTake(c)
        PROVE  NoLostWakeup'
    BY <1>0, <2>1, WakeupFrame
    DEF PopLock, PopExpired, PopTake, Goto, Threads, Asleep, Awake, ring
  <2>2. ASSUME PopEmpty(c) \/ PopSleep(c)
        PROVE  NoLostWakeup'
    <3>1. count' = 0
      BY <2>2 DEF PopEmpty, PopSleep, ring
    <3>2. Cardinality(Awake') \in Nat
      BY ConsumerSets DEF Awake
    <3>3. QED
      BY <3>1, <3>2 DEF NoLostWakeup
  <2>3. QED
    BY <1>4, <2>1, <2>2, WakeupReturn DEF Pop
<1>5. ASSUME NEW c \in Consumers, SpuriousWakeup(c) \/ PopTimeout(c)
      PROVE  NoLostWakeup'
  BY <1>0, <1>5, WakeupFrame
  DEF SpuriousWakeup, PopTimeout, Goto, Threads, Asleep, Awake, ring
<1>6. ASSUME NEW c \in Consumers, Release(c)
      PROVE  NoLostWakeup'
  BY <1>0, <1>6, WakeupFrame DEF Release, Asleep, Awake, ring
<1>7. CASE Destroy
  <2>1. Asleep' = {}
    BY <1>7 DEF Destroy, Asleep, Threads
  <2>2. QED
    BY <2>1 DEF NoLostWakeup
<1>8. CASE UNCHANGED vars
  BY <1>0, <1>8, WakeupFrame DEF vars, Asleep, Awake
<1>9. QED
  BY <1>1, <1>2, <1>3, <1>4, <1>5, <1>6, <1>7, <1>8 DEF Next, Gone

(* No signal that matters is lost, for any number of consumers: while one  *)
(* sleeps, every message in the queue has an awake consumer of its own.    *)
THEOREM WakeupCorrect == Spec => []NoLostWakeup
<1>1. Init => NoLostWakeup
  BY DEF Init, NoLostWakeup, Asleep, Threads
<1>2. Init => WakeupInv
  BY <1>1, LockInvInit DEF WakeupInv
<1>3. WakeupInv => NoLostWakeup
  BY DEF WakeupInv
<1>4. QED
  BY <1>2, <1>3, WakeupInvStep, PTL DEF Spec

-----------------------------------------------------------------------------
(* References                                                              *)

(* A consumer owns nothing while it looks for a message (queue.c:98-127).  *)
EmptyHanded == \A c \in Consumers :
                 pc[c] \in PopPlaces \ {"pop_advance"} => out[c] = Null

RefsInv == QueueInv /\ RefsAccounted /\ EmptyHanded

LEMMA RefCounts ==
  ASSUME NEW l \in Lists
  PROVE  /\ SlotsOf(l) \in SUBSET Slots /\ Owners(l) \in SUBSET Consumers
         /\ IsFiniteSet(SlotsOf(l)) /\ Cardinality(SlotsOf(l)) \in Nat
         /\ IsFiniteSet(Owners(l)) /\ Cardinality(Owners(l)) \in Nat
  BY SlotSets, ConsumerSets DEF SlotsOf, Owners

LEMMA RefsFrame ==
  ASSUME RefsAccounted, UNCHANGED <<buffer, out, refs>>
  PROVE  RefsAccounted'
  BY DEF RefsAccounted, SlotsOf, Owners

LEMMA RefsStore ==
  ASSUME RefsInv, NEW p \in Producers, PushStore(p)
  PROVE  RefsAccounted'
<1>1. /\ arg[p] \in Lists /\ refs \in [Lists -> Int] /\ Null \notin Lists
      /\ buffer \in [Slots -> Lists \cup {Null}] /\ tail \in Slots
  BY QueueAssumption
  DEF RefsInv, QueueInv, LockInv, TypeOK, PushStore, PushPlaces, Threads
<1>2. buffer[tail] = Null
  <2>1. ~Storing
    BY Alone DEF RefsInv, QueueInv, Inside, Storing, Threads, PushStore
  <2>2. count \in Slots /\ ~(count < count) /\ tail = At(count)
    BY <2>1, QueueAssumption
    DEF RefsInv, QueueInv, LockInv, TypeOK, RingInv, PushStore, Slots
  <2>3. QED
    BY <2>1, <2>2 DEF RefsInv, QueueInv, RingInv
<1>3. ASSUME NEW l \in Lists
      PROVE  refs'[l] = 1 + Cardinality(SlotsOf(l)') + Cardinality(Owners(l)')
  <2>1. Owners(l)' = Owners(l)
    BY DEF Owners, PushStore
  <2>2. CASE l = arg[p]
    <3>1. SlotsOf(l)' = SlotsOf(l) \cup {tail}
      BY <1>1, <2>2 DEF SlotsOf, PushStore
    <3>2. tail \notin SlotsOf(l)
      BY <1>1, <1>2 DEF SlotsOf
    <3>3. Cardinality(SlotsOf(l)') = Cardinality(SlotsOf(l)) + 1
      BY <3>1, <3>2, RefCounts, FS_AddElement
    <3>4. refs'[l] = refs[l] + 1
      BY <1>1, <2>2 DEF PushStore
    <3>5. QED
      BY <2>1, <3>3, <3>4, RefCounts DEF RefsInv, RefsAccounted
  <2>3. CASE l # arg[p]
    <3>1. SlotsOf(l)' = SlotsOf(l)
      BY <1>1, <1>2, <2>3 DEF SlotsOf, PushStore
    <3>2. refs'[l] = refs[l]
      BY <1>1, <2>3 DEF PushStore
    <3>3. QED
      BY <2>1, <3>1, <3>2 DEF RefsInv, RefsAccounted
  <2>4. QED
    BY <2>2, <2>3
<1>4. QED
  BY <1>3 DEF RefsAccounted

LEMMA RefsTake ==
  ASSUME RefsInv, NEW c \in Consumers, PopTake(c)
  PROVE  RefsAccounted'
<1>1. /\ Null \notin Lists /\ head \in Slots
      /\ buffer \in [Slots -> Lists \cup {Null}]
      /\ out \in [Consumers -> Lists \cup {Null}]
  BY QueueAssumption DEF RefsInv, QueueInv, LockInv, TypeOK
<1>2. out[c] = Null
  BY DEF RefsInv, EmptyHanded, PopTake, PopPlaces
<1>3. ASSUME NEW l \in Lists
      PROVE  refs'[l] = 1 + Cardinality(SlotsOf(l)') + Cardinality(Owners(l)')
  <2>1. refs'[l] = refs[l]
    BY DEF PopTake
  <2>2. CASE l = buffer[head]
    <3>1. SlotsOf(l)' = SlotsOf(l) \ {head} /\ head \in SlotsOf(l)
      BY <1>1, <2>2 DEF SlotsOf, PopTake
    <3>2. Owners(l)' = Owners(l) \cup {c} /\ c \notin Owners(l)
      BY <1>1, <1>2, <2>2 DEF Owners, PopTake
    <3>3. Cardinality(SlotsOf(l)') = Cardinality(SlotsOf(l)) - 1
      BY <3>1, RefCounts, FS_RemoveElement
    <3>4. Cardinality(Owners(l)') = Cardinality(Owners(l)) + 1
      BY <3>2, RefCounts, FS_AddElement
    <3>5. QED
      BY <2>1, <3>3, <3>4, RefCounts DEF RefsInv, RefsAccounted
  <2>3. CASE l # buffer[head]
    <3>1. SlotsOf(l)' = SlotsOf(l)
      BY <1>1, <2>3 DEF SlotsOf, PopTake
    <3>2. Owners(l)' = Owners(l)
      BY <1>1, <1>2, <2>3 DEF Owners, PopTake
    <3>3. QED
      BY <2>1, <3>1, <3>2 DEF RefsInv, RefsAccounted
  <2>4. QED
    BY <2>2, <2>3
<1>4. QED
  BY <1>3 DEF RefsAccounted

LEMMA RefsRelease ==
  ASSUME RefsInv, NEW c \in Consumers, Release(c)
  PROVE  RefsAccounted'
<1>1. /\ Null \notin Lists /\ refs \in [Lists -> Int]
      /\ out \in [Consumers -> Lists \cup {Null}] /\ out[c] \in Lists
  BY QueueAssumption DEF RefsInv, QueueInv, LockInv, TypeOK, Release
<1>2. ASSUME NEW l \in Lists
      PROVE  refs'[l] = 1 + Cardinality(SlotsOf(l)') + Cardinality(Owners(l)')
  <2>1. SlotsOf(l)' = SlotsOf(l)
    BY DEF SlotsOf, Release, ring
  <2>2. CASE l = out[c]
    <3>1. Owners(l)' = Owners(l) \ {c} /\ c \in Owners(l)
      BY <1>1, <2>2 DEF Owners, Release
    <3>2. Cardinality(Owners(l)') = Cardinality(Owners(l)) - 1
      BY <3>1, RefCounts, FS_RemoveElement
    <3>3. refs'[l] = refs[l] - 1
      BY <1>1, <2>2 DEF Release
    <3>4. QED
      BY <2>1, <3>2, <3>3, RefCounts DEF RefsInv, RefsAccounted
  <2>3. CASE l # out[c]
    <3>1. Owners(l)' = Owners(l) /\ refs'[l] = refs[l]
      BY <1>1, <2>3 DEF Owners, Release
    <3>2. QED
      BY <2>1, <3>1 DEF RefsInv, RefsAccounted
  <2>4. QED
    BY <2>2, <2>3
<1>3. QED
  BY <1>2 DEF RefsAccounted

(* The walk from head over count slots meets every slot that holds a list. *)
LEMMA RefsDestroy ==
  ASSUME RefsInv, Destroy
  PROVE  RefsAccounted'
<1>1. {i \in Slots : buffer[i] # Null} = Backlog
  BY RingHolds DEF RefsInv, RingConsistent, Destroy
<1>2. ASSUME NEW l \in Lists
      PROVE  refs'[l] = 1 + Cardinality(SlotsOf(l)') + Cardinality(Owners(l)')
  <2>1. SlotsOf(l) \cap Backlog = SlotsOf(l)
    BY <1>1, QueueAssumption DEF SlotsOf
  <2>2. refs'[l] = refs[l] - Cardinality(SlotsOf(l))
    BY <2>1 DEF Destroy
  <2>3. SlotsOf(l)' = {}
    BY QueueAssumption DEF SlotsOf, Destroy
  <2>4. Owners(l)' = Owners(l)
    BY DEF Owners, Destroy
  <2>5. refs[l] = 1 + Cardinality(SlotsOf(l)) + Cardinality(Owners(l))
    BY DEF RefsInv, RefsAccounted
  <2>6. Cardinality(SlotsOf(l)') = 0
    BY <2>3, FS_EmptySet
  <2>7. QED
    BY <2>2, <2>4, <2>5, <2>6, RefCounts
<1>3. QED
  BY <1>2 DEF RefsAccounted

LEMMA EmptyHandedStep ==
  ASSUME RefsInv, [Next]_vars
  PROVE  EmptyHanded'
<1>1. /\ EmptyHanded
      /\ pc \in [Threads -> {"idle"} \cup PushPlaces \cup PopPlaces]
      /\ out \in [Consumers -> Lists \cup {Null}]
      /\ Producers \cap Consumers = {}
  BY QueueAssumption DEF RefsInv, QueueInv, LockInv, TypeOK
<1> USE <1>1 DEF EmptyHanded, Goto, Threads, PopPlaces
<1>2. ASSUME NEW p \in Producers, NEW l \in Lists, PushCall(p, l)
      PROVE  EmptyHanded'
  BY <1>2 DEF PushCall
<1>3. ASSUME NEW p \in Producers, Push(p)
      PROVE  EmptyHanded'
  BY <1>3 DEF Push, PushLock, PushFull, PushStore, PushSignal, Asleep
<1>4. ASSUME NEW c \in Consumers, NEW w \in Waits, PopCall(c, w)
      PROVE  EmptyHanded'
  BY <1>4 DEF PopCall
<1>5. ASSUME NEW c \in Consumers, Pop(c)
      PROVE  EmptyHanded'
  BY <1>5 DEF Pop, PopLock, PopEmpty, PopSleep, PopExpired, PopTake, PopReturn
<1>6. ASSUME NEW c \in Consumers,
             SpuriousWakeup(c) \/ PopTimeout(c) \/ Release(c)
      PROVE  EmptyHanded'
  BY <1>6 DEF SpuriousWakeup, PopTimeout, Release
<1>7. CASE Destroy
  BY <1>7 DEF Destroy
<1>8. CASE UNCHANGED vars
  BY <1>8 DEF vars
<1>9. QED
  BY <1>2, <1>3, <1>4, <1>5, <1>6, <1>7, <1>8 DEF Next, Gone

LEMMA RefsInvStep == RefsInv /\ [Next]_vars => RefsInv'
<1> SUFFICES ASSUME RefsInv, [Next]_vars
             PROVE  RefsAccounted'
  BY QueueInvStep, EmptyHandedStep DEF RefsInv
<1>0. RefsAccounted
  BY DEF RefsInv
<1>1. ASSUME NEW p \in Producers, NEW l \in Lists, PushCall(p, l)
      PROVE  RefsAccounted'
  BY <1>0, <1>1, RefsFrame DEF PushCall, ring
<1>2. ASSUME NEW p \in Producers, Push(p)
      PROVE  RefsAccounted'
  <2>1. ASSUME PushLock(p) \/ PushFull(p) \/ PushSignal(p)
        PROVE  RefsAccounted'
    BY <1>0, <2>1, RefsFrame DEF PushLock, PushFull, PushSignal, ring
  <2>2. QED
    BY <1>2, <2>1, RefsStore DEF Push
<1>3. ASSUME NEW c \in Consumers, NEW w \in Waits, PopCall(c, w)
      PROVE  RefsAccounted'
  BY <1>0, <1>3, RefsFrame DEF PopCall, ring
<1>4. ASSUME NEW c \in Consumers, Pop(c)
      PROVE  RefsAccounted'
  <2>1. ASSUME \/ PopLock(c) \/ PopEmpty(c) \/ PopSleep(c)
               \/ PopExpired(c) \/ PopReturn(c)
        PROVE  RefsAccounted'
    BY <1>0, <2>1, RefsFrame
    DEF PopLock, PopEmpty, PopSleep, PopExpired, PopReturn, ring
  <2>2. QED
    BY <1>4, <2>1, RefsTake DEF Pop
<1>5. ASSUME NEW c \in Consumers, SpuriousWakeup(c) \/ PopTimeout(c)
      PROVE  RefsAccounted'
  BY <1>0, <1>5, RefsFrame DEF SpuriousWakeup, PopTimeout, ring
<1>6. ASSUME NEW c \in Consumers, Release(c)
      PROVE  RefsAccounted'
  BY <1>6, RefsRelease
<1>7. CASE Destroy
  BY <1>7, RefsDestroy
<1>8. CASE UNCHANGED vars
  BY <1>0, <1>8, RefsFrame DEF vars
<1>9. QED
  BY <1>1, <1>2, <1>3, <1>4, <1>5, <1>6, <1>7, <1>8 DEF Next, Gone

LEMMA RefsInvInit == Init => RefsAccounted /\ EmptyHanded
<1> SUFFICES ASSUME Init
             PROVE  RefsAccounted /\ EmptyHanded
  OBVIOUS
<1>1. ASSUME NEW l \in Lists
      PROVE  refs[l] = 1 + Cardinality(SlotsOf(l)) + Cardinality(Owners(l))
  <2>1. SlotsOf(l) = {} /\ Owners(l) = {} /\ refs[l] = 1
    BY QueueAssumption DEF Init, SlotsOf, Owners
  <2>2. QED
    BY <2>1, FS_EmptySet
<1>2. EmptyHanded
  BY DEF Init, EmptyHanded
<1>3. QED
  BY <1>1, <1>2 DEF RefsAccounted

(* A list's count is its creator's reference plus one for every slot and   *)
(* every consumer that holds it, until and after the queue is destroyed.   *)
THEOREM RefsCorrect == Spec => []RefsAccounted
<1>1. Init => RefsInv
  BY LockInvInit, RingInvInit, RefsInvInit DEF RefsInv, QueueInv
<1>2. RefsInv => RefsAccounted
  BY DEF RefsInv
<1>3. QED
  BY <1>1, <1>2, RefsInvStep, PTL DEF Spec

-----------------------------------------------------------------------------
(* The refinement: the ring buffer, its mutex and its condition variable   *)
(* implement the bounded FIFO of BoundedFifo.tla.                          *)

-----------------------------------------------------------------------------
(* Sequences as functions                                                  *)

LEMMA FunctionIsSeq ==
  ASSUME NEW S, NEW n \in Nat, NEW s \in [1 .. n -> S]
  PROVE  s \in Seq(S) /\ Len(s) = n
  OBVIOUS

LEMMA AppendFunction ==
  ASSUME NEW S, NEW n \in Nat, NEW s \in [1 .. n -> S], NEW e \in S,
         NEW t \in [1 .. n + 1 -> S],
         t[n + 1] = e, \A i \in 1 .. n : t[i] = s[i]
  PROVE  t = Append(s, e)
<1>1. s \in Seq(S) /\ Len(s) = n /\ t \in Seq(S) /\ Len(t) = n + 1
  BY FunctionIsSeq
<1>2. /\ Append(s, e) \in Seq(S) /\ Len(Append(s, e)) = n + 1
      /\ \A i \in 1 .. n + 1 : Append(s, e)[i] = t[i]
  BY <1>1, AppendProperties
<1>3. QED
  BY <1>1, <1>2, SeqEqual

LEMMA TailFunction ==
  ASSUME NEW S, NEW n \in Nat, NEW s \in [1 .. n + 1 -> S],
         NEW t \in [1 .. n -> S], \A i \in 1 .. n : t[i] = s[i + 1]
  PROVE  t = Tail(s) /\ Head(s) = s[1] /\ s # << >>
<1>1. s \in Seq(S) /\ Len(s) = n + 1 /\ t \in Seq(S) /\ Len(t) = n
  BY FunctionIsSeq
<1>2. s # << >>
  BY <1>1
<1>3. /\ Tail(s) \in Seq(S) /\ Len(Tail(s)) = n
      /\ \A i \in 1 .. n : Tail(s)[i] = t[i]
  BY <1>1, <1>2, HeadTailProperties
<1>4. t = Tail(s)
  BY <1>1, <1>3, SeqEqual
<1>5. Head(s) = s[1]
  BY <1>1
<1>6. QED
  BY <1>2, <1>4, <1>5

-----------------------------------------------------------------------------
(* The contents of the ring                                                *)

Cells == Lists \cup {Null}

LEMMA TakerTaking == Taker = {} <=> ~Taking
  BY DEF Taker, Taking

LEMMA ContentsFrame ==
  ASSUME UNCHANGED ring, Taker' = Taker,
         \A c \in Taker : out'[c] = out[c]
  PROVE  Contents' = Contents
<1>1. \A i : MessageAt(i)' = MessageAt(i)
  <2>1. Taker # {} => (CHOOSE c \in Taker : TRUE) \in Taker
    OBVIOUS
  <2>2. QED
    BY <2>1 DEF MessageAt, ring
<1>2. QED
  BY <1>1 DEF Contents, ring

(* Nobody is taking: position i - 1 of the ring is the i-th message.       *)
LEMMA ContentsQuiet ==
  ASSUME LockInv, ~Taking
  PROVE  /\ Contents = [i \in 1 .. count |-> buffer[At(i - 1)]]
         /\ Contents \in [1 .. count -> Cells]
<1>1. head \in Slots /\ count \in 0 .. Capacity /\ Capacity \in Nat
      /\ buffer \in [Slots -> Cells]
  BY QueueAssumption DEF LockInv, TypeOK, Cells
<1>2. \A i : MessageAt(i) = buffer[i]
  BY TakerTaking DEF MessageAt
<1>3. \A i \in 1 .. count : head + i - 1 = head + (i - 1)
  BY <1>1 DEF Slots
<1>4. Contents = [i \in 1 .. count |-> buffer[At(i - 1)]]
  BY <1>2, <1>3 DEF Contents, At
<1>5. \A i \in 1 .. count : At(i - 1) \in Slots
  BY <1>1, AtSlot
<1>6. QED
  BY <1>1, <1>4, <1>5

LEMMA ContentsQuietNext ==
  LockInv' /\ ~Taking' =>
    /\ Contents' = [i \in 1 .. count' |-> buffer'[(head' + (i - 1)) % Capacity]]
    /\ Contents' \in [1 .. count' -> Cells]
<1>1. LockInv /\ ~Taking =>
        /\ Contents = [i \in 1 .. count |->
                         buffer[(head + (i - 1)) % Capacity]]
        /\ Contents \in [1 .. count -> Cells]
  BY ContentsQuiet DEF At
<1>2. (LockInv /\ ~Taking)' =>
        (/\ Contents = [i \in 1 .. count |->
                          buffer[(head + (i - 1)) % Capacity]]
         /\ Contents \in [1 .. count -> Cells])'
  BY <1>1, PTL
<1>3. QED
  BY <1>2 DEF Cells

(* c is taking: the first message is in its out, the others in the ring.   *)
LEMMA ContentsTaken ==
  ASSUME LockInv, NEW c \in Consumers, pc[c] = "pop_advance"
  PROVE  /\ Contents = [i \in 1 .. count |->
                          IF i = 1 THEN out[c] ELSE buffer[At(i - 1)]]
         /\ Contents \in [1 .. count -> Cells]
         /\ Taker = {c}
<1>1. head \in Slots /\ count \in 0 .. Capacity /\ Capacity \in Nat
      /\ buffer \in [Slots -> Cells] /\ out \in [Consumers -> Cells]
  BY QueueAssumption DEF LockInv, TypeOK, Cells
<1>2. Taker = {c}
  BY Alone DEF Taker, Inside, Threads
<1>3. \A i : MessageAt(i) = IF i = head THEN out[c] ELSE buffer[i]
  BY <1>2 DEF MessageAt
<1>4. \A i \in 1 .. count : At(i - 1) = head <=> i = 1
  <2> TAKE i \in 1 .. count
  <2>1. i - 1 \in Slots /\ 0 \in Slots
    BY <1>1 DEF Slots
  <2>2. At(0) = head
    BY <1>1, AtValue, QueueAssumption DEF Slots
  <2>3. QED
    BY <1>1, <2>1, <2>2, AtInjective
<1>5. \A i \in 1 .. count : head + i - 1 = head + (i - 1)
  BY <1>1 DEF Slots
<1>6. Contents = [i \in 1 .. count |-> MessageAt(At(i - 1))]
  BY <1>5 DEF Contents, At
<1>7. Contents = [i \in 1 .. count |->
                    IF i = 1 THEN out[c] ELSE buffer[At(i - 1)]]
  BY <1>3, <1>4, <1>6
<1>8. \A i \in 1 .. count : At(i - 1) \in Slots
  BY <1>1, AtSlot
<1>9. QED
  BY <1>1, <1>2, <1>7, <1>8

LEMMA ContentsSeq ==
  ASSUME LockInv
  PROVE  Contents \in Seq(Cells) /\ Len(Contents) = count
<1>1. Contents \in [1 .. count -> Cells]
  BY ContentsQuiet, ContentsTaken DEF Taking
<1>2. count \in Nat
  BY QueueAssumption DEF LockInv, TypeOK
<1>3. QED
  BY <1>1, <1>2, FunctionIsSeq

-----------------------------------------------------------------------------
(* Every step is a step of the FIFO or leaves it unchanged                 *)

(* Only a pop with a deadline can expire (queue.c:110-127).                *)
ExpiredTimed ==
  \A c \in Consumers : pc[c] = "expired" => wait[c] = "timed"

LEMMA Invisible ==
  ASSUME UNCHANGED <<ring, arg, wait, out, open>>,
         Taker' = Taker, Calling' = Calling
  PROVE  UNCHANGED Fifo!vars
<1>1. Contents' = Contents
  BY ContentsFrame
<1>2. Delivered' = Delivered
  BY DEF Delivered
<1>3. QED
  BY <1>1, <1>2 DEF Fifo!vars

LEMMA FifoInit == Init => Fifo!Init
<1> SUFFICES ASSUME Init
             PROVE  Fifo!Init
  OBVIOUS
<1>1. Contents = << >>
  BY DEF Init, Contents
<1>2. Calling = {}
  BY DEF Init, Calling
<1>3. Taker = {}
  BY DEF Init, Taker, Threads
<1>4. Delivered = [c \in Consumers |-> Null]
  BY <1>3 DEF Delivered, Init
<1>5. QED
  BY <1>1, <1>2, <1>4 DEF Init, Fifo!Init

(* The stored message is in the queue once it is counted.                  *)
LEMMA FifoSignal ==
  ASSUME RefsInv, RefsInv', NEW p \in Producers, PushSignal(p)
  PROVE  Fifo!PushOk(p)
<1>1. /\ LockInv /\ LockInv' /\ RingInv
      /\ pc \in [Threads -> {"idle"} \cup PushPlaces \cup PopPlaces]
      /\ count \in Nat /\ count' = count + 1 /\ count < Capacity
      /\ p \in Threads /\ p \notin Consumers
      /\ pc[p] = "push_count" /\ arg[p] \in Cells
  BY QueueAssumption
  DEF RefsInv, QueueInv, LockInv, TypeOK, Reserved, PushSignal, Cells, Threads
<1>2. ~Taking /\ ~Taking'
  <2>1. \A c \in Consumers : pc[c] # "pop_advance"
    BY <1>1, Alone DEF Inside, Threads
  <2>2. \A c \in Consumers : pc'[c] # "pop_advance"
    BY <1>1, <2>1 DEF PushSignal, Goto, Threads, Asleep
  <2>3. QED
    BY <2>1, <2>2 DEF Taking
<1>3. Contents = [i \in 1 .. count |-> buffer[At(i - 1)]]
      /\ Contents \in [1 .. count -> Cells]
  BY <1>1, <1>2, ContentsQuiet
<1>4. Contents' = [i \in 1 .. count + 1 |-> buffer[At(i - 1)]]
      /\ Contents' \in [1 .. count + 1 -> Cells]
  BY <1>1, <1>2, ContentsQuietNext DEF At, PushSignal
<1>5. buffer[At(count)] = arg[p]
  BY <1>1 DEF RingInv
<1>6. Contents' = Append(Contents, arg[p])
  <2>1. Contents'[count + 1] = arg[p]
    BY <1>1, <1>4, <1>5
  <2>2. \A i \in 1 .. count : Contents'[i] = Contents[i]
    BY <1>1, <1>3, <1>4
  <2>3. QED
    BY <1>1, <1>3, <1>4, <2>1, <2>2, AppendFunction
<1>7. p \in Calling /\ Calling' = Calling \ {p}
  BY <1>1 DEF Calling, PushSignal, Goto, Asleep, Threads
<1>8. Delivered' = Delivered
  BY <1>2, TakerTaking DEF Delivered, Taker, Taking, PushSignal
<1>9. Len(Contents) < Capacity
  BY <1>1, ContentsSeq
<1>10. QED
  BY <1>6, <1>7, <1>8, <1>9 DEF Fifo!PushOk, PushSignal

(* A store writes the slot after the last message and shows nowhere.       *)
LEMMA FifoStore ==
  ASSUME RefsInv, RefsInv', NEW p \in Producers, PushStore(p)
  PROVE  UNCHANGED Fifo!vars
<1>1. /\ LockInv /\ LockInv' /\ RingInv /\ head \in Slots
      /\ pc \in [Threads -> {"idle"} \cup PushPlaces \cup PopPlaces]
      /\ count \in Nat /\ count < Capacity /\ count' = count /\ head' = head
      /\ p \in Threads /\ p \notin Consumers /\ pc[p] = "push_check"
      /\ buffer \in [Slots -> Cells]
  BY QueueAssumption
  DEF RefsInv, QueueInv, LockInv, TypeOK, PushStore, Cells, Threads
<1>2. ~Taking /\ ~Storing
  BY <1>1, Alone DEF Inside, Threads, Taking, Storing
<1>3. pc' = [pc EXCEPT ![p] = "push_count"]
  BY DEF PushStore, Goto
<1>4. ~Taking' /\ Taker' = Taker /\ Calling' = Calling
  BY <1>1, <1>2, <1>3 DEF Taking, Taker, Calling, Threads
<1>5. \A i \in 1 .. count : buffer'[At(i - 1)] = buffer[At(i - 1)]
  <2> TAKE i \in 1 .. count
  <2>1. i - 1 \in Slots /\ count \in Slots /\ i - 1 # count
    BY <1>1, QueueAssumption DEF Slots
  <2>2. tail = At(count)
    BY <1>1, <1>2 DEF RingInv
  <2>3. At(i - 1) # tail
    BY <1>1, <2>1, <2>2, AtInjective
  <2>4. At(i - 1) \in Slots
    BY <1>1, <2>1, AtSlot, QueueAssumption DEF Slots
  <2>5. QED
    BY <1>1, <2>3, <2>4 DEF PushStore
<1>6. Contents = [i \in 1 .. count |-> buffer[At(i - 1)]]
  BY <1>1, <1>2, ContentsQuiet
<1>7. Contents' = [i \in 1 .. count |-> buffer'[At(i - 1)]]
  BY <1>1, <1>4, ContentsQuietNext DEF At
<1>8. Contents' = Contents
  BY <1>5, <1>6, <1>7
<1>9. Delivered' = Delivered
  BY <1>4 DEF Delivered, PushStore
<1>10. QED
  BY <1>4, <1>8, <1>9 DEF Fifo!vars, PushStore

LEMMA ContentsTakenNext ==
  \A c \in Consumers : LockInv' /\ pc'[c] = "pop_advance" =>
    /\ Contents' = [i \in 1 .. count' |->
                      IF i = 1 THEN out'[c]
                               ELSE buffer'[(head' + (i - 1)) % Capacity]]
    /\ Taker' = {c}
<1> TAKE c \in Consumers
<1>1. LockInv /\ pc[c] = "pop_advance" =>
        /\ Contents = [i \in 1 .. count |->
                         IF i = 1 THEN out[c]
                                  ELSE buffer[(head + (i - 1)) % Capacity]]
        /\ Taker = {c}
  BY ContentsTaken DEF At
<1>2. (LockInv /\ pc[c] = "pop_advance")' =>
        (/\ Contents = [i \in 1 .. count |->
                          IF i = 1 THEN out[c]
                                   ELSE buffer[(head + (i - 1)) % Capacity]]
         /\ Taker = {c})'
  BY <1>1, PTL
<1>3. QED
  BY <1>2

(* A take moves the first message from the ring to out, where it stays the *)
(* first message until it is uncounted.                                    *)
LEMMA FifoTake ==
  ASSUME RefsInv, RefsInv', NEW c \in Consumers, PopTake(c)
  PROVE  UNCHANGED Fifo!vars
<1>1. /\ LockInv /\ LockInv' /\ head \in Slots
      /\ pc \in [Threads -> {"idle"} \cup PushPlaces \cup PopPlaces]
      /\ count \in 1 .. Capacity /\ count' = count /\ head' = head
      /\ c \in Threads /\ pc[c] = "pop_check" /\ out[c] = Null
      /\ buffer \in [Slots -> Cells] /\ out \in [Consumers -> Cells]
  BY QueueAssumption
  DEF RefsInv, QueueInv, LockInv, TypeOK, EmptyHanded, PopTake, PopPlaces,
      Cells, Threads
<1>2. ~Taking
  BY <1>1, Alone DEF Inside, Threads, Taking
<1>3. pc' = [pc EXCEPT ![c] = "pop_advance"]
      /\ out' = [out EXCEPT ![c] = buffer[head]]
      /\ buffer' = [buffer EXCEPT ![head] = Null]
  BY DEF PopTake, Goto
<1>4. pc'[c] = "pop_advance" /\ Calling' = Calling
  BY <1>1, <1>3 DEF Calling
<1>5. Taker = {} /\ Taker' = {c}
  BY <1>1, <1>2, <1>4, TakerTaking, ContentsTakenNext
<1>6. 0 \in Slots /\ At(0) = head
  BY <1>1, AtValue, QueueAssumption DEF Slots
<1>7. \A i \in 1 .. count :
        (IF i = 1 THEN out'[c] ELSE buffer'[At(i - 1)]) = buffer[At(i - 1)]
  <2> TAKE i \in 1 .. count
  <2>1. CASE i = 1
    BY <1>1, <1>3, <1>6, <2>1
  <2>2. CASE i # 1
    <3>1. i - 1 \in Slots /\ i - 1 # 0
      BY <1>1, <2>2, QueueAssumption DEF Slots
    <3>2. At(i - 1) # head
      BY <1>1, <1>6, <3>1, AtInjective
    <3>3. At(i - 1) \in Slots
      BY <1>1, <3>1, AtSlot, QueueAssumption DEF Slots
    <3>4. QED
      BY <1>1, <1>3, <2>2, <3>2, <3>3
  <2>3. QED
    BY <2>1, <2>2
<1>8. Contents = [i \in 1 .. count |-> buffer[At(i - 1)]]
  BY <1>1, <1>2, ContentsQuiet
<1>9. Contents' = [i \in 1 .. count |->
                     IF i = 1 THEN out'[c] ELSE buffer'[At(i - 1)]]
  BY <1>1, <1>4, ContentsTakenNext DEF At
<1>10. Contents' = Contents
  BY <1>7, <1>8, <1>9
<1>11. Delivered' = Delivered
  BY <1>1, <1>3, <1>5 DEF Delivered
<1>12. QED
  BY <1>4, <1>10, <1>11 DEF Fifo!vars, PopTake

(* The message is handed out when it is uncounted and head moves on.       *)
LEMMA FifoReturn ==
  ASSUME RefsInv, RefsInv', NEW c \in Consumers, PopReturn(c)
  PROVE  Fifo!PopOk(c)
<1>1. /\ LockInv /\ LockInv' /\ head \in Slots
      /\ pc \in [Threads -> {"idle"} \cup PushPlaces \cup PopPlaces]
      /\ count \in 1 .. Capacity /\ count' = count - 1
      /\ head' = (head + 1) % Capacity
      /\ c \in Threads /\ pc[c] = "pop_advance"
      /\ out \in [Consumers -> Cells] /\ UNCHANGED <<buffer, out>>
  BY QueueAssumption
  DEF RefsInv, QueueInv, LockInv, TypeOK, Reserved, PopReturn, Cells, Threads
<1>2. pc' = [pc EXCEPT ![c] = "idle"]
  BY DEF PopReturn, Goto
<1>3. /\ Contents = [i \in 1 .. count |->
                       IF i = 1 THEN out[c] ELSE buffer[At(i - 1)]]
      /\ Contents \in [1 .. count -> Cells]
      /\ Taker = {c}
  BY <1>1, ContentsTaken
<1>4. Taker' = {} /\ ~Taking'
  BY <1>1, <1>2, <1>3 DEF Taker, Taking, Threads
<1>5. /\ Contents' = [i \in 1 .. count - 1 |->
                        buffer[(head' + (i - 1)) % Capacity]]
      /\ Contents' \in [1 .. count - 1 -> Cells]
  BY <1>1, <1>4, ContentsQuietNext
<1>6. \A i \in 1 .. count - 1 : Contents'[i] = Contents[i + 1]
  <2> TAKE i \in 1 .. count - 1
  <2>1. i - 1 \in Slots /\ (i - 1) + 1 = i /\ i + 1 \in 1 .. count
        /\ i + 1 # 1 /\ (i + 1) - 1 = i
    BY <1>1, QueueAssumption DEF Slots
  <2>2. (head' + (i - 1)) % Capacity = At(i)
    BY <1>1, <2>1, AtShift
  <2>3. QED
    BY <1>3, <1>5, <2>1, <2>2
<1>7. /\ Contents' = Tail(Contents) /\ Head(Contents) = out[c]
      /\ Contents # << >>
  <2>1. count - 1 \in Nat /\ (count - 1) + 1 = count /\ 1 \in 1 .. count
    BY <1>1
  <2>2. Contents[1] = out[c]
    BY <1>3, <2>1
  <2>3. PICK m \in Nat : m = count - 1
    BY <2>1
  <2>4. /\ Contents \in [1 .. m + 1 -> Cells]
        /\ Contents' \in [1 .. m -> Cells]
        /\ \A i \in 1 .. m : Contents'[i] = Contents[i + 1]
    BY <1>3, <1>5, <1>6, <2>1, <2>3
  <2>5. QED
    BY <2>2, <2>4, TailFunction
<1>8. c \in Calling /\ Calling' = Calling \ {c}
  BY <1>1, <1>2 DEF Calling
<1>9. Delivered' = [Delivered EXCEPT ![c] = Head(Contents)]
  BY <1>1, <1>3, <1>4, <1>7 DEF Delivered
<1>10. QED
  BY <1>7, <1>8, <1>9 DEF Fifo!PopOk, PopReturn

(* The failing returns: a full queue, an empty one, a missed deadline.     *)
LEMMA FifoFull ==
  ASSUME RefsInv, NEW p \in Producers, PushFull(p)
  PROVE  Fifo!PushFails(p)
<1>1. /\ LockInv /\ count = Capacity
      /\ pc \in [Threads -> {"idle"} \cup PushPlaces \cup PopPlaces]
      /\ p \in Threads /\ p \notin Consumers /\ pc[p] = "push_check"
      /\ pc' = [pc EXCEPT ![p] = "idle"]
  BY QueueAssumption
  DEF RefsInv, QueueInv, LockInv, TypeOK, PushFull, Goto, Threads
<1>2. Len(Contents) = Capacity
  BY <1>1, ContentsSeq
<1>3. Taker' = Taker
  BY <1>1 DEF Taker, Threads
<1>4. Contents' = Contents
  BY <1>3, ContentsFrame DEF PushFull
<1>5. p \in Calling /\ Calling' = Calling \ {p}
  BY <1>1 DEF Calling
<1>6. Delivered' = Delivered
  BY <1>3 DEF Delivered, PushFull
<1>7. QED
  BY <1>2, <1>4, <1>5, <1>6 DEF Fifo!PushFails, PushFull

LEMMA FifoFails ==
  ASSUME RefsInv, ExpiredTimed, NEW c \in Consumers,
         PopEmpty(c) \/ PopExpired(c)
  PROVE  Fifo!PopFails(c)
<1>1. /\ LockInv /\ c \in Threads /\ pc[c] \in {"pop_check", "expired"}
      /\ pc \in [Threads -> {"idle"} \cup PushPlaces \cup PopPlaces]
      /\ pc' = [pc EXCEPT ![c] = "idle"]
      /\ UNCHANGED <<ring, arg, wait, out, refs, open>>
  BY DEF RefsInv, QueueInv, LockInv, TypeOK, PopEmpty, PopExpired, Goto, Threads
<1>2. \/ wait[c] = "zero" /\ Contents = << >>
      \/ wait[c] = "timed"
  <2>1. CASE PopEmpty(c)
    <3>1. count = 0 /\ wait[c] = "zero"
      BY <2>1 DEF PopEmpty
    <3>2. Contents = << >>
      BY <3>1 DEF Contents
    <3>3. QED
      BY <3>1, <3>2
  <2>2. CASE PopExpired(c)
    BY <2>2 DEF ExpiredTimed, PopExpired
  <2>3. QED
    BY <2>1, <2>2
<1>3. Taker' = Taker
  BY <1>1 DEF Taker, Threads
<1>4. Contents' = Contents
  BY <1>1, <1>3, ContentsFrame
<1>5. c \in Calling /\ Calling' = Calling \ {c}
  BY <1>1 DEF Calling
<1>6. Delivered' = Delivered
  BY <1>1, <1>3 DEF Delivered
<1>7. QED
  BY <1>1, <1>2, <1>4, <1>5, <1>6 DEF Fifo!PopFails

(* The invocations.                                                        *)
LEMMA FifoCallPush ==
  ASSUME RefsInv, NEW p \in Producers, NEW l \in Lists, PushCall(p, l)
  PROVE  Fifo!CallPush(p, l)
<1>1. /\ p \in Threads /\ p \notin Consumers /\ pc[p] = "idle"
      /\ pc \in [Threads -> {"idle"} \cup PushPlaces \cup PopPlaces]
      /\ pc' = [pc EXCEPT ![p] = "push_lock"]
  BY QueueAssumption
  DEF RefsInv, QueueInv, LockInv, TypeOK, PushCall, Goto, Threads
<1>2. Taker' = Taker
  BY <1>1 DEF Taker, Threads
<1>3. Contents' = Contents
  BY <1>2, ContentsFrame DEF PushCall
<1>4. p \notin Calling /\ Calling' = Calling \cup {p}
  BY <1>1 DEF Calling
<1>5. Delivered' = Delivered
  BY <1>2 DEF Delivered, PushCall
<1>6. QED
  BY <1>3, <1>4, <1>5 DEF Fifo!CallPush, PushCall

LEMMA FifoCallPop ==
  ASSUME RefsInv, NEW c \in Consumers, NEW w \in Waits, PopCall(c, w)
  PROVE  Fifo!CallPop(c, w)
<1>1. /\ c \in Threads /\ pc[c] = "idle" /\ out[c] = Null
      /\ pc \in [Threads -> {"idle"} \cup PushPlaces \cup PopPlaces]
      /\ pc' = [pc EXCEPT ![c] = "pop_lock"]
  BY DEF RefsInv, QueueInv, LockInv, TypeOK, PopCall, Goto, Threads
<1>2. Taker' = Taker
  BY <1>1 DEF Taker, Threads
<1>3. Contents' = Contents
  BY <1>2, ContentsFrame DEF PopCall
<1>4. c \notin Calling /\ Calling' = Calling \cup {c}
  BY <1>1 DEF Calling
<1>5. Delivered[c] = Null /\ Delivered' = Delivered
  BY <1>1, <1>2 DEF Delivered, PopCall
<1>6. QED
  BY <1>3, <1>4, <1>5 DEF Fifo!CallPop, PopCall

LEMMA FifoRelease ==
  ASSUME RefsInv, NEW c \in Consumers, Release(c)
  PROVE  Fifo!Consume(c)
<1>1. /\ c \notin Taker /\ Taker' = Taker /\ out[c] # Null
      /\ out \in [Consumers -> Lists \cup {Null}]
      /\ out' = [out EXCEPT ![c] = Null]
  BY DEF RefsInv, QueueInv, LockInv, TypeOK, Release, Taker
<1>2. \A d \in Taker : out'[d] = out[d]
  BY <1>1 DEF Taker
<1>3. Contents' = Contents
  BY <1>1, <1>2, ContentsFrame DEF Release
<1>4. Delivered[c] # Null /\ Delivered' = [Delivered EXCEPT ![c] = Null]
  BY <1>1 DEF Delivered
<1>5. Calling' = Calling
  BY DEF Calling, Release
<1>6. QED
  BY <1>3, <1>4, <1>5 DEF Fifo!Consume, Release

LEMMA FifoDestroy ==
  ASSUME RefsInv, Destroy
  PROVE  Fifo!Close
<1>1. \A t \in Threads : pc[t] = "idle"
  BY DEF Destroy
<1>2. UNCHANGED <<mutex, pc, arg, wait, out>> /\ count' = 0
      /\ open /\ open' = FALSE
  BY DEF Destroy
<1>3. Contents' = << >>
  BY <1>2 DEF Contents
<1>4. Calling = {} /\ Calling' = {} /\ Taker = {} /\ Taker' = {}
  BY <1>1, <1>2 DEF Calling, Taker, Threads
<1>5. Delivered' = Delivered
  BY <1>2, <1>4 DEF Delivered
<1>6. QED
  BY <1>2, <1>3, <1>4, <1>5 DEF Fifo!Close

-----------------------------------------------------------------------------
(* The refinement                                                          *)

FifoInv == RefsInv /\ ExpiredTimed

LEMMA ExpiredTimedStep == FifoInv /\ [Next]_vars => ExpiredTimed'
<1> SUFFICES ASSUME FifoInv, [Next]_vars
             PROVE  ExpiredTimed'
  OBVIOUS
<1>0. /\ ExpiredTimed /\ Producers \cap Consumers = {}
      /\ pc \in [Threads -> {"idle"} \cup PushPlaces \cup PopPlaces]
      /\ wait \in [Consumers -> Waits]
  BY QueueAssumption DEF FifoInv, RefsInv, QueueInv, LockInv, TypeOK
<1> USE <1>0 DEF ExpiredTimed, Goto, Threads
<1>1. ASSUME NEW p \in Producers, NEW l \in Lists, PushCall(p, l)
      PROVE  ExpiredTimed'
  BY <1>1 DEF PushCall
<1>2. ASSUME NEW p \in Producers, Push(p)
      PROVE  ExpiredTimed'
  BY <1>2 DEF Push, PushLock, PushFull, PushStore, PushSignal, Asleep
<1>3. ASSUME NEW c \in Consumers, NEW w \in Waits, PopCall(c, w)
      PROVE  ExpiredTimed'
  BY <1>3 DEF PopCall
<1>4. ASSUME NEW c \in Consumers, Pop(c)
      PROVE  ExpiredTimed'
  BY <1>4 DEF Pop, PopLock, PopEmpty, PopSleep, PopExpired, PopTake, PopReturn
<1>5. ASSUME NEW c \in Consumers,
             SpuriousWakeup(c) \/ PopTimeout(c) \/ Release(c)
      PROVE  ExpiredTimed'
  BY <1>5 DEF SpuriousWakeup, PopTimeout, Release
<1>6. CASE Destroy
  BY <1>6 DEF Destroy
<1>7. CASE UNCHANGED vars
  BY <1>7 DEF vars
<1>8. QED
  BY <1>1, <1>2, <1>3, <1>4, <1>5, <1>6, <1>7 DEF Next, Gone

LEMMA FifoStep ==
  FifoInv /\ FifoInv' /\ [Next]_vars => [Fifo!Next]_(Fifo!vars)
<1> SUFFICES ASSUME FifoInv, FifoInv', [Next]_vars
             PROVE  Fifo!Next \/ UNCHANGED Fifo!vars
  OBVIOUS
<1>0. /\ RefsInv /\ RefsInv' /\ ExpiredTimed /\ Producers \cap Consumers = {}
      /\ pc \in [Threads -> {"idle"} \cup PushPlaces \cup PopPlaces]
  BY QueueAssumption DEF FifoInv, RefsInv, QueueInv, LockInv, TypeOK
<1>1. ASSUME NEW p \in Producers, NEW l \in Lists, PushCall(p, l)
      PROVE  Fifo!Next
  BY <1>0, <1>1, FifoCallPush DEF Fifo!Next
<1>2. ASSUME NEW p \in Producers, Push(p)
      PROVE  Fifo!Next \/ UNCHANGED Fifo!vars
  <2>1. CASE PushLock(p)
    BY <1>0, <2>1, Invisible
    DEF PushLock, Goto, Taker, Calling, Threads
  <2>2. CASE PushFull(p)
    BY <1>0, <2>2, FifoFull DEF Fifo!Next
  <2>3. CASE PushStore(p)
    BY <1>0, <2>3, FifoStore
  <2>4. CASE PushSignal(p)
    BY <1>0, <2>4, FifoSignal DEF Fifo!Next
  <2>5. QED
    BY <1>2, <2>1, <2>2, <2>3, <2>4 DEF Push
<1>3. ASSUME NEW c \in Consumers, NEW w \in Waits, PopCall(c, w)
      PROVE  Fifo!Next
  BY <1>0, <1>3, FifoCallPop DEF Fifo!Next, Waits, Fifo!Waits
<1>4. ASSUME NEW c \in Consumers, Pop(c)
      PROVE  Fifo!Next \/ UNCHANGED Fifo!vars
  <2>1. CASE PopLock(c) \/ PopSleep(c)
    BY <1>0, <2>1, Invisible
    DEF PopLock, PopSleep, Goto, Taker, Calling, Threads
  <2>2. CASE PopEmpty(c) \/ PopExpired(c)
    BY <1>0, <2>2, FifoFails DEF Fifo!Next
  <2>3. CASE PopTake(c)
    BY <1>0, <2>3, FifoTake
  <2>4. CASE PopReturn(c)
    BY <1>0, <2>4, FifoReturn DEF Fifo!Next
  <2>5. QED
    BY <1>4, <2>1, <2>2, <2>3, <2>4 DEF Pop
<1>5. ASSUME NEW c \in Consumers, SpuriousWakeup(c) \/ PopTimeout(c)
      PROVE  UNCHANGED Fifo!vars
  BY <1>0, <1>5, Invisible
  DEF SpuriousWakeup, PopTimeout, Goto, Taker, Calling, Threads
<1>6. ASSUME NEW c \in Consumers, Release(c)
      PROVE  Fifo!Next
  BY <1>0, <1>6, FifoRelease DEF Fifo!Next
<1>7. CASE Destroy
  BY <1>0, <1>7, FifoDestroy DEF Fifo!Next
<1>8. CASE UNCHANGED vars
  BY <1>8, Invisible DEF vars, ring, Taker, Calling
<1>9. QED
  BY <1>1, <1>2, <1>3, <1>4, <1>5, <1>6, <1>7, <1>8 DEF Next, Gone

(* The queue of queue.c is a bounded FIFO for every number of threads and  *)
(* every capacity: calls take effect one at a time, in order, exactly once.*)
THEOREM FifoCorrect == Spec => ImplementsFifo
<1>1. Init => FifoInv
  <2>1. Init => RefsInv
    BY LockInvInit, RingInvInit, RefsInvInit DEF RefsInv, QueueInv
  <2>2. Init => ExpiredTimed
    BY DEF Init, ExpiredTimed, Threads
  <2>3. QED
    BY <2>1, <2>2 DEF FifoInv
<1>2. FifoInv /\ [Next]_vars => FifoInv'
  BY RefsInvStep, ExpiredTimedStep DEF FifoInv
<1>3. QED
  BY <1>1, <1>2, FifoInit, FifoStep, PTL DEF Spec, ImplementsFifo, Fifo!Spec

-----------------------------------------------------------------------------
(* Who may touch the ring, and for how long                                *)

Holder(t) == mutex = t

(* A step of the thread t inside the queue.                                *)
Moves(t) == \/ t \in Producers /\ Push(t)
            \/ t \in Consumers /\ Pop(t)

(* The holder is the only thread that touches the ring and the mutex, and  *)
(* gives the mutex back with its second step in the critical section at    *)
(* the latest; nothing but the destroy touches the ring without it.        *)
HolderAlone ==
  /\ \A t \in Threads : Holder(t) =>
       /\ ~Moves(t) => UNCHANGED <<ring, mutex>>
       /\ Moves(t) => \/ mutex' = NoThread
                      \/ /\ mutex' = t
                         /\ pc[t] \in {"push_check", "pop_check"}
                         /\ pc'[t] \in {"push_count", "pop_advance"}
  /\ mutex = NoThread => UNCHANGED ring \/ Destroy

LEMMA HolderMoves ==
  ASSUME LockInv, NEW t \in Threads, Holder(t), Moves(t)
  PROVE  \/ mutex' = NoThread
         \/ /\ mutex' = t
            /\ pc[t] \in {"push_check", "pop_check"}
            /\ pc'[t] \in {"push_count", "pop_advance"}
<1>1. /\ mutex = t /\ t # NoThread
      /\ pc \in [Threads -> {"idle"} \cup PushPlaces \cup PopPlaces]
  BY QueueAssumption DEF Holder, LockInv, TypeOK
<1>2. CASE t \in Producers /\ Push(t)
  BY <1>1, <1>2 DEF Push, PushLock, PushFull, PushStore, PushSignal, Lock,
                    Unlock, Goto
<1>3. CASE t \in Consumers /\ Pop(t)
  BY <1>1, <1>3 DEF Pop, PopLock, PopEmpty, PopSleep, PopExpired, PopTake,
                    PopReturn, Lock, Unlock, Goto
<1>4. QED
  BY <1>2, <1>3 DEF Moves

(* A thread that is not the holder waits for the mutex, or for a signal.   *)
LEMMA OthersWait ==
  ASSUME LockInv, NEW t \in Threads, Moves(t), ~Holder(t)
  PROVE  mutex = NoThread /\ UNCHANGED ring
<1>1. pc[t] \notin Inside
  BY DEF LockInv, MutualExclusion, Holder
<1>2. CASE t \in Producers /\ Push(t)
  BY <1>1, <1>2 DEF Push, PushLock, PushFull, PushStore, PushSignal, Lock,
                    Inside
<1>3. CASE t \in Consumers /\ Pop(t)
  BY <1>1, <1>3 DEF Pop, PopLock, PopEmpty, PopSleep, PopExpired, PopTake,
                    PopReturn, Lock, Inside
<1>4. QED
  BY <1>2, <1>3 DEF Moves

LEMMA HolderAloneStep ==
  ASSUME LockInv, [Next]_vars
  PROVE  HolderAlone
<1>1. ASSUME ~\E t \in Threads : Moves(t), ~Destroy
      PROVE  UNCHANGED <<ring, mutex>>
  <2>1. ~\E p \in Producers : Push(p)
    BY <1>1 DEF Moves, Threads
  <2>2. ~\E c \in Consumers : Pop(c)
    BY <1>1 DEF Moves, Threads
  <2>3. QED
    BY <1>1, <2>1, <2>2 DEF Next, PushCall, PopCall, SpuriousWakeup,
                            PopTimeout, Release, Gone, vars, ring
<1>2. Destroy => mutex = NoThread
  BY DEF Destroy
<1>3. NoThread \notin Threads
  BY QueueAssumption
<1>4. ASSUME NEW t \in Threads, Holder(t), ~Moves(t)
      PROVE  UNCHANGED <<ring, mutex>>
  <2>1. ~Destroy
    BY <1>2, <1>3, <1>4 DEF Holder
  <2>2. \A u \in Threads : ~Moves(u)
    BY <1>3, <1>4, OthersWait DEF Holder
  <2>3. QED
    BY <1>1, <2>1, <2>2
<1>5. ASSUME mutex = NoThread
      PROVE  UNCHANGED ring \/ Destroy
  <2>1. ASSUME NEW t \in Threads, Moves(t)
        PROVE  UNCHANGED ring
    BY <1>3, <1>5, <2>1, OthersWait DEF Holder
  <2>2. QED
    BY <1>1, <2>1
<1>6. QED
  BY <1>4, <1>5, HolderMoves DEF HolderAlone

(* head, tail, count and the buffer are only changed under the mutex, and  *)
(* no path through push or pop, the failing ones included, takes more than *)
(* two steps with it (queue.c:68-141).                                     *)
THEOREM HolderAloneCorrect == Spec => [][HolderAlone]_vars
<1>1. LockInv /\ [Next]_vars => HolderAlone
  BY HolderAloneStep
<1>2. QED
  BY <1>1, LockInvInit, LockInvStep, PTL DEF Spec

WaitsAsAsked ==
  \A c \in Consumers : /\ pc[c] \in {"asleep", "woken"} => wait[c] # "zero"
                       /\ pc[c] = "expired" => wait[c] = "timed"

LEMMA WaitsAsAskedStep ==
  ASSUME LockInv, WaitsAsAsked, [Next]_vars
  PROVE  WaitsAsAsked'
<1>0. /\ WaitsAsAsked /\ Producers \cap Consumers = {}
      /\ pc \in [Threads -> {"idle"} \cup PushPlaces \cup PopPlaces]
      /\ wait \in [Consumers -> Waits]
  BY QueueAssumption DEF LockInv, TypeOK
<1> USE <1>0 DEF WaitsAsAsked, Goto, Threads
<1>1. ASSUME NEW p \in Producers, NEW l \in Lists, PushCall(p, l)
      PROVE  WaitsAsAsked'
  BY <1>1 DEF PushCall
<1>2. ASSUME NEW p \in Producers, PushLock(p) \/ PushFull(p) \/ PushStore(p)
      PROVE  WaitsAsAsked'
  BY <1>2 DEF PushLock, PushFull, PushStore
<1>3. ASSUME NEW p \in Producers, PushSignal(p)
      PROVE  WaitsAsAsked'
  BY <1>3 DEF PushSignal, Asleep
<1>4. ASSUME NEW c \in Consumers, NEW w \in Waits, PopCall(c, w)
      PROVE  WaitsAsAsked'
  BY <1>4 DEF PopCall
<1>5. ASSUME NEW c \in Consumers, Pop(c)
      PROVE  WaitsAsAsked'
  BY <1>5 DEF Pop, PopLock, PopEmpty, PopSleep, PopExpired, PopTake, PopReturn
<1>6. ASSUME NEW c \in Consumers,
             SpuriousWakeup(c) \/ PopTimeout(c) \/ Release(c)
      PROVE  WaitsAsAsked'
  BY <1>6 DEF SpuriousWakeup, PopTimeout, Release
<1>7. CASE Destroy \/ UNCHANGED vars
  BY <1>7 DEF Destroy, vars
<1>8. QED
  BY <1>1, <1>2, <1>3, <1>4, <1>5, <1>6, <1>7 DEF Next, Gone, Push

(* The timeout means what mec_queue.h:54 says: a pop that asked for no     *)
(* wait never sleeps, and only one that set a deadline runs out of time,   *)
(* whatever signals and spurious wakeups come.                             *)
THEOREM WaitsAsAskedCorrect == Spec => []WaitsAsAsked
<1>1. Init => WaitsAsAsked
  BY DEF Init, WaitsAsAsked, Threads
<1>2. QED
  BY <1>1, WaitsAsAskedStep, LockInvInit, LockInvStep, PTL DEF Spec
=============================================================================
