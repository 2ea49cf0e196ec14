------------------------------ MODULE MecQueue ------------------------------
(***************************************************************************)
(* src/common/queue.c: the thread-safe ring buffer between the sensor      *)
(* threads (producers) and the main loop (consumer).                       *)
(*                                                                         *)
(* A message is its track list pointer: the sensor id and the timestamp    *)
(* travel with it and are never looked at by the queue.  The mutex is      *)
(* explicit and the critical sections take several steps, so that every    *)
(* interleaving in which a thread is descheduled while it holds the mutex  *)
(* is explored.  A consumer that waits on not_empty is in one of three     *)
(* places: asleep, woken (signalled, or woken spuriously, and contending   *)
(* for the mutex), or expired (timed out and contending for the mutex).    *)
(* Nobody ever waits on not_full, so its signal is not modelled.           *)
(***************************************************************************)
EXTENDS Integers, FiniteSets

CONSTANTS Producers,  \* the threads that push
          Consumers,  \* the threads that pop
          Lists,      \* the track lists that messages carry
          Null,       \* the NULL pointer
          NoThread,   \* the owner of a free mutex
          Capacity    \* queue->capacity

Threads == Producers \cup Consumers

ASSUME QueueAssumption ==
  /\ Capacity \in Nat \ {0}
  /\ Producers \cap Consumers = {}
  /\ IsFiniteSet(Consumers)
  /\ NoThread \notin Threads
  /\ Null \notin Lists

Slots == 0 .. Capacity - 1

(* The three readings of timeout_ms: negative, 0, positive.                *)
Waits == {"forever", "zero", "timed"}

VARIABLES buffer, head, tail, count, \* the fields of mec_queue_t
          mutex,  \* the thread that holds queue->mutex, or NoThread
          pc,     \* where each thread is in mec_queue_push or mec_queue_pop
          arg,    \* msg->tracks of each producer's current or last push
          wait,   \* the timeout of each consumer's current or last pop
          out,    \* out_msg->tracks while the consumer owns it, or Null
          refs,   \* ref_count of each track list
          open    \* FALSE once mec_queue_destroy has run

ring == <<buffer, head, tail, count>>
vars == <<buffer, head, tail, count, mutex, pc, arg, wait, out, refs, open>>

-----------------------------------------------------------------------------
(* Each list starts with the reference its creator holds.                  *)
Init == /\ buffer = [i \in Slots |-> Null]
        /\ head = 0
        /\ tail = 0
        /\ count = 0
        /\ mutex = NoThread
        /\ pc = [t \in Threads |-> "idle"]
        /\ arg = [p \in Producers |-> Null]
        /\ wait = [c \in Consumers |-> "zero"]
        /\ out = [c \in Consumers |-> Null]
        /\ refs = [l \in Lists |-> 1]
        /\ open = TRUE

Goto(t, place) == pc' = [pc EXCEPT ![t] = place]

Lock(t) == mutex = NoThread /\ mutex' = t

Unlock == mutex' = NoThread

Asleep == {c \in Consumers : pc[c] = "asleep"}

-----------------------------------------------------------------------------
(* mec_queue_push                                                          *)

(* A call with a NULL message or list returns before it touches the queue. *)
PushCall(p, l) == /\ open
                  /\ pc[p] = "idle"
                  /\ Goto(p, "push_lock")
                  /\ arg' = [arg EXCEPT ![p] = l]
                  /\ UNCHANGED <<ring, mutex, wait, out, refs, open>>

PushLock(p) == /\ pc[p] = "push_lock"
               /\ Lock(p)
               /\ Goto(p, "push_check")
               /\ UNCHANGED <<ring, arg, wait, out, refs, open>>

(* Variants named "... Bug" are plausible mistakes in the definition that   *)
(* follows; no specification uses them.  They show that the properties can *)
(* tell the code from its neighbours.                                      *)
PushFullBug(p) == /\ pc[p] = "push_check"
                  /\ count >= Capacity
                  /\ Goto(p, "idle")  \* returns without unlocking
                  /\ UNCHANGED <<ring, mutex, arg, wait, out, refs, open>>

PushFull(p) == /\ pc[p] = "push_check"
               /\ count >= Capacity
               /\ Unlock
               /\ Goto(p, "idle")
               /\ UNCHANGED <<ring, arg, wait, out, refs, open>>

PushStoreBug(p) == /\ pc[p] = "push_check"
                   /\ count <= Capacity  \* off by one
                   /\ refs' = [refs EXCEPT ![arg[p]] = @ + 1]
                   /\ buffer' = [buffer EXCEPT ![tail] = arg[p]]
                   /\ tail' = (tail + 1) % Capacity
                   /\ Goto(p, "push_count")
                   /\ UNCHANGED <<head, count, mutex, arg, wait, out, open>>

PushStore(p) == /\ pc[p] = "push_check"
                /\ count < Capacity
                /\ refs' = [refs EXCEPT ![arg[p]] = @ + 1]
                /\ buffer' = [buffer EXCEPT ![tail] = arg[p]]
                /\ tail' = (tail + 1) % Capacity
                /\ Goto(p, "push_count")
                /\ UNCHANGED <<head, count, mutex, arg, wait, out, open>>

(* Signals only when the queue was empty before the push.                  *)
PushSignalBug(p) == /\ pc[p] = "push_count"
                    /\ count' = count + 1
                    /\ Unlock
                    /\ \/ /\ Asleep = {} \/ count > 0
                          /\ Goto(p, "idle")
                       \/ /\ count = 0
                          /\ \E c \in Asleep :
                               pc' = [pc EXCEPT ![p] = "idle", ![c] = "woken"]
                    /\ UNCHANGED <<buffer, head, tail, arg, wait, out, refs,
                                   open>>

(* The signal wakes one of the consumers asleep, whichever the scheduler   *)
(* picks, and is lost when there is none.                                  *)
PushSignal(p) == /\ pc[p] = "push_count"
                 /\ count' = count + 1
                 /\ Unlock
                 /\ \/ /\ Asleep = {}
                       /\ Goto(p, "idle")
                    \/ \E c \in Asleep :
                         pc' = [pc EXCEPT ![p] = "idle", ![c] = "woken"]
                 /\ UNCHANGED <<buffer, head, tail, arg, wait, out, refs, open>>

-----------------------------------------------------------------------------
(* mec_queue_pop                                                           *)

PopCall(c, w) == /\ open
                 /\ pc[c] = "idle"
                 /\ out[c] = Null
                 /\ Goto(c, "pop_lock")
                 /\ wait' = [wait EXCEPT ![c] = w]
                 /\ UNCHANGED <<ring, mutex, arg, out, refs, open>>

(* The mutex is taken on entry, and again by a waiter that was woken.      *)
PopLock(c) == /\ pc[c] \in {"pop_lock", "woken"}
              /\ Lock(c)
              /\ Goto(c, "pop_check")
              /\ UNCHANGED <<ring, arg, wait, out, refs, open>>

PopEmpty(c) == /\ pc[c] = "pop_check"
               /\ count = 0
               /\ wait[c] = "zero"
               /\ Unlock
               /\ Goto(c, "idle")
               /\ UNCHANGED <<ring, arg, wait, out, refs, open>>

PopSleep(c) == /\ pc[c] = "pop_check"
               /\ count = 0
               /\ wait[c] # "zero"
               /\ Unlock
               /\ Goto(c, "asleep")
               /\ UNCHANGED <<ring, arg, wait, out, refs, open>>

SpuriousWakeup(c) == /\ pc[c] = "asleep"
                     /\ Goto(c, "woken")
                     /\ UNCHANGED <<ring, mutex, arg, wait, out, refs, open>>

PopTimeout(c) == /\ pc[c] = "asleep"
                 /\ wait[c] = "timed"
                 /\ Goto(c, "expired")
                 /\ UNCHANGED <<ring, mutex, arg, wait, out, refs, open>>

(* A timeout is taken for a wakeup: the loop waits anew.                   *)
PopExpiredBug(c) == /\ pc[c] = "expired"
                    /\ Lock(c)
                    /\ Goto(c, "pop_check")
                    /\ UNCHANGED <<ring, arg, wait, out, refs, open>>

(* pthread_cond_timedwait reacquires the mutex before it returns; the pop  *)
(* then unlocks and fails without looking at count again.                  *)
PopExpired(c) == /\ pc[c] = "expired"
                 /\ mutex = NoThread
                 /\ Goto(c, "idle")
                 /\ UNCHANGED <<ring, mutex, arg, wait, out, refs, open>>

(* Takes the newest message.                                               *)
PopTakeBug(c) == /\ pc[c] = "pop_check"
                 /\ count # 0
                 /\ out' = [out EXCEPT ![c] = buffer[(head + count - 1) % Capacity]]
                 /\ buffer' = [buffer EXCEPT ![head] = Null]
                 /\ Goto(c, "pop_advance")
                 /\ UNCHANGED <<head, tail, count, mutex, arg, wait, refs, open>>

PopTake(c) == /\ pc[c] = "pop_check"
              /\ count # 0
              /\ out' = [out EXCEPT ![c] = buffer[head]]
              /\ buffer' = [buffer EXCEPT ![head] = Null]
              /\ Goto(c, "pop_advance")
              /\ UNCHANGED <<head, tail, count, mutex, arg, wait, refs, open>>

(* head stays behind at the end of the buffer.                             *)
PopReturnBug(c) == /\ pc[c] = "pop_advance"
                   /\ head' = IF head + 1 = Capacity THEN head ELSE head + 1
                   /\ count' = count - 1
                   /\ Unlock
                   /\ Goto(c, "idle")
                   /\ UNCHANGED <<buffer, tail, arg, wait, out, refs, open>>

PopReturn(c) == /\ pc[c] = "pop_advance"
                /\ head' = (head + 1) % Capacity
                /\ count' = count - 1
                /\ Unlock
                /\ Goto(c, "idle")
                /\ UNCHANGED <<buffer, tail, arg, wait, out, refs, open>>

(* The caller owns the reference it popped and gives it back when done.    *)
Release(c) == /\ pc[c] = "idle"
              /\ out[c] # Null
              /\ refs' = [refs EXCEPT ![out[c]] = @ - 1]
              /\ out' = [out EXCEPT ![c] = Null]
              /\ UNCHANGED <<ring, mutex, pc, arg, wait, open>>

-----------------------------------------------------------------------------
(* mec_queue_destroy.  The caller has joined every thread that uses the    *)
(* queue; the guard on pc is that obligation of the caller.                *)

Backlog == {(head + i) % Capacity : i \in 0 .. count - 1}

SlotsOf(l) == {i \in Slots : buffer[i] = l}

(* Releases the first count slots of the buffer instead of those from head.*)
DestroyBug == /\ open
              /\ \A t \in Threads : pc[t] = "idle"
              /\ mutex = NoThread
              /\ open' = FALSE
              /\ refs' = [l \in Lists |->
                            refs[l] - Cardinality(SlotsOf(l) \cap 0 .. count - 1)]
              /\ buffer' = [i \in Slots |-> Null]
              /\ head' = 0
              /\ tail' = 0
              /\ count' = 0
              /\ UNCHANGED <<mutex, pc, arg, wait, out>>

Destroy == /\ open
           /\ \A t \in Threads : pc[t] = "idle"
           /\ mutex = NoThread
           /\ open' = FALSE
           /\ refs' = [l \in Lists |->
                         refs[l] - Cardinality(SlotsOf(l) \cap Backlog)]
           /\ buffer' = [i \in Slots |-> Null]
           /\ head' = 0
           /\ tail' = 0
           /\ count' = 0
           /\ UNCHANGED <<mutex, pc, arg, wait, out>>

(* Nothing is left to do once the queue is destroyed.                      *)
Gone == /\ ~open
        /\ \A c \in Consumers : out[c] = Null
        /\ UNCHANGED vars

-----------------------------------------------------------------------------
Push(p) == PushLock(p) \/ PushFull(p) \/ PushStore(p) \/ PushSignal(p)

Pop(c) == \/ PopLock(c)
          \/ PopEmpty(c)
          \/ PopSleep(c)
          \/ PopExpired(c)
          \/ PopTake(c)
          \/ PopReturn(c)

Next == \/ \E p \in Producers : (\E l \in Lists : PushCall(p, l)) \/ Push(p)
        \/ \E c \in Consumers : \/ \E w \in Waits : PopCall(c, w)
                                \/ Pop(c)
                                \/ SpuriousWakeup(c)
                                \/ PopTimeout(c)
                                \/ Release(c)
        \/ Destroy
        \/ Gone

Spec == Init /\ [][Next]_vars

(* A thread inside a call keeps being scheduled, the mutex is not withheld *)
(* for ever from a thread that keeps asking for it, a timer fires when the *)
(* sleep it bounds lasts, and the main loop gives back what it popped.     *)
(* queue.c:116 sets the timer anew after each wakeup, so a sleep that is   *)
(* cut short again and again need never time out: the timer is only weakly *)
(* fair.  No thread has to call, and no spurious wakeup has to happen.     *)
Fairness == /\ \A p \in Producers : SF_vars(Push(p))
            /\ \A c \in Consumers : /\ SF_vars(Pop(c))
                                    /\ WF_vars(PopTimeout(c))
                                    /\ WF_vars(Release(c))

FairSpec == Spec /\ Fairness
-----------------------------------------------------------------------------
(* Properties                                                              *)

PushPlaces == {"push_lock", "push_check", "push_count"}
PopPlaces == {"pop_lock", "pop_check", "pop_advance",
              "asleep", "woken", "expired"}

(* The mutex is held exactly by the thread inside a critical section.      *)
Inside == {"push_check", "push_count", "pop_check", "pop_advance"}

TypeOK == /\ buffer \in [Slots -> Lists \cup {Null}]
          /\ head \in Slots
          /\ tail \in Slots
          /\ count \in 0 .. Capacity
          /\ mutex \in Threads \cup {NoThread}
          /\ pc \in [Threads -> {"idle"} \cup PushPlaces \cup PopPlaces]
          /\ \A p \in Producers : pc[p] \in {"idle"} \cup PushPlaces
          /\ \A c \in Consumers : pc[c] \in {"idle"} \cup PopPlaces
          /\ arg \in [Producers -> Lists \cup {Null}]
          /\ \A p \in Producers : pc[p] # "idle" => arg[p] \in Lists
          /\ wait \in [Consumers -> Waits]
          /\ out \in [Consumers -> Lists \cup {Null}]
          /\ refs \in [Lists -> Int]
          /\ open \in BOOLEAN

(* No two threads are inside the critical sections of queue.c at once:     *)
(* every return path, the full and the timed out ones included, gives the  *)
(* mutex back exactly once.                                                *)
MutualExclusion == \A t \in Threads : pc[t] \in Inside <=> mutex = t

(* While nobody is inside, the occupied slots are exactly the count slots  *)
(* from head on, and tail is the slot after them (queue.c:84-89, 130-134): *)
(* nothing is overwritten, skipped or popped twice across wrap-around.     *)
RingConsistent ==
  mutex = NoThread => /\ tail = (head + count) % Capacity
                      /\ {i \in Slots : buffer[i] # Null} = Backlog

(* No lost wakeup (queue.c:92, 104-127): while a consumer is asleep, there *)
(* are at most as many messages in the queue as consumers already awake    *)
(* that will look at it again, whatever pops are stolen, time out or wake  *)
(* spuriously in between.                                                  *)
Awake == {c \in Consumers : pc[c] \in {"woken", "pop_check", "pop_advance"}}

NoLostWakeup == Asleep # {} => count <= Cardinality(Awake)

(* Zero-copy accounting (queue.c:54, 81, 130-131): the references to a     *)
(* list are its creator's, one for each slot that holds it and one for     *)
(* each consumer that popped it and has not released it.  A list in the    *)
(* queue can thus not be freed, and no reference is left when it is gone.  *)
Owners(l) == {c \in Consumers : out[c] = l}

RefsAccounted ==
  \A l \in Lists :
    refs[l] = 1 + Cardinality(SlotsOf(l)) + Cardinality(Owners(l))

(* A pop with a timeout, such as the 500 ms one of main.c:224, returns or  *)
(* is woken in vain for ever: its deadline is set anew after each wakeup   *)
(* (queue.c:116), so spurious wakeups and wakeups whose message another    *)
(* consumer takes may keep it, and nothing else may.                       *)
WokenInVain(c) == pc[c] = "woken" /\ count = 0

TimedPopReturns ==
  \A c \in Consumers :
    \/ (pc[c] # "idle" /\ wait[c] # "forever") ~> pc[c] = "idle"
    \/ []<>WokenInVain(c)

(* A consumer does not sleep on while messages stay in the queue.          *)
SleeperServed ==
  \A c \in Consumers :
    (pc[c] = "asleep" /\ count > 0) ~> (pc[c] # "asleep" \/ count = 0)

-----------------------------------------------------------------------------
(* The ring buffer implements the abstract bounded FIFO.  A message is in  *)
(* the queue from the step that increments count to the step that          *)
(* decrements it; between PopTake and PopReturn the head is in out.        *)

Taker == {c \in Consumers : pc[c] = "pop_advance"}

MessageAt(i) == IF i = head /\ Taker # {}
                THEN out[CHOOSE c \in Taker : TRUE]
                ELSE buffer[i]

Contents == [i \in 1 .. count |-> MessageAt((head + i - 1) % Capacity)]

Calling == {t \in Threads : pc[t] # "idle"}

Delivered == [c \in Consumers |-> IF c \in Taker THEN Null ELSE out[c]]

Fifo == INSTANCE BoundedFifo WITH
          fifo <- Contents, calling <- Calling, out <- Delivered

(* Every step of queue.c is a step of the FIFO or invisible in it: results *)
(* are linearizable, messages leave in the order they were accepted, none  *)
(* is lost or duplicated, and a push fails only on a full queue.           *)
ImplementsFifo == Fifo!Spec
=============================================================================
