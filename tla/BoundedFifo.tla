---------------------------- MODULE BoundedFifo ----------------------------
(***************************************************************************)
(* What the message queue promises its callers, without the ring buffer,   *)
(* the mutex or the condition variable: a bounded first-in first-out       *)
(* sequence on which every call takes effect at one instant, between its   *)
(* invocation and its return.  include/mec_queue.h, lines 38 to 65.        *)
(*                                                                         *)
(*   - a push appends its message, or fails because the queue is full at   *)
(*     that instant; it never waits for room;                              *)
(*   - a pop removes and returns the head; a pop that may not wait fails   *)
(*     only on an empty queue, a pop with a deadline may fail at any time, *)
(*     a pop without a deadline never fails.                               *)
(***************************************************************************)
EXTENDS Naturals, Sequences

CONSTANTS Producers, Consumers,  \* the calling threads
          Lists,                 \* the track lists the messages point to
          Null,                  \* the NULL pointer
          Capacity

VARIABLES fifo,    \* the messages in the queue, the oldest first
          calling, \* the threads inside a call
          arg,     \* what each producer is pushing, or pushed last
          wait,    \* how long each consumer's last pop may wait
          out,     \* the message each consumer owns, or Null
          open     \* FALSE once the queue is destroyed

vars == <<fifo, calling, arg, wait, out, open>>

Waits == {"forever", "zero", "timed"}

Init == /\ fifo = << >>
        /\ calling = {}
        /\ arg = [p \in Producers |-> Null]
        /\ wait = [c \in Consumers |-> "zero"]
        /\ out = [c \in Consumers |-> Null]
        /\ open = TRUE

-----------------------------------------------------------------------------
CallPush(p, l) == /\ open
                  /\ p \notin calling
                  /\ calling' = calling \cup {p}
                  /\ arg' = [arg EXCEPT ![p] = l]
                  /\ UNCHANGED <<fifo, wait, out, open>>

PushOk(p) == /\ p \in calling
             /\ Len(fifo) < Capacity
             /\ fifo' = Append(fifo, arg[p])
             /\ calling' = calling \ {p}
             /\ UNCHANGED <<arg, wait, out, open>>

PushFails(p) == /\ p \in calling
                /\ Len(fifo) = Capacity
                /\ calling' = calling \ {p}
                /\ UNCHANGED <<fifo, arg, wait, out, open>>

CallPop(c, w) == /\ open
                 /\ c \notin calling
                 /\ out[c] = Null
                 /\ calling' = calling \cup {c}
                 /\ wait' = [wait EXCEPT ![c] = w]
                 /\ UNCHANGED <<fifo, arg, out, open>>

PopOk(c) == /\ c \in calling
            /\ fifo # << >>
            /\ out' = [out EXCEPT ![c] = Head(fifo)]
            /\ fifo' = Tail(fifo)
            /\ calling' = calling \ {c}
            /\ UNCHANGED <<arg, wait, open>>

PopFails(c) == /\ c \in calling
               /\ \/ wait[c] = "zero" /\ fifo = << >>
                  \/ wait[c] = "timed"
               /\ calling' = calling \ {c}
               /\ UNCHANGED <<fifo, arg, wait, out, open>>

(* The consumer is done with the message it popped.                        *)
Consume(c) == /\ out[c] # Null
              /\ out' = [out EXCEPT ![c] = Null]
              /\ UNCHANGED <<fifo, calling, arg, wait, open>>

Close == /\ open
         /\ calling = {}
         /\ open' = FALSE
         /\ fifo' = << >>
         /\ UNCHANGED <<calling, arg, wait, out>>

Next == \/ \E p \in Producers : \/ \E l \in Lists : CallPush(p, l)
                                \/ PushOk(p)
                                \/ PushFails(p)
        \/ \E c \in Consumers : \/ \E w \in Waits : CallPop(c, w)
                                \/ PopOk(c)
                                \/ PopFails(c)
                                \/ Consume(c)
        \/ Close

Spec == Init /\ [][Next]_vars
=============================================================================
