---------------------------- MODULE LoggingProofs ----------------------------
(***************************************************************************)
(* Proofs about Logging for every set of threads and any number of signals.*)
(***************************************************************************)
EXTENDS Logging, TLAPS

(* The writer is known from the mutex, which makes OneWriter inductive; a  *)
(* handler that holds it interrupted a thread that did not.                *)
LogInv == TypeOK /\ OneWriter

LEMMA LogInvInit == Init => LogInv
<1> SUFFICES ASSUME Init PROVE LogInv
  OBVIOUS
<1>1. /\ at \in [Threads -> [Levels -> Places]]
      /\ \A t \in Threads, l \in Levels :
           at[t][l] = IF l = 0 THEN "run" ELSE "none"
  BY DEF Init, Places
<1>2. 0 \in Levels /\ Main \in Threads /\ Workers \subseteq Threads
  BY DEF Levels, Threads
<1>3. OneWriter
  BY <1>1, LoggingAssumption DEF Init, OneWriter
<1>4. TypeOK
  BY <1>1, <1>2, LoggingAssumption DEF Init, TypeOK
<1>5. QED
  BY <1>3, <1>4 DEF LogInv

(* What every step does to the places: those of one level of one thread.   *)
LEMMA Moved ==
  ASSUME LogInv, NEW t \in Threads, NEW l \in Levels, NEW place \in Places,
         Goto(t, l, place)
  PROVE  /\ at' \in [Threads -> [Levels -> Places]]
         /\ at'[t][l] = place
         /\ \A u \in Threads, k \in Levels :
              <<u, k>> # <<t, l>> => at'[u][k] = at[u][k]
  BY DEF LogInv, TypeOK, Goto

(* A level may move within its code, or begin or end, as long as it does   *)
(* not begin or end a message.                                             *)
LEMMA MovesKeep ==
  ASSUME LogInv, NEW t \in Threads, NEW l \in Levels, NEW place \in Places,
         Goto(t, l, place), at[t][l] # "write", place # "write",
         owner' = owner,
         l = 0 => place \notin {"flag", "none"},
         l # 0 => place \notin {"run", "print", "exited"},
         t = Main => place # "exited",
         t # Main => place # "print"
  PROVE  /\ OneWriter'
         /\ at' \in [Threads -> [Levels -> Places]]
         /\ \A u \in Threads : at'[u][0] \notin {"flag", "none"}
         /\ \A u \in Threads, k \in Levels \ {0} :
              at'[u][k] \notin {"run", "print", "exited"}
         /\ \A w \in Workers : at'[w][0] # "print"
         /\ at'[Main][0] # "exited"
<1>1. /\ at' \in [Threads -> [Levels -> Places]]
      /\ at'[t][l] = place
      /\ \A u \in Threads, k \in Levels :
           <<u, k>> # <<t, l>> => at'[u][k] = at[u][k]
  BY Moved
<1>2. \A u \in Threads, k \in Levels :
        at'[u][k] = "write" <=> at[u][k] = "write"
  BY <1>1
<1>3. OneWriter'
  BY <1>2 DEF LogInv, OneWriter
<1>4. /\ 0 \in Levels /\ Main \in Threads /\ Workers \subseteq Threads
      /\ Main \notin Workers
  BY LoggingAssumption DEF Levels, Threads
<1>5. \A u \in Threads : at'[u][0] \notin {"flag", "none"}
  BY <1>1, <1>4 DEF LogInv, TypeOK
<1>6. \A u \in Threads, k \in Levels \ {0} :
        at'[u][k] \notin {"run", "print", "exited"}
  BY <1>1, <1>4 DEF LogInv, TypeOK
<1>7. \A w \in Workers : at'[w][0] # "print"
  BY <1>1, <1>4 DEF LogInv, TypeOK
<1>8. at'[Main][0] # "exited"
  BY <1>1, <1>4 DEF LogInv, TypeOK
<1>9. QED
  BY <1>1, <1>3, <1>5, <1>6, <1>7, <1>8

(* The steps inside log_message_with_context and the handler.              *)
LEMMA LogLockKeeps ==
  ASSUME LogInv, NEW t \in Threads, NEW l \in Levels, LogLock(t, l)
  PROVE  LogInv'
<1>1. /\ at' \in [Threads -> [Levels -> Places]]
      /\ at'[t][l] = "write"
      /\ \A u \in Threads, k \in Levels :
           <<u, k>> # <<t, l>> => at'[u][k] = at[u][k]
  BY Moved DEF LogLock, Places
<1>2. /\ owner = Nobody /\ owner' = t /\ t # Nobody
      /\ UNCHANGED <<stage, on, running, console, signals>>
  BY LoggingAssumption DEF LogLock
<1>3. \A u \in Threads, k \in Levels : at[u][k] # "write"
  BY <1>2, LoggingAssumption DEF LogInv, OneWriter
<1>4. OneWriter'
  BY <1>1, <1>2, <1>3 DEF OneWriter
<1>5. 0 \in Levels /\ Main \in Threads /\ Workers \subseteq Threads
  BY DEF Levels, Threads
<1>6. TypeOK'
  BY <1>1, <1>2, <1>5 DEF LogInv, TypeOK
<1>7. QED
  BY <1>4, <1>6 DEF LogInv

LEMMA LogUnlockKeeps ==
  ASSUME LogInv, NEW t \in Threads, NEW l \in Levels, LogUnlock(t, l)
  PROVE  LogInv'
<1> DEFINE place == IF l = 0 THEN "run" ELSE "none"
<1>1. /\ at' \in [Threads -> [Levels -> Places]]
      /\ at'[t][l] = place
      /\ \A u \in Threads, k \in Levels :
           <<u, k>> # <<t, l>> => at'[u][k] = at[u][k]
  <2>1. place \in Places /\ Goto(t, l, place)
    BY DEF LogUnlock, Places
  <2>2. QED
    BY <2>1, Moved
<1>2. /\ at[t][l] = "write" /\ owner' = Nobody
      /\ UNCHANGED <<stage, on, running, console, signals>>
  BY DEF LogUnlock, Is
<1>3. owner = t
  BY <1>2 DEF LogInv, OneWriter
<1>4. \A u \in Threads, k \in Levels :
        <<u, k>> # <<t, l>> => at[u][k] # "write"
  BY <1>2, <1>3 DEF LogInv, OneWriter
<1>5. \A u \in Threads, k \in Levels : at'[u][k] # "write"
  BY <1>1, <1>4
<1>6. OneWriter'
  BY <1>2, <1>5, LoggingAssumption DEF OneWriter
<1>7. 0 \in Levels /\ Main \in Threads /\ Workers \subseteq Threads
  BY DEF Levels, Threads
<1>8. TypeOK'
  BY <1>1, <1>2, <1>7 DEF LogInv, TypeOK
<1>9. QED
  BY <1>6, <1>8 DEF LogInv

LEMMA LogInvThread ==
  ASSUME LogInv, NEW t \in Threads, ThreadStep(t)
  PROVE  LogInv'
<1> USE LoggingAssumption
<1>0. 0 \in Levels /\ {"lock", "print", "run", "exited"} \subseteq Places
  BY DEF Levels, Places
<1>1. CASE LogCall(t)
  BY <1>0, <1>1, MovesKeep DEF LogCall, Is, LogInv, TypeOK
<1>2. ASSUME NEW l \in Levels, HandlerFlag(t, l)
      PROVE  LogInv'
  <2>1. l # 0
    BY <1>2 DEF HandlerFlag, Is, LogInv, TypeOK
  <2>2. QED
    BY <1>0, <1>2, <2>1, MovesKeep DEF HandlerFlag, Is, LogInv, TypeOK
<1>3. CASE Exit(t)
  BY <1>0, <1>3, MovesKeep DEF Exit, Is, LogInv, TypeOK
<1>4. CASE t = Main /\ Show
  BY <1>0, <1>4, MovesKeep DEF Show, Is, LogInv, TypeOK
<1>5. CASE t = Main /\ ShowDone
  BY <1>0, <1>5, MovesKeep DEF ShowDone, Is, LogInv, TypeOK
<1>6. QED
  BY <1>1, <1>2, <1>3, <1>4, <1>5, LogLockKeeps, LogUnlockKeeps
  DEF ThreadStep

LEMMA LogInvSignal ==
  ASSUME LogInv, NEW t \in Threads, NEW l \in Levels, Signal(t, l)
  PROVE  LogInv'
<1>1. "flag" \in Places /\ l # 0 /\ l \in Nat /\ signals' \in 0 .. MaxSignals
  BY LoggingAssumption DEF Signal, Levels, Places, LogInv, TypeOK
<1>2. QED
  BY <1>1, MovesKeep DEF Signal, Is, LogInv, TypeOK

LEMMA LogInvMain ==
  ASSUME LogInv, MainStep \/ UNCHANGED vars
  PROVE  LogInv'
<1> USE LoggingAssumption
<1>0. 0 \in Levels /\ "lock" \in Places /\ Main \in Threads
  BY DEF Levels, Places, Threads
<1>1. CASE LeaveLoop
  BY <1>0, <1>1, MovesKeep DEF LeaveLoop, Is, LogInv, TypeOK
<1>2. CASE Joined
  BY <1>0, <1>2, MovesKeep DEF Joined, Is, LogInv, TypeOK
<1>3. CASE Closed
  BY <1>0, <1>3, MovesKeep DEF Closed, Is, LogInv, TypeOK
<1>4. CASE StopWorkers \/ Return \/ UNCHANGED vars
  <2>1. UNCHANGED <<owner, at, running, console, signals>>
        /\ on' \in BOOLEAN
        /\ stage' \in {"loop", "stop", "join", "close", "last", "done"}
    BY <1>4 DEF StopWorkers, Return, vars, LogInv, TypeOK
  <2>2. QED
    BY <2>1 DEF LogInv, TypeOK, OneWriter
<1>5. QED
  BY <1>1, <1>2, <1>3, <1>4 DEF MainStep

LEMMA LogInvStep == LogInv /\ [Next]_vars => LogInv'
  BY LogInvThread, LogInvSignal, LogInvMain DEF Next, Over

(* The places of the threads in logging.c and of main's last stages.       *)
THEOREM LogTypeCorrect == Spec => []TypeOK
<1>1. LogInv => TypeOK
  BY DEF LogInv
<1>2. QED
  BY <1>1, LogInvInit, LogInvStep, PTL DEF Spec

(* log_mutex keeps every two messages apart, whichever threads write them  *)
(* and whichever handlers run on top of those and of one another.          *)
THEOREM OneWriterCorrect == Spec => []OneWriter
<1>1. LogInv => OneWriter
  BY DEF LogInv
<1>2. QED
  BY <1>1, LogInvInit, LogInvStep, PTL DEF Spec

-----------------------------------------------------------------------------
(* How the log gets stuck                                                  *)

(* The level of a thread that runs is in a handler that has not logged     *)
(* yet, in the status line, or in a message that needs nothing further.    *)
GoesOn(t) ==
  \E l \in Levels : /\ Uncovered(t, l)
                    /\ \/ at[t][l] \in {"flag", "print"}
                       \/ at[t][l] = "write" /\ ~StdoutTaken(t)

(* Whoever holds the mutex can go on towards its release, or main can go   *)
(* on with the status line that keeps it from that, or a handler waits for *)
(* what it interrupted.                                                    *)
HolderGoesOn ==
  owner # Nobody => GoesOn(owner) \/ GoesOn(Main) \/ SelfDeadlock

(* The level on top of a thread.                                           *)
LEMMA OneRuns ==
  ASSUME LogInv, NEW t \in Threads
  PROVE  \E l \in Levels :
           /\ at[t][l] # "none" /\ Uncovered(t, l)
           /\ \A k \in Levels : at[t][k] # "none" /\ k # l => k < l
<1>1. at[t][0] # "none"
  BY DEF LogInv, TypeOK
<1>2. CASE at[t][2] # "none"
  BY <1>2 DEF Uncovered, Levels
<1>3. CASE at[t][2] = "none" /\ at[t][1] # "none"
  BY <1>3 DEF Uncovered, Levels
<1>4. CASE at[t][2] = "none" /\ at[t][1] = "none"
  BY <1>1, <1>4 DEF Uncovered, Levels
<1>5. QED
  BY <1>2, <1>3, <1>4

(* The log gets stuck in one way only: nothing else than a handler waiting *)
(* for what it interrupted keeps log_mutex from coming free, however the   *)
(* handlers of the two signals nest and in however many threads they run.  *)
THEOREM HolderGoesOnCorrect == Spec => []HolderGoesOn
<1>1. LogInv => HolderGoesOn
  <2> SUFFICES ASSUME LogInv, owner # Nobody, ~SelfDeadlock
               PROVE  GoesOn(owner) \/ GoesOn(Main)
    BY DEF HolderGoesOn
  <2>1. owner \in Threads /\ \E k \in Levels : at[owner][k] = "write"
    BY DEF LogInv, TypeOK, OneWriter
  <2>2. PICK k \in Levels : at[owner][k] = "write"
    BY <2>1
  <2>3. PICK l \in Levels :
          /\ at[owner][l] # "none" /\ Uncovered(owner, l)
          /\ \A j \in Levels : at[owner][j] # "none" /\ j # l => j < l
    BY <2>1, OneRuns
  <2>4. CASE k # l
    <3>1. k < l /\ at[owner][l] # "lock"
      BY <2>1, <2>2, <2>3, <2>4 DEF SelfDeadlock
    <3>2. at[owner][l] # "write"
      BY <2>1, <2>2, <2>4 DEF LogInv, OneWriter
    <3>3. l # 0
      BY <3>1 DEF Levels
    <3>4. at[owner][l] = "flag"
      BY <2>1, <2>3, <3>1, <3>2, <3>3 DEF LogInv, TypeOK, Places
    <3>5. QED
      BY <2>3, <3>4 DEF GoesOn
  <2>5. CASE k = l /\ ~StdoutTaken(owner)
    BY <2>2, <2>3, <2>5 DEF GoesOn
  <2>6. CASE StdoutTaken(owner)
    <3>1. /\ console /\ owner # Main /\ at[Main][0] = "print"
          /\ Main \in Threads /\ 0 \in Levels
      BY <2>6 DEF StdoutTaken, Threads, Levels
    <3>2. PICK m \in Levels :
            /\ at[Main][m] # "none" /\ Uncovered(Main, m)
            /\ \A j \in Levels : at[Main][j] # "none" /\ j # m => j < m
      BY <3>1, OneRuns
    <3>3. CASE m = 0
      BY <3>1, <3>2, <3>3 DEF GoesOn
    <3>4. CASE m # 0
      <4>1. 0 < m
        BY <3>1, <3>2, <3>4
      <4>2. at[Main][m] # "lock"
        BY <3>1, <4>1 DEF SelfDeadlock
      <4>3. at[Main][m] # "write"
        BY <3>1 DEF LogInv, OneWriter
      <4>4. at[Main][m] = "flag"
        BY <3>1, <3>2, <3>4, <4>2, <4>3 DEF LogInv, TypeOK, Places
      <4>5. QED
        BY <3>2, <4>4 DEF GoesOn
    <3>5. QED
      BY <3>3, <3>4
  <2>7. QED
    BY <2>4, <2>5, <2>6
<1>2. QED
  BY <1>1, LogInvInit, LogInvStep, PTL DEF Spec

(* The handler on top of level k of t waits for the mutex.                 *)
Waits(t, k) == \E l \in Levels : k < l /\ at[t][l] = "lock"

(* It waits for good as long as the mutex is held.                         *)
LEMMA WaitsOn ==
  ASSUME LogInv, [Next]_vars, NEW t \in Threads, NEW k \in Levels,
         Waits(t, k), owner # Nobody
  PROVE  Waits(t, k)' /\ at'[t][k] = at[t][k]
<1>1. PICK l \in Levels : k < l /\ at[t][l] = "lock"
  BY DEF Waits
<1>2. ~Uncovered(t, k) /\ k \in Nat /\ l \in Nat
  BY <1>1 DEF Uncovered, Levels
<1>3. ASSUME NEW u \in Threads, NEW m \in Levels, NEW place \in Places,
             Goto(u, m, place), Uncovered(u, m),
             <<u, m>> # <<t, l>>
      PROVE  at'[t][l] = "lock" /\ at'[t][k] = at[t][k]
  <2>1. <<u, m>> # <<t, k>>
    BY <1>2, <1>3
  <2>2. QED
    BY <1>1, <1>3, <2>1, Moved
<1>4. 0 \in Levels /\ Main \in Threads
      /\ {"lock", "write", "print", "run", "exited", "flag", "none"}
           \subseteq Places
  BY DEF Levels, Threads, Places
<1>5. ASSUME NEW u \in Threads, ThreadStep(u)
      PROVE  at'[t][l] = "lock" /\ at'[t][k] = at[t][k]
  <2>1. CASE LogCall(u)
    BY <1>1, <1>3, <1>4, <2>1 DEF LogCall, Is
  <2>2. ASSUME NEW m \in Levels, LogLock(u, m) PROVE FALSE
    BY <2>2 DEF LogLock
  <2>3. ASSUME NEW m \in Levels, LogUnlock(u, m)
        PROVE  at'[t][l] = "lock" /\ at'[t][k] = at[t][k]
    BY <1>1, <1>3, <1>4, <2>3 DEF LogUnlock, Is
  <2>4. ASSUME NEW m \in Levels, HandlerFlag(u, m)
        PROVE  at'[t][l] = "lock" /\ at'[t][k] = at[t][k]
    BY <1>1, <1>3, <1>4, <2>4 DEF HandlerFlag, Is
  <2>5. CASE Exit(u)
    BY <1>1, <1>3, <1>4, <2>5 DEF Exit, Is
  <2>6. CASE u = Main /\ (Show \/ ShowDone)
    BY <1>1, <1>3, <1>4, <2>6 DEF Show, ShowDone, Is
  <2>7. QED
    BY <1>5, <2>1, <2>2, <2>3, <2>4, <2>5, <2>6 DEF ThreadStep
<1>6. ASSUME NEW u \in Threads, NEW m \in Levels, Signal(u, m)
      PROVE  at'[t][l] = "lock" /\ at'[t][k] = at[t][k]
  BY <1>1, <1>3, <1>4, <1>6 DEF Signal, Is
<1>7. ASSUME MainStep \/ UNCHANGED vars
      PROVE  at'[t][l] = "lock" /\ at'[t][k] = at[t][k]
  BY <1>1, <1>3, <1>4, <1>7
  DEF MainStep, LeaveLoop, StopWorkers, Joined, Closed, Return, vars, Is
<1>8. QED
  BY <1>1, <1>5, <1>6, <1>7 DEF Next, Over, Waits

(* A thread whose message has to wait holds the mutex on.                  *)
LEMMA HoldsOn ==
  ASSUME LogInv, [Next]_vars, StdoutTaken(owner), owner # Nobody
  PROVE  owner' = owner
<1>1. \A l \in Levels : ~LogLock(owner, l) /\ ~LogUnlock(owner, l)
  BY DEF LogLock, LogUnlock
<1>2. ASSUME NEW u \in Threads, NEW l \in Levels,
             LogLock(u, l) \/ LogUnlock(u, l)
      PROVE  FALSE
  <2>1. owner = u
    BY <1>2 DEF LogLock, LogUnlock, Is, LogInv, OneWriter
  <2>2. QED
    BY <1>1, <1>2, <2>1
<1>3. QED
  BY <1>2
  DEF Next, ThreadStep, LogCall, HandlerFlag, Exit, Show, ShowDone, Signal,
      MainStep, LeaveLoop, StopWorkers, Joined, Closed, Return, Over, vars

(* And that way is for good: no thread, signal or stage of main's shutdown *)
(* ends a handler's waiting for what it interrupted.                       *)
THEOREM DeadlockStays == Spec => [][SelfDeadlock => SelfDeadlock']_vars
<1>1. ASSUME LogInv, [Next]_vars, SelfDeadlock
      PROVE  SelfDeadlock'
  <2>1. PICK t \in Threads, k \in Levels :
          /\ Waits(t, k)
          /\ \/ at[t][k] = "write"
             \/ at[t][k] = "print" /\ console /\ owner \notin {Nobody, t}
    BY <1>1 DEF SelfDeadlock, Waits
  <2>2. CASE at[t][k] = "write"
    <3>1. owner # Nobody
      BY <1>1, <2>2, LoggingAssumption DEF LogInv, OneWriter
    <3>2. Waits(t, k)' /\ at'[t][k] = "write"
      BY <1>1, <2>1, <2>2, <3>1, WaitsOn
    <3>3. QED
      BY <3>2 DEF SelfDeadlock, Waits
  <2>3. CASE at[t][k] = "print" /\ console /\ owner \notin {Nobody, t}
    <3>1. Waits(t, k)' /\ at'[t][k] = "print"
      BY <1>1, <2>1, <2>3, WaitsOn
    <3>2. t = Main /\ k = 0
      BY <1>1, <2>3 DEF LogInv, TypeOK, Threads
    <3>3. owner' = owner
      BY <1>1, <2>3, <3>2, HoldsOn DEF StdoutTaken
    <3>4. console' = console
      BY <1>1
      DEF Next, ThreadStep, LogCall, LogLock, LogUnlock, HandlerFlag, Exit,
          Show, ShowDone, Signal, MainStep, LeaveLoop, StopWorkers, Joined,
          Closed, Return, Over, vars
    <3>5. QED
      BY <2>3, <3>1, <3>3, <3>4 DEF SelfDeadlock, Waits
  <2>4. QED
    BY <2>1, <2>2, <2>3
<1>2. LogInv /\ [Next]_vars => (SelfDeadlock => SelfDeadlock')
  BY <1>1
<1>3. QED
  BY <1>2, LogInvInit, LogInvStep, PTL DEF Spec
=============================================================================
