------------------------------ MODULE Logging ------------------------------
(***************************************************************************)
(* The mutex of the log (logging.c) and those who take it: the threads,    *)
(* main with its last messages and the closing of the file, and the signal *)
(* handler of main.c, which runs on top of whatever thread a signal is     *)
(* delivered to and logs as well.  log_mutex is an ordinary mutex: who     *)
(* finds it held by the code that it interrupted waits for ever.           *)
(*                                                                         *)
(* SIGINT and SIGTERM are installed by signal(), each of which blocks only *)
(* itself and only in the thread that handles it.  So one may nest on the  *)
(* other, and handlers may run in several threads at once.                 *)
(*                                                                         *)
(* If log_init cannot open its file, messages go to stdout, whose lock     *)
(* main takes without log_mutex for its status line (main.c:241).  The     *)
(* lock of stdout is recursive and is free between the writes.             *)
(***************************************************************************)
EXTENDS Naturals

CONSTANTS Workers,    \* the threads that main stops and joins
          Main,
          Nobody,     \* the owner of a free mutex
          MaxSignals  \* bound: signals delivered

Threads == Workers \cup {Main}

ASSUME LoggingAssumption == /\ Main \notin Workers
                            /\ Nobody \notin Threads
                            /\ MaxSignals \in Nat

(* The code of a thread, level 0, and a handler for each of the two        *)
(* signals on top of it.                                                   *)
Levels == 0 .. 2

VARIABLES owner,   \* the thread that holds log_mutex
          at,      \* where each thread is at each level; "none" for no handler
          stage,   \* what main is about to do
          on,      \* thread_ctx.running of the workers
          running, \* main.c: static int running
          console, \* g_log_manager.target is LOG_TARGET_CONSOLE
          signals  \* signals delivered so far

vars == <<owner, at, stage, on, running, console, signals>>

Init == /\ owner = Nobody
        /\ at = [t \in Threads |->
                    [l \in Levels |-> IF l = 0 THEN "run" ELSE "none"]]
        /\ stage = "loop"
        /\ on = TRUE
        /\ running = TRUE
        /\ console \in BOOLEAN
        /\ signals = 0

(* A level goes on when no handler runs on top of it.                      *)
Uncovered(t, l) == \A k \in Levels : k > l => at[t][k] = "none"

Is(t, l, place) == at[t][l] = place /\ Uncovered(t, l)

Goto(t, l, place) == at' = [at EXCEPT ![t][l] = place]

-----------------------------------------------------------------------------
(* log_message_with_context                                                *)

(* Workers log as often as they like, main in its loop too.                *)
LogCall(t) == /\ Is(t, 0, "run")
              /\ t = Main => stage = "loop"
              /\ Goto(t, 0, "lock")
              /\ UNCHANGED <<owner, stage, on, running, console, signals>>

LogLockBug(t, l) == /\ Is(t, l, "lock")  \* does not wait for the mutex
                    /\ owner' = t
                    /\ Goto(t, l, "write")
                    /\ UNCHANGED <<stage, on, running, console, signals>>

LogLock(t, l) == /\ Is(t, l, "lock")
                 /\ owner = Nobody
                 /\ owner' = t
                 /\ Goto(t, l, "write")
                 /\ UNCHANGED <<stage, on, running, console, signals>>

(* Main is in printf with the lock of stdout, which the message needs.     *)
StdoutTaken(t) == console /\ t # Main /\ at[Main][0] = "print"

LogUnlockBug(t, l) == /\ Is(t, l, "write")  \* returns with the mutex
                      /\ ~StdoutTaken(t)
                      /\ Goto(t, l, IF l = 0 THEN "run" ELSE "none")
                      /\ UNCHANGED <<owner, stage, on, running, console,
                                      signals>>

(* The message is all that a handler has left to do.                       *)
LogUnlock(t, l) == /\ Is(t, l, "write")
                   /\ ~StdoutTaken(t)
                   /\ owner' = Nobody
                   /\ Goto(t, l, IF l = 0 THEN "run" ELSE "none")
                   /\ UNCHANGED <<stage, on, running, console, signals>>

(* The status line of main.                                                *)
Show == /\ Is(Main, 0, "run")
         /\ stage = "loop"
         /\ Goto(Main, 0, "print")
         /\ UNCHANGED <<owner, stage, on, running, console, signals>>

ShowDone == /\ Is(Main, 0, "print")
           /\ Goto(Main, 0, "run")
           /\ UNCHANGED <<owner, stage, on, running, console, signals>>

-----------------------------------------------------------------------------
(* signal_handler                                                          *)

(* On top of a handler this is the signal which that does not handle.      *)
Signal(t, l) == /\ signals < MaxSignals
                /\ stage # "done"
                /\ l > 0
                /\ at[t][l - 1] \notin {"exited", "none"}
                /\ Is(t, l, "none")
                /\ Goto(t, l, "flag")
                /\ signals' = signals + 1
                /\ UNCHANGED <<owner, stage, on, running, console>>

HandlerFlag(t, l) == /\ Is(t, l, "flag")
                     /\ running' = FALSE
                     /\ Goto(t, l, "lock")
                     /\ UNCHANGED <<owner, stage, on, console, signals>>

-----------------------------------------------------------------------------
(* The end of main.  Each of its stages logs or closes the log, both under *)
(* the mutex, and then goes on.                                            *)
LeaveLoop == /\ stage = "loop"
             /\ ~running
             /\ Is(Main, 0, "run")
             /\ Goto(Main, 0, "lock")
             /\ stage' = "stop"
             /\ UNCHANGED <<owner, on, running, console, signals>>

StopWorkers == /\ stage = "stop"
               /\ Is(Main, 0, "run")
               /\ on' = FALSE
               /\ stage' = "join"
               /\ UNCHANGED <<owner, at, running, console, signals>>

ExitBug(t) == /\ Is(t, 0, "run")  \* main too
              /\ ~on
              /\ Goto(t, 0, "exited")
              /\ UNCHANGED <<owner, stage, on, running, console, signals>>

Exit(t) == /\ t \in Workers
           /\ Is(t, 0, "run")
           /\ ~on
           /\ Goto(t, 0, "exited")
           /\ UNCHANGED <<owner, stage, on, running, console, signals>>

(* log_cleanup and the message after it both pass through the mutex.       *)
Joined == /\ stage = "join"
          /\ Is(Main, 0, "run")
          /\ \A w \in Workers : at[w][0] = "exited"
          /\ Goto(Main, 0, "lock")
          /\ stage' = "close"
          /\ UNCHANGED <<owner, on, running, console, signals>>

Closed == /\ stage = "close"
          /\ Is(Main, 0, "run")
          /\ Goto(Main, 0, "lock")
          /\ stage' = "last"
          /\ UNCHANGED <<owner, on, running, console, signals>>

Return == /\ stage = "last"
          /\ Is(Main, 0, "run")
          /\ stage' = "done"
          /\ UNCHANGED <<owner, at, on, running, console, signals>>

Over == stage = "done" /\ UNCHANGED vars

-----------------------------------------------------------------------------
ThreadStep(t) == \/ LogCall(t)
                 \/ \E l \in Levels : \/ LogLock(t, l)
                                      \/ LogUnlock(t, l)
                                      \/ HandlerFlag(t, l)
                 \/ Exit(t)
                 \/ t = Main /\ (Show \/ ShowDone)

MainStep == LeaveLoop \/ StopWorkers \/ Joined \/ Closed \/ Return

Next == \/ \E t \in Threads : ThreadStep(t)
        \/ \E t \in Threads, l \in Levels : Signal(t, l)
        \/ MainStep
        \/ Over

Spec == Init /\ [][Next]_vars

(* Every thread keeps being scheduled and none is kept from the mutex for  *)
(* ever.  Between two tests of its flag, main's loop and a worker's have   *)
(* finitely many messages, so each comes to leave its loop.  No signal has *)
(* to come.                                                                *)
Fairness == /\ \A t \in Threads : SF_vars(ThreadStep(t))
            /\ \A w \in Workers : SF_vars(Exit(w))
            /\ SF_vars(MainStep)

FairSpec == Spec /\ Fairness

-----------------------------------------------------------------------------
Places == {"run", "lock", "write", "print", "exited", "flag", "none"}

TypeOK == /\ owner \in Threads \cup {Nobody}
          /\ at \in [Threads -> [Levels -> Places]]
          /\ \A t \in Threads : at[t][0] \notin {"flag", "none"}
          /\ \A t \in Threads, l \in Levels \ {0} :
               at[t][l] \notin {"run", "print", "exited"}
          /\ \A w \in Workers : at[w][0] # "print"
          /\ at[Main][0] # "exited"
          /\ stage \in {"loop", "stop", "join", "close", "last", "done"}
          /\ on \in BOOLEAN
          /\ running \in BOOLEAN
          /\ console \in BOOLEAN
          /\ signals \in 0 .. MaxSignals

(* No two messages are written at once, those of handlers and of what they *)
(* run on top of included, and the mutex is held exactly meanwhile:        *)
(* logging.c:99-152 leaves it on its only path.                            *)
OneWriter ==
  /\ \A t \in Threads : owner = t <=> \E l \in Levels : at[t][l] = "write"
  /\ \A t \in Threads, k, l \in Levels :
       at[t][k] = "write" /\ at[t][l] = "write" => k = l

(* A handler waits for the message that it interrupted, that of its thread *)
(* or of the other handler, or for one that waits for the status line that *)
(* it interrupted.                                                         *)
SelfDeadlock ==
  \E t \in Threads, k, l \in Levels :
    /\ k < l
    /\ at[t][l] = "lock"
    /\ \/ at[t][k] = "write"
       \/ at[t][k] = "print" /\ console /\ owner \notin {Nobody, t}

(* A stop signal leads to the end of main unless a handler interrupted the *)
(* output that its own message has to wait for: no other order of threads, *)
(* handlers, messages and cleanup gets stuck on the log.  main.c:16 says   *)
(* that the handler makes sure the system exits safely: in that case it    *)
(* does not.                                                               *)
StopsUnlessInterrupted == ~running ~> (stage = "done" \/ SelfDeadlock)
=============================================================================
