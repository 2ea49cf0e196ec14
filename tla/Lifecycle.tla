------------------------------ MODULE Lifecycle ------------------------------
(***************************************************************************)
(* The startup and the cleanup of main.c, from the installation of the     *)
(* signal handlers to the return: what is created and started in which     *)
(* order, what a failure on the way leaves behind, and what the cleanup    *)
(* label then stops and frees, together with the threads that run          *)
(* meanwhile.  The message loop itself is in Pipeline.                     *)
(***************************************************************************)
EXTENDS Naturals, Sequences

VARIABLES sim,     \* --sim given
          phase,   \* where main is
          step,    \* position in the startup plan or in the cleanup order
          slot,    \* main's pointer to each object
          ctx,     \* the thread_context_t of each object that has a thread
          thread,  \* the threads themselves
          flag,    \* thread_ctx.running
          running, \* main.c: static int running
          ret,     \* the mec_error_code_t that main returns on
          entered, \* history: main has been in the message loop
          faults   \* history: something has failed that the system needs

vars == <<sim, phase, step, slot, ctx, thread, flag, running, ret, entered,
          faults>>

Threaded == {"simulator", "video", "radar", "fusion", "monitor"}
Objects == Threaded \cup {"config", "queue"}

(* What the thread of an object uses besides main's help.                  *)
Uses == [simulator |-> {"simulator"},
         video     |-> {"video", "queue"},
         radar     |-> {"radar", "queue"},
         fusion    |-> {"fusion"},
         monitor   |-> {"monitor", "fusion"}]

Plan ==
  IF sim
  THEN <<<<"load", "config">>, <<"create", "queue">>, <<"create", "fusion">>,
         <<"declare", "pointers">>,
         <<"create", "simulator">>, <<"start", "simulator">>,
         <<"start", "fusion">>, <<"start", "monitor">> >>
  ELSE <<<<"load", "config">>, <<"create", "queue">>, <<"create", "fusion">>,
         <<"declare", "pointers">>,
         <<"create", "video">>, <<"create", "radar">>,
         <<"start", "video">>, <<"start", "radar">>,
         <<"start", "fusion">>, <<"start", "monitor">> >>

CleanupOrderBug == <<"monitor", "simulator", "queue", "video", "radar",
                     "fusion", "config">>

CleanupOrder == <<"monitor", "simulator", "video", "radar", "fusion", "queue",
                  "config">>

-----------------------------------------------------------------------------
(* config is the only pointer initialised before the first goto.           *)
Init == /\ sim \in BOOLEAN
        /\ phase = "startup"
        /\ step = 1
        /\ slot = [o \in Objects |-> IF o = "config" THEN "null" ELSE "unset"]
        /\ ctx = [o \in Threaded |-> "raw"]
        /\ thread = [o \in Threaded |-> "none"]
        /\ flag = [o \in Threaded |-> FALSE]
        /\ running = TRUE
        /\ ret = "none"
        /\ entered = FALSE
        /\ faults = FALSE

Due(verb, o) == /\ phase = "startup"
                /\ step <= Len(Plan)
                /\ Plan[step] = <<verb, o>>

Advance == step' = step + 1 /\ UNCHANGED phase

GotoCleanup == phase' = "cleanup" /\ step' = 1

-----------------------------------------------------------------------------
(* Startup                                                                 *)

LoadOk == /\ Due("load", "config")
          /\ slot' = [slot EXCEPT !["config"] = "live"]
          /\ ret' = "ok"
          /\ Advance
          /\ UNCHANGED <<sim, ctx, thread, flag, running, entered, faults>>

(* The file cannot be opened, or there is no memory: config stays NULL.    *)
(* Without a configuration only the simulation goes on: with defaults for  *)
(* the fusion engine, and a file name for the simulator that config_get_   *)
(* string has not written, so that its thread ends at once.                *)
LoadFails == /\ Due("load", "config")
             /\ faults' = (faults \/ ~sim)
             /\ ret' = "error"
             /\ IF sim THEN Advance ELSE GotoCleanup
             /\ UNCHANGED <<sim, slot, ctx, thread, flag, running, entered>>

(* The lock of the configuration cannot be initialised: config_load frees  *)
(* it again and leaves main's pointer as it is.                            *)
LockFails == /\ Due("load", "config")
             /\ slot' = [slot EXCEPT !["config"] = "dangling"]
             /\ faults' = TRUE
             /\ ret' = "error"
             /\ IF sim THEN Advance ELSE GotoCleanup
             /\ UNCHANGED <<sim, ctx, thread, flag, running, entered>>

(* main takes a configuration that is not NULL for a good one and reads it *)
(* before it creates the fusion processor and the simulator.  It finds     *)
(* some text or other there and goes on (CreateOk, CreateFails), or the    *)
(* freed lock and entries are its end: it crashes, or never gets the lock. *)
ReadsFreed == /\ \E o \in {"fusion", "simulator"} : Due("create", o)
              /\ slot["config"] = "dangling"
              /\ phase' = "crashed"
              /\ UNCHANGED <<sim, step, slot, ctx, thread, flag, running, ret,
                             entered, faults>>

CreateOk(o) == /\ Due("create", o)
               /\ slot' = [slot EXCEPT ![o] = "live"]
               /\ Advance
               /\ UNCHANGED <<sim, ctx, thread, flag, running, ret, entered,
                              faults>>

CreateFails(o) == /\ Due("create", o)
                  /\ slot' = [slot EXCEPT ![o] = "null"]
                  /\ faults' = TRUE
                  /\ ret' = "error"
                  /\ GotoCleanup
                  /\ UNCHANGED <<sim, ctx, thread, flag, running, entered>>

(* simulator_create unwinds a half-built simulator with simulator_destroy, *)
(* which calls thread_destroy on a context nobody has initialised.         *)
UnwindCrashes == /\ Due("create", "simulator")
                 /\ phase' = "crashed"
                 /\ UNCHANGED <<sim, step, slot, ctx, thread, flag, running,
                                ret, entered, faults>>

(* The four pointers initialised to NULL where they are declared.          *)
DeclareBug == /\ Due("declare", "pointers")
              /\ Advance
              /\ UNCHANGED <<sim, slot, ctx, thread, flag, running, ret, entered,
                             faults>>

Declare == /\ Due("declare", "pointers")
           /\ slot' = [o \in Objects |->
                         IF o \in {"video", "radar", "simulator", "monitor"}
                         THEN "null" ELSE slot[o]]
           /\ Advance
           /\ UNCHANGED <<sim, ctx, thread, flag, running, ret, entered,
                          faults>>

(* The radar never starts: main leaves radar_cfg.baud_rate 0, a rate that  *)
(* setup_serial_port refuses.  monitor_start_service allocates as well.    *)
StartOk(o) == /\ Due("start", o)
              /\ o # "radar"
              /\ slot' = [slot EXCEPT ![o] = "live"]
              /\ ctx' = [ctx EXCEPT ![o] = "ready"]
              /\ thread' = [thread EXCEPT ![o] = "running"]
              /\ flag' = [flag EXCEPT ![o] = TRUE]
              /\ Advance
              /\ UNCHANGED <<sim, running, ret, entered, faults>>

(* thread_create sets running, and may fail at any of its three calls;     *)
(* the radar fails before it gets there.                                   *)
StartFails(o) == /\ Due("start", o)
                 /\ o # "monitor"
                 /\ flag' = [flag EXCEPT ![o] = (o # "radar")]
                 /\ faults' = (faults \/ o # "radar")
                 /\ ret' = "error"
                 /\ GotoCleanup
                 /\ UNCHANGED <<sim, slot, ctx, thread, running, entered>>

(* The system runs without its monitor.                                    *)
MonitorFails == /\ Due("start", "monitor")
                /\ slot' = [slot EXCEPT !["monitor"] = "null"]
                /\ Advance
                /\ UNCHANGED <<sim, ctx, thread, flag, running, ret,
                               entered, faults>>

EnterLoop == /\ phase = "startup"
             /\ step > Len(Plan)
             /\ phase' = "loop"
             /\ entered' = TRUE
             /\ UNCHANGED <<sim, step, slot, ctx, thread, flag, running, ret,
                            faults>>

LeaveLoop == /\ phase = "loop"
             /\ ~running
             /\ ret' = "ok"
             /\ GotoCleanup
             /\ UNCHANGED <<sim, slot, ctx, thread, flag, running, entered,
                            faults>>

-----------------------------------------------------------------------------
(* The signals and the threads                                             *)

Alive == phase \in {"startup", "loop", "cleanup"}

(* SIGINT or SIGTERM.                                                      *)
Signal == /\ Alive
          /\ running
          /\ running' = FALSE
          /\ UNCHANGED <<sim, phase, step, slot, ctx, thread, flag, ret,
                         entered, faults>>

(* signal_handler has a branch for SIGHUP but is installed for SIGINT and  *)
(* SIGTERM only: the default action ends the process.                      *)
Hangup == /\ Alive
          /\ phase' = "killed"
          /\ UNCHANGED <<sim, step, slot, ctx, thread, flag, running, ret,
                         entered, faults>>

(* A thread ends when it sees its flag cleared.  Those of the simulator    *)
(* and of the monitor also end by themselves, when they cannot open their  *)
(* file or socket.                                                         *)
ThreadEnds(o) == /\ Alive
                 /\ thread[o] = "running"
                 /\ ~flag[o] \/ o \in {"simulator", "monitor"}
                 /\ thread' = [thread EXCEPT ![o] = "ended"]
                 /\ UNCHANGED <<sim, phase, step, slot, ctx, flag, running,
                                ret, entered, faults>>

-----------------------------------------------------------------------------
(* Cleanup                                                                 *)

Cleaning(o) == /\ phase = "cleanup"
               /\ step <= Len(CleanupOrder)
               /\ CleanupOrder[step] = o

(* A pointer that is NULL is skipped, and so is one that a goto left       *)
(* uninitialised, if it happens to hold 0.                                 *)
Skip(o) == /\ Cleaning(o)
           /\ slot[o] \in {"null", "unset"}
           /\ step' = step + 1
           /\ UNCHANGED <<sim, phase, slot, ctx, thread, flag, running, ret,
                          entered, faults>>

(* If it does not, main follows it.                                        *)
Wild(o) == /\ Cleaning(o)
           /\ slot[o] = "unset"
           /\ phase' = "crashed"
           /\ UNCHANGED <<sim, step, slot, ctx, thread, flag, running, ret,
                          entered, faults>>

StopFlagBug(o) == /\ Cleaning(o)
                  /\ o \in Threaded
                  /\ slot[o] = "live"
                  /\ flag[o]
                  /\ UNCHANGED vars

StopFlag(o) == /\ Cleaning(o)
               /\ o \in Threaded
               /\ slot[o] = "live"
               /\ flag[o]
               /\ flag' = [flag EXCEPT ![o] = FALSE]
               /\ UNCHANGED <<sim, phase, step, slot, ctx, thread, running,
                              ret, entered, faults>>

Join(o) == /\ Cleaning(o)
           /\ o \in Threaded
           /\ slot[o] = "live"
           /\ ~flag[o]
           /\ ctx[o] = "ready"
           /\ thread[o] = "ended"
           /\ ctx' = [ctx EXCEPT ![o] = "joined"]
           /\ UNCHANGED <<sim, phase, step, slot, thread, flag, running, ret,
                          entered, faults>>

(* thread_destroy on a context that no thread_create has completed: it is  *)
(* harmless if the memory held zeros, and not if it held anything else.    *)
RawStop(o) == /\ Cleaning(o)
              /\ o \in Threaded
              /\ slot[o] = "live"
              /\ ~flag[o]
              /\ ctx[o] = "raw"
              /\ phase' = "crashed"
              /\ UNCHANGED <<sim, step, slot, ctx, thread, flag, running,
                             ret, entered, faults>>

FreeBug(o) == /\ Cleaning(o)
              /\ slot[o] = "live"
              /\ slot' = [slot EXCEPT ![o] = "freed"]
              /\ step' = step + 1
              /\ UNCHANGED <<sim, phase, ctx, thread, flag, running, ret,
                             entered, faults>>

Free(o) == /\ Cleaning(o)
           /\ slot[o] = "live"
           /\ o \in Threaded => ~flag[o] /\ ctx[o] \in {"joined", "raw"}
           /\ slot' = [slot EXCEPT ![o] = "freed"]
           /\ step' = step + 1
           /\ UNCHANGED <<sim, phase, ctx, thread, flag, running, ret,
                          entered, faults>>

(* config_free on a configuration that config_load has freed: the C        *)
(* library notices and aborts, or it does not.                             *)
FreedTwice == /\ Cleaning("config")
              /\ slot["config"] = "dangling"
              /\ \/ step' = step + 1 /\ UNCHANGED phase
                 \/ phase' = "crashed" /\ UNCHANGED step
              /\ UNCHANGED <<sim, slot, ctx, thread, flag, running, ret,
                             entered, faults>>

Exit == /\ phase = "cleanup"
        /\ step > Len(CleanupOrder)
        /\ phase' = "exited"
        /\ UNCHANGED <<sim, step, slot, ctx, thread, flag, running, ret,
                       entered, faults>>

Over == ~Alive /\ UNCHANGED vars

-----------------------------------------------------------------------------
MainStep == \/ LoadOk
            \/ LoadFails
            \/ LockFails
            \/ ReadsFreed
            \/ \E o \in Objects : \/ CreateOk(o)
                                  \/ CreateFails(o)
                                  \/ StartOk(o)
                                  \/ StartFails(o)
                                  \/ Skip(o)
                                  \/ Wild(o)
                                  \/ StopFlag(o)
                                  \/ Join(o)
                                  \/ RawStop(o)
                                  \/ Free(o)
            \/ UnwindCrashes
            \/ Declare
            \/ MonitorFails
            \/ EnterLoop
            \/ LeaveLoop
            \/ FreedTwice
            \/ Exit

Next == \/ MainStep
        \/ \E o \in Threaded : ThreadEnds(o)
        \/ Signal
        \/ Hangup
        \/ Over

Spec == Init /\ [][Next]_vars

(* main and the threads told to stop keep being scheduled; no call has to  *)
(* succeed and no signal has to come.                                      *)
Fairness == /\ WF_vars(MainStep)
            /\ \A o \in Threaded : WF_vars(~flag[o] /\ ThreadEnds(o))

FairSpec == Spec /\ Fairness

-----------------------------------------------------------------------------
(* Whatever failed during startup and wherever the signal came, no thread  *)
(* is left running on an object that has been freed or never created: the  *)
(* cleanup order of main, with the joins in the stop functions.            *)
UsersGoFirst == \A o \in Threaded :
                  thread[o] = "running" =>
                    \A used \in Uses[o] : slot[used] = "live"

(* Every path to the return has freed every object that was created and    *)
(* waited for every thread that was started.                               *)
NothingLeft == phase = "exited" =>
                 /\ \A o \in Objects : slot[o] # "live"
                 /\ \A o \in Threaded : thread[o] # "running"

(* A pointer or a thread context that nobody has initialised is followed   *)
(* only after a failure of the startup.  A process that has been in its    *)
(* loop crashes nowhere but in the last free of main.c:298, and only if    *)
(* config_load left its pointer dangling (config.c:31-35): every thread    *)
(* has been joined and every other object freed by then.                   *)
LateCrashIsLast == phase = "crashed" /\ entered =>
                     /\ slot["config"] = "dangling"
                     /\ \A o \in Objects : slot[o] # "live"
                     /\ \A o \in Threaded : thread[o] # "running"

(* Once main is in its loop a SIGINT or SIGTERM ends the process, with its *)
(* return unless a SIGHUP or the crash of LateCrashIsLast comes before it. *)
SignalEndsProcess == (phase = "loop" /\ ~running) ~> ~Alive

-----------------------------------------------------------------------------
(* main.c:133: without --sim the sensors become producers of the queue.    *)
(* The code does not do this: its radar never starts.                      *)
HealthyStarts == phase = "exited" /\ ~faults => entered
=============================================================================
