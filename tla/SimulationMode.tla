---------------------------- MODULE SimulationMode ----------------------------
(***************************************************************************)
(* The process started with --sim: the simulator's and the monitor's       *)
(* threads, the message loop of main.c, which pulls the simulator's video  *)
(* list whenever its queue has nothing for it, and the shutdown of the     *)
(* two.  The process may be killed at any time and is started again.       *)
(***************************************************************************)
EXTENDS Simulator, Monitor

ASSUME UsersAssumption == File \notin {Server, Client}

VARIABLES main,    \* where the main thread is
          running, \* main.c: static int running
          next     \* i of fusion_processor_add_tracks

mainVars == <<main, running, next>>
vars == <<alive, owner, simVars, monVars, mainVars>>

Init == /\ alive = TRUE
        /\ owner = [n \in Numbers |-> Free]
        /\ SimInit
        /\ MonInit
        /\ main = "loop"
        /\ running = TRUE
        /\ next = 0

-----------------------------------------------------------------------------
(* The message loop                                                        *)

TimedOut == /\ main = "loop"
            /\ running
            /\ count > 0
            /\ main' = "pulling"
            /\ UNCHANGED <<alive, owner, simVars, monVars, running, next>>

Pick == /\ main = "pulling"
        /\ next < count
        /\ stale' = (sim = "growing")
        /\ main' = "taking"
        /\ UNCHANGED <<alive, owner, simOn, sim, file, pos, cells, room, count,
                       at, radars, latest, monVars, running, next>>

(* The detection goes into the track table.  Through a stale pointer main  *)
(* reads whatever is there by now, or crashes, which is Killed.            *)
Take == /\ main = "taking"
        /\ latest' = IF stale THEN latest ELSE cells[next + 1]
        /\ next' = next + 1
        /\ stale' = FALSE
        /\ main' = "pulling"
        /\ UNCHANGED <<alive, owner, simOn, sim, file, pos, cells, room, count,
                       at, radars, monVars, running>>

Taken == /\ main = "pulling"
         /\ next >= count
         /\ main' = "clearing"
         /\ next' = 0
         /\ latest' = Older
         /\ UNCHANGED <<alive, owner, simOn, sim, file, pos, cells, room,
                        count, at, radars, stale, monVars, running>>

Clear == /\ main = "clearing"
         /\ count' = 0
         /\ main' = "loop"
         /\ UNCHANGED <<alive, owner, simOn, sim, file, pos, cells, room, at,
                        radars, stale, latest, monVars, running, next>>

LeaveLoop == /\ main = "loop"
             /\ ~running
             /\ main' = "stopping monitor"
             /\ UNCHANGED <<alive, owner, simVars, monVars, running, next>>

-----------------------------------------------------------------------------
(* The shutdown                                                            *)

StopMonitorBug == /\ main = "stopping monitor"
                  /\ main' = "joining monitor"
                  /\ UNCHANGED <<alive, owner, simVars, monVars, running,
                                 next>>

StopMonitor == /\ main = "stopping monitor"
               /\ monOn' = FALSE
               /\ main' = "joining monitor"
               /\ UNCHANGED <<alive, owner, simVars, mon, server, client, path,
                              usable, visitor, failed, running, next>>

JoinMonitor == /\ main = "joining monitor"
               /\ mon = "ended"
               /\ main' = "closing socket"
               /\ UNCHANGED <<alive, owner, simVars, monVars, running, next>>

CloseSocket == /\ main = "closing socket"
               /\ IF server = None THEN UNCHANGED owner ELSE Closes(server)
               /\ server' = None
               /\ path' \in {"none"} \cup IF usable THEN {} ELSE {path}
               /\ main' = "stopping simulator"
               /\ UNCHANGED <<alive, simVars, monOn, mon, client, usable,
                              visitor, failed, running, next>>

StopSimulator == /\ main = "stopping simulator"
                 /\ simOn' = FALSE
                 /\ main' = "waking simulator"
                 /\ UNCHANGED <<alive, owner, sim, file, pos, cells, room,
                                count, at, radars, stale, latest, monVars,
                                running, next>>

(* thread_destroy takes the mutex of the thread for a moment.              *)
WakeSimulator == /\ main = "waking simulator"
                 /\ ~ListsLocked
                 /\ main' = "joining simulator"
                 /\ UNCHANGED <<alive, owner, simVars, monVars, running, next>>

(* simulator_destroy stops and joins the thread a second time (main.c:283, *)
(* simulator.c:26); the C library's join returns at once.                  *)
JoinSimulator == /\ main = "joining simulator"
                 /\ sim = "ended"
                 /\ main' = "exited"
                 /\ UNCHANGED <<alive, owner, simVars, monVars, running, next>>

MainStep == \/ TimedOut
            \/ Pick
            \/ Take
            \/ Taken
            \/ Clear
            \/ LeaveLoop
            \/ StopMonitor
            \/ JoinMonitor
            \/ CloseSocket
            \/ StopSimulator
            \/ WakeSimulator
            \/ JoinSimulator

-----------------------------------------------------------------------------
Up == alive /\ main # "exited"

Signal == /\ running
          /\ running' = FALSE
          /\ UNCHANGED <<alive, owner, simVars, monVars, main, next>>

Killed == /\ alive' = FALSE
          /\ UNCHANGED <<owner, simVars, monVars, mainVars>>

Restart == /\ ~Up
           /\ alive' = TRUE
           /\ owner' = [n \in Numbers |-> Free]
           /\ SimStarts
           /\ MonStarts
           /\ main' = "loop"
           /\ running' = TRUE
           /\ next' = 0

SimulatorStep == SimStep /\ UNCHANGED <<alive, monVars, mainVars>>

MonitorStep == MonStep /\ UNCHANGED <<simVars, mainVars>>

Visitor == (Visit \/ Leave) /\ UNCHANGED <<simVars, mainVars>>

Next == \/ Up /\ \/ SimulatorStep
                 \/ MonitorStep
                 \/ Visitor
                 \/ MainStep
                 \/ Signal
                 \/ Killed
        \/ Restart

(* Every thread keeps being scheduled.                                     *)
Fairness == /\ WF_vars(Up /\ SimulatorStep)
            /\ WF_vars(Up /\ MonitorStep)
            /\ WF_vars(Up /\ MainStep)

Spec == Init /\ [][Next]_vars /\ Fairness

-----------------------------------------------------------------------------
(* Types; and no list outgrows what one round of the file brings, whatever *)
(* becomes of a count that both threads write (track_list.c:61, 67).       *)
TypeOK == /\ alive \in BOOLEAN
          /\ owner \in [Numbers -> {Free, File, Server, Client}]
          /\ simOn \in BOOLEAN
          /\ sim \in SimPlaces
          /\ file \in Numbers \cup {None}
          /\ pos \in 0 .. Last
          /\ cells \in [1 .. Last -> Older .. Last]
          /\ room \in Nat \ {0}
          /\ count \in 0 .. LinesOf("video")
          /\ count <= room
          /\ at \in 0 .. LinesOf("video")
          /\ stale \in BOOLEAN
          /\ radars \in 0 .. LinesOf("radar")
          /\ latest \in Older .. Last
          /\ monOn \in BOOLEAN
          /\ mon \in MonPlaces
          /\ server \in Numbers \cup {None}
          /\ client \in Numbers \cup {None}
          /\ path \in {"none", "ours", "stale"}
          /\ usable \in BOOLEAN
          /\ visitor \in {"none", "waiting", "gone"}
          /\ failed \in BOOLEAN
          /\ running \in BOOLEAN
          /\ next \in 0 .. LinesOf("video")

(* A pull gives the fusion engine each detection at most once and in the   *)
(* order of their times, although the simulator adds to the list, clears   *)
(* it and fills it anew meanwhile (main.c:264-267, simulator.c:107-121):   *)
(* what is taken next is newer than all that this pull has taken.  Not so  *)
(* if the list moved after main looked the detection up: what main reads   *)
(* then was given back (track_list.c:50-58, 83-86), and is no detection.   *)
PullInOrder == main = "taking" /\ ~stale => cells[next + 1] > latest

(* What a thread reads, answers or listens on is its own, unless the       *)
(* monitor gave up: then the stop function closes a number that may by now *)
(* be that of the simulator's file (monitor.c:57-60, 85-95).               *)
DescriptorsOwned ==
  \/ /\ file # None => owner[file] = File
     /\ client # None => owner[client] = Client
     /\ mon \notin {"starting", "ended"} => owner[server] = Server
  \/ failed /\ server = None

(* While the system runs, its monitor does, under its path, also after the *)
(* system was killed, whenever that was (monitor.c:83).                    *)
MonitorReachable ==
  Up /\ main = "loop" /\ usable =>
    /\ mon # "ended"
    /\ mon \in {"serving", "accepting", "answering", "closing"} =>
         path = "ours"

(* A stop signal ends the process, wherever its threads are: in a pull, a  *)
(* round, an answer, at the last descriptor (main.c:196, 275-284).         *)
ShutdownEnds == Up /\ ~running ~> ~Up
=============================================================================
