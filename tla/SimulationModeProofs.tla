------------------------ MODULE SimulationModeProofs ------------------------
(***************************************************************************)
(* Proofs about SimulationMode for every file and every table of at least  *)
(* two descriptors.                                                        *)
(***************************************************************************)
EXTENDS SimulationMode, FiniteSetTheorems, TLAPS

LoopPlaces == {"loop", "pulling", "taking", "clearing"}
InPull == main \in {"pulling", "taking"}
Handling == sim \in {"waiting", "adding", "growing", "counting"}

SeenOf(sensor, n) == Cardinality({k \in 1 .. n : Lines[k] = sensor})

(* The line up to which this round's lines have been dealt with, and the   *)
(* number of settled cells: the count, but for main's clear meanwhile.     *)
Before == IF Handling THEN pos - 1 ELSE pos
Top == IF sim = "counting" THEN at ELSE count

-----------------------------------------------------------------------------
(* The list                                                                *)

Rounds == /\ Handling => pos >= 1
          /\ sim \in {"growing", "counting"} => Lines[pos] = "video"
          /\ sim = "counting" => at < room
          /\ sim \in {"clearing radar", "opening", "ended"} =>
               count = 0 /\ pos = 0
          /\ main \in LoopPlaces /\ sim \in {"closing", "clearing"} =>
               pos = Last

Counted == /\ Top <= SeenOf("video", Before)
           /\ count \in {0, Top}
           /\ sim # "clearing radar" => radars <= SeenOf("radar", Before)
           /\ InPull => count = Top

Sorted == /\ \A j \in 1 .. Top : cells[j] > 0
          /\ \A j, k \in 1 .. Top : j < k => cells[j] < cells[k]
          /\ sim = "counting" => cells[at + 1] = pos
          /\ \A j \in 1 .. Last :
               /\ cells[j] <= pos
               /\ cells[j] > Before => sim = "counting" /\ j = at + 1

(* What the pull has taken is behind what it takes next; and a cell that   *)
(* main was about to take when its round ended is overwritten in the next. *)
Pulled == /\ ~InPull => next = 0 /\ latest = Older
          /\ InPull => /\ latest <= pos
                       /\ latest > Before => sim = "counting" /\ next > at
          /\ main = "pulling" /\ next < count => cells[next + 1] > latest
          /\ main = "taking" => /\ next < LinesOf("video") /\ next < room
                                /\ cells[next + 1] > latest
                                /\ cells[next + 1] <= 0 =>
                                     count = SeenOf("video", Before)

PullInv == Rounds /\ Counted /\ Sorted /\ Pulled

-----------------------------------------------------------------------------
(* The descriptors and the path                                            *)

Closed == main \in {"stopping simulator", "waking simulator",
                    "joining simulator", "exited"}

Phases == /\ main \in LoopPlaces \cup {"stopping monitor"} => monOn
          /\ main \in LoopPlaces => simOn
          /\ main = "closing socket" \/ Closed => mon = "ended"
          /\ Closed => server = None
          /\ failed => mon = "ended" /\ (server = None => Closed)

Opened == /\ file # None <=> Handling \/ sim \in {"reading", "closing"}
          /\ client # None <=> mon \in {"answering", "closing"}
          /\ mon = "starting" => server = None
          /\ mon \notin {"starting", "ended"} => server # None

Owned == /\ \A n \in Numbers : /\ owner[n] = File => n = file
                               /\ owner[n] = Client => n = client
                               /\ owner[n] = Server => n = server
         /\ file # None => owner[file] = File \/ (failed /\ server = None)
         /\ client # None => owner[client] = Client
         /\ server # None /\ ~failed => owner[server] = Server

Path == /\ mon = "binding" /\ usable => path = "none"
        /\ mon \in {"binding done", "serving", "accepting", "answering",
                    "closing"} => path = "ours"
        /\ main \in LoopPlaces /\ usable => mon # "ended"

DescriptorInv == Phases /\ Opened /\ Owned /\ Path

Inv == TypeOK /\ PullInv /\ DescriptorInv

-----------------------------------------------------------------------------
(* Counting lines                                                          *)

LEMMA LastNat == /\ Last \in Nat
                 /\ Older \in Int /\ Older = -Last
                 /\ \A k \in 1 .. Last :
                      Lines[k] \in {"video", "radar", "other", "skipped"}
BY SimulatorAssumption DEF Last, Older

LEMMA SeenFacts ==
  ASSUME NEW sensor, NEW n \in 0 .. Last
  PROVE  /\ SeenOf(sensor, n) \in Nat
         /\ SeenOf(sensor, n) <= LinesOf(sensor)
         /\ LinesOf(sensor) \in Nat /\ LinesOf(sensor) <= Last
         /\ SeenOf(sensor, 0) = 0
         /\ SeenOf(sensor, Last) = LinesOf(sensor)
<1> DEFINE All == {k \in 1 .. Last : Lines[k] = sensor}
           Some == {k \in 1 .. n : Lines[k] = sensor}
<1>1. IsFiniteSet(All) /\ Cardinality(All) <= Last
  <2>1. IsFiniteSet(1 .. Last) /\ Cardinality(1 .. Last) = Last
    BY LastNat, FS_Interval
  <2>2. All \subseteq 1 .. Last
    OBVIOUS
  <2>3. QED
    BY <2>1, <2>2, FS_Subset
<1>2. Some \subseteq All
  BY LastNat
<1>3. /\ IsFiniteSet(Some) /\ Cardinality(Some) <= Cardinality(All)
      /\ Cardinality(Some) \in Nat /\ Cardinality(All) \in Nat
  BY <1>1, <1>2, FS_Subset, FS_CardinalityType
<1>4. {k \in 1 .. 0 : Lines[k] = sensor} = {}
  OBVIOUS
<1>5. QED
  BY <1>1, <1>3, <1>4, FS_EmptySet DEF SeenOf, LinesOf

LEMMA SeenStep ==
  ASSUME NEW sensor, NEW n \in 0 .. Last, NEW m \in 0 .. Last, n = m + 1
  PROVE  /\ Lines[n] = sensor => SeenOf(sensor, n) = SeenOf(sensor, m) + 1
         /\ Lines[n] # sensor => SeenOf(sensor, n) = SeenOf(sensor, m)
<1> DEFINE Some == {k \in 1 .. n : Lines[k] = sensor}
           Less == {k \in 1 .. m : Lines[k] = sensor}
<1>1. IsFiniteSet(Less)
  <2>1. IsFiniteSet(1 .. m)
    BY LastNat, FS_Interval
  <2>2. QED
    BY <2>1, FS_Subset, Less \subseteq 1 .. m
<1>2. CASE Lines[n] = sensor
  <2>1. Some = Less \cup {n} /\ n \notin Less
    BY <1>2, LastNat
  <2>2. Cardinality(Some) = Cardinality(Less) + 1
    BY <1>1, <2>1, FS_AddElement
  <2>3. QED
    BY <1>2, <2>2 DEF SeenOf
<1>3. CASE Lines[n] # sensor
  <2>1. Some = Less
    BY <1>3, LastNat
  <2>2. QED
    BY <1>3, <2>1 DEF SeenOf
<1>4. QED
  BY <1>2, <1>3

-----------------------------------------------------------------------------
(* The descriptors and the path                                            *)

(* A step that leaves the descriptors and the main thread alone.           *)
LEMMA DescriptorFrame ==
  ASSUME DescriptorInv, UNCHANGED <<owner, file, simOn, monVars, main>>,
         (Handling \/ sim \in {"reading", "closing"}) =
           (Handling \/ sim \in {"reading", "closing"})'
  PROVE  DescriptorInv'
<1>1. Phases'
  BY DEF DescriptorInv, Phases, Closed, monVars
<1>2. Opened'
  BY DEF DescriptorInv, Opened, monVars
<1>3. Owned'
  BY DEF DescriptorInv, Owned, monVars
<1>4. Path'
  BY DEF DescriptorInv, Path, monVars
<1>5. QED
  BY <1>1, <1>2, <1>3, <1>4 DEF DescriptorInv

LEMMA DescriptorSimulator ==
  TypeOK /\ Rounds /\ DescriptorInv /\ SimulatorStep => DescriptorInv'
<1> SUFFICES ASSUME TypeOK, Rounds, DescriptorInv, SimulatorStep
             PROVE  DescriptorInv'
  OBVIOUS
<1> USE DEF SimulatorStep, Handling
<1>1. CASE Open
  <2>1. PICK n \in Numbers : Opens(File, n) /\ file' = n
    BY <1>1 DEF Open
  <2>2. /\ file = None /\ n # None /\ owner[n] = Free
        /\ owner' = [owner EXCEPT ![n] = File]
    BY <1>1, <2>1, ProcessAssumption DEF Open, DescriptorInv, Opened, Opens,
                                         Available
  <2>3. Owned'
    <3>1. \A m \in Numbers : owner'[m] = IF m = n THEN File ELSE owner[m]
      BY <2>2 DEF TypeOK
    <3>2. UNCHANGED <<client, server, failed>>
      BY DEF monVars
    <3>3. /\ File \notin {Free, Server, Client} /\ server \in Numbers \cup {None}
          /\ client \in Numbers \cup {None} /\ Free \notin {Server, Client}
      BY SimulatorAssumption, MonitorAssumption, UsersAssumption DEF TypeOK
    <3>4. QED
      BY <2>1, <2>2, <3>1, <3>2, <3>3, ProcessAssumption
         DEF DescriptorInv, Owned
  <2>4. Phases' /\ Opened' /\ Path'
    BY <1>1, <2>1, <2>2
       DEF Open, DescriptorInv, Phases, Opened, Path, Closed, monVars, mainVars
  <2>5. QED
    BY <2>3, <2>4 DEF DescriptorInv
<1>2. CASE CloseFile
  <2>1. /\ file # None /\ owner' = [owner EXCEPT ![file] = Free]
        /\ file' = None
    BY <1>2 DEF CloseFile, Closes, DescriptorInv, Opened
  <2>2. owner[file] = File \/ (failed /\ server = None /\ client = None)
    BY <2>1 DEF DescriptorInv, Owned, Phases, Opened
  <2>3. Owned'
    BY <2>1, <2>2, SimulatorAssumption, MonitorAssumption, UsersAssumption
       DEF DescriptorInv, Owned, TypeOK, monVars
  <2>4. Phases' /\ Opened' /\ Path'
    BY <1>2, <2>1
       DEF CloseFile, DescriptorInv, Phases, Opened, Path, Closed, monVars,
           mainVars
  <2>5. QED
    BY <2>3, <2>4 DEF DescriptorInv
<1>3. CASE ~Open /\ ~CloseFile
  <2>1. UNCHANGED <<owner, file, simOn>>
    BY <1>3 DEF SimStep, OpenFails, SimExit, ReadLine, EndOfFile, LockLists,
                Move, Grow, GrowFails,
                Store, Count, AddRadar, AddNothing, ClearVideo, ClearRadar
  <2>2. (Handling \/ sim \in {"reading", "closing"}) =
          (Handling \/ sim \in {"reading", "closing"})'
    BY <1>3 DEF SimStep, OpenFails, SimExit, ReadLine, EndOfFile, LockLists,
                Move, Grow, GrowFails,
                Store, Count, AddRadar, AddNothing, ClearVideo, ClearRadar
  <2>3. QED
    BY <2>1, <2>2, DescriptorFrame DEF mainVars
<1>4. QED
  BY <1>1, <1>2, <1>3

(* The monitor's own steps that open, close or bind something.             *)
LEMMA DescriptorMonitor ==
  TypeOK /\ DescriptorInv /\ (MonitorStep \/ Visitor) => DescriptorInv'
<1> SUFFICES ASSUME TypeOK, DescriptorInv, MonitorStep \/ Visitor
             PROVE  DescriptorInv'
  OBVIOUS
<1> USE DEF simVars, mainVars
<1>1. UNCHANGED <<main, next, running, simVars>>
  BY DEF MonitorStep, Visitor
<1>2. CASE Socket
  <2>1. PICK n \in Numbers : Opens(Server, n) /\ server' = n
    BY <1>2 DEF Socket
  <2>2. /\ server = None /\ client = None /\ ~failed /\ n # None
        /\ owner[n] = Free /\ owner' = [owner EXCEPT ![n] = Server]
    BY <1>2, <2>1, ProcessAssumption
       DEF Socket, DescriptorInv, Phases, Opened, Opens, Available
  <2>3. Owned'
    <3>1. \A m \in Numbers : owner'[m] = IF m = n THEN Server ELSE owner[m]
      BY <2>2 DEF TypeOK
    <3>2. UNCHANGED <<file, client, failed>>
      BY <1>1, <1>2 DEF Socket
    <3>3. /\ File \notin {Free, Server, Client} /\ server \in Numbers \cup {None}
          /\ file \in Numbers \cup {None} /\ Free \notin {Server, Client}
          /\ Server # Client
      BY SimulatorAssumption, MonitorAssumption, UsersAssumption DEF TypeOK
    <3>4. QED
      BY <2>1, <2>2, <3>1, <3>2, <3>3, ProcessAssumption
         DEF DescriptorInv, Owned
  <2>4. Phases' /\ Opened' /\ Path'
    BY <1>1, <1>2, <2>1, <2>2
       DEF Socket, DescriptorInv, Phases, Opened, Path, Closed, Handling
  <2>5. QED
    BY <2>3, <2>4 DEF DescriptorInv
<1>3. CASE SocketFails
  <2>1. server = None /\ client = None
    BY <1>3 DEF SocketFails, DescriptorInv, Opened
  <2>2. usable => FALSE
    <3>1. SUFFICES ASSUME usable PROVE Available # {}
      BY <1>3 DEF SocketFails
    <3>2. \A n \in Numbers : owner[n] # Free => n = file
      BY <2>1, ProcessAssumption DEF DescriptorInv, Owned, TypeOK
    <3>3. QED
      BY <3>2, MonitorAssumption DEF Available
  <2>3. Phases' /\ Opened' /\ Owned' /\ Path'
    BY <1>1, <1>3, <2>1, <2>2
       DEF SocketFails, DescriptorInv, Phases, Opened, Owned, Path, Closed,
           Handling, TypeOK
  <2>4. QED
    BY <2>3 DEF DescriptorInv
<1>4. CASE Unlink \/ Bind \/ Listen \/ Select \/ AcceptFails \/ Answer
             \/ Visit \/ Leave
  <2>1. UNCHANGED <<owner, server, client, failed, monOn, usable>>
    BY <1>4 DEF Unlink, Bind, Listen, Select, AcceptFails, Answer, Visit, Leave
  <2>2. Owned'
    BY <1>1, <2>1 DEF DescriptorInv, Owned
  <2>3. Phases' /\ Opened'
    BY <1>1, <1>4, <2>1
       DEF Unlink, Bind, Listen, Select, AcceptFails, Answer, Visit, Leave,
           DescriptorInv, Phases, Opened, Closed, Handling
  <2>4. Path'
    BY <1>1, <1>4, <2>1
       DEF Unlink, Bind, Listen, Select, AcceptFails, Answer, Visit, Leave,
           DescriptorInv, Path
  <2>5. QED
    BY <2>2, <2>3, <2>4 DEF DescriptorInv
<1>5. CASE BindFails \/ ListenFails
  <2>1. /\ owner' = [owner EXCEPT ![server] = Free] /\ failed' /\ mon' = "ended"
        /\ UNCHANGED <<monOn, server, client, path, usable>>
        /\ server # None /\ client = None /\ ~failed /\ ~usable
        /\ mon # "ended"
    BY <1>5 DEF BindFails, ListenFails, GiveUp, Closes, DescriptorInv, Opened,
                Phases, Path, TypeOK
  <2>2. Owned'
    BY <1>1, <2>1, SimulatorAssumption, MonitorAssumption, UsersAssumption
       DEF DescriptorInv, Owned, TypeOK
  <2>3. Phases' /\ Opened' /\ Path'
    BY <1>1, <1>5, <2>1
       DEF BindFails, ListenFails, DescriptorInv, Phases, Opened, Path, Closed,
           Handling
  <2>4. QED
    BY <2>2, <2>3 DEF DescriptorInv
<1>6. CASE Accept
  <2>1. PICK n \in Numbers : Opens(Client, n) /\ client' = n
    BY <1>6 DEF Accept
  <2>2. /\ client = None /\ server # None /\ ~failed /\ n # None
        /\ owner[n] = Free /\ owner' = [owner EXCEPT ![n] = Client]
    BY <1>6, <2>1, ProcessAssumption
       DEF Accept, DescriptorInv, Phases, Opened, Opens, Available
  <2>3. Owned'
    <3>1. \A m \in Numbers : owner'[m] = IF m = n THEN Client ELSE owner[m]
      BY <2>2 DEF TypeOK
    <3>2. UNCHANGED <<file, server, failed>>
      BY <1>1, <1>6 DEF Accept
    <3>3. /\ File \notin {Free, Server, Client} /\ server \in Numbers \cup {None}
          /\ file \in Numbers \cup {None} /\ Free \notin {Server, Client}
          /\ Server # Client
      BY SimulatorAssumption, MonitorAssumption, UsersAssumption DEF TypeOK
    <3>4. QED
      BY <2>1, <2>2, <3>1, <3>2, <3>3, ProcessAssumption
         DEF DescriptorInv, Owned
  <2>4. Phases' /\ Opened' /\ Path'
    BY <1>1, <1>6, <2>1, <2>2
       DEF Accept, DescriptorInv, Phases, Opened, Path, Closed, Handling
  <2>5. QED
    BY <2>3, <2>4 DEF DescriptorInv
<1>7. CASE CloseClient
  <2>1. /\ client # None /\ client' = None /\ server # None /\ ~failed
        /\ owner' = [owner EXCEPT ![client] = Free]
    BY <1>7 DEF CloseClient, Closes, DescriptorInv, Phases, Opened
  <2>2. Owned'
    BY <1>1, <1>7, <2>1, SimulatorAssumption, MonitorAssumption,
       UsersAssumption DEF CloseClient, DescriptorInv, Owned, TypeOK
  <2>3. Phases' /\ Opened' /\ Path'
    BY <1>1, <1>7, <2>1
       DEF CloseClient, DescriptorInv, Phases, Opened, Path, Closed, Handling
  <2>4. QED
    BY <2>2, <2>3 DEF DescriptorInv
<1>8. CASE MonExit
  <2>1. Phases' /\ Opened' /\ Path'
    BY <1>1, <1>8
       DEF MonExit, DescriptorInv, Phases, Opened, Path, Closed, Handling
  <2>2. Owned'
    BY <1>1, <1>8 DEF MonExit, DescriptorInv, Owned
  <2>3. QED
    BY <2>1, <2>2 DEF DescriptorInv
<1>9. QED
  BY <1>2, <1>3, <1>4, <1>5, <1>6, <1>7, <1>8
     DEF MonitorStep, Visitor, MonStep

LEMMA DescriptorMain ==
  TypeOK /\ DescriptorInv /\ (MainStep \/ Signal \/ Killed) => DescriptorInv'
<1> SUFFICES ASSUME TypeOK, DescriptorInv, MainStep \/ Signal \/ Killed
             PROVE  DescriptorInv'
  OBVIOUS
<1> USE DEF simVars, monVars, mainVars
<1>1. CASE TimedOut \/ Pick \/ Take \/ Taken \/ Clear \/ LeaveLoop \/ Signal
             \/ Killed \/ StopSimulator \/ WakeSimulator \/ JoinSimulator
  <2>1. UNCHANGED <<owner, file, sim, monVars>>
    BY <1>1 DEF TimedOut, Pick, Take, Taken, Clear, LeaveLoop, Signal, Killed,
                StopSimulator, WakeSimulator, JoinSimulator
  <2>2. Owned' /\ Opened'
    BY <2>1 DEF DescriptorInv, Owned, Opened, Handling
  <2>3. Phases'
    BY <1>1, <2>1
       DEF TimedOut, Pick, Take, Taken, Clear, LeaveLoop, Signal, Killed,
           StopSimulator, WakeSimulator, JoinSimulator, DescriptorInv, Phases,
           Closed, LoopPlaces
  <2>4. Path'
    BY <1>1, <2>1
       DEF TimedOut, Pick, Take, Taken, Clear, LeaveLoop, Signal, Killed,
           StopSimulator, WakeSimulator, JoinSimulator, DescriptorInv, Path,
           LoopPlaces
  <2>5. QED
    BY <2>2, <2>3, <2>4 DEF DescriptorInv
<1>2. CASE StopMonitor \/ JoinMonitor
  <2>1. UNCHANGED <<owner, file, sim, simOn, mon, server, client, path, usable,
                    failed>>
    BY <1>2 DEF StopMonitor, JoinMonitor
  <2>2. Owned' /\ Opened'
    BY <2>1 DEF DescriptorInv, Owned, Opened, Handling
  <2>3. Phases' /\ Path'
    BY <1>2, <2>1 DEF StopMonitor, JoinMonitor, DescriptorInv, Phases, Path,
                      Closed, LoopPlaces
  <2>4. QED
    BY <2>2, <2>3 DEF DescriptorInv
<1>3. CASE CloseSocket
  <2>1. /\ mon = "ended" /\ client = None /\ server' = None
        /\ UNCHANGED <<file, sim, simOn, monOn, mon, client, usable, failed>>
    BY <1>3 DEF CloseSocket, DescriptorInv, Phases, Opened
  <2>2. Owned'
    <3>1. CASE server = None
      BY <1>3, <2>1, <3>1 DEF CloseSocket, DescriptorInv, Owned, Phases, Closed
    <3>2. CASE server # None
      <4>1. \A n \in Numbers :
              owner'[n] = IF n = server THEN Free ELSE owner[n]
        BY <1>3, <3>2 DEF CloseSocket, Closes, TypeOK
      <4>2. server \in Numbers /\ file \in Numbers \cup {None}
        BY <3>2 DEF TypeOK
      <4>3. ~failed => owner[server] = Server
        BY <3>2 DEF DescriptorInv, Owned
      <4>4. File \notin {Free, Server} /\ Free \notin {Server, Client}
        BY SimulatorAssumption, MonitorAssumption, UsersAssumption
      <4>5. QED
        BY <2>1, <4>1, <4>2, <4>3, <4>4 DEF DescriptorInv, Owned
    <3>3. QED
      BY <3>1, <3>2
  <2>3. Phases' /\ Opened' /\ Path'
    BY <1>3, <2>1 DEF CloseSocket, DescriptorInv, Phases, Opened, Path, Closed,
                      LoopPlaces, Handling
  <2>4. QED
    BY <2>2, <2>3 DEF DescriptorInv
<1>4. QED
  BY <1>1, <1>2, <1>3 DEF MainStep

LEMMA DescriptorRestart == Restart => DescriptorInv'
<1> SUFFICES ASSUME Restart PROVE DescriptorInv'
  OBVIOUS
<1>1. Owned'
  BY SimulatorAssumption, MonitorAssumption
     DEF Restart, SimStarts, MonStarts, Owned
<1>2. Phases' /\ Opened' /\ Path'
  BY DEF Restart, SimStarts, MonStarts, Phases, Opened, Path, Closed,
         LoopPlaces, Handling
<1>3. QED
  BY <1>1, <1>2 DEF DescriptorInv

-----------------------------------------------------------------------------
(* The list: the simulator's steps                                         *)

(* A step that leaves the lists and the pull alone.                        *)
LEMMA PullFrame ==
  ASSUME PullInv,
         UNCHANGED <<sim, pos, cells, room, count, at, radars, latest, next>>,
         main' = main \/ (~InPull /\ ~InPull'),
         main' \in LoopPlaces => main \in LoopPlaces
  PROVE  PullInv'
<1> USE DEF Handling, Before, Top, InPull, LoopPlaces
<1>1. Rounds' /\ Counted' /\ Sorted'
  BY DEF PullInv, Rounds, Counted, Sorted, SeenOf
<1>2. Pulled'
  BY DEF PullInv, Pulled, SeenOf
<1>3. QED
  BY <1>1, <1>2 DEF PullInv

(* Numbers that every step of the simulator needs.                         *)
LEMMA PullFacts ==
  ASSUME TypeOK, PullInv
  PROVE  /\ Last \in Nat /\ pos \in 0 .. Last
         /\ Before \in 0 .. Last /\ Before <= pos
         /\ Handling => pos \in 1 .. Last
         /\ SeenOf("video", Before) \in Nat
         /\ SeenOf("video", Before) <= LinesOf("video")
         /\ SeenOf("radar", Before) \in Nat
         /\ SeenOf("radar", Before) <= LinesOf("radar")
         /\ LinesOf("video") \in Nat /\ LinesOf("video") <= Last
         /\ LinesOf("radar") \in Nat /\ room \in Nat \ {0} /\ count <= room
         /\ count \in Nat /\ at \in Nat /\ next \in Nat /\ radars \in Nat
         /\ Top \in Nat /\ count <= Top /\ Top <= LinesOf("video")
         /\ latest \in Int /\ \A j \in 1 .. Last : cells[j] \in Int
         /\ Older \in Int /\ Older = -Last
<1>1. /\ Last \in Nat /\ pos \in 0 .. Last
      /\ Handling => pos \in 1 .. Last
  <2>1. Last \in Nat /\ pos \in 0 .. Last
    BY LastNat DEF TypeOK
  <2>2. Handling => pos >= 1
    BY DEF PullInv, Rounds
  <2>3. QED
    BY <2>1, <2>2
<1>2. Before \in 0 .. Last /\ Before <= pos
  BY <1>1 DEF Before
<1>3. /\ SeenOf("video", Before) \in Nat
      /\ SeenOf("video", Before) <= LinesOf("video")
      /\ LinesOf("video") \in Nat /\ LinesOf("video") <= Last
      /\ SeenOf("radar", Before) \in Nat
      /\ SeenOf("radar", Before) <= LinesOf("radar")
      /\ LinesOf("radar") \in Nat
  BY <1>2, SeenFacts
<1>4. room \in Nat \ {0} /\ count <= room
  BY DEF TypeOK
<1>5. count \in Nat /\ at \in Nat /\ next \in Nat /\ radars \in Nat
  BY <1>3 DEF TypeOK
<1>6. Top \in Nat /\ count <= Top /\ Top <= LinesOf("video")
  <2>1. Top \in Nat
    BY <1>5 DEF Top
  <2>2. Top <= SeenOf("video", Before) /\ count \in {0, Top}
    BY DEF PullInv, Counted
  <2>3. QED
    BY <1>3, <2>1, <2>2
<1>7. /\ latest \in Int /\ \A j \in 1 .. Last : cells[j] \in Int
      /\ Older \in Int /\ Older = -Last
  BY <1>1, LastNat DEF TypeOK
<1>8. QED
  BY <1>1, <1>2, <1>3, <1>4, <1>5, <1>6, <1>7

(* The lines dealt with, and the number of them for each list, after a     *)
(* step from one line to the next.                                         *)
LEMMA PullRead ==
  ASSUME TypeOK, PullInv, DescriptorInv, SimulatorStep,
         ReadLine \/ EndOfFile \/ LockLists \/ AddRadar \/ AddNothing
  PROVE  PullInv'
<1>1. /\ UNCHANGED <<main, next, cells, room, count, latest, at, simOn>>
      /\ sim # "counting" /\ sim' # "counting"
      /\ sim' \notin {"clearing radar", "opening", "ended", "clearing",
                      "growing"}
  BY DEF SimulatorStep, ReadLine, EndOfFile, LockLists, AddRadar, AddNothing,
         mainVars
<1>2. InPull' = InPull /\ Top' = Top /\ Top = count
  BY <1>1 DEF InPull, Top
<1>3. /\ Last \in Int /\ pos \in 0 .. Last /\ Before \in 0 .. Last
      /\ Before \in Int /\ pos \in Int /\ latest \in Int /\ radars \in Int
      /\ SeenOf("radar", Before) \in Int
      /\ \A j \in 1 .. Last : cells[j] \in Int
  BY PullFacts
<1>4. /\ Before' \in {Before, Before + 1}
      /\ pos' \in Int /\ pos' >= pos
      /\ SeenOf("video", Before') = SeenOf("video", Before)
      /\ radars' <= SeenOf("radar", Before')
  <2>1. CASE ReadLine
    <3>1. /\ pos + 1 \in 1 .. Last /\ pos' = pos + 1 /\ Before = pos
          /\ radars' = radars /\ sim # "clearing radar"
          /\ Before' = IF Lines[pos + 1] = "skipped" THEN pos + 1 ELSE pos
      BY <2>1, PullFacts DEF ReadLine, Before, Handling
    <3>2. Lines[pos + 1] = "skipped" =>
            /\ SeenOf("video", pos + 1) = SeenOf("video", pos)
            /\ SeenOf("radar", pos + 1) = SeenOf("radar", pos)
      <4>1. pos \in 0 .. Last /\ pos + 1 \in 0 .. Last
        <5>1. pos + 1 \in 1 .. Last
          BY <3>1
        <5>2. QED
          BY <1>3, <5>1
      <4>2. Lines[pos + 1] = "skipped" => Lines[pos + 1] \notin {"video", "radar"}
        OBVIOUS
      <4>3. Lines[pos + 1] # "video" => SeenOf("video", pos + 1) = SeenOf("video", pos)
        BY <4>1, SeenStep
      <4>4. Lines[pos + 1] # "radar" => SeenOf("radar", pos + 1) = SeenOf("radar", pos)
        BY <4>1, SeenStep
      <4>5. QED
        BY <4>2, <4>3, <4>4
    <3>3. radars <= SeenOf("radar", Before)
      BY <3>1 DEF PullInv, Counted
    <3>4. /\ pos' = pos + 1 /\ Before = pos /\ radars' = radars
          /\ Before' = pos \/ Before' = pos + 1
      BY <3>1
    <3>5. Before' = pos + 1 => /\ SeenOf("video", Before') = SeenOf("video", pos)
                               /\ SeenOf("radar", Before') = SeenOf("radar", pos)
      BY <3>1, <3>2, <1>3
    <3>6. QED
      BY <1>3, <3>3, <3>4, <3>5
  <2>2. CASE EndOfFile \/ LockLists
    <3>1. Before' = Before /\ pos' = pos /\ radars' = radars
          /\ sim # "clearing radar"
      BY <2>2 DEF EndOfFile, LockLists, Before, Handling
    <3>2. radars <= SeenOf("radar", Before)
      BY <3>1 DEF PullInv, Counted
    <3>3. QED
      <4>1. Before' = Before /\ pos' = pos /\ radars' = radars
        BY <3>1
      <4>2. QED
        BY <1>3, <3>2, <4>1
  <2>3. CASE AddRadar \/ AddNothing
    <3>1. /\ pos \in 1 .. Last /\ Lines[pos] # "video" /\ Before = pos - 1
          /\ pos' = pos /\ Before' = pos /\ sim # "clearing radar"
          /\ Lines[pos] = "radar" => radars' \in {radars, radars + 1}
          /\ Lines[pos] # "radar" => radars' = radars
      BY <2>3, PullFacts DEF AddRadar, AddNothing, Handling, Before
    <3>2. pos = Before + 1 /\ Before' = pos /\ pos' = pos
      <4>1. Before = pos - 1 /\ Before' = pos /\ pos' = pos
        BY <3>1
      <4>2. QED
        BY <1>3, <4>1
    <3>3. SeenOf("video", pos) = SeenOf("video", Before)
      <4>1. Lines[pos] # "video" =>
              SeenOf("video", pos) = SeenOf("video", Before)
        BY <1>3, <3>2, SeenStep
      <4>2. QED
        BY <3>1, <4>1
    <3>4. radars <= SeenOf("radar", Before)
      BY <3>1 DEF PullInv, Counted
    <3>5. radars' <= SeenOf("radar", pos)
      <4>1. CASE Lines[pos] = "radar"
        <5>1. SeenOf("radar", pos) = SeenOf("radar", Before) + 1
          BY <1>3, <3>2, <4>1, SeenStep
        <5>2. radars' \in {radars, radars + 1}
          BY <3>1, <4>1
        <5>3. QED
          BY <1>3, <3>4, <5>1, <5>2
      <4>2. CASE Lines[pos] # "radar"
        <5>1. SeenOf("radar", pos) = SeenOf("radar", Before)
          BY <1>3, <3>2, <4>2, SeenStep
        <5>2. radars' = radars
          BY <3>1, <4>2
        <5>3. QED
          BY <3>4, <5>1, <5>2
      <4>3. QED
        BY <4>1, <4>2
    <3>6. QED
      BY <1>3, <3>2, <3>3, <3>5
  <2>4. QED
    BY <2>1, <2>2, <2>3
<1>5. Rounds'
  <2>1. main \in LoopPlaces /\ EndOfFile => pos = Last
    BY DEF EndOfFile, DescriptorInv, Phases, Owned, Opened, Closed, LoopPlaces
  <2>2. Handling' => pos' >= 1
    BY PullFacts DEF ReadLine, EndOfFile, LockLists, AddRadar, AddNothing,
                     Handling
  <2>3. (main \in LoopPlaces /\ sim \in {"closing", "clearing"})' => pos' = Last
    BY <1>1, <2>1 DEF ReadLine, EndOfFile, LockLists, AddRadar, AddNothing
  <2>4. QED
    BY <1>1, <2>2, <2>3 DEF Rounds
<1>6. Counted'
  BY <1>1, <1>2, <1>4 DEF PullInv, Counted
<1>7. Sorted'
  <2>1. \A j \in 1 .. Last : cells[j] <= pos /\ ~(cells[j] > Before)
    BY <1>1 DEF PullInv, Sorted
  <2>2. \A j \in 1 .. Last : cells[j] <= pos' /\ ~(cells[j] > Before')
    BY <1>4, <1>3, <2>1
  <2>3. QED
    BY <1>1, <1>2, <2>2 DEF PullInv, Sorted
<1>8. Pulled'
  <2>1. InPull => latest <= pos /\ ~(latest > Before)
    BY <1>1 DEF PullInv, Pulled
  <2>2. InPull => latest <= pos' /\ ~(latest > Before')
    BY <1>4, <1>3, <2>1
  <2>3. QED
    BY <1>1, <1>2, <1>4, <2>2 DEF PullInv, Pulled
<1>9. QED
  BY <1>5, <1>6, <1>7, <1>8 DEF PullInv

(* Steps that keep the lists as they are.                                  *)
LEMMA PullRound ==
  ASSUME TypeOK, PullInv, SimulatorStep,
         Open \/ OpenFails \/ SimExit \/ CloseFile \/ ClearRadar
  PROVE  PullInv'
<1>1. /\ UNCHANGED <<main, next, cells, room, count, latest, at>>
      /\ sim # "counting" /\ sim' # "counting"
      /\ sim' \notin {"clearing radar", "waiting", "adding", "growing"}
      /\ sim \notin {"waiting", "adding", "growing"}
  BY DEF SimulatorStep, Open, OpenFails, SimExit, CloseFile, ClearRadar,
         mainVars
<1>2. pos' = pos
  BY DEF Open, OpenFails, SimExit, CloseFile, ClearRadar, PullInv, Rounds
<1>3. /\ InPull' = InPull /\ Top' = Top /\ Top = count
      /\ Before = pos /\ Before' = pos
  BY <1>1, <1>2 DEF InPull, Top, Before, Handling
<1>4. radars' <= SeenOf("radar", pos)
  <2>1. CASE ClearRadar
    <3>1. radars' = 0 /\ Before = pos
      BY <1>3, <2>1 DEF ClearRadar
    <3>2. SeenOf("radar", Before) \in Nat
      BY PullFacts
    <3>3. QED
      BY <3>1, <3>2
  <2>2. CASE ~ClearRadar
    BY <1>3, <2>2
       DEF Open, OpenFails, SimExit, CloseFile, PullInv, Counted
  <2>3. QED
    BY <2>1, <2>2
<1>5. Rounds'
  BY <1>1, <1>2 DEF Open, OpenFails, SimExit, CloseFile, ClearRadar, PullInv,
                    Rounds, Handling
<1>6. Counted'
  BY <1>1, <1>3, <1>4 DEF PullInv, Counted
<1>7. Sorted'
  BY <1>1, <1>2, <1>3 DEF PullInv, Sorted
<1>8. Pulled'
  BY <1>1, <1>2, <1>3 DEF PullInv, Pulled
<1>9. QED
  BY <1>5, <1>6, <1>7, <1>8 DEF PullInv

(* The list moves: its cells, its count and the pull stay as they are.     *)
LEMMA PullGrow ==
  ASSUME TypeOK, PullInv, SimulatorStep, Move \/ Grow
  PROVE  PullInv'
<1>1. /\ sim \in {"adding", "growing"} /\ sim' \in {"adding", "growing"}
      /\ sim' = "growing" => Lines[pos] = "video"
      /\ UNCHANGED <<main, next, pos, cells, count, at, radars, latest>>
  BY DEF SimulatorStep, Move, Grow, Full, mainVars
<1>2. room' >= room /\ room' \in Nat /\ room \in Nat
  <2>1. room' = room \/ room' = 2 * room
    BY DEF Move, Grow
  <2>2. QED
    BY <2>1, PullFacts
<1>3. /\ InPull' = InPull /\ Top' = Top /\ Before' = Before /\ pos' = pos
      /\ cells' = cells /\ count' = count /\ next' = next /\ latest' = latest
      /\ sim # "counting" /\ sim' # "counting"
      /\ radars' = radars /\ main' = main
  BY <1>1 DEF InPull, Top, Before, Handling
<1>4. Rounds'
  BY <1>1, <1>3 DEF PullInv, Rounds, Handling
<1>5. Counted'
  BY <1>1, <1>3 DEF PullInv, Counted
<1>6. Sorted'
  BY <1>3 DEF PullInv, Sorted
<1>7. Pulled'
  <2>1. main = "taking" => next < room'
    <3>1. main = "taking" => next < room
      BY DEF PullInv, Pulled
    <3>2. next \in Nat
      BY PullFacts
    <3>3. QED
      BY <1>2, <3>1, <3>2
  <2>2. QED
    BY <1>3, <2>1 DEF PullInv, Pulled
<1>8. QED
  BY <1>4, <1>5, <1>6, <1>7 DEF PullInv

(* A detection that finds no memory is lost.  The list is full then, so a  *)
(* cell that main was about to take is not one of the round before.        *)
LEMMA PullLost ==
  ASSUME TypeOK, PullInv, SimulatorStep, GrowFails
  PROVE  PullInv'
<1>1. /\ sim = "adding" /\ sim' = "reading" /\ Lines[pos] = "video"
      /\ UNCHANGED <<main, next, pos, cells, room, count, at, radars, latest>>
      /\ count >= room
  BY DEF SimulatorStep, GrowFails, Full, mainVars
<1>2. /\ InPull' = InPull /\ Top = count /\ Top' = count
      /\ Before = pos - 1 /\ Before' = pos
      /\ pos' = pos /\ cells' = cells /\ count' = count /\ next' = next
      /\ latest' = latest /\ radars' = radars /\ main' = main /\ room' = room
  BY <1>1 DEF InPull, Top, Before, Handling
<1>3. /\ pos \in 1 .. Last /\ Before \in 0 .. Last /\ pos \in 0 .. Last
      /\ pos \in Int /\ count \in Nat /\ next \in Nat /\ latest \in Int
      /\ room \in Nat /\ radars \in Nat /\ Last \in Nat
      /\ LinesOf("video") <= Last /\ LinesOf("video") \in Nat
      /\ \A j \in 1 .. Last : cells[j] \in Int
  BY <1>1, PullFacts DEF Handling
<1>4. pos = Before + 1
  BY <1>2, <1>3
<1>5. /\ SeenOf("video", pos) = SeenOf("video", Before) + 1
      /\ SeenOf("radar", pos) = SeenOf("radar", Before)
  <2>1. Lines[pos] # "radar" => SeenOf("radar", pos) = SeenOf("radar", Before)
    BY <1>3, <1>4, SeenStep
  <2>2. Lines[pos] = "video" =>
          SeenOf("video", pos) = SeenOf("video", Before) + 1
    BY <1>3, <1>4, SeenStep
  <2>3. QED
    BY <1>1, <2>1, <2>2
<1>6. Rounds'
  BY <1>1 DEF Rounds, Handling
<1>7. Counted'
  <2>1. /\ count <= SeenOf("video", Before)
        /\ radars <= SeenOf("radar", Before)
    BY <1>1, <1>2 DEF PullInv, Counted
  <2>2. SeenOf("video", Before) \in Nat
    BY <1>3, SeenFacts
  <2>3. Top' <= SeenOf("video", Before') /\ radars' <= SeenOf("radar", Before')
    BY <1>2, <1>3, <1>5, <2>1, <2>2
  <2>4. QED
    BY <1>2, <2>3 DEF Counted
<1>8. Sorted'
  <2>1. \A j \in 1 .. Last : cells'[j] <= pos' /\ ~(cells'[j] > Before')
    <3>1. \A j \in 1 .. Last : cells[j] <= pos
      BY DEF PullInv, Sorted
    <3>2. QED
      BY <1>2, <1>3, <3>1
  <2>2. QED
    BY <1>1, <1>2, <2>1 DEF PullInv, Sorted
<1>9. Pulled'
  <2>1. InPull' => latest' <= pos' /\ ~(latest' > Before')
    <3>1. InPull => latest <= pos
      BY DEF PullInv, Pulled
    <3>2. QED
      BY <1>2, <1>3, <3>1
  <2>2. main = "taking" => ~(cells[next + 1] <= 0)
    <3>1. SUFFICES ASSUME main = "taking" PROVE cells[next + 1] > 0
      <4>1. main = "taking" => next < LinesOf("video")
        BY DEF PullInv, Pulled
      <4>2. main = "taking" => cells[next + 1] \in Int
        BY <1>3, <4>1
      <4>3. QED
        BY <4>2
    <3>2. next < room
      BY <3>1 DEF PullInv, Pulled
    <3>3. next + 1 \in 1 .. Top
      BY <1>1, <1>2, <1>3, <3>2
    <3>4. QED
      BY <3>3 DEF PullInv, Sorted
  <2>3. QED
    BY <1>2, <2>1, <2>2 DEF PullInv, Pulled
<1>10. QED
  BY <1>6, <1>7, <1>8, <1>9 DEF PullInv

(* The cell is written: the count of an add in progress still hides it.    *)
LEMMA PullStore ==
  ASSUME TypeOK, PullInv, SimulatorStep, Store
  PROVE  PullInv'
<1>1. /\ sim = "adding" /\ sim' = "counting" /\ Lines[pos] = "video"
      /\ UNCHANGED <<main, next, pos, room, count, radars, latest>>
      /\ cells' = [cells EXCEPT ![count + 1] = pos] /\ at' = count
      /\ ~(count >= room)
  BY DEF SimulatorStep, Store, Full, mainVars
<1>2. Handling
  BY <1>1 DEF Handling
<1>3. /\ InPull' = InPull /\ Top = count /\ Top' = count
      /\ Before = pos - 1 /\ Before' = pos - 1
      /\ at' = count /\ pos' = pos /\ count' = count /\ next' = next
      /\ latest' = latest /\ room' = room
  BY <1>1 DEF InPull, Top, Before, Handling
<1>4. /\ pos \in 1 .. Last /\ Before \in 0 .. Last /\ pos \in 0 .. Last
      /\ pos \in Int /\ Before \in Int /\ count \in Nat /\ next \in Nat
      /\ Last \in Nat /\ latest \in Int
      /\ \A j \in 1 .. Last : cells[j] \in Int
  BY <1>2, PullFacts
<1>5. pos = Before + 1 /\ pos > Before
  BY <1>3, <1>4
<1>6. count + 1 \in 1 .. Last
  <2>1. SeenOf("video", pos) = SeenOf("video", Before) + 1
    BY <1>1, <1>4, <1>5, SeenStep
  <2>2. /\ SeenOf("video", pos) <= LinesOf("video")
        /\ SeenOf("video", Before) \in Nat /\ LinesOf("video") \in Nat
    BY <1>4, SeenFacts
  <2>3. count <= SeenOf("video", Before)
    BY <1>3 DEF PullInv, Counted
  <2>4. LinesOf("video") <= Last
    BY PullFacts
  <2>5. QED
    BY <1>4, <2>1, <2>2, <2>3, <2>4
<1>7. \A j \in 1 .. Last :
        cells'[j] = IF j = count + 1 THEN pos ELSE cells[j]
  BY <1>1, <1>6 DEF TypeOK
<1>8. \A j \in 1 .. Last : cells[j] <= pos /\ ~(cells[j] > Before)
  BY <1>1 DEF PullInv, Sorted
<1>9. Rounds'
  BY <1>1, <1>4, PullFacts DEF Rounds, Handling, LoopPlaces
<1>10. Counted'
  BY <1>1, <1>3 DEF PullInv, Counted
<1>11. Sorted'
  <2>1. /\ \A j \in 1 .. count : cells[j] > 0
        /\ \A j, k \in 1 .. count : j < k => cells[j] < cells[k]
    BY <1>3 DEF PullInv, Sorted
  <2>2. \A j \in 1 .. count : cells'[j] = cells[j] /\ j \in 1 .. Last
    BY <1>4, <1>6, <1>7
  <2>3. /\ \A j \in 1 .. Top' : cells'[j] > 0
        /\ \A j, k \in 1 .. Top' : j < k => cells'[j] < cells'[k]
    BY <1>3, <2>1, <2>2
  <2>4. cells'[at' + 1] = pos'
    BY <1>3, <1>6, <1>7
  <2>5. /\ Before' = Before /\ pos' = pos /\ at' + 1 = count + 1
        /\ sim' = "counting"
    BY <1>1, <1>3
  <2>6. ASSUME NEW j \in 1 .. Last
        PROVE  cells'[j] <= pos /\ (cells'[j] > Before => j = count + 1)
    <3>1. CASE j = count + 1
      BY <1>4, <1>7, <3>1
    <3>2. CASE j # count + 1
      BY <1>7, <1>8, <3>2
    <3>3. QED
      BY <3>1, <3>2
  <2>7. \A j \in 1 .. Last :
          /\ cells'[j] <= pos'
          /\ cells'[j] > Before' => sim' = "counting" /\ j = at' + 1
    BY <2>5, <2>6
  <2>8. sim' = "counting" => cells'[at' + 1] = pos'
    BY <2>4
  <2>9. QED
    BY <2>3, <2>7, <2>8 DEF Sorted
<1>12. Pulled'
  <2>1. InPull => latest <= pos /\ ~(latest > Before)
    BY <1>1 DEF PullInv, Pulled
  <2>2. ASSUME main = "pulling", next < count
        PROVE  cells'[next + 1] > latest
    <3>1. cells[next + 1] > latest
      BY <2>2 DEF PullInv, Pulled
    <3>2. next + 1 \in 1 .. Last /\ next + 1 # count + 1
      BY <1>4, <1>6, <2>2
    <3>3. QED
      BY <1>7, <3>1, <3>2
  <2>3. ASSUME main = "taking"
        PROVE  /\ next < LinesOf("video") /\ next < room
               /\ cells'[next + 1] > latest
               /\ cells'[next + 1] <= 0 => count = SeenOf("video", Before)
    <3>1. /\ next < LinesOf("video") /\ next < room
          /\ cells[next + 1] > latest
          /\ cells[next + 1] <= 0 => count = SeenOf("video", Before)
      BY <2>3 DEF PullInv, Pulled
    <3>2. ~(latest > Before)
      BY <2>1, <2>3 DEF InPull
    <3>3. next + 1 \in 1 .. Last
      BY <1>4, <3>1, PullFacts
    <3>4. QED
      BY <1>4, <1>5, <1>7, <3>1, <3>2, <3>3
  <2>4. Before' = Before
    BY <1>3
  <2>5. InPull' => latest' <= pos' /\ ~(latest' > Before')
    BY <1>3, <2>1, <2>4
  <2>6. main' = main
    BY <1>1
  <2>7. main' = "pulling" /\ next' < count' => cells'[next' + 1] > latest'
    BY <1>3, <2>2, <2>6
  <2>8. main' = "taking" =>
          /\ next' < LinesOf("video") /\ next' < room'
          /\ cells'[next' + 1] > latest'
          /\ cells'[next' + 1] <= 0 => count' = SeenOf("video", Before')
    BY <1>3, <2>3, <2>4, <2>6
  <2>9. ~InPull' => next' = 0 /\ latest' = Older'
    BY <1>3 DEF PullInv, Pulled, Older, Last
  <2>10. QED
    BY <2>5, <2>7, <2>8, <2>9 DEF Pulled
<1>13. QED
  BY <1>9, <1>10, <1>11, <1>12 DEF PullInv

(* The mutex is unlocked: the count may still be one that main cleared.    *)
LEMMA PullCount ==
  ASSUME TypeOK, PullInv, SimulatorStep, Count
  PROVE  PullInv'
<1>1. /\ sim = "counting" /\ sim' = "reading"
      /\ UNCHANGED <<main, next, pos, room, cells, radars, latest>>
  BY DEF SimulatorStep, Count, mainVars
<1>2. Handling /\ Lines[pos] = "video"
  BY <1>1 DEF Handling, PullInv, Rounds
<1>3. /\ InPull' = InPull /\ Top = at /\ Top' = count'
      /\ Before = pos - 1 /\ Before' = pos
      /\ count' \in {at + 1, count + 1}
      /\ pos' = pos /\ next' = next /\ latest' = latest /\ cells' = cells
      /\ radars' = radars /\ room' = room
  BY <1>1 DEF InPull, Top, Before, Handling, Count
<1>4. /\ pos \in 1 .. Last /\ Before \in 0 .. Last /\ pos \in 0 .. Last
      /\ pos \in Int /\ Before \in Int /\ count \in Nat /\ next \in Nat
      /\ at \in Nat /\ Last \in Nat /\ latest \in Int /\ LinesOf("video") <= Last
      /\ LinesOf("video") \in Nat
      /\ \A j \in 1 .. Last : cells[j] \in Int
  BY <1>2, PullFacts
<1>5. pos = Before + 1 /\ pos > Before
  BY <1>3, <1>4
<1>6. /\ SeenOf("video", pos) = SeenOf("video", Before) + 1
      /\ SeenOf("radar", pos) >= SeenOf("radar", Before)
  <2>1. SeenOf("video", pos) = SeenOf("video", Before) + 1
    BY <1>2, <1>4, <1>5, SeenStep
  <2>2. Lines[pos] # "radar" => SeenOf("radar", pos) = SeenOf("radar", Before)
    BY <1>4, <1>5, SeenStep
  <2>3. Lines[pos] # "radar"
    BY <1>2
  <2>4. SeenOf("radar", Before) \in Nat
    BY <1>4, SeenFacts
  <2>5. QED
    BY <2>1, <2>2, <2>3, <2>4
<1>7. /\ at <= SeenOf("video", Before) /\ count \in {0, at}
      /\ InPull => count = at
  BY <1>3 DEF PullInv, Counted
<1>8. /\ \A j \in 1 .. at : cells[j] > 0
      /\ \A j, k \in 1 .. at : j < k => cells[j] < cells[k]
      /\ cells[at + 1] = pos
      /\ \A j \in 1 .. Last : /\ cells[j] <= pos
                              /\ cells[j] > Before => j = at + 1
  <2>1. Sorted
    BY DEF PullInv
  <2>2. QED
    BY <1>1, <1>3, <2>1 DEF Sorted
<1>9. /\ SeenOf("video", Before) \in Nat /\ SeenOf("video", pos) \in Nat
      /\ SeenOf("video", pos) <= LinesOf("video")
  BY <1>4, SeenFacts
<1>10. at + 1 \in 1 .. Last /\ count' \in 1 .. at + 1
  BY <1>3, <1>4, <1>6, <1>7, <1>9
<1>11. Rounds'
  BY <1>1 DEF Rounds, Handling
<1>12. Counted'
  <2>1. Top' <= SeenOf("video", Before')
    BY <1>3, <1>4, <1>6, <1>7, <1>9
  <2>2. radars <= SeenOf("radar", Before)
    BY <1>1 DEF PullInv, Counted
  <2>3. radars' <= SeenOf("radar", Before')
    <3>1. /\ SeenOf("radar", pos) \in Nat /\ SeenOf("radar", Before) \in Nat
          /\ radars \in Nat
      BY <1>4, SeenFacts, PullFacts
    <3>2. QED
      BY <1>3, <1>6, <2>2, <3>1
  <2>4. Top' = count'
    BY <1>3
  <2>5. QED
    BY <2>1, <2>3, <2>4 DEF Counted
<1>13. Sorted'
  <2>1. \A j \in 1 .. at + 1 : cells[j] > 0
    BY <1>4, <1>8
  <2>2. \A j, k \in 1 .. at + 1 : j < k => cells[j] < cells[k]
    <3>1. TAKE j, k \in 1 .. at + 1
    <3>2. HAVE j < k
    <3>3. j \in 1 .. at /\ j \in 1 .. Last /\ k \in 1 .. Last
      BY <1>4, <1>10, <3>2
    <3>4. CASE k = at + 1
      BY <1>4, <1>5, <1>8, <3>3, <3>4
    <3>5. CASE k # at + 1
      BY <1>4, <1>8, <3>2, <3>3, <3>5
    <3>6. QED
      BY <3>4, <3>5
  <2>3. \A j \in 1 .. count' : j \in 1 .. at + 1
    BY <1>4, <1>10
  <2>4. /\ \A j \in 1 .. Top' : cells'[j] > 0
        /\ \A j, k \in 1 .. Top' : j < k => cells'[j] < cells'[k]
    BY <1>3, <2>1, <2>2, <2>3
  <2>5. \A j \in 1 .. Last : cells'[j] <= pos' /\ ~(cells'[j] > Before')
    BY <1>3, <1>4, <1>8
  <2>6. sim' # "counting"
    BY <1>1
  <2>7. QED
    BY <2>4, <2>5, <2>6 DEF Sorted
<1>14. Pulled'
  <2>1. InPull => latest <= pos /\ (latest > Before => next > at)
    BY <1>1 DEF PullInv, Pulled
  <2>2. InPull' => latest' <= pos' /\ ~(latest' > Before')
    BY <1>3, <1>4, <2>1
  <2>3. main' = main
    BY <1>1
  <2>4. ASSUME main = "pulling", next < count'
        PROVE  cells[next + 1] > latest
    <3>1. InPull
      BY <2>4 DEF InPull
    <3>2. count = at /\ count' = at + 1
      BY <1>3, <1>7, <3>1
    <3>3. CASE next < count
      BY <2>4, <3>3 DEF PullInv, Pulled
    <3>4. CASE next = at
      BY <1>4, <1>5, <1>8, <2>1, <3>1, <3>4
    <3>5. QED
      BY <1>4, <2>4, <3>2, <3>3, <3>4
  <2>5. ASSUME main = "taking"
        PROVE  /\ next < LinesOf("video") /\ next < room
               /\ cells[next + 1] > latest
               /\ cells[next + 1] <= 0 => count' = SeenOf("video", pos)
    <3>1. /\ next < LinesOf("video") /\ next < room
          /\ cells[next + 1] > latest
          /\ cells[next + 1] <= 0 => count = SeenOf("video", Before)
      BY <2>5 DEF PullInv, Pulled
    <3>2. InPull
      BY <2>5 DEF InPull
    <3>3. count = at /\ count' = at + 1
      BY <1>3, <1>7, <3>2
    <3>4. QED
      BY <1>6, <3>1, <3>3
  <2>6. main' = "pulling" /\ next' < count' => cells'[next' + 1] > latest'
    BY <1>3, <2>3, <2>4
  <2>7. main' = "taking" =>
          /\ next' < LinesOf("video") /\ next' < room'
          /\ cells'[next' + 1] > latest'
          /\ cells'[next' + 1] <= 0 => count' = SeenOf("video", Before')
    BY <1>3, <2>3, <2>5
  <2>8. ~InPull' => next' = 0 /\ latest' = Older'
    BY <1>3 DEF PullInv, Pulled, Older, Last
  <2>9. QED
    BY <2>2, <2>6, <2>7, <2>8 DEF Pulled
<1>15. QED
  BY <1>11, <1>12, <1>13, <1>14 DEF PullInv

(* A round ends: a cell that main is about to take is of this round.       *)
LEMMA PullClear ==
  ASSUME TypeOK, PullInv, SimulatorStep, ClearVideo
  PROVE  PullInv'
<1>1. /\ sim = "clearing" /\ sim' = "clearing radar"
      /\ UNCHANGED <<main, next, room>>
      /\ pos' = 0 /\ count' = 0
  BY DEF SimulatorStep, ClearVideo, NewRound, mainVars
<1>2. /\ Top = count /\ Top' = 0 /\ Before = pos /\ Before' = 0
      /\ InPull' = InPull /\ count' = 0 /\ pos' = 0 /\ next' = next
      /\ room' = room
  BY <1>1 DEF Top, Before, Handling, InPull
<1>3. /\ Last \in Nat /\ pos \in 0 .. Last /\ Last \in Nat /\ latest \in Int
      /\ next \in Nat /\ Older = -Last /\ LinesOf("video") <= Last
      /\ LinesOf("video") \in Nat /\ count \in Nat
      /\ \A j \in 1 .. Last : cells[j] \in Int
  BY PullFacts
<1>4. /\ \A j \in 1 .. Last : cells'[j] = Aged(cells[j])
      /\ latest' = Aged(latest)
  BY DEF ClearVideo, NewRound
<1>5. /\ SeenOf("video", 0) = 0 /\ SeenOf("radar", 0) = 0
      /\ SeenOf("video", Last) = LinesOf("video")
  BY <1>3, SeenFacts
<1>6. \A j \in 1 .. Last : cells[j] <= pos
  BY DEF PullInv, Sorted
<1>7. \A j \in 1 .. Last : cells'[j] <= 0
  BY <1>3, <1>4, <1>6 DEF Aged
<1>8. InPull => latest' <= 0
  <2>1. InPull => latest <= pos
    BY DEF PullInv, Pulled
  <2>2. QED
    BY <1>3, <1>4, <2>1 DEF Aged
<1>9. Rounds'
  BY <1>1 DEF Rounds, Handling
<1>10. Counted'
  <2>1. Top' <= SeenOf("video", Before') /\ Top' = count'
    BY <1>2, <1>5
  <2>2. sim' = "clearing radar"
    BY <1>1
  <2>3. QED
    BY <2>1, <2>2 DEF Counted
<1>11. Sorted'
  <2>1. \A j \in 1 .. Last : cells'[j] <= pos' /\ ~(cells'[j] > Before')
    BY <1>2, <1>4, <1>7, <1>3 DEF Aged
  <2>2. sim' # "counting"
    BY <1>1
  <2>3. QED
    BY <1>2, <2>1, <2>2 DEF Sorted
<1>12. ASSUME main = "taking"
       PROVE  /\ next < LinesOf("video") /\ next < room
              /\ cells'[next + 1] > latest'
  <2>1. /\ next < LinesOf("video") /\ next < room
        /\ cells[next + 1] > latest
        /\ cells[next + 1] <= 0 => count = SeenOf("video", Before)
    BY <1>12 DEF PullInv, Pulled
  <2>2. pos = Last
    BY <1>1, <1>12 DEF PullInv, Rounds, LoopPlaces
  <2>3. next + 1 \in 1 .. Last /\ cells[next + 1] \in Int
    BY <1>3, <2>1
  <2>4. cells[next + 1] > 0
    <3>1. SUFFICES ASSUME cells[next + 1] <= 0 PROVE FALSE
      BY <2>3
    <3>2. count = LinesOf("video")
      BY <1>2, <1>5, <2>1, <2>2, <3>1
    <3>3. next + 1 \in 1 .. Top
      BY <1>2, <1>3, <2>1, <3>2
    <3>4. cells[next + 1] > 0
      BY <3>3 DEF PullInv, Sorted
    <3>5. QED
      BY <2>3, <3>1, <3>4
  <2>5. cells'[next + 1] = cells[next + 1] - Last
    BY <1>4, <2>3, <2>4 DEF Aged
  <2>6. latest' <= IF latest > 0 THEN latest - Last ELSE -Last
    BY <1>3, <1>4 DEF Aged
  <2>7. latest' \in Int
    BY <1>3, <1>4 DEF Aged
  <2>8. QED
    BY <1>3, <2>1, <2>3, <2>4, <2>5, <2>6, <2>7
<1>13. Pulled'
  <2>1. main' = main
    BY <1>1
  <2>2. InPull' => latest' <= pos' /\ ~(latest' > Before')
    <3>1. latest' \in Int
      BY <1>3, <1>4 DEF Aged
    <3>2. QED
      BY <1>2, <1>8, <3>1
  <2>3. ~(next' < count')
    BY <1>2, <1>3
  <2>4. main' = "taking" =>
          /\ next' < LinesOf("video") /\ next' < room'
          /\ cells'[next' + 1] > latest'
          /\ cells'[next' + 1] <= 0 => count' = SeenOf("video", Before')
    BY <1>2, <1>5, <1>12, <2>1
  <2>5. ~InPull' => next' = 0 /\ latest' = Older
    <3>1. ~InPull => next = 0 /\ latest = Older
      BY DEF PullInv, Pulled
    <3>2. Aged(Older) = Older
      BY <1>3 DEF Aged
    <3>3. QED
      BY <1>2, <1>4, <3>1, <3>2 DEF Older
  <2>6. QED
    BY <2>2, <2>3, <2>4, <2>5 DEF Pulled
<1>14. QED
  BY <1>9, <1>10, <1>11, <1>13 DEF PullInv

-----------------------------------------------------------------------------
(* The list: main's steps                                                  *)

LEMMA PullTimedOut ==
  ASSUME TypeOK, PullInv, TimedOut
  PROVE  PullInv'
<1>1. /\ main = "loop" /\ main' = "pulling"
      /\ UNCHANGED <<sim, pos, cells, room, count, at, radars, next, latest>>
      /\ count > 0 /\ next = 0 /\ latest = Older
  BY DEF TimedOut, simVars, PullInv, Pulled, InPull
<1>2. /\ Top' = Top /\ Before' = Before /\ next' = 0 /\ latest' = Older
      /\ pos' = pos /\ count' = count /\ cells' = cells
  BY <1>1 DEF Top, Before, Handling
<1>3. /\ count \in Nat /\ Before \in 0 .. Last /\ Last \in Nat /\ Top \in Nat
      /\ pos \in 0 .. Last /\ Older = -Last
      /\ LinesOf("video") <= Last /\ Last \in Nat /\ Top <= LinesOf("video")
      /\ LinesOf("video") \in Nat
      /\ \A j \in 1 .. Last : cells[j] \in Int
  BY PullFacts
<1>4. count = Top /\ count > 0
  <2>1. count > 0
    BY <1>1
  <2>2. count \in {0, Top}
    BY DEF PullInv, Counted
  <2>3. QED
    BY <1>3, <2>1, <2>2
<1>5. Rounds'
  BY <1>1 DEF PullInv, Rounds, Handling, LoopPlaces
<1>6. Counted'
  BY <1>1, <1>2, <1>4 DEF PullInv, Counted
<1>7. Sorted'
  BY <1>1, <1>2 DEF PullInv, Sorted
<1>8. Pulled'
  <2>1. latest' <= pos' /\ ~(latest' > Before')
    BY <1>2, <1>3
  <2>2. cells'[next' + 1] > latest'
    <3>1. 1 \in 1 .. Top /\ 1 \in 1 .. Last
      BY <1>3, <1>4
    <3>2. cells[1] > 0
      BY <3>1 DEF PullInv, Sorted
    <3>3. QED
      BY <1>2, <1>3, <3>1, <3>2
  <2>3. main' # "taking"
    BY <1>1
  <2>4. InPull'
    BY <1>1 DEF InPull
  <2>5. QED
    BY <2>1, <2>2, <2>3, <2>4 DEF Pulled
<1>9. QED
  BY <1>5, <1>6, <1>7, <1>8 DEF PullInv

LEMMA PullPick ==
  ASSUME TypeOK, PullInv, Pick
  PROVE  PullInv'
<1>1. /\ main = "pulling" /\ main' = "taking"
      /\ UNCHANGED <<sim, pos, cells, room, count, at, radars, latest, next>>
      /\ next < count
  BY DEF Pick
<1>2. /\ Top' = Top /\ Before' = Before /\ next' = next /\ latest' = latest
      /\ pos' = pos /\ count' = count /\ cells' = cells
      /\ InPull /\ InPull'
      /\ UNCHANGED <<sim, radars, at, room>>
  BY <1>1 DEF Top, Before, Handling, InPull
<1>3. /\ count \in Nat /\ next \in Nat
      /\ LinesOf("video") <= Last /\ Last \in Nat /\ Top <= LinesOf("video")
      /\ LinesOf("video") \in Nat
      /\ \A j \in 1 .. Last : cells[j] \in Int
  BY PullFacts
<1>4. count = Top
  BY <1>2 DEF PullInv, Counted
<1>5. Rounds'
  BY <1>1, <1>2 DEF PullInv, Rounds, Handling, LoopPlaces
<1>6. Counted'
  BY <1>2 DEF PullInv, Counted
<1>7. Sorted'
  BY <1>2 DEF PullInv, Sorted
<1>8. Pulled'
  <2>1. /\ latest <= pos
        /\ latest > Before => sim = "counting" /\ next > at
        /\ cells[next + 1] > latest
    BY <1>1, <1>2 DEF PullInv, Pulled
  <2>2. next + 1 \in 1 .. Top /\ next + 1 \in 1 .. Last
        /\ next < LinesOf("video") /\ next < room
    BY <1>1, <1>3, <1>4, PullFacts
  <2>3. ~(cells[next + 1] <= 0)
    <3>1. cells[next + 1] > 0
      BY <2>2 DEF PullInv, Sorted
    <3>2. QED
      BY <1>3, <2>2, <3>1
  <2>4. /\ latest' <= pos'
        /\ latest' > Before' => sim' = "counting" /\ next' > at'
    BY <1>2, <2>1
  <2>5. /\ next' < LinesOf("video") /\ next' < room'
        /\ cells'[next' + 1] > latest' /\ ~(cells'[next' + 1] <= 0)
    BY <1>2, <2>1, <2>2, <2>3
  <2>6. main' # "pulling"
    BY <1>1
  <2>7. QED
    BY <1>2, <2>4, <2>5, <2>6 DEF Pulled
<1>9. QED
  BY <1>5, <1>6, <1>7, <1>8 DEF PullInv

LEMMA PullTake ==
  ASSUME TypeOK, PullInv, Take
  PROVE  PullInv'
<1>1. /\ main = "taking" /\ main' = "pulling"
      /\ UNCHANGED <<sim, pos, cells, room, count, at, radars>>
      /\ next' = next + 1 /\ latest' \in {latest, cells[next + 1]}
  BY DEF Take
<1>2. /\ Top' = Top /\ Before' = Before
      /\ next' = next + 1
      /\ pos' = pos /\ count' = count /\ cells' = cells /\ at' = at
      /\ InPull /\ InPull'
  BY <1>1 DEF Top, Before, Handling, InPull
<1>3. /\ count \in Nat /\ next \in Nat /\ at \in Nat /\ latest \in Int
      /\ LinesOf("video") <= Last /\ Last \in Nat
      /\ LinesOf("video") \in Nat /\ Top <= LinesOf("video")
      /\ \A j \in 1 .. Last : cells[j] \in Int
  BY PullFacts
<1>4. count = Top
  BY <1>2 DEF PullInv, Counted
<1>5. Rounds'
  BY <1>1 DEF PullInv, Rounds, Handling, LoopPlaces
<1>6. Counted'
  BY <1>1, <1>2 DEF PullInv, Counted
<1>7. Sorted'
  BY <1>1, <1>2 DEF PullInv, Sorted
<1>8. /\ next + 1 \in 1 .. Last /\ cells[next + 1] > latest
      /\ latest <= pos
      /\ latest > Before => sim = "counting" /\ next > at
  <2>1. /\ next < LinesOf("video") /\ cells[next + 1] > latest
    BY <1>1 DEF PullInv, Pulled
  <2>2. /\ latest <= pos
        /\ latest > Before => sim = "counting" /\ next > at
    BY <1>2 DEF PullInv, Pulled
  <2>3. QED
    BY <1>3, <2>1, <2>2
<1>9. Pulled'
  <2>1. /\ cells[next + 1] <= pos
        /\ cells[next + 1] > Before => sim = "counting" /\ next + 1 = at + 1
    BY <1>8 DEF PullInv, Sorted
  <2>2. latest' <= pos'
    BY <1>1, <1>2, <1>8, <2>1
  <2>3. latest' > Before' => sim' = "counting" /\ next' > at'
    <3>1. CASE latest' = latest
      BY <1>1, <1>2, <1>3, <1>8, <3>1
    <3>2. CASE latest' = cells[next + 1]
      BY <1>1, <1>2, <1>3, <2>1, <3>2
    <3>3. QED
      BY <1>1, <3>1, <3>2
  <2>4. next' < count' => cells'[next' + 1] > latest'
    <3>1. SUFFICES ASSUME next + 1 < count
                   PROVE  cells[next + 2] > latest'
      BY <1>2, <1>3
    <3>2. /\ next + 1 \in 1 .. Top /\ next + 2 \in 1 .. Top
          /\ next + 2 \in 1 .. Last /\ next + 1 < next + 2
      BY <1>3, <1>4, <3>1
    <3>3. cells[next + 1] < cells[next + 2]
      BY <3>2 DEF PullInv, Sorted
    <3>4. QED
      BY <1>1, <1>3, <1>8, <3>2, <3>3
  <2>5. main' # "taking"
    BY <1>1
  <2>6. QED
    BY <1>2, <2>2, <2>3, <2>4, <2>5 DEF Pulled
<1>10. QED
  BY <1>5, <1>6, <1>7, <1>9 DEF PullInv

(* The pull is over: i and what it took are forgotten.                     *)
LEMMA PullTaken ==
  ASSUME TypeOK, PullInv, Taken
  PROVE  PullInv'
<1>1. /\ main = "pulling" /\ main' = "clearing" /\ next' = 0
      /\ latest' = Older
      /\ UNCHANGED <<sim, pos, cells, room, count, at, radars>>
  BY DEF Taken
<1>2. /\ Top' = Top /\ Before' = Before /\ ~InPull' /\ Older' = Older
  BY <1>1 DEF Top, Before, Handling, InPull, Older
<1>3. Rounds' /\ Counted' /\ Sorted'
  BY <1>1, <1>2 DEF PullInv, Rounds, Counted, Sorted, Handling, LoopPlaces
<1>4. Pulled'
  BY <1>1, <1>2 DEF Pulled
<1>5. QED
  BY <1>3, <1>4 DEF PullInv

LEMMA PullDone ==
  ASSUME TypeOK, PullInv, Clear
  PROVE  PullInv'
<1>1. /\ main = "clearing" /\ main' = "loop"
      /\ UNCHANGED <<sim, pos, cells, room, at, radars, next, latest>>
      /\ count' = 0 /\ next = 0 /\ latest = Older
  BY DEF Clear, PullInv, Pulled, InPull
<1>2. /\ Before' = Before /\ count' = 0 /\ ~InPull'
      /\ Top' = IF sim = "counting" THEN Top ELSE 0
  BY <1>1 DEF Top, Before, Handling, InPull
<1>3. Rounds'
  BY <1>1 DEF PullInv, Rounds, Handling, LoopPlaces
<1>4. Counted'
  <2>1. Top' <= SeenOf("video", Before)
    <3>1. Top <= SeenOf("video", Before)
      BY DEF PullInv, Counted
    <3>2. SeenOf("video", Before) \in Nat
      BY PullFacts
    <3>3. Top' = Top \/ Top' = 0
      BY <1>2
    <3>4. QED
      BY <3>1, <3>2, <3>3
  <2>2. QED
    BY <1>1, <1>2, <2>1 DEF PullInv, Counted
<1>5. Sorted'
  <2>1. \A j \in 1 .. Top' : j \in 1 .. Top
    <3>1. Top' = Top \/ Top' = 0
      BY <1>2
    <3>2. QED
      BY <3>1
  <2>2. QED
    BY <1>1, <1>2, <2>1 DEF PullInv, Sorted
<1>6. Pulled'
  BY <1>1, <1>2 DEF Pulled, Older
<1>7. QED
  BY <1>3, <1>4, <1>5, <1>6 DEF PullInv

LEMMA PullStart ==
  ASSUME pos' = 0, count' = 0, radars' = 0, sim' = "opening", main' = "loop",
         cells' = [c \in 1 .. Last |-> Older], next' = 0, latest' = Older
  PROVE  PullInv'
<1>1. Top' = 0 /\ Before' = 0 /\ pos' = 0 /\ count' = 0 /\ ~InPull'
      /\ radars' = 0
  BY DEF Top, Before, Handling, InPull
<1>2. SeenOf("video", 0) = 0 /\ SeenOf("radar", 0) = 0
  BY LastNat, SeenFacts
<1>3. Rounds'
  BY DEF Rounds, Handling
<1>4. Counted'
  BY <1>1, <1>2 DEF Counted
<1>5. Sorted'
  <2>1. \A j \in 1 .. Last : cells'[j] <= pos' /\ ~(cells'[j] > Before')
    BY <1>1, LastNat
  <2>2. sim' # "counting"
    OBVIOUS
  <2>3. QED
    BY <1>1, <2>1, <2>2 DEF Sorted
<1>6. Pulled'
  BY <1>1 DEF Pulled, Older, InPull
<1>7. QED
  BY <1>3, <1>4, <1>5, <1>6 DEF PullInv

(* Every step keeps the list in order.                                     *)
LEMMA PullStep ==
  ASSUME TypeOK, PullInv, DescriptorInv, [Next]_vars
  PROVE  PullInv'
<1>1. CASE SimulatorStep
  BY <1>1, PullRead, PullRound, PullGrow, PullLost, PullStore, PullCount,
     PullClear
     DEF SimulatorStep, SimStep
<1>2. CASE MonitorStep \/ Visitor \/ Killed
  <2>1. UNCHANGED <<simVars, mainVars>>
    BY <1>2 DEF MonitorStep, Visitor, Killed
  <2>2. QED
    BY <2>1, PullFrame DEF simVars, mainVars
<1>3. CASE MainStep
  <2>1. CASE TimedOut \/ Pick \/ Take \/ Taken \/ Clear
    BY <2>1, PullTimedOut, PullPick, PullTake, PullTaken, PullDone
  <2>2. CASE LeaveLoop \/ StopMonitor \/ JoinMonitor \/ CloseSocket
               \/ StopSimulator \/ WakeSimulator \/ JoinSimulator
    <3>1. UNCHANGED <<sim, pos, cells, room, count, at, radars, latest, next>>
      BY <2>2 DEF LeaveLoop, StopMonitor, JoinMonitor, CloseSocket,
                  StopSimulator, WakeSimulator, JoinSimulator, simVars
    <3>2. /\ ~InPull /\ ~InPull'
          /\ main' \in LoopPlaces => main \in LoopPlaces
      BY <2>2 DEF LeaveLoop, StopMonitor, JoinMonitor, CloseSocket,
                  StopSimulator, WakeSimulator, JoinSimulator, LoopPlaces,
                  InPull
    <3>3. QED
      BY <3>1, <3>2, PullFrame
  <2>3. QED
    BY <1>3, <2>1, <2>2 DEF MainStep
<1>4. CASE Signal \/ UNCHANGED vars
  <2>1. UNCHANGED <<sim, pos, cells, room, count, at, radars, latest, next,
                    main>>
    BY <1>4 DEF Signal, vars, simVars, mainVars
  <2>2. QED
    BY <2>1, PullFrame
<1>5. CASE Restart
  BY <1>5, PullStart DEF Restart, SimStarts
<1>6. QED
  BY <1>1, <1>2, <1>3, <1>4, <1>5 DEF Next

LEMMA DescriptorStep ==
  ASSUME TypeOK, PullInv, DescriptorInv, [Next]_vars
  PROVE  DescriptorInv'
<1>1. CASE UNCHANGED vars
  BY <1>1, DescriptorFrame DEF vars, simVars, mainVars, Handling
<1>2. CASE Next
  BY <1>2, DescriptorSimulator, DescriptorMonitor, DescriptorMain,
     DescriptorRestart DEF Next, PullInv
<1>3. QED
  BY <1>1, <1>2

-----------------------------------------------------------------------------
(* The types                                                               *)

LEMMA OwnerType ==
  ASSUME TypeOK, NEW user \in {File, Server, Client},
         \/ UNCHANGED owner
         \/ \E n \in Numbers : Opens(user, n)
         \/ \E n : Closes(n)
  PROVE  owner' \in [Numbers -> {Free, File, Server, Client}]
BY DEF TypeOK, Opens, Closes

LEMMA TypeSimulator ==
  ASSUME TypeOK, PullInv, PullInv', SimulatorStep
  PROVE  TypeOK'
<1>1. owner' \in [Numbers -> {Free, File, Server, Client}]
  BY OwnerType DEF SimulatorStep, SimStep, Open, OpenFails, SimExit, ReadLine,
                   EndOfFile, LockLists, Move, Grow, GrowFails,
                   Store, Count, AddRadar, AddNothing,
                   CloseFile, ClearVideo, ClearRadar
<1>2. file' \in Numbers \cup {None} /\ simOn' \in BOOLEAN /\ sim' \in SimPlaces
  BY DEF TypeOK, SimulatorStep, SimStep, Open, OpenFails, SimExit, ReadLine,
         EndOfFile, LockLists, Move, Grow, GrowFails,
         Store, Count, AddRadar, AddNothing,
         CloseFile, ClearVideo, ClearRadar, SimPlaces
<1>3. pos' \in 0 .. Last
  <2>1. pos' = pos \/ pos' = 0 \/ (pos < Last /\ pos' = pos + 1)
    BY DEF SimulatorStep, SimStep, Open, OpenFails, SimExit,
           ReadLine, EndOfFile, LockLists, Move, Grow, GrowFails,
           Store, Count, AddRadar, AddNothing,
           CloseFile, ClearVideo, NewRound, ClearRadar
  <2>2. pos \in 0 .. Last
    BY DEF TypeOK
  <2>3. QED
    BY <2>1, <2>2, LastNat
<1>4. Before' \in 0 .. Last
  <2>1. Handling' => pos' >= 1
    BY DEF PullInv, Rounds
  <2>2. Before' = pos' \/ (Handling' /\ Before' = pos' - 1)
    BY DEF Before
  <2>3. QED
    BY <1>3, <2>1, <2>2, LastNat
<1>5. /\ SeenOf("video", Before') <= LinesOf("video")
      /\ SeenOf("radar", Before') <= LinesOf("radar")
      /\ SeenOf("video", Before') \in Nat /\ SeenOf("radar", Before') \in Nat
      /\ LinesOf("video") \in Nat /\ LinesOf("radar") \in Nat
  BY <1>4, SeenFacts
<1>6. /\ at \in Nat /\ count \in Nat /\ radars \in Nat
      /\ at \in 0 .. LinesOf("video") /\ count \in 0 .. LinesOf("video")
      /\ radars \in 0 .. LinesOf("radar")
  BY PullFacts DEF TypeOK
<1>7. at' \in 0 .. LinesOf("video")
  <2>1. at' = at \/ at' = count \/ at' = 0
    BY DEF SimulatorStep, SimStep, Open, OpenFails, SimExit, ReadLine,
           EndOfFile, LockLists, Move, Grow, GrowFails,
           Store, Count, AddRadar, AddNothing,
           CloseFile, ClearVideo, ClearRadar
  <2>2. QED
    BY <1>5, <1>6, <2>1
<1>8. count' \in 0 .. LinesOf("video")
  <2>1. count' = count \/ count' = 0 \/ Count
    BY DEF SimulatorStep, SimStep, Open, OpenFails, SimExit, ReadLine,
           EndOfFile, LockLists, Move, Grow, GrowFails,
           Store, AddRadar, AddNothing, CloseFile,
           ClearVideo, ClearRadar
  <2>2. CASE count' = count \/ count' = 0
    BY <1>5, <1>6, <2>2
  <2>3. CASE Count
    <3>1. Top' = count'
      BY <2>3 DEF Top, Count
    <3>2. Top' <= SeenOf("video", Before')
      BY DEF PullInv, Counted
    <3>3. count' \in Nat
      <4>1. count' = at + 1 \/ count' = count + 1
        BY <2>3 DEF Count
      <4>2. QED
        BY <1>6, <4>1
    <3>4. QED
      BY <1>5, <3>1, <3>2, <3>3
  <2>4. QED
    BY <2>1, <2>2, <2>3
<1>9. radars' \in 0 .. LinesOf("radar")
  <2>1. radars' = radars \/ radars' = 0 \/ AddRadar
    BY DEF SimulatorStep, SimStep, Open, OpenFails, SimExit, ReadLine,
           EndOfFile, LockLists, Move, Grow, GrowFails,
           Store, Count, AddNothing, CloseFile,
           ClearVideo, ClearRadar
  <2>2. CASE radars' = radars \/ radars' = 0
    BY <1>5, <1>6, <2>2
  <2>3. CASE AddRadar
    <3>1. radars' <= SeenOf("radar", Before')
      BY <2>3 DEF AddRadar, PullInv, Counted
    <3>2. radars' \in Nat
      <4>1. radars' \in {radars, radars + 1}
        BY <2>3 DEF AddRadar
      <4>2. QED
        BY <1>6, <4>1
    <3>3. QED
      BY <1>5, <3>1, <3>2
  <2>4. QED
    BY <2>1, <2>2, <2>3
<1>10. cells' \in [1 .. Last -> Older .. Last] /\ latest' \in Older .. Last
  <2>1. \A k \in Older .. Last : Aged(k) \in Older .. Last
    BY LastNat DEF Aged
  <2>2. CASE ClearVideo
    BY <2>1, <2>2 DEF ClearVideo, NewRound, TypeOK
  <2>3. CASE Store
    <3>1. pos \in Older .. Last
      <4>1. pos \in 0 .. Last
        BY DEF TypeOK
      <4>2. QED
        BY <4>1, LastNat
    <3>2. QED
      BY <2>3, <3>1 DEF Store, TypeOK
  <2>4. CASE UNCHANGED <<cells, latest>>
    BY <2>4 DEF TypeOK
  <2>5. QED
    BY <2>2, <2>3, <2>4
       DEF SimulatorStep, SimStep, Open, OpenFails, SimExit, ReadLine,
           EndOfFile, LockLists, Move, Grow, GrowFails,
           Count, AddRadar, AddNothing, CloseFile,
           ClearRadar
<1>11. UNCHANGED <<alive, monVars, mainVars>>
  BY DEF SimulatorStep
<1>12. room' \in Nat \ {0} /\ count' <= room' /\ stale' \in BOOLEAN
  <2>1. stale' \in {stale, TRUE} /\ stale \in BOOLEAN
    BY DEF TypeOK, SimulatorStep, SimStep, Open, OpenFails, SimExit, ReadLine,
           EndOfFile, LockLists, Move, Grow, GrowFails, Store, Count, AddRadar,
           AddNothing, CloseFile, ClearVideo, ClearRadar
  <2>2. room \in Nat \ {0} /\ count <= room /\ count \in Nat /\ at \in Nat
    BY PullFacts
  <2>3. room' = room \/ (room' = 2 * room /\ count' = count)
    BY DEF SimulatorStep, SimStep, Open, OpenFails, SimExit, ReadLine,
           EndOfFile, LockLists, Move, Grow, GrowFails, Store, Count, AddRadar,
           AddNothing, CloseFile, ClearVideo, ClearRadar
  <2>4. room' = room => count' <= room
    <3>1. CASE Count
      <4>1. at < room /\ count \in {0, at}
        BY <3>1 DEF Count, PullInv, Rounds, Counted, Top
      <4>2. count' \in {at + 1, count + 1}
        BY <3>1 DEF Count
      <4>3. QED
        BY <2>2, <4>1, <4>2
    <3>2. CASE ~Count
      <4>1. count' = count \/ count' = 0 \/ room' # room
        BY <3>2
           DEF SimulatorStep, SimStep, Open, OpenFails, SimExit, ReadLine,
               EndOfFile, LockLists, Move, Grow, GrowFails, Store, AddRadar,
               AddNothing, CloseFile, ClearVideo, ClearRadar
      <4>2. QED
        BY <2>2, <4>1
    <3>3. QED
      BY <3>1, <3>2
  <2>5. room' \in Nat \ {0} /\ count' <= room'
    BY <2>2, <2>3, <2>4
  <2>6. stale' \in BOOLEAN
    BY <2>1, Zenon
  <2>7. QED
    BY <2>5, <2>6, Zenon
<1>13. QED
  BY <1>1, <1>2, <1>3, <1>7, <1>8, <1>9, <1>10, <1>11, <1>12
     DEF TypeOK, monVars, mainVars

LEMMA TypeMonitor ==
  ASSUME TypeOK, MonitorStep \/ Visitor
  PROVE  TypeOK'
<1>1. UNCHANGED <<simVars, mainVars>>
  BY DEF MonitorStep, Visitor
<1>2. owner' \in [Numbers -> {Free, File, Server, Client}]
  BY OwnerType DEF MonitorStep, Visitor, MonStep, Socket, SocketFails, Unlink,
                   Bind, BindFails, GiveUp, Listen, ListenFails, Select, Accept,
                   AcceptFails, Answer, CloseClient, MonExit, Visit, Leave
<1>3. /\ server' \in Numbers \cup {None} /\ client' \in Numbers \cup {None}
      /\ alive' \in BOOLEAN
  BY DEF MonitorStep, Visitor, MonStep, Socket, SocketFails, Unlink,
         Bind, BindFails, GiveUp, Listen, ListenFails, Select, Accept,
         AcceptFails, Answer, CloseClient, MonExit, Visit, Leave, TypeOK
<1>4. /\ monOn' \in BOOLEAN /\ mon' \in MonPlaces /\ usable' \in BOOLEAN
      /\ visitor' \in {"none", "waiting", "gone"} /\ failed' \in BOOLEAN
      /\ path' \in {"none", "ours", "stale"}
  <2> USE DEF TypeOK, MonPlaces
  <2>1. CASE Visitor
    BY <2>1 DEF Visitor, Visit, Leave
  <2>2. CASE Socket \/ SocketFails \/ Unlink \/ Bind \/ BindFails
    BY <2>2 DEF Socket, SocketFails, Unlink, Bind, BindFails, GiveUp
  <2>3. CASE Listen \/ ListenFails \/ Select \/ MonExit
    BY <2>3 DEF Listen, ListenFails, GiveUp, Select, MonExit
  <2>4. CASE Accept \/ AcceptFails \/ Answer \/ CloseClient
    BY <2>4 DEF Accept, AcceptFails, Answer, CloseClient
  <2>5. QED
    BY <2>1, <2>2, <2>3, <2>4 DEF MonitorStep, MonStep
<1>5. QED
  BY <1>1, <1>2, <1>3, <1>4 DEF TypeOK, simVars, mainVars

LEMMA TypeMain ==
  ASSUME TypeOK, PullInv, MainStep \/ Signal \/ Killed \/ UNCHANGED vars
  PROVE  TypeOK'
<1> USE DEF simVars, monVars, mainVars, vars
<1>1. owner' \in [Numbers -> {Free, File, Server, Client}]
  BY OwnerType DEF MainStep, TimedOut, Pick, Take, Taken, Clear, LeaveLoop,
                   StopMonitor, JoinMonitor, CloseSocket, StopSimulator,
                   WakeSimulator, JoinSimulator, Signal, Killed
<1>2. /\ UNCHANGED <<sim, file, pos, cells, room, at, radars, mon, client,
                     usable, visitor, failed>>
      /\ alive' \in BOOLEAN /\ simOn' \in BOOLEAN /\ monOn' \in BOOLEAN
      /\ running' \in BOOLEAN /\ path' \in {"none", "ours", "stale"}
      /\ server' \in Numbers \cup {None}
  BY DEF MainStep, TimedOut, Pick, Take, Taken, Clear, LeaveLoop,
         StopMonitor, JoinMonitor, CloseSocket, StopSimulator,
         WakeSimulator, JoinSimulator, Signal, Killed, TypeOK
<1>3. LinesOf("video") \in Nat /\ count \in 0 .. LinesOf("video")
  BY PullFacts DEF TypeOK
<1>4. /\ count' \in 0 .. LinesOf("video") /\ count' <= room'
      /\ stale' \in BOOLEAN
  <2>1. (count' = count \/ count' = 0) /\ room' = room
    BY DEF MainStep, TimedOut, Pick, Take, Taken, Clear, LeaveLoop,
           StopMonitor, JoinMonitor, CloseSocket, StopSimulator,
           WakeSimulator, JoinSimulator, Signal, Killed
  <2>2. room \in Nat /\ count <= room
    BY PullFacts
  <2>3. stale' \in BOOLEAN
    BY DEF MainStep, TimedOut, Pick, Take, Taken, Clear, LeaveLoop,
           StopMonitor, JoinMonitor, CloseSocket, StopSimulator,
           WakeSimulator, JoinSimulator, Signal, Killed, TypeOK
  <2>4. QED
    BY <1>3, <2>1, <2>2, <2>3
<1>5. next' \in 0 .. LinesOf("video") /\ latest' \in Older .. Last
  <2>1. CASE Take
    <3>1. next < LinesOf("video") /\ next \in Nat /\ next + 1 \in 1 .. Last
      <4>1. next < LinesOf("video")
        BY <2>1 DEF Take, PullInv, Pulled
      <4>2. QED
        BY <4>1, PullFacts
    <3>2. next + 1 \in 0 .. LinesOf("video")
      BY <1>3, <3>1
    <3>3. cells[next + 1] \in Older .. Last
      BY <3>1 DEF TypeOK
    <3>4. latest \in Older .. Last
      BY DEF TypeOK
    <3>5. QED
      BY <2>1, <3>2, <3>3, <3>4 DEF Take
  <2>2. CASE Taken
    <3>1. next' = 0 /\ latest' = Older
      BY <2>2 DEF Taken
    <3>2. QED
      BY <1>3, <3>1, LastNat
  <2>3. CASE ~Take /\ ~Taken
    BY <2>3 DEF MainStep, TimedOut, Pick, Clear, LeaveLoop,
           StopMonitor, JoinMonitor, CloseSocket, StopSimulator,
           WakeSimulator, JoinSimulator, Signal, Killed, TypeOK
  <2>4. QED
    BY <2>1, <2>2, <2>3
<1>6. QED
  BY <1>1, <1>2, <1>4, <1>5 DEF TypeOK

LEMMA TypeStart ==
  ASSUME alive' = TRUE, owner' = [n \in Numbers |-> Free], SimStarts,
         monOn' = TRUE, mon' = "starting", server' = None, client' = None,
         path' \in {"none", "stale"}, usable' \in BOOLEAN, visitor' = "none",
         failed' = FALSE, running' = TRUE, next' = 0
  PROVE  TypeOK'
<1>1. /\ LinesOf("video") \in Nat /\ LinesOf("radar") \in Nat
      /\ 0 \in 0 .. Last /\ Older \in Older .. Last
  BY LastNat, SeenFacts
<1>2. /\ cells' \in [1 .. Last -> Older .. Last]
      /\ owner' \in [Numbers -> {Free, File, Server, Client}]
  BY <1>1 DEF SimStarts
<1>3. /\ count' \in 0 .. LinesOf("video") /\ at' \in 0 .. LinesOf("video")
      /\ radars' \in 0 .. LinesOf("radar") /\ next' \in 0 .. LinesOf("video")
      /\ pos' \in 0 .. Last /\ latest' \in Older .. Last
      /\ room' \in Nat \ {0} /\ count' <= room'
  BY <1>1, SimulatorAssumption DEF SimStarts
<1>4. sim' \in SimPlaces /\ mon' \in MonPlaces
  BY DEF SimStarts, SimPlaces, MonPlaces
<1>5. QED
  BY <1>2, <1>3, <1>4 DEF SimStarts, TypeOK

-----------------------------------------------------------------------------
LEMMA InvInit == Init => Inv
<1> SUFFICES ASSUME Init PROVE Inv
  OBVIOUS
<1>1. TypeOK
  <2>1. /\ LinesOf("video") \in Nat /\ LinesOf("radar") \in Nat
        /\ 0 \in 0 .. Last /\ Older \in Older .. Last
    BY LastNat, SeenFacts
  <2>2. /\ cells \in [1 .. Last -> Older .. Last]
        /\ owner \in [Numbers -> {Free, File, Server, Client}]
    BY <2>1 DEF Init, SimInit
  <2>3. /\ count \in 0 .. LinesOf("video") /\ at \in 0 .. LinesOf("video")
        /\ radars \in 0 .. LinesOf("radar") /\ next \in 0 .. LinesOf("video")
        /\ pos \in 0 .. Last /\ latest \in Older .. Last
        /\ room \in Nat \ {0} /\ count <= room
    BY <2>1, SimulatorAssumption DEF Init, SimInit
  <2>4. sim \in SimPlaces /\ mon \in MonPlaces
    BY DEF Init, SimInit, MonInit, SimPlaces, MonPlaces
  <2>5. QED
    BY <2>2, <2>3, <2>4 DEF Init, SimInit, MonInit, TypeOK
<1>2. PullInv
  <2>1. Top = 0 /\ Before = 0 /\ pos = 0 /\ count = 0 /\ ~InPull /\ radars = 0
    BY DEF Init, SimInit, Top, Before, Handling, InPull
  <2>2. SeenOf("video", 0) = 0 /\ SeenOf("radar", 0) = 0
    BY LastNat, SeenFacts
  <2>3. Rounds
    <3>1. sim = "opening" /\ count = 0 /\ pos = 0
      BY DEF Init, SimInit
    <3>2. QED
      BY <3>1 DEF Rounds, Handling
  <2>4. Counted
    <3>1. Top <= SeenOf("video", Before) /\ radars <= SeenOf("radar", Before)
      BY <2>1, <2>2
    <3>2. count = Top
      BY <2>1
    <3>3. QED
      BY <3>1, <3>2 DEF Counted
  <2>5. Sorted
    <3>1. \A j \in 1 .. Last : cells[j] <= pos /\ ~(cells[j] > Before)
      BY <2>1, LastNat DEF Init, SimInit
    <3>2. sim # "counting"
      BY DEF Init, SimInit
    <3>3. QED
      BY <2>1, <3>1, <3>2 DEF Sorted
  <2>6. Pulled
    BY <2>1 DEF Pulled, InPull, Init, SimInit
  <2>7. QED
    BY <2>3, <2>4, <2>5, <2>6 DEF PullInv
<1>3. DescriptorInv
  BY SimulatorAssumption, MonitorAssumption
     DEF Init, SimInit, MonInit, DescriptorInv, Phases, Opened, Owned, Path,
         Closed, LoopPlaces, Handling
<1>4. QED
  BY <1>1, <1>2, <1>3 DEF Inv

LEMMA InvStep == Inv /\ [Next]_vars => Inv'
<1> SUFFICES ASSUME TypeOK, PullInv, DescriptorInv, [Next]_vars PROVE Inv'
  BY DEF Inv
<1>1. PullInv'
  BY PullStep
<1>2. DescriptorInv'
  BY DescriptorStep
<1>3. TypeOK'
  <2>1. CASE Restart
    BY <2>1, TypeStart DEF Restart, MonStarts
  <2>2. CASE ~Restart
    BY <1>1, <2>2, TypeSimulator, TypeMonitor, TypeMain DEF Next
  <2>3. QED
    BY <2>1, <2>2
<1>4. QED
  BY <1>1, <1>2, <1>3 DEF Inv

LEMMA InvAlways == Spec => []Inv
BY InvInit, InvStep, PTL DEF Spec

-----------------------------------------------------------------------------
(* Whatever the file and the number of descriptors: the lists never hold   *)
(* more than one round of the file brings, nor more than they have room    *)
(* for, although the count is written by both threads without a common     *)
(* lock (track_list.c:50-67).                                              *)
THEOREM TypeCorrect == Spec => []TypeOK
BY InvAlways, PTL DEF Inv

(* Whatever the file, also one whose round outgrows the list: a pull takes *)
(* the detections of the simulator once and in the order of the file,      *)
(* wherever the simulator adds, lets the list grow or fails to, clears and *)
(* begins again in the meantime (main.c:264-267, simulator.c:107-121), but *)
(* for a read from the block of a list that has moved since main looked it *)
(* up (track_list.c:50-58).                                                *)
THEOREM PullCorrect == Spec => []PullInOrder
<1>1. Inv => PullInOrder
  BY DEF Inv, PullInv, Pulled, PullInOrder
<1>2. QED
  BY <1>1, InvAlways, PTL

(* Each thread's number is its own, but for the file of a simulator whose  *)
(* monitor gave up, after the stop function closed the monitor's number a  *)
(* second time (monitor.c:57-60, 85-95).                                   *)
THEOREM DescriptorsCorrect == Spec => []DescriptorsOwned
<1>1. Inv => DescriptorsOwned
  BY DEF Inv, DescriptorInv, Phases, Opened, Owned, DescriptorsOwned
<1>2. QED
  BY <1>1, InvAlways, PTL

(* The monitor answers under its path as long as main's loop runs, also in *)
(* a process that follows one which was killed (monitor.c:83).             *)
THEOREM ReachableCorrect == Spec => []MonitorReachable
<1>1. Inv => MonitorReachable
  BY DEF Inv, DescriptorInv, Path, MonitorReachable, LoopPlaces
<1>2. QED
  BY <1>1, InvAlways, PTL

-----------------------------------------------------------------------------
(* The safety half of ShutdownEnds: what is left to do only shrinks        *)

(* Main waits only for a thread that it has told to end.                   *)
ToldFirst ==
  /\ main = "joining monitor" => ~monOn
  /\ main \in {"waking simulator", "joining simulator"} => ~simOn

(* The steps of the simulator's thread once its flag is cleared: it still  *)
(* adds the line in hand, to a list that grows once if it has to, and      *)
(* clears its lists.                                                       *)
SimLeft == CASE sim = "waiting" -> 10
             [] sim = "adding" -> IF count >= room THEN 9 ELSE 7
             [] sim = "growing" -> 8
             [] sim = "counting" -> 6
             [] sim = "reading" -> 5
             [] sim = "closing" -> 4
             [] sim = "clearing" -> 3
             [] sim = "clearing radar" -> 2
             [] sim = "opening" -> 1
             [] sim = "ended" -> 0

(* Those of the monitor's: it still opens its socket, or answers the       *)
(* visitor that select has announced, whether it is there or not.          *)
MonLeft == CASE mon = "starting" -> 6
             [] mon = "unlinking" -> 5
             [] mon = "binding" -> 4
             [] mon = "binding done" -> 3
             [] mon = "accepting" -> 4
             [] mon = "answering" -> 3
             [] mon = "closing" -> 2
             [] mon = "serving" -> 1
             [] mon = "ended" -> 0

(* Those of main after the signal: the pull goes on to its end, which is   *)
(* at most that of a list with one round in it.                            *)
ToPull == LinesOf("video") - next

MainLeft == CASE main = "pulling" -> 9 + 2 * ToPull
              [] main = "taking" -> 8 + 2 * ToPull
              [] main = "clearing" -> 8
              [] main = "loop" -> 7
              [] main = "stopping monitor" -> 6
              [] main = "joining monitor" -> 5
              [] main = "closing socket" -> 4
              [] main = "stopping simulator" -> 3
              [] main = "waking simulator" -> 2
              [] main = "joining simulator" -> 1
              [] OTHER -> 0

SimulatorEnds ==
  Up /\ ~simOn => /\ ~simOn'
                  /\ SimLeft \in 0 .. 10
                  /\ SimulatorStep => SimLeft' < SimLeft
                  /\ ~SimulatorStep => SimLeft' <= SimLeft

MonitorEnds ==
  Up /\ ~monOn => /\ ~monOn'
                  /\ MonLeft \in 0 .. 6
                  /\ MonitorStep => MonLeft' < MonLeft
                  /\ ~MonitorStep => MonLeft' = MonLeft

MainEnds ==
  Up /\ ~running => /\ ~running'
                    /\ MainLeft \in 0 .. 9 + 2 * LinesOf("video")
                    /\ MainStep => MainLeft' < MainLeft
                    /\ ~MainStep => MainLeft' = MainLeft

LEMMA ToldFirstStep == ToldFirst /\ [Next]_vars => ToldFirst'
<1> SUFFICES ASSUME ToldFirst, [Next]_vars PROVE ToldFirst'
  OBVIOUS
<1>1. CASE SimulatorStep
  <2>1. UNCHANGED <<main, monOn, simOn>>
    BY <1>1 DEF SimulatorStep, SimStep, Open, OpenFails, SimExit, ReadLine,
                EndOfFile, LockLists, Move, Grow, GrowFails,
                Store, Count, AddRadar, AddNothing,
                CloseFile, ClearVideo, NewRound, ClearRadar, monVars, mainVars
  <2>2. QED
    BY <2>1, Zenon DEF ToldFirst
<1>2. CASE MonitorStep \/ Visitor
  <2>1. UNCHANGED <<main, monOn, simOn>>
    BY <1>2 DEF MonitorStep, MonStep, Socket, SocketFails, Unlink, Bind,
                BindFails, Listen, ListenFails, GiveUp, Select, Accept,
                AcceptFails, Answer, CloseClient, MonExit, Visitor, Visit,
                Leave, simVars, mainVars
  <2>2. QED
    BY <2>1, Zenon DEF ToldFirst
<1>3. CASE Signal \/ Killed \/ UNCHANGED vars
  <2>1. UNCHANGED <<main, monOn, simOn>>
    BY <1>3 DEF Signal, Killed, vars, simVars, monVars, mainVars
  <2>2. QED
    BY <2>1, Zenon DEF ToldFirst
<1>4. CASE TimedOut \/ Pick \/ Take \/ Taken \/ Clear \/ LeaveLoop \/ Restart
  BY <1>4 DEF TimedOut, Pick, Take, Taken, Clear, LeaveLoop, Restart, ToldFirst
<1>5. CASE JoinMonitor \/ CloseSocket \/ JoinSimulator
  BY <1>5 DEF JoinMonitor, CloseSocket, JoinSimulator, ToldFirst
<1>6. CASE StopMonitor
  BY <1>6, Zenon DEF StopMonitor, ToldFirst
<1>7. CASE StopSimulator
  BY <1>7, Zenon DEF StopSimulator, ToldFirst
<1>8. CASE WakeSimulator
  <2>1. main = "waking simulator" /\ main' = "joining simulator"
        /\ simOn' = simOn
    BY <1>8 DEF WakeSimulator, simVars
  <2>2. ~simOn'
    BY <2>1, Zenon DEF ToldFirst
  <2>3. main' # "joining monitor"
    BY <2>1
  <2>4. QED
    BY <2>2, <2>3, Zenon DEF ToldFirst
<1>9. QED
  BY <1>1, <1>2, <1>3, <1>4, <1>5, <1>6, <1>7, <1>8 DEF Next, MainStep

(* thread_destroy and monitor_stop clear the flag before they join: main   *)
(* never waits for a thread that was not told to end.                      *)
THEOREM ToldFirstCorrect == Spec => []ToldFirst
<1>1. Init => ToldFirst
  BY DEF Init, ToldFirst
<1>2. QED
  BY <1>1, ToldFirstStep, PTL DEF Spec

LEMMA SimLeftAt ==
  /\ sim = "waiting" => SimLeft = 10
  /\ sim = "adding" => SimLeft = IF count >= room THEN 9 ELSE 7
  /\ sim = "growing" => SimLeft = 8
  /\ sim = "counting" => SimLeft = 6
  /\ sim = "reading" => SimLeft = 5
  /\ sim = "closing" => SimLeft = 4
  /\ sim = "clearing" => SimLeft = 3
  /\ sim = "clearing radar" => SimLeft = 2
  /\ sim = "opening" => SimLeft = 1
  /\ sim = "ended" => SimLeft = 0
  BY DEF SimLeft

LEMMA SimLeftAfter ==
  /\ sim' = "waiting" => SimLeft' = 10
  /\ sim' = "adding" => SimLeft' = IF count' >= room' THEN 9 ELSE 7
  /\ sim' = "growing" => SimLeft' = 8
  /\ sim' = "counting" => SimLeft' = 6
  /\ sim' = "reading" => SimLeft' = 5
  /\ sim' = "closing" => SimLeft' = 4
  /\ sim' = "clearing" => SimLeft' = 3
  /\ sim' = "clearing radar" => SimLeft' = 2
  /\ sim' = "opening" => SimLeft' = 1
  /\ sim' = "ended" => SimLeft' = 0
  BY DEF SimLeft

LEMMA SimAdvances ==
  ASSUME TypeOK, ~simOn, SimStep
  PROVE  SimLeft' < SimLeft /\ simOn' = simOn
<1>1. CASE SimExit
  <2>1. SimLeft = 1 /\ SimLeft' = 0 /\ simOn' = simOn
    BY <1>1, Zenon, SimLeftAt, SimLeftAfter DEF SimExit
  <2>2. QED
    BY <2>1
<1>2. CASE EndOfFile
  <2>1. SimLeft = 5 /\ SimLeft' = 4 /\ simOn' = simOn
    BY <1>2, Zenon, SimLeftAt, SimLeftAfter DEF EndOfFile
  <2>2. QED
    BY <2>1
<1>3. CASE LockLists
  <2>1. /\ SimLeft = 10 /\ simOn' = simOn
        /\ SimLeft' = IF count' >= room' THEN 9 ELSE 7
    BY <1>3, Zenon, SimLeftAt, SimLeftAfter DEF LockLists
  <2>2. QED
    BY <2>1
<1>4. CASE Move
  <2>1. sim = "adding" /\ sim' = "growing" /\ count >= room /\ simOn' = simOn
    BY <1>4 DEF Move, Full
  <2>2. SimLeft = 9 /\ SimLeft' = 8
    BY <2>1, SimLeftAt, SimLeftAfter
  <2>3. QED
    BY <2>1, <2>2
<1>5. CASE Grow
  <2>1. /\ sim = "growing" /\ sim' = "adding" /\ room' = 2 * room
        /\ count' = count /\ simOn' = simOn
    BY <1>5 DEF Grow
  <2>2. ~(count' >= room')
    <3>1. count \in Nat /\ room \in Nat \ {0} /\ count <= room
      BY LastNat, SeenFacts DEF TypeOK
    <3>2. QED
      BY <2>1, <3>1
  <2>3. SimLeft = 8 /\ SimLeft' = 7
    BY <2>1, <2>2, SimLeftAt, SimLeftAfter
  <2>4. QED
    BY <2>1, <2>3
<1>6. CASE GrowFails
  <2>1. /\ sim = "adding" /\ sim' = "reading" /\ simOn' = simOn
        /\ SimLeft \in {7, 9} /\ SimLeft' = 5
    BY <1>6, SimLeftAt, SimLeftAfter DEF GrowFails
  <2>2. QED
    BY <2>1
<1>7. CASE Store
  <2>1. /\ sim = "adding" /\ sim' = "counting" /\ simOn' = simOn
        /\ SimLeft \in {7, 9} /\ SimLeft' = 6
    BY <1>7, SimLeftAt, SimLeftAfter DEF Store
  <2>2. QED
    BY <2>1
<1>8. CASE Count
  <2>1. SimLeft = 6 /\ SimLeft' = 5 /\ simOn' = simOn
    BY <1>8, Zenon, SimLeftAt, SimLeftAfter DEF Count
  <2>2. QED
    BY <2>1
<1>9. CASE AddRadar \/ AddNothing
  <2>1. /\ sim = "adding" /\ sim' = "reading" /\ simOn' = simOn
        /\ SimLeft \in {7, 9} /\ SimLeft' = 5
    BY <1>9, SimLeftAt, SimLeftAfter DEF AddRadar, AddNothing
  <2>2. QED
    BY <2>1
<1>10. CASE CloseFile
  <2>1. SimLeft = 4 /\ SimLeft' = 3 /\ simOn' = simOn
    BY <1>10, Zenon, SimLeftAt, SimLeftAfter DEF CloseFile
  <2>2. QED
    BY <2>1
<1>11. CASE ClearVideo
  <2>1. SimLeft = 3 /\ SimLeft' = 2 /\ simOn' = simOn
    BY <1>11, Zenon, SimLeftAt, SimLeftAfter DEF ClearVideo
  <2>2. QED
    BY <2>1
<1>12. CASE ClearRadar
  <2>1. SimLeft = 2 /\ SimLeft' = 1 /\ simOn' = simOn
    BY <1>12, Zenon, SimLeftAt, SimLeftAfter DEF ClearRadar
  <2>2. QED
    BY <2>1
<1>13. QED
  BY <1>1, <1>2, <1>3, <1>4, <1>5, <1>6, <1>7, <1>8, <1>9, <1>10, <1>11, <1>12
  DEF SimStep, Open, OpenFails, ReadLine

LEMMA SimulatorEndsStep ==
  ASSUME TypeOK, [Next]_vars, Up, ~simOn
  PROVE  SimulatorEnds
<1>1. SimLeft \in 0 .. 10
  <2>1. sim \in SimPlaces
    BY DEF TypeOK
  <2>2. {0, 1, 2, 3, 4, 5, 6, 7, 8, 9, 10} \subseteq 0 .. 10
    OBVIOUS
  <2>3. SimLeft \in {0, 1, 2, 3, 4, 5, 6, 7, 8, 9, 10}
    BY <2>1, SimLeftAt DEF SimPlaces
  <2>4. QED
    BY <2>2, <2>3
<1>2. ASSUME SimulatorStep
      PROVE  SimLeft' < SimLeft /\ ~simOn'
  BY <1>2, SimAdvances DEF SimulatorStep
<1>3. ASSUME ~SimulatorStep
      PROVE  /\ sim' = sim /\ simOn' \in {simOn, FALSE} /\ room' = room
             /\ count' \in {count, 0}
  <2> USE DEF simVars
  <2>1. CASE MonitorStep \/ Visitor \/ Signal \/ Killed \/ UNCHANGED vars
    BY <2>1 DEF MonitorStep, Visitor, Signal, Killed, vars
  <2>2. CASE MainStep
    BY <2>2 DEF MainStep, TimedOut, Pick, Take, Taken, Clear, LeaveLoop,
                StopMonitor, JoinMonitor, CloseSocket, StopSimulator,
                WakeSimulator, JoinSimulator
  <2>3. QED
    BY <1>3, <2>1, <2>2 DEF Next, Restart
<1>4. ~SimulatorStep => SimLeft' <= SimLeft
  <2>1. SUFFICES ASSUME ~SimulatorStep PROVE SimLeft' <= SimLeft
    OBVIOUS
  <2>2. CASE sim = "adding"
    <3>1. /\ SimLeft = IF count >= room THEN 9 ELSE 7
          /\ SimLeft' = IF count' >= room THEN 9 ELSE 7
      BY <1>3, <2>1, <2>2, SimLeftAt, SimLeftAfter
    <3>2. count' >= room => count >= room
      <4>1. room \in Nat \ {0} /\ count \in Nat
        BY LastNat, SeenFacts DEF TypeOK
      <4>2. QED
        BY <1>3, <2>1, <4>1
    <3>3. QED
      BY <3>1, <3>2
  <2>3. CASE sim # "adding"
    <3>1. SimLeft' = SimLeft
      <4>1. sim \in SimPlaces /\ sim' = sim
        BY <1>3, <2>1 DEF TypeOK
      <4>2. QED
        BY <2>3, <4>1, SimLeftAt, SimLeftAfter DEF SimPlaces
    <3>2. QED
      BY <1>1, <3>1
  <2>4. QED
    BY <2>2, <2>3
<1>5. ~simOn'
  BY <1>2, <1>3
<1>6. QED
  BY <1>1, <1>2, <1>4, <1>5 DEF SimulatorEnds

LEMMA MonLeftAt ==
  /\ mon = "starting" => MonLeft = 6
  /\ mon = "unlinking" => MonLeft = 5
  /\ mon = "binding" => MonLeft = 4
  /\ mon = "binding done" => MonLeft = 3
  /\ mon = "accepting" => MonLeft = 4
  /\ mon = "answering" => MonLeft = 3
  /\ mon = "closing" => MonLeft = 2
  /\ mon = "serving" => MonLeft = 1
  /\ mon = "ended" => MonLeft = 0
  BY DEF MonLeft

LEMMA MonLeftAfter ==
  /\ mon' = "unlinking" => MonLeft' = 5
  /\ mon' = "binding" => MonLeft' = 4
  /\ mon' = "binding done" => MonLeft' = 3
  /\ mon' = "answering" => MonLeft' = 3
  /\ mon' = "closing" => MonLeft' = 2
  /\ mon' = "serving" => MonLeft' = 1
  /\ mon' = "ended" => MonLeft' = 0
  BY DEF MonLeft

LEMMA MonAdvances ==
  ASSUME ~monOn, MonStep
  PROVE  MonLeft' < MonLeft /\ monOn' = monOn
<1>1. CASE Socket
  <2>1. MonLeft = 6 /\ MonLeft' = 5 /\ monOn' = monOn
    BY <1>1, Zenon, MonLeftAt, MonLeftAfter DEF Socket
  <2>2. QED
    BY <2>1
<1>2. CASE SocketFails
  <2>1. MonLeft = 6 /\ MonLeft' = 0 /\ monOn' = monOn
    BY <1>2, Zenon, MonLeftAt, MonLeftAfter DEF SocketFails
  <2>2. QED
    BY <2>1
<1>3. CASE Unlink
  <2>1. MonLeft = 5 /\ MonLeft' = 4 /\ monOn' = monOn
    BY <1>3, Zenon, MonLeftAt, MonLeftAfter DEF Unlink
  <2>2. QED
    BY <2>1
<1>4. CASE Bind
  <2>1. MonLeft = 4 /\ MonLeft' = 3 /\ monOn' = monOn
    BY <1>4, Zenon, MonLeftAt, MonLeftAfter DEF Bind
  <2>2. QED
    BY <2>1
<1>5. CASE BindFails
  <2>1. MonLeft = 4 /\ MonLeft' = 0 /\ monOn' = monOn
    BY <1>5, Zenon, MonLeftAt, MonLeftAfter DEF BindFails, GiveUp
  <2>2. QED
    BY <2>1
<1>6. CASE Listen
  <2>1. MonLeft = 3 /\ MonLeft' = 1 /\ monOn' = monOn
    BY <1>6, Zenon, MonLeftAt, MonLeftAfter DEF Listen
  <2>2. QED
    BY <2>1
<1>7. CASE ListenFails
  <2>1. MonLeft = 3 /\ MonLeft' = 0 /\ monOn' = monOn
    BY <1>7, Zenon, MonLeftAt, MonLeftAfter DEF ListenFails, GiveUp
  <2>2. QED
    BY <2>1
<1>8. CASE Accept
  <2>1. MonLeft = 4 /\ MonLeft' = 3 /\ monOn' = monOn
    BY <1>8, Zenon, MonLeftAt, MonLeftAfter DEF Accept
  <2>2. QED
    BY <2>1
<1>9. CASE AcceptFails
  <2>1. MonLeft = 4 /\ MonLeft' = 1 /\ monOn' = monOn
    BY <1>9, Zenon, MonLeftAt, MonLeftAfter DEF AcceptFails
  <2>2. QED
    BY <2>1
<1>10. CASE Answer
  <2>1. MonLeft = 3 /\ MonLeft' = 2 /\ monOn' = monOn
    BY <1>10, Zenon, MonLeftAt, MonLeftAfter DEF Answer
  <2>2. QED
    BY <2>1
<1>11. CASE CloseClient
  <2>1. MonLeft = 2 /\ MonLeft' = 1 /\ monOn' = monOn
    BY <1>11, Zenon, MonLeftAt, MonLeftAfter DEF CloseClient
  <2>2. QED
    BY <2>1
<1>12. CASE MonExit
  <2>1. MonLeft = 1 /\ MonLeft' = 0 /\ monOn' = monOn
    BY <1>12, Zenon, MonLeftAt, MonLeftAfter DEF MonExit
  <2>2. QED
    BY <2>1
<1>13. QED
  BY <1>1, <1>2, <1>3, <1>4, <1>5, <1>6, <1>7, <1>8, <1>9, <1>10, <1>11, <1>12
  DEF MonStep, Select

LEMMA MonitorEndsStep ==
  ASSUME TypeOK, [Next]_vars, Up, ~monOn
  PROVE  MonitorEnds
<1>1. MonLeft \in 0 .. 6
  <2>1. mon \in MonPlaces
    BY DEF TypeOK
  <2>2. {0, 1, 2, 3, 4, 5, 6} \subseteq 0 .. 6
    OBVIOUS
  <2>3. MonLeft \in {0, 1, 2, 3, 4, 5, 6}
    BY <2>1, Zenon DEF MonLeft, MonPlaces
  <2>4. QED
    BY <2>2, <2>3
<1>2. ASSUME MonitorStep
      PROVE  MonLeft' < MonLeft /\ ~monOn'
  BY <1>2, MonAdvances DEF MonitorStep
<1>3. ASSUME ~MonitorStep
      PROVE  mon' = mon /\ monOn' \in {monOn, FALSE}
  <2> USE DEF monVars
  <2>1. CASE SimulatorStep \/ Signal \/ Killed \/ UNCHANGED vars
    BY <2>1 DEF SimulatorStep, Signal, Killed, vars
  <2>2. CASE Visitor
    BY <2>2 DEF Visitor, Visit, Leave
  <2>3. CASE MainStep
    BY <2>3 DEF MainStep, TimedOut, Pick, Take, Taken, Clear, LeaveLoop,
                StopMonitor, JoinMonitor, CloseSocket, StopSimulator,
                WakeSimulator, JoinSimulator
  <2>4. QED
    BY <1>3, <2>1, <2>2, <2>3 DEF Next, Restart
<1>4. ~MonitorStep => MonLeft' = MonLeft
  BY <1>3 DEF MonLeft
<1>5. ~monOn'
  BY <1>2, <1>3
<1>6. QED
  BY <1>1, <1>2, <1>4, <1>5 DEF MonitorEnds

(* A thread whose flag main has cleared is not started again and ends      *)
(* within ten of its steps, the simulator's, or six, the monitor's, even   *)
(* when it is in the middle of a line, of its start or of an answer, with  *)
(* no descriptor left and visitors that come and go.                       *)
THEOREM ThreadsEnd == Spec => [][SimulatorEnds /\ MonitorEnds]_vars
<1>1. Inv /\ [Next]_vars => SimulatorEnds /\ MonitorEnds
  BY SimulatorEndsStep, MonitorEndsStep DEF Inv, SimulatorEnds, MonitorEnds
<1>2. QED
  BY <1>1, InvAlways, PTL DEF Spec

LEMMA MainLeftAt ==
  /\ main = "pulling" => MainLeft = 9 + 2 * ToPull
  /\ main = "taking" => MainLeft = 8 + 2 * ToPull
  /\ main = "clearing" => MainLeft = 8
  /\ main = "loop" => MainLeft = 7
  /\ main = "stopping monitor" => MainLeft = 6
  /\ main = "joining monitor" => MainLeft = 5
  /\ main = "closing socket" => MainLeft = 4
  /\ main = "stopping simulator" => MainLeft = 3
  /\ main = "waking simulator" => MainLeft = 2
  /\ main = "joining simulator" => MainLeft = 1
  BY DEF MainLeft

LEMMA MainLeftAfter ==
  /\ main' = "pulling" => MainLeft' = 9 + 2 * ToPull'
  /\ main' = "taking" => MainLeft' = 8 + 2 * ToPull'
  /\ main' = "clearing" => MainLeft' = 8
  /\ main' = "loop" => MainLeft' = 7
  /\ main' = "stopping monitor" => MainLeft' = 6
  /\ main' = "joining monitor" => MainLeft' = 5
  /\ main' = "closing socket" => MainLeft' = 4
  /\ main' = "stopping simulator" => MainLeft' = 3
  /\ main' = "waking simulator" => MainLeft' = 2
  /\ main' = "joining simulator" => MainLeft' = 1
  /\ main' = "exited" => MainLeft' = 0
  BY DEF MainLeft

LEMMA ToPullType ==
  ASSUME TypeOK
  PROVE  /\ LinesOf("video") \in Nat
         /\ next \in Nat /\ next <= LinesOf("video")
         /\ ToPull \in 0 .. LinesOf("video")
<1>1. LinesOf("video") \in Nat
  BY LastNat, SeenFacts
<1>2. QED
  BY <1>1 DEF TypeOK, ToPull

LEMMA MainAdvances ==
  ASSUME TypeOK, MainStep, ~running
  PROVE  MainLeft' < MainLeft /\ running' = running
<1>0. ToPull \in Nat /\ next \in Nat /\ LinesOf("video") \in Nat
  BY ToPullType
<1>1. CASE Pick
  <2>1. /\ main = "pulling" /\ main' = "taking" /\ next' = next
        /\ running' = running
    BY <1>1 DEF Pick
  <2>2. ToPull' = ToPull
    BY <2>1 DEF ToPull, LinesOf, Last
  <2>3. MainLeft = 9 + 2 * ToPull /\ MainLeft' = 8 + 2 * ToPull'
    BY <2>1, MainLeftAt, MainLeftAfter
  <2>4. MainLeft' < MainLeft
    BY <1>0, <2>2, <2>3
  <2>5. QED
    BY <2>1, <2>4
<1>2. CASE Take
  <2>1. /\ main = "taking" /\ main' = "pulling" /\ next' = next + 1
        /\ running' = running
    BY <1>2 DEF Take
  <2>2. ToPull' = ToPull - 1
    <3>1. next' = next + 1
      BY <2>1
    <3>2. LinesOf("video")' = LinesOf("video")
      BY DEF LinesOf, Last
    <3>3. QED
      BY <1>0, <3>1, <3>2 DEF ToPull
  <2>3. MainLeft = 8 + 2 * ToPull /\ MainLeft' = 9 + 2 * ToPull'
    BY <2>1, MainLeftAt, MainLeftAfter
  <2>4. MainLeft' < MainLeft
    BY <1>0, <2>2, <2>3
  <2>5. QED
    BY <2>1, <2>4
<1>3. CASE Taken
  <2>1. main = "pulling" /\ main' = "clearing" /\ running' = running
    BY <1>3 DEF Taken
  <2>2. MainLeft = 9 + 2 * ToPull /\ MainLeft' = 8
    BY <2>1, MainLeftAt, MainLeftAfter
  <2>3. MainLeft' < MainLeft
    BY <1>0, <2>2
  <2>4. QED
    BY <2>1, <2>3
<1>4. CASE Clear
  <2>1. MainLeft = 8 /\ MainLeft' = 7 /\ running' = running
    BY <1>4, Zenon, MainLeftAt, MainLeftAfter DEF Clear
  <2>2. QED
    BY <2>1
<1>5. CASE LeaveLoop
  <2>1. MainLeft = 7 /\ MainLeft' = 6 /\ running' = running
    BY <1>5, Zenon, MainLeftAt, MainLeftAfter DEF LeaveLoop
  <2>2. QED
    BY <2>1
<1>6. CASE StopMonitor
  <2>1. MainLeft = 6 /\ MainLeft' = 5 /\ running' = running
    BY <1>6, Zenon, MainLeftAt, MainLeftAfter DEF StopMonitor
  <2>2. QED
    BY <2>1
<1>7. CASE JoinMonitor
  <2>1. MainLeft = 5 /\ MainLeft' = 4 /\ running' = running
    BY <1>7, Zenon, MainLeftAt, MainLeftAfter DEF JoinMonitor
  <2>2. QED
    BY <2>1
<1>8. CASE CloseSocket
  <2>1. MainLeft = 4 /\ MainLeft' = 3 /\ running' = running
    BY <1>8, Zenon, MainLeftAt, MainLeftAfter DEF CloseSocket
  <2>2. QED
    BY <2>1
<1>9. CASE StopSimulator
  <2>1. MainLeft = 3 /\ MainLeft' = 2 /\ running' = running
    BY <1>9, Zenon, MainLeftAt, MainLeftAfter DEF StopSimulator
  <2>2. QED
    BY <2>1
<1>10. CASE WakeSimulator
  <2>1. MainLeft = 2 /\ MainLeft' = 1 /\ running' = running
    BY <1>10, Zenon, MainLeftAt, MainLeftAfter DEF WakeSimulator
  <2>2. QED
    BY <2>1
<1>11. CASE JoinSimulator
  <2>1. MainLeft = 1 /\ MainLeft' = 0 /\ running' = running
    BY <1>11, Zenon, MainLeftAt, MainLeftAfter DEF JoinSimulator
  <2>2. QED
    BY <2>1
<1>12. QED
  BY <1>1, <1>2, <1>3, <1>4, <1>5, <1>6, <1>7, <1>8,
     <1>9, <1>10, <1>11
  DEF MainStep, TimedOut

LEMMA MainEndsStep ==
  ASSUME TypeOK, [Next]_vars, Up, ~running
  PROVE  MainEnds
<1>1. MainLeft \in 0 .. 9 + 2 * LinesOf("video")
  <2>1. LinesOf("video") \in Nat /\ ToPull \in 0 .. LinesOf("video")
    BY ToPullType
  <2>2. \/ MainLeft \in {0, 1, 2, 3, 4, 5, 6, 7, 8}
        \/ MainLeft = 8 + 2 * ToPull \/ MainLeft = 9 + 2 * ToPull
    BY Zenon DEF MainLeft
  <2>3. QED
    BY <2>1, <2>2
<1>2. ASSUME MainStep
      PROVE  MainLeft' < MainLeft /\ ~running'
  BY <1>2, MainAdvances
<1>3. ASSUME ~MainStep
      PROVE  UNCHANGED mainVars
  BY <1>3 DEF Next, SimulatorStep, MonitorStep, Visitor, Signal, Killed,
              Restart, vars, mainVars
<1>4. ASSUME ~MainStep
      PROVE  MainLeft' = MainLeft /\ ~running'
  BY <1>3, <1>4 DEF MainLeft, ToPull, LinesOf, Last, mainVars
<1>5. QED
  BY <1>1, <1>2, <1>4 DEF MainEnds

(* After a stop signal main needs at most nine steps and two for each      *)
(* track of a round: the pull it may be in ends although the simulator     *)
(* goes on adding to the list and begins new rounds under it, since no     *)
(* list outgrows a round.                                                  *)
THEOREM MainEndsCorrect == Spec => [][MainEnds]_vars
<1>1. Inv /\ [Next]_vars => MainEnds
  BY MainEndsStep DEF Inv, MainEnds
<1>2. QED
  BY <1>1, InvAlways, PTL DEF Spec
=============================================================================
