------------------------------ MODULE Simulator ------------------------------
(***************************************************************************)
(* The thread of simulator.c: it replays a file of detections again and    *)
(* again into a video and a radar list (main.c sets config.loop).  It adds *)
(* under its mutex; it clears the lists between two rounds, and the main   *)
(* loop reads and clears the video list, without.  A list that is full is  *)
(* moved to a block of twice the size (track_list.c:50-58), also under the *)
(* reader, which may hold a pointer into the old block.                    *)
(*                                                                         *)
(* A track is named by its line in the file: 1 .. Last in this round,      *)
(* 1 - Last .. 0 in the round before, Older if it is older still.          *)
(***************************************************************************)
EXTENDS Process, Sequences, FiniteSets

CONSTANTS Lines,  \* of the file: "video", "radar", "other" sensor or "skipped"
          Room,   \* the capacity that the lists are created with
          File    \* the user of the file's number

Last == Len(Lines)

LinesOf(sensor) == Cardinality({k \in 1 .. Last : Lines[k] = sensor})

ASSUME SimulatorAssumption ==
  /\ Lines \in Seq({"video", "radar", "other", "skipped"})
  /\ Room \in Nat \ {0}
  /\ File # Free

VARIABLES simOn,   \* thread_ctx.running
          sim,     \* where the thread is
          file,    \* the number of fp
          pos,     \* lines read in this round
          cells,   \* video_tracks->tracks, as far as a round can fill it
          room,    \* video_tracks->capacity
          count,   \* video_tracks->count
          at,      \* the count that the add in progress has read
          radars,  \* radar_tracks->count
          stale,   \* the reader's pointer is into a block given back
          latest   \* history: the track last taken in the reader's pull

simVars == <<simOn, sim, file, pos, cells, room, count, at, radars, stale,
             latest>>

Older == -Last

Aged(k) == IF k > 0 THEN k - Last ELSE Older

SimInit == /\ simOn = TRUE
           /\ sim = "opening"
           /\ file = None
           /\ pos = 0
           /\ cells = [c \in 1 .. Last |-> Older]
           /\ room = Room
           /\ count = 0
           /\ at = 0
           /\ radars = 0
           /\ stale = FALSE
           /\ latest = Older

SimStarts == /\ simOn' = TRUE
             /\ sim' = "opening"
             /\ file' = None
             /\ pos' = 0
             /\ cells' = [c \in 1 .. Last |-> Older]
             /\ room' = Room
             /\ count' = 0
             /\ at' = 0
             /\ radars' = 0
             /\ stale' = FALSE
             /\ latest' = Older

-----------------------------------------------------------------------------
Open == /\ sim = "opening"
        /\ simOn
        /\ \E n \in Numbers : Opens(File, n) /\ file' = n
        /\ sim' = "reading"
        /\ pos' = 0
        /\ UNCHANGED <<simOn, cells, room, count, at, radars, stale, latest>>

(* The file is gone, or there is no number left.                           *)
OpenFails == /\ sim = "opening"
             /\ simOn
             /\ sim' = "ended"
             /\ UNCHANGED <<simOn, file, pos, cells, room, count, at, radars,
                            stale, latest, owner>>

SimExit == /\ sim = "opening"
           /\ ~simOn
           /\ sim' = "ended"
           /\ UNCHANGED <<simOn, file, pos, cells, room, count, at, radars,
                          stale, latest, owner>>

(* Comments, empty lines and lines without nine fields are skipped.        *)
ReadLine == /\ sim = "reading"
            /\ simOn
            /\ pos < Last
            /\ pos' = pos + 1
            /\ sim' = IF Lines[pos'] = "skipped" THEN "reading" ELSE "waiting"
            /\ UNCHANGED <<simOn, file, cells, room, count, at, radars, stale,
                           latest, owner>>

(* fgets also returns NULL when the number was closed behind its back.     *)
EndOfFile == /\ sim = "reading"
             /\ ~simOn \/ pos = Last \/ owner[file] # File
             /\ sim' = "closing"
             /\ UNCHANGED <<simOn, file, pos, cells, room, count, at, radars,
                            stale, latest, owner>>

(* The wait for the line's time ends early when the flag is cleared, and   *)
(* the line is added all the same.                                         *)
LockLists == /\ sim = "waiting"
             /\ sim' = "adding"
             /\ UNCHANGED <<simOn, file, pos, cells, room, count, at, radars,
                            stale, latest, owner>>

Full == Lines[pos] = "video" /\ count >= room

(* mec_realloc gives the old block back and has not returned yet.          *)
Move == /\ sim = "adding"
        /\ Full
        /\ stale' = TRUE
        /\ sim' = "growing"
        /\ UNCHANGED <<simOn, file, pos, cells, room, count, at, radars,
                       latest, owner>>

Grow == /\ sim = "growing"
        /\ room' = 2 * room
        /\ sim' = "adding"
        /\ UNCHANGED <<simOn, file, pos, cells, count, at, radars, stale,
                       latest, owner>>

(* There is no memory: the detection is lost.                              *)
GrowFails == /\ sim = "adding"
             /\ Full
             /\ sim' = "reading"
             /\ UNCHANGED <<simOn, file, pos, cells, room, count, at, radars,
                            stale, latest, owner>>

StoreBug == /\ sim = "adding"
            /\ Lines[pos] = "video"
            /\ ~Full
            /\ cells' = [cells EXCEPT ![count + 2] = pos]
            /\ at' = count
            /\ sim' = "counting"
            /\ UNCHANGED <<simOn, file, pos, room, count, radars, stale,
                           latest, owner>>

Store == /\ sim = "adding"
         /\ Lines[pos] = "video"
         /\ ~Full
         /\ cells' = [cells EXCEPT ![count + 1] = pos]
         /\ at' = count
         /\ sim' = "counting"
         /\ UNCHANGED <<simOn, file, pos, room, count, radars, stale, latest,
                        owner>>

(* count++ against the reader's count = 0: it may still hold the value the *)
(* store was addressed with.  Then the mutex is unlocked.                  *)
Count == /\ sim = "counting"
         /\ count' \in {at + 1, count + 1}
         /\ at' = 0
         /\ sim' = "reading"
         /\ UNCHANGED <<simOn, file, pos, room, cells, radars, stale, latest,
                        owner>>

(* Nobody reads the radar list: where it is does not matter, but also this *)
(* list may fail to grow.                                                  *)
AddRadar == /\ sim = "adding"
            /\ Lines[pos] = "radar"
            /\ radars' = radars + 1 \/ (radars >= Room /\ radars' = radars)
            /\ sim' = "reading"
            /\ UNCHANGED <<simOn, file, pos, cells, room, count, at, stale,
                           latest, owner>>

AddNothing == /\ sim = "adding"
              /\ Lines[pos] = "other"
              /\ sim' = "reading"
              /\ UNCHANGED <<simOn, file, pos, cells, room, count, at, radars,
                             stale, latest, owner>>

CloseFile == /\ sim = "closing"
             /\ Closes(file)
             /\ file' = None
             /\ sim' = "clearing"
             /\ UNCHANGED <<simOn, pos, cells, room, count, at, radars, stale,
                            latest>>

NewRound == /\ cells' = [c \in 1 .. Last |-> Aged(cells[c])]
            /\ latest' = Aged(latest)
            /\ pos' = 0

ClearVideoBug == /\ sim = "clearing"
                 /\ NewRound
                 /\ sim' = "clearing radar"
                 /\ UNCHANGED <<simOn, file, room, count, at, radars, stale,
                                owner>>

ClearVideo == /\ sim = "clearing"
              /\ count' = 0
              /\ NewRound
              /\ sim' = "clearing radar"
              /\ UNCHANGED <<simOn, file, room, at, radars, stale, owner>>

ClearRadar == /\ sim = "clearing radar"
              /\ radars' = 0
              /\ sim' = "opening"
              /\ UNCHANGED <<simOn, file, pos, cells, room, count, at, stale,
                             latest, owner>>

SimStep == \/ Open
           \/ OpenFails
           \/ SimExit
           \/ ReadLine
           \/ EndOfFile
           \/ LockLists
           \/ Move
           \/ Grow
           \/ GrowFails
           \/ Store
           \/ Count
           \/ AddRadar
           \/ AddNothing
           \/ CloseFile
           \/ ClearVideo
           \/ ClearRadar

ListsLocked == sim \in {"adding", "growing", "counting"}

SimPlaces == {"opening", "reading", "waiting", "adding", "growing",
              "counting", "closing", "clearing", "clearing radar", "ended"}
=============================================================================
