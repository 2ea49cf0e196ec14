----------------------------- MODULE TrackTable -----------------------------
(***************************************************************************)
(* What the fusion processor promises its callers: a table of tracks, each *)
(* under an identifier that is never used twice.  A detection refreshes a  *)
(* track or opens one while there is room; a fusion cycle, all at once,    *)
(* makes every track older and drops those that are too old or not trusted *)
(* enough.                                                                 *)
(***************************************************************************)
EXTENDS Naturals, FiniteSets

CONSTANTS Sensors, Capacity, MaxAge

VARIABLES table,  \* by global id: age, contributing sensors, trusted or not
          next    \* the next global id

tableVars == <<table, next>>

Ids == DOMAIN table

Init == /\ table = << >>
        /\ next = 1

Entry(age, mask, trusted) == [age |-> age, mask |-> mask, trusted |-> trusted]

Open(sensor, trusted) ==
  /\ Cardinality(Ids) < Capacity
  /\ table' = [id \in Ids \cup {next} |->
                 IF id = next THEN Entry(0, {sensor}, trusted) ELSE table[id]]
  /\ next' = next + 1

Refresh(id, sensor, trusted) ==
  /\ table' = [table EXCEPT ![id] =
                 Entry(0, table[id].mask \cup {sensor}, trusted)]
  /\ UNCHANGED next

(* The tracks that are still there after a cycle.                          *)
Kept == {id \in Ids : table[id].age < MaxAge /\ table[id].trusted}

Cycle == /\ table' = [id \in Kept |-> [table[id] EXCEPT !.age = @ + 1]]
         /\ UNCHANGED next

Next == \/ \E sensor \in Sensors, trusted \in BOOLEAN :
             \/ Open(sensor, trusted)
             \/ \E id \in Ids : Refresh(id, sensor, trusted)
        \/ Cycle

Spec == Init /\ [][Next]_tableVars
=============================================================================
