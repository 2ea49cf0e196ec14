------------------------------- MODULE Process -------------------------------
(***************************************************************************)
(* What the kernel keeps of the process: that it lives, and its descriptor *)
(* table.  A number that is closed is given out again, to whoever opens    *)
(* something next, and close() asks nobody whose number it is.             *)
(***************************************************************************)
EXTENDS Integers

CONSTANTS Numbers,  \* the numbers the process may still use
          Free,     \* no user
          None      \* no number

ASSUME ProcessAssumption == Numbers \subseteq Nat /\ None \notin Numbers

VARIABLES alive,
          owner  \* the user of each number

Available == {n \in Numbers : owner[n] = Free}

(* The lowest number that is free.                                         *)
Opens(user, n) == /\ n \in Available
                  /\ \A other \in Available : n <= other
                  /\ owner' = [owner EXCEPT ![n] = user]

Closes(n) == owner' = [owner EXCEPT ![n] = Free]
=============================================================================
