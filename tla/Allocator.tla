------------------------------ MODULE Allocator ------------------------------
(***************************************************************************)
(* What mec_memory.h promises its callers: memory that is theirs alone,    *)
(* keeps what they write until they give it back, and takes its content    *)
(* along when it is resized.                                               *)
(***************************************************************************)
CONSTANTS Addresses, Values

VARIABLE content  \* what each address in a caller's hands holds

Init == content = [a \in {} |-> CHOOSE v \in Values : TRUE]

Live == DOMAIN content

(* mec_malloc and mec_calloc: an address that nobody has.                  *)
Allocate(a, v) == /\ a \notin Live
                  /\ content' = [b \in Live \cup {a} |->
                                   IF b = a THEN v ELSE content[b]]

Write(a, v) == /\ a \in Live
               /\ content' = [content EXCEPT ![a] = v]

(* mec_free                                                                *)
Release(a) == /\ a \in Live
              /\ content' = [b \in Live \ {a} |-> content[b]]

(* mec_realloc, when it has to move: what fits of the content moves along. *)
Resize(a, b) == /\ a \in Live
                /\ b \notin Live
                /\ content' = [c \in (Live \ {a}) \cup {b} |->
                                 IF c = b THEN content[a] ELSE content[c]]

Next == \/ \E a \in Addresses, v \in Values : Allocate(a, v) \/ Write(a, v)
        \/ \E a \in Addresses : Release(a)
        \/ \E a, b \in Addresses : Resize(a, b)

Spec == Init /\ [][Next]_content
=============================================================================
