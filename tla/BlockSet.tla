------------------------------ MODULE BlockSet ------------------------------
(***************************************************************************)
(* What the sorted vector of hash_set.c is to its callers: a set of block  *)
(* numbers.  A call takes effect once, on the number it was given, between *)
(* its begin and its return, and says whether it succeeded.                *)
(***************************************************************************)
CONSTANT Elems

VARIABLES content,
          ok,              \* did the last call succeed
          action, blk_no,  \* the last call
          phase            \* "idle", "called" or "done"

vars == <<content, ok, action, blk_no, phase>>

Init ==
  /\ content = {}
  /\ ok = FALSE
  /\ action = "SEARCH_BLK"
  /\ blk_no \in Elems
  /\ phase = "idle"

(* is_existing and search_in_sorted_vector, insert_into_sorted_vector,     *)
(* which fails when the number is there already, and                       *)
(* remove_from_sorted_vector.                                              *)
Effect(a, x) ==
  /\ content' = IF a = "INSERT_BLK" THEN content \cup {x}
                ELSE IF a = "REMOVE_BLK" THEN content \ {x}
                ELSE content
  /\ ok' = IF a = "INSERT_BLK" THEN x \notin content ELSE x \in content

(* In an empty set there is nothing to do but to answer.                   *)
Call(a, x) ==
  /\ phase = "idle"
  /\ action' = a
  /\ blk_no' = x
  /\ \/ phase' = "called" /\ UNCHANGED <<content, ok>>
     \/ content = {} /\ phase' \in {"done", "idle"} /\ Effect(a, x)

Perform ==
  /\ phase = "called"
  /\ Effect(action, blk_no)
  /\ phase' \in {"done", "idle"}
  /\ UNCHANGED <<action, blk_no>>

Return == phase = "done" /\ phase' = "idle" /\ UNCHANGED <<content, ok, action, blk_no>>

RemoveAll == phase = "idle" /\ content' = {} /\ UNCHANGED <<ok, action, blk_no, phase>>

Next ==
  \/ \E a \in {"SEARCH_BLK", "INSERT_BLK", "REMOVE_BLK"}, x \in Elems : Call(a, x)
  \/ Perform
  \/ Return
  \/ RemoveAll

Spec == Init /\ [][Next]_vars

============================================================================
