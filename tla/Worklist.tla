----------------------------- MODULE Worklist -----------------------------
(***************************************************************************)
(* The worklist of tutorial/5/C and projects/lib/utils: an opaque handle   *)
(* on a std::set<Value*>.  A worklist is the set of values in it; the set  *)
(* is ordered by address, so top and pop deliver any member, and one       *)
(* member once however often it was inserted.                              *)
(***************************************************************************)
CONSTANT NoValue    \* NULL

worklist_create == {}

worklist_insert(w, v) == w \cup {v}

worklist_insert_all(w, S) == w \cup S

worklist_empty(w) == w = {}

(* Mutant: pop looks at the top and leaves it in the list.                 *)
worklist_pop_leavesTop(w) ==
    IF worklist_empty(w)
    THEN {[value |-> NoValue, rest |-> w]}
    ELSE {[value |-> v, rest |-> w] : v \in w}

(* What pop may return, with the worklist it leaves: NULL from an empty    *)
(* worklist, which stays empty.                                            *)
worklist_pop(w) ==
    IF worklist_empty(w)
    THEN {[value |-> NoValue, rest |-> w]}
    ELSE {[value |-> v, rest |-> w \ {v}] : v \in w}
=============================================================================
