--------------------------- MODULE AbstractTable ---------------------------
(***************************************************************************)
(* What a hash table of p2/C/uthash.h promises its users: the items that   *)
(* were added and not removed are there, and a search yields an item with  *)
(* the key if there is one.  Which one, of several with the same key, is   *)
(* left open.                                                              *)
(***************************************************************************)
CONSTANTS
    Item,       \* the structures with a hash handle
    NoItem      \* NULL

VARIABLES
    key,        \* the key of every item, never changed
    stored,     \* the items in the table
    out         \* the output argument of the last search

Matches(k) == {i \in stored : key[i] = k}

Finds(k) == IF Matches(k) = {} THEN {NoItem} ELSE Matches(k)

AbsInit == stored = {} /\ out = NoItem

AbsFind(k) == out' \in Finds(k) /\ UNCHANGED stored

AbsAdd(i) == /\ i \notin stored
             /\ stored' = stored \cup {i}
             /\ out' = NoItem

AbsDelete(i) == /\ i \in stored
                /\ stored' = stored \ {i}
                /\ out' = NoItem

(* The item found makes room for the one that is added.                    *)
AbsReplace(i) == /\ i \notin stored
                 /\ out' \in Finds(key[i])
                 /\ stored' = (stored \ {out'}) \cup {i}

AbsClear == stored' = {} /\ out' = NoItem

AbsNext == /\ UNCHANGED key
           /\ \/ \E i \in Item : AbsAdd(i) \/ AbsDelete(i) \/ AbsReplace(i)
              \/ \E k \in {key[i] : i \in Item} : AbsFind(k)
              \/ AbsClear

AbsSpec == AbsInit /\ [][AbsNext]_<<key, stored, out>>
=============================================================================
