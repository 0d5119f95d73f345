---------------------------- MODULE ListByValue ----------------------------
(***************************************************************************)
(* The iterators of the C interfaces (cfg.cpp, dominance.cpp, loop.cpp)    *)
(* keep no position: the next element is searched for by the value of the  *)
(* last one, from the start of the list, every time.                       *)
(***************************************************************************)
EXTENDS Integers, Sequences

CONSTANT NoElement      \* NULL

FirstOf(list) == IF list = <<>> THEN NoElement ELSE list[1]

(* Mutant: the element is compared before it is returned, not after.       *)
NextOf_swapped(list, last) ==
    IF \E n \in 1 .. Len(list) : list[n] = last THEN last ELSE NoElement

(* What follows the first occurrence of last, if anything does.            *)
NextOf(list, last) ==
    IF \E n \in 1 .. Len(list) - 1 : list[n] = last
    THEN list[1 + CHOOSE n \in 1 .. Len(list) - 1 :
                    list[n] = last /\ \A m \in 1 .. n - 1 : list[m] # last]
    ELSE NoElement
=============================================================================
