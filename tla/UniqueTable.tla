------------------------------- MODULE UniqueTable -------------------------------
(***************************************************************************)
(* What a table with a unique key and no UPDATE promises: a key is taken   *)
(* once, by one INSERT, and what was inserted stays.                       *)
(***************************************************************************)
CONSTANTS Keys, Values, None

VARIABLE table

Init == table = [k \in Keys |-> None]

Insert(k, v) == table[k] = None /\ table' = [table EXCEPT ![k] = v]

Next == \E k \in Keys, v \in Values : Insert(k, v)

Spec == Init /\ [][Next]_table
=============================================================================
