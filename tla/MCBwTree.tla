------------------------------ MODULE MCBwTree ------------------------------
(* Instances of BwTree: how the index is loaded.                           *)
EXTENDS BwTree

Insert(k) == [kind |-> "insert", key |-> k, value |-> 1]

Unloaded == <<>>
LoadTwo == <<Insert(1), Insert(2)>>
LoadFour == <<Insert(1), Insert(2), Insert(3), Insert(4)>>
=============================================================================
