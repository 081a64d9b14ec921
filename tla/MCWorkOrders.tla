--------------------------- MODULE MCWorkOrders ---------------------------
(* Instances of WorkOrders for TLC. *)
EXTENDS WorkOrders, TLC

\* One old record: each operation has a footprint.
MCOldBop == {[o \in Op |-> 1]}

Alike == {p @@ q : p \in Permutations(Thread), q \in Permutations(Op)}
=============================================================================
