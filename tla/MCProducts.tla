----------------------------- MODULE MCProducts -----------------------------
(* An instance of Products for TLC: a shell that names the product x, one    *)
(* that names nothing but carries the work order y, and one with a UUID.     *)
EXTENDS Products, TLC

CONSTANTS t1, t2, x, y

MCTask == {[component |-> 0, product |-> x, workOrder |-> y, derived |-> y],
           [component |-> 0, product |-> Blank, workOrder |-> y, derived |-> x],
           [component |-> 2, product |-> x, workOrder |-> y, derived |-> x]}

\* No product, or one made by hand whose name is another's identifier.
ByHand(i, n) == [ident |-> i, name |-> n, maker |-> None, late |-> FALSE]
MCInitial == {<<>>, <<ByHand(y, x)>>}

Alike == Permutations({t1, t2})
=============================================================================
