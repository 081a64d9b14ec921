--------------------------- MODULE MCAasPipeline ---------------------------
(* Instances of AasPipeline for TLC. *)
EXTENDS AasPipeline

CONSTANTS good, plain, empty, bad, note,   \* shells
          p1, p2, p3, p4,                  \* processes
          b1, b2, b3, b4,                  \* Bill_of_Process submodels
          mill, saw                        \* machines

MCKind == [s \in Shell |->
             CASE s \in {good, plain} -> "good"
               [] s = empty -> "nodata"
               [] s = bad   -> "malformed"
               [] s = note  -> "other"]

\* p1 and p2 belong to the good shell, p3 and p4 to the others.
MCShellOf == [p \in Process |->
                CASE p \in {p1, p2} -> good
                  [] p = p3 -> IF empty \in Shell THEN empty ELSE plain
                  [] p = p4 -> bad]

\* Each process in a submodel of its own, so the good shell has two of them.
MCSubmodelOf == [p \in Process |->
                   CASE p = p1 -> b1 [] p = p2 -> b2 [] p = p3 -> b3 [] p = p4 -> b4]

TwoMachines == [p \in Process |-> IF p = p2 THEN saw ELSE mill]
OneMachine  == [p \in Process |-> mill]

BadLast  == <<note, empty, good, bad>>
BadFirst == <<bad, good>>
Labels   == <<good, plain>>
=============================================================================
