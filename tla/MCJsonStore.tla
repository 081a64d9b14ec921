---------------------------- MODULE MCJsonStore ----------------------------
(* Instances of JsonStore for TLC: threads c1 and c2 run on instance h1, and *)
(* thread c3 on instance h2.                                                 *)
EXTENDS JsonStore, TLC

CONSTANTS h1, h2, c1, c2, c3

MCHostOf == [c \in Client |-> IF c = c3 THEN h2 ELSE h1]

\* Threads of one instance are alike, and so are the keys.
Threads == {p \in Permutations(Client) : \A c \in Client : HostOf[p[c]] = HostOf[c]}
Alike == {p @@ q : p \in Threads, q \in Permutations(Key)}
=============================================================================
