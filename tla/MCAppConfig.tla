---------------------------- MODULE MCAppConfig ----------------------------
(* Instances of AppConfig for TLC: the client ia has the secrets sa and sb,  *)
(* the client ib has sb and sc; SiGREEN lists the factory f1 under the name  *)
(* n1 and none under n2.                                                     *)
EXTENDS AppConfig, TLC

CONSTANTS p1, t1, t2, ia, ib, sa, sb, sc, u1, n1, n2, f1, f9

MCProcessOf == [t \in Thread |-> p1]
MCText      == {Blank, Spaces, ia, ib, sa, sb, sc, u1, n1, n2, f1, f9}
MCAccounts  == {<<ia, sa, u1>>, <<ia, sb, u1>>, <<ib, sb, u1>>, <<ib, sc, u1>>}
MCFactoryOf == [n \in Text |-> IF n = n1 THEN f1 ELSE Blank]

MCInitialDoc == {[id |-> ia, secret |-> sa, url |-> u1, name |-> n1, factory |-> Blank, tool |-> TRUE]}

\* New credentials, a new id without its secret, a new secret, a secret of
\* whitespace, an erased id, another factory by name and by id.
Nothing == [id |-> Absent, secret |-> Absent, url |-> Absent, name |-> Absent,
            factory |-> Absent, tool |-> Absent]
MCBody == {[Nothing EXCEPT !.id = ib, !.secret = sb],
           [Nothing EXCEPT !.id = ib],
           [Nothing EXCEPT !.secret = sc],
           [Nothing EXCEPT !.secret = Spaces],
           [Nothing EXCEPT !.id = Blank],
           [Nothing EXCEPT !.name = n2],
           [Nothing EXCEPT !.factory = f9]}

Alike == Permutations({t1, t2})
=============================================================================
