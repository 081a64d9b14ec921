--------------------------- MODULE MCFactoryStore ---------------------------
(* An instance of IdleShares for TLC.  The hall b has the machines k and m,  *)
(* the hall bm has the id "b/m"; all machines have the same name.  bs is the *)
(* id b and vs the work order v, each with a blank at its end; gU is the     *)
(* energy type g in capitals.                                                *)
EXTENDS IdleShares, TLC

CONSTANTS h1, h2, c1, c2, c3, b, bs, bm, m, k, e, g, gU, nm, v, vs, w, x1, x2, idleId

MCHostOf == (c1 :> h1) @@ (c2 :> h1) @@ (c3 :> h2)
MCText   == {b, bs, bm, m, k, e, g, gU, nm, v, vs, w, x1, x2, Blank, idleId}
MCTrim   == [t \in MCText |-> CASE t = bs -> b [] t = vs -> v [] OTHER -> t]
MCLower  == [t \in MCText |-> IF t = gU THEN g ELSE t]
MCRow    == {<<b, k, e>>, <<b, m, g>>, <<bm, m, e>>}
MCPlaces == <<<<b, k>>, <<b, m>>, <<bm, m>>>>
MCJoin   == (<<b, k>> :> x1) @@ (<<b, m>> :> bm) @@ (<<bm, m>> :> x2)

For(i, j, l) == (v :> i) @@ (vs :> j) @@ (w :> l)

Body(bd, mc, en, id, ti, it, ms, pu) ==
  [building |-> bd, machine |-> mc, name |-> nm, energy |-> en, idle |-> id, time |-> ti,
   idleTime |-> it, minutes |-> ms, published |-> pu]

MCPayload == <<Body(bs, m, gU, 3, 5, 1, For(2, 0, 2), 2),
               Body(b, m, g, 1, 4, 2, For(1, 0, 0), 1)>>

Old(id, ti, it, ms) ==
  [idle |-> id, time |-> ti, idleTime |-> it, minutes |-> ms, name |-> nm, count |-> 1, published |-> 0]

\* The bucket may be empty.
MCInitialDocs ==
  {None, (<<b, k, e>> :> Old(2, 4, 1, For(0, 3, 0))) @@ (<<b, m, g>> :> Old(2, 4, 1, For(0, 3, 0)))
           @@ (<<bm, m, e>> :> Old(1, 3, 1, For(1, 0, 1)))}

Alike == Permutations({c1, c2})
=============================================================================
