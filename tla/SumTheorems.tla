----------------------------- MODULE SumTheorems -----------------------------
(***************************************************************************)
(* Sums over finite sets: what the community modules' SumFunction, defined *)
(* by a recursion over CHOOSE, adds up to whatever the order of the        *)
(* elements.  The models sum minutes, quantities and footprints with it.   *)
(*                                                                         *)
(* An induction is stated of a set T of subsets of a finite set, not of a  *)
(* predicate; it rests on the strict subset order being well founded.      *)
(***************************************************************************)
EXTENDS Integers, Functions, FiniteSetTheorems, WellFoundedInduction, TLAPS

\* Among sets of subsets of a finite set one is smallest: the induction every proof
\* below rests on, stated of a set of sets.
LEMMA SmallestSubset ==
  ASSUME NEW S, IsFiniteSet(S), NEW B, B \subseteq SUBSET S, B # {}
  PROVE  \E m \in B : \A s \in SUBSET m : s # m => s \notin B
  <1>1. IsWellFoundedOn(StrictSubsetOrdering(S), SUBSET S)
    BY FS_FiniteSubsetsOfFinite, FS_StrictSubsetOrderingWellFounded
  <1>2. PICK m \in B : \A s \in B : <<s, m>> \notin StrictSubsetOrdering(S)
    BY <1>1, WFMin
  <1> QED BY <1>2 DEF StrictSubsetOrdering

\* The values of a function on a finite set.
LEMMA ImageIsFinite ==
  ASSUME NEW S, IsFiniteSet(S), NEW f
  PROVE  IsFiniteSet({f[x] : x \in S})
  <1> DEFINE T == {f[x] : x \in S}
             g == [x \in S |-> f[x]]
  <1>1. g \in [S -> T]
    OBVIOUS
  <1>2. \A t \in T : \E x \in S : g[x] = t
    OBVIOUS
  <1> HIDE DEF T, g
  <1>3. g \in Surjection(S, T)
    BY <1>1, <1>2 DEF Surjection
  <1>4. IsFiniteSet(T)
    BY <1>3, FS_Surjection
  <1> QED BY <1>4 DEF T

\* How many numbers there are up to n.
LEMMA IntervalTo == \A n \in Nat : IsFiniteSet(1 .. n) /\ Cardinality(1 .. n) = n
  <1> SUFFICES ASSUME NEW n \in Nat PROVE IsFiniteSet(1 .. n) /\ Cardinality(1 .. n) = n
    OBVIOUS
  <1>1. 1 \in Int /\ n \in Int OBVIOUS
  <1>2. IsFiniteSet(1 .. n) /\ Cardinality(1 .. n) = IF 1 > n THEN 0 ELSE n - 1 + 1
    BY <1>1, FS_Interval, Zenon
  <1> QED BY <1>2

\* A set of numbers up to n has a least one,
LEMMA LeastNumber ==
  ASSUME NEW n \in Nat, NEW B \in SUBSET (0 .. n), B # {}
  PROVE  \E m \in B : \A k \in B : m <= k
  <1> DEFINE D == {0 .. i : i \in B}
  <1>0. D \subseteq SUBSET (0 .. n) /\ D # {}
    <2>1. \A i \in B : 0 .. i \subseteq 0 .. n
      OBVIOUS
    <2>2. D \subseteq SUBSET (0 .. n)
      BY <2>1
    <2>3. PICK i \in B : TRUE
      OBVIOUS
    <2>4. (0 .. i) \in D
      OBVIOUS
    <2> QED BY <2>2, <2>4
  <1>1. D \subseteq SUBSET (0 .. n) /\ D # {} /\ IsFiniteSet(0 .. n)
    <2>1. 0 \in Int /\ n \in Int OBVIOUS
    <2>2. IsFiniteSet(0 .. n)
      BY <2>1, FS_Interval, Zenon
    <2> QED BY <1>0, <2>2
  <1>2. PICK x \in D : \A y \in SUBSET x : y # x => y \notin D
    <2> HIDE DEF D
    <2> QED BY <1>1, SmallestSubset
  <1>3. PICK m \in B : x = 0 .. m
    BY <1>2
  <1>4. ASSUME NEW k \in B, k < m PROVE FALSE
    <2>1. 0 .. k \in SUBSET x /\ 0 .. k # x /\ 0 .. k \in D
      BY <1>3, <1>4
    <2> QED BY <1>2, <2>1
  <1> QED BY <1>3, <1>4

\* and what holds of 0 and goes on from each number holds up to n.
LEMMA NumberInduction ==
  ASSUME NEW n \in Nat, NEW T, 0 \in T, \A k \in 0 .. n : k < n /\ k \in T => k + 1 \in T
  PROVE  \A k \in 0 .. n : k \in T
  <1> DEFINE Bad == {k \in 0 .. n : k \notin T}
  <1> SUFFICES ASSUME Bad # {} PROVE FALSE OBVIOUS
  <1>1. PICK m \in Bad : \A k \in Bad : m <= k
    <2> Bad \in SUBSET (0 .. n) OBVIOUS
    <2> HIDE DEF Bad
    <2> QED BY LeastNumber
  <1>2. m \in 0 .. n /\ m # 0 /\ m \notin T
    BY <1>1
  <1>3. m - 1 \in 0 .. n /\ m - 1 < n /\ m - 1 \in T
    BY <1>1, <1>2
  <1>4. (m - 1) + 1 \in T
    BY <1>3
  <1> QED BY <1>2, <1>4

\* The element a fold takes first.
Any(s) == CHOOSE x \in s : TRUE

\* g adds up the values of f over every subset of S.
Iter(g, f, S) == g = [s \in SUBSET S |-> IF s = {} THEN 0 ELSE f[Any(s)] + g[s \ {Any(s)}]]

\* SumFunction in terms of Iter.
LEMMA SumIter == \A f : SumFunction(f) = (CHOOSE g : Iter(g, f, DOMAIN f))[DOMAIN f]
  BY DEF SumFunction, SumFunctionOnSet, FoldFunctionOnSet, MapThenFoldSet, Iter, Any

\* Two functions that satisfy Iter agree on the sets both are defined on.
LEMMA IterUnique ==
  ASSUME NEW f, NEW S, IsFiniteSet(S), NEW s \in SUBSET S, NEW t \in SUBSET S,
         NEW g, NEW h, Iter(g, f, s), Iter(h, f, t), NEW u, u \subseteq s, u \subseteq t
  PROVE  g[u] = h[u]
  <1> DEFINE Bad == {v \in SUBSET u : g[v] # h[v]}
  <1> SUFFICES ASSUME Bad # {} PROVE FALSE OBVIOUS
  <1>0. IsFiniteSet(u) BY FS_Subset
  <1>1. PICK m \in Bad : \A v \in SUBSET m : v # m => v \notin Bad
    <2> Bad \subseteq SUBSET u OBVIOUS
    <2> HIDE DEF Bad
    <2> QED BY <1>0, SmallestSubset
  <1>2. m \in SUBSET s /\ m \in SUBSET t BY <1>1
  <1>3. m # {} BY <1>1, <1>2 DEF Iter
  <1>4. Any(m) \in m BY <1>3 DEF Any
  <1>5. g[m] = f[Any(m)] + g[m \ {Any(m)}] BY <1>2, <1>3 DEF Iter
  <1>6. h[m] = f[Any(m)] + h[m \ {Any(m)}] BY <1>2, <1>3 DEF Iter
  <1>7. m \ {Any(m)} \in SUBSET m /\ m \ {Any(m)} # m BY <1>4
  <1>8. g[m \ {Any(m)}] = h[m \ {Any(m)}] BY <1>1, <1>7
  <1> QED BY <1>1, <1>5, <1>6, <1>8

\* A function that satisfies Iter exists on the subsets of a finite set.
LEMMA IterExists ==
  ASSUME NEW f, NEW S, IsFiniteSet(S)
  PROVE  \E g : Iter(g, f, S)
  <1> DEFINE Bad == {s \in SUBSET S : ~\E g : Iter(g, f, s)}
  <1> SUFFICES ASSUME Bad # {} PROVE FALSE OBVIOUS
  <1>1. PICK m \in Bad : \A v \in SUBSET m : v # m => v \notin Bad
    <2> Bad \subseteq SUBSET S OBVIOUS
    <2> HIDE DEF Bad
    <2> QED BY SmallestSubset
  <1> DEFINE G(u) == CHOOSE g : Iter(g, f, u)
             h == [u \in SUBSET m |-> IF u = {} THEN 0
                                      ELSE f[Any(u)] + G(u \ {Any(u)})[u \ {Any(u)}]]
  <1>2. ASSUME NEW u \in SUBSET m, u # m PROVE Iter(G(u), f, u)
    <2>1. \E g : Iter(g, f, u) BY <1>1, <1>2
    <2> HIDE DEF Iter
    <2> QED BY <2>1
  <1>3. ASSUME NEW u \in SUBSET m, u # m PROVE h[u] = G(u)[u]
    <2>1. Iter(G(u), f, u) BY <1>2, <1>3
    <2>2. CASE u = {} BY <2>1, <2>2 DEF Iter
    <2>3. CASE u # {}
      <3>1. Any(u) \in u BY <2>3 DEF Any
      <3> DEFINE v == u \ {Any(u)}
      <3>2. v \in SUBSET m /\ v # m BY <3>1, <1>3
      <3>3. Iter(G(v), f, v) BY <3>2, <1>2
      <3>4. G(u)[u] = f[Any(u)] + G(u)[v] BY <2>1, <2>3 DEF Iter
      <3>5. u \in SUBSET S /\ v \in SUBSET S BY <1>1, <1>3
      <3> HIDE DEF G
      <3>6. G(u)[v] = G(v)[v]
        <4> DEFINE gu == G(u)
                   gv == G(v)
        <4>1. v \subseteq u /\ v \subseteq v OBVIOUS
        <4>2. Iter(gu, f, u) /\ Iter(gv, f, v) BY <2>1, <3>3
        <4> HIDE DEF gu, gv, v, Bad
        <4>3. gu[v] = gv[v] BY <4>1, <4>2, <3>5, IterUnique
        <4> QED BY <4>3 DEF gu, gv
      <3> QED BY <2>3, <3>4, <3>6
    <2> QED BY <2>2, <2>3
  <1>4. ASSUME NEW u \in SUBSET m, u # {}
        PROVE  G(u \ {Any(u)})[u \ {Any(u)}] = h[u \ {Any(u)}]
    <2>1. Any(u) \in u BY <1>4 DEF Any
    <2>2. u \ {Any(u)} \in SUBSET m /\ u \ {Any(u)} # m BY <2>1, <1>4
    <2> HIDE DEF G, h
    <2> QED BY <2>2, <1>3
  <1>5. Iter(h, f, m)
    <2> DEFINE k == [u \in SUBSET m |-> IF u = {} THEN 0 ELSE f[Any(u)] + h[u \ {Any(u)}]]
    <2>1. ASSUME NEW u \in SUBSET m PROVE h[u] = k[u]
      <3>1. CASE u = {} BY <3>1
      <3>2. CASE u # {}
        <4>1. h[u] = f[Any(u)] + G(u \ {Any(u)})[u \ {Any(u)}] BY <3>2
        <4>2. k[u] = f[Any(u)] + h[u \ {Any(u)}] BY <3>2
        <4> HIDE DEF h, k, G
        <4> QED BY <4>1, <4>2, <3>2, <1>4
      <3> QED BY <3>1, <3>2
    <2>2. h = k
      <3>1. h = [u \in SUBSET m |-> h[u]] OBVIOUS
      <3>2. k = [u \in SUBSET m |-> k[u]] OBVIOUS
      <3> HIDE DEF h, k
      <3> QED BY <2>1, <3>1, <3>2
    <2> QED BY <2>2 DEF Iter
  <1> QED BY <1>1, <1>5

\* The function Sum applies to its argument's domain.
It(f) == CHOOSE g : Iter(g, f, DOMAIN f)

\* It(f) is such a function.
LEMMA ItIsIter == ASSUME NEW f, IsFiniteSet(DOMAIN f) PROVE Iter(It(f), f, DOMAIN f)
  <1>1. \E g : Iter(g, f, DOMAIN f) BY IterExists
  <1> QED BY <1>1 DEF It

\* The sum is its value on the whole domain.
LEMMA SumIsIt == ASSUME NEW f PROVE SumFunction(f) = It(f)[DOMAIN f]
  BY SumIter DEF It

\* f has finitely many values, all of them integers.
Summable(f) == IsFiniteSet(DOMAIN f) /\ \A x \in DOMAIN f : f[x] \in Int

Less(s, x) == s \ {x}

\* Any element may be taken out first, not only the one CHOOSE picks.
LEMMA ItSplit ==
  ASSUME NEW f, NEW S, S = DOMAIN f, Summable(f), NEW g, Iter(g, f, S)
  PROVE  /\ \A s \in SUBSET S : g[s] \in Int
         /\ \A s \in SUBSET S : \A x \in s : g[s] = f[x] + g[Less(s, x)]
  <1> USE DEF Summable
  <1>1. ASSUME NEW s \in SUBSET S PROVE g[s] \in Int
    <2> DEFINE Bad == {u \in SUBSET S : g[u] \notin Int}
    <2> SUFFICES ASSUME Bad # {} PROVE FALSE OBVIOUS
    <2>1. PICK m \in Bad : \A u \in SUBSET m : u # m => u \notin Bad
      <3> Bad \subseteq SUBSET S OBVIOUS
      <3> HIDE DEF Bad
      <3> QED BY SmallestSubset
    <2>2. m # {} BY <2>1 DEF Iter
    <2>3. Any(m) \in m BY <2>2 DEF Any
    <2>4. g[m] = f[Any(m)] + g[m \ {Any(m)}] BY <2>1, <2>2 DEF Iter
    <2>5. g[m \ {Any(m)}] \in Int BY <2>1, <2>3
    <2>6. f[Any(m)] \in Int BY <2>1, <2>3
    <2> QED BY <2>1, <2>4, <2>5, <2>6
  <1>2. ASSUME NEW s \in SUBSET S, NEW x \in s PROVE g[s] = f[x] + g[s \ {x}]
    <2> DEFINE Bad == {u \in SUBSET S : \E y \in u : g[u] # f[y] + g[u \ {y}]}
    <2> SUFFICES ASSUME Bad # {} PROVE FALSE OBVIOUS
    <2>1. PICK m \in Bad : \A u \in SUBSET m : u # m => u \notin Bad
      <3> Bad \subseteq SUBSET S OBVIOUS
      <3> HIDE DEF Bad
      <3> QED BY SmallestSubset
    <2>2. PICK y \in m : g[m] # f[y] + g[m \ {y}] BY <2>1
    <2> DEFINE c == Any(m)
    <2>3. c \in m BY <2>2 DEF Any
    <2>4. g[m] = f[c] + g[m \ {c}] BY <2>1, <2>2 DEF Iter
    <2>5. c # y BY <2>2, <2>4
    <2> HIDE DEF c
    <2>6. g[m \ {c}] = f[y] + g[(m \ {c}) \ {y}]
      <3>1. m \ {c} \in SUBSET m /\ m \ {c} # m BY <2>3
      <3>2. y \in m \ {c} BY <2>5
      <3>3. m \ {c} \in SUBSET S BY <2>1
      <3> QED BY <2>1, <3>1, <3>2, <3>3
    <2>7. g[m \ {y}] = f[c] + g[(m \ {y}) \ {c}]
      <3>1. m \ {y} \in SUBSET m /\ m \ {y} # m OBVIOUS
      <3>2. c \in m \ {y} BY <2>3, <2>5
      <3>3. m \ {y} \in SUBSET S BY <2>1
      <3> QED BY <2>1, <3>1, <3>2, <3>3
    <2>8. (m \ {c}) \ {y} = (m \ {y}) \ {c} OBVIOUS
    <2>9. g[(m \ {c}) \ {y}] \in Int BY <1>1, <2>1
    <2>10. f[c] \in Int /\ f[y] \in Int BY <2>1, <2>3
    <2>11. f[c] + (f[y] + g[(m \ {c}) \ {y}]) = f[y] + (f[c] + g[(m \ {c}) \ {y}])
      <3> HIDE DEF Bad
      <3> QED BY <2>9, <2>10
    <2> HIDE DEF Bad
    <2> QED BY <2>2, <2>4, <2>6, <2>7, <2>8, <2>11
  <1> QED BY <1>1, <1>2 DEF Less

\* Functions with the same values have the same sum.
LEMMA SumAgree ==
  ASSUME NEW f, NEW g, IsFiniteSet(DOMAIN f), DOMAIN f = DOMAIN g,
         \A x \in DOMAIN f : f[x] = g[x]
  PROVE  SumFunction(f) = SumFunction(g)
  <1> DEFINE s == DOMAIN f
  <1>1. Iter(It(f), f, s) BY ItIsIter
  <1>2. Iter(It(g), g, s) BY ItIsIter
  <1>3. Iter(It(g), f, s)
    <2>1. ASSUME NEW u \in SUBSET s, u # {} PROVE f[Any(u)] = g[Any(u)]
      BY <2>1 DEF Any
    <2> QED BY <1>2, <2>1 DEF Iter
  <1>4. It(f)[s] = It(g)[s] BY <1>1, <1>3, IterUnique
  <1> QED BY <1>4, SumIsIt

\* What Restrict keeps.
LEMMA OfRestrict ==
  ASSUME NEW f, NEW s
  PROVE  /\ DOMAIN Restrict(f, s) = s
         /\ \A x \in s : Restrict(f, s)[x] = f[x]
  BY DEF Restrict

\* The sum over a subset is a value of It.
LEMMA SumOfRestrict ==
  ASSUME NEW f, IsFiniteSet(DOMAIN f), NEW s \in SUBSET DOMAIN f
  PROVE  SumFunction(Restrict(f, s)) = It(f)[s]
  <1> DEFINE r == Restrict(f, s)
  <1>1. DOMAIN r = s /\ \A x \in s : r[x] = f[x] BY DEF Restrict
  <1>2. IsFiniteSet(s) BY FS_Subset
  <1>3. Iter(It(r), r, s) BY <1>1, <1>2, ItIsIter
  <1>4. Iter(It(r), f, s)
    <2>1. ASSUME NEW u \in SUBSET s, u # {} PROVE r[Any(u)] = f[Any(u)]
      BY <1>1, <2>1 DEF Any
    <2> QED BY <1>3, <2>1 DEF Iter
  <1>5. Iter(It(f), f, DOMAIN f) BY ItIsIter
  <1>6. It(r)[s] = It(f)[s] BY <1>4, <1>5, IterUnique
  <1> QED BY <1>1, <1>6, SumIsIt

\* The sum over nothing.
LEMMA SumEmpty == ASSUME NEW f, DOMAIN f = {} PROVE SumFunction(f) = 0
  <1>1. IsFiniteSet(DOMAIN f) BY FS_EmptySet
  <1>2. Iter(It(f), f, DOMAIN f) BY <1>1, ItIsIter
  <1> QED BY <1>2, SumIsIt DEF Iter

\* A sum of integers is an integer.
LEMMA SumInt == ASSUME NEW f, Summable(f) PROVE SumFunction(f) \in Int
  <1>1. Iter(It(f), f, DOMAIN f) BY ItIsIter DEF Summable
  <1> QED BY <1>1, ItSplit, SumIsIt

\* g is f with the value at x besides.
OneMore(g, f, x) ==
  /\ x \in DOMAIN g /\ x \notin DOMAIN f /\ DOMAIN g = DOMAIN f \cup {x}
  /\ \A y \in DOMAIN f : f[y] = g[y]

\* One more value adds itself to the sum.
LEMMA SumOneMore ==
  ASSUME NEW g, NEW f, NEW x, Summable(g), OneMore(g, f, x)
  PROVE  Summable(f) /\ SumFunction(g) = g[x] + SumFunction(f)
  <1> DEFINE s == Less(DOMAIN g, x)
             r == Restrict(g, s)
  <1>1. Iter(It(g), g, DOMAIN g) BY ItIsIter DEF Summable
  <1>2. x \in DOMAIN g /\ DOMAIN g \in SUBSET DOMAIN g BY DEF OneMore
  <1>3. It(g)[DOMAIN g] = g[x] + It(g)[s] BY <1>1, <1>2, ItSplit
  <1>4. s \in SUBSET DOMAIN g BY DEF Less
  <1>5. SumFunction(r) = It(g)[s] BY <1>4, SumOfRestrict DEF Summable
  <1>6. s = DOMAIN f BY DEF OneMore, Less
  <1>7. DOMAIN r = s /\ \A y \in s : r[y] = g[y] BY OfRestrict
  <1>8. IsFiniteSet(DOMAIN f)
    <2> HIDE DEF s
    <2> QED BY <1>4, <1>6, FS_Subset DEF Summable
  <1>9. \A y \in DOMAIN f : f[y] = r[y]
    <2> HIDE DEF r, s
    <2> QED BY <1>6, <1>7 DEF OneMore
  <1>10. SumFunction(f) = SumFunction(r)
    <2> HIDE DEF r, s
    <2> QED BY <1>6, <1>7, <1>8, <1>9, SumAgree
  <1>11. Summable(f) BY <1>8 DEF Summable, OneMore
  <1> QED BY <1>3, <1>5, <1>10, <1>11, SumIsIt

With(s, x) == s \cup {x}

\* Induction over the subsets of a finite set: T holds the subsets the claim is true of.
LEMMA FiniteInduction ==
  ASSUME NEW S, IsFiniteSet(S), NEW T, {} \in T,
         \A s \in SUBSET S : \A x \in S : x \notin s /\ s \in T => With(s, x) \in T
  PROVE  S \in T
  <1>1. \A s \in SUBSET S : s \in T
    <2>1. \A s \in SUBSET S : \A x \in S \ s : s \in T => s \cup {x} \in T BY DEF With
    <2> DEFINE Bad == {s \in SUBSET S : s \notin T}
    <2> SUFFICES ASSUME Bad # {} PROVE FALSE OBVIOUS
    <2>2. PICK m \in Bad : \A s \in SUBSET m : s # m => s \notin Bad
      <3> Bad \subseteq SUBSET S OBVIOUS
      <3> HIDE DEF Bad
      <3> QED BY SmallestSubset
    <2>3. PICK x \in m : TRUE BY <2>2
    <2>4. m \ {x} \in T BY <2>2, <2>3
    <2> QED BY <2>1, <2>2, <2>3, <2>4
  <1> QED BY <1>1

\* A restriction to one more element.
LEMMA RestrictOneMore ==
  ASSUME NEW f, NEW s, NEW x, x \notin s
  PROVE  OneMore(Restrict(f, With(s, x)), Restrict(f, s), x)
  BY DEF OneMore, Restrict, With

\* A restriction of a summable function is summable.
LEMMA RestrictSummable ==
  ASSUME NEW f, Summable(f), NEW s \in SUBSET DOMAIN f
  PROVE  Summable(Restrict(f, s))
  <1>1. IsFiniteSet(s) BY FS_Subset DEF Summable
  <1> QED BY <1>1, OfRestrict DEF Summable

\* The sum over the whole domain.
LEMMA RestrictAll ==
  ASSUME NEW f, Summable(f)
  PROVE  SumFunction(Restrict(f, DOMAIN f)) = SumFunction(f)
  <1>1. DOMAIN Restrict(f, DOMAIN f) = DOMAIN f
        /\ \A x \in DOMAIN f : Restrict(f, DOMAIN f)[x] = f[x]
    BY OfRestrict
  <1> QED BY <1>1, SumAgree DEF Summable

\* What an induction over the domain of a sum has to show.
LEMMA SumStep ==
  ASSUME NEW f, Summable(f), NEW s \in SUBSET DOMAIN f, NEW x \in DOMAIN f, x \notin s
  PROVE  /\ SumFunction(Restrict(f, With(s, x))) = f[x] + SumFunction(Restrict(f, s))
         /\ SumFunction(Restrict(f, s)) \in Int /\ SumFunction(Restrict(f, With(s, x))) \in Int
  <1> DEFINE g == Restrict(f, With(s, x))
             h == Restrict(f, s)
  <1>1. With(s, x) \in SUBSET DOMAIN f /\ x \in With(s, x) BY DEF With
  <1>2. Summable(g) /\ Summable(h) BY <1>1, RestrictSummable
  <1>3. OneMore(g, h, x) BY RestrictOneMore
  <1>4. g[x] = f[x] BY <1>1, OfRestrict
  <1> HIDE DEF g, h
  <1>5. SumFunction(g) = g[x] + SumFunction(h) BY <1>2, <1>3, SumOneMore
  <1>6. SumFunction(g) \in Int /\ SumFunction(h) \in Int BY <1>2, SumInt
  <1> QED BY <1>4, <1>5, <1>6 DEF g, h

\* Where an induction over the domain of a sum starts.
LEMMA SumStart == ASSUME NEW f PROVE SumFunction(Restrict(f, {})) = 0
  BY OfRestrict, SumEmpty

\* A sum of smaller values is smaller.
LEMMA SumAtMost ==
  ASSUME NEW f, NEW g, Summable(f), Summable(g), DOMAIN f = DOMAIN g,
         \A x \in DOMAIN f : f[x] <= g[x]
  PROVE  SumFunction(f) <= SumFunction(g)
  <1> DEFINE T == {s \in SUBSET DOMAIN f : SumFunction(Restrict(f, s)) <= SumFunction(Restrict(g, s))}
  <1>1. {} \in T BY SumStart
  <1>2. ASSUME NEW s \in SUBSET DOMAIN f, NEW x \in DOMAIN f, x \notin s, s \in T
        PROVE  With(s, x) \in T
    <2>1. With(s, x) \in SUBSET DOMAIN f BY DEF With
    <2>2. f[x] \in Int /\ g[x] \in Int BY DEF Summable
    <2> QED BY <1>2, <2>1, <2>2, SumStep
  <1> HIDE DEF T
  <1>3. DOMAIN f \in T BY <1>1, <1>2, FiniteInduction DEF Summable
  <1> QED BY <1>3, RestrictAll DEF T

\* The sum of the sums.
LEMMA SumPlus ==
  ASSUME NEW f, NEW g, NEW h, Summable(f), Summable(g), Summable(h),
         DOMAIN f = DOMAIN h, DOMAIN g = DOMAIN h,
         \A x \in DOMAIN h : h[x] = f[x] + g[x]
  PROVE  SumFunction(h) = SumFunction(f) + SumFunction(g)
  <1> DEFINE T == {s \in SUBSET DOMAIN h :
                     SumFunction(Restrict(h, s))
                       = SumFunction(Restrict(f, s)) + SumFunction(Restrict(g, s))}
  <1>1. {} \in T BY SumStart
  <1>2. ASSUME NEW s \in SUBSET DOMAIN h, NEW x \in DOMAIN h, x \notin s, s \in T
        PROVE  With(s, x) \in T
    <2>1. With(s, x) \in SUBSET DOMAIN h BY DEF With
    <2>2. f[x] \in Int /\ g[x] \in Int BY DEF Summable
    <2>3. s \in SUBSET DOMAIN f /\ x \in DOMAIN f /\ s \in SUBSET DOMAIN g /\ x \in DOMAIN g BY <1>2
    <2>4. /\ SumFunction(Restrict(f, With(s, x))) = f[x] + SumFunction(Restrict(f, s))
          /\ SumFunction(Restrict(f, s)) \in Int
          /\ SumFunction(Restrict(g, With(s, x))) = g[x] + SumFunction(Restrict(g, s))
          /\ SumFunction(Restrict(g, s)) \in Int
          /\ SumFunction(Restrict(h, With(s, x))) = h[x] + SumFunction(Restrict(h, s))
      BY <1>2, <2>3, SumStep
    <2> QED BY <1>2, <2>1, <2>2, <2>4
  <1> HIDE DEF T
  <1>3. DOMAIN h \in T BY <1>1, <1>2, FiniteInduction DEF Summable
  <1> QED BY <1>3, RestrictAll DEF T

\* A common factor comes out of a sum.
LEMMA SumTimes ==
  ASSUME NEW f, NEW g, NEW k \in Int, Summable(f), Summable(g), DOMAIN f = DOMAIN g,
         \A x \in DOMAIN f : f[x] = k * g[x]
  PROVE  SumFunction(f) = k * SumFunction(g)
  <1> DEFINE T == {s \in SUBSET DOMAIN f :
                     SumFunction(Restrict(f, s)) = k * SumFunction(Restrict(g, s))}
  <1>1. {} \in T BY SumStart
  <1>2. ASSUME NEW s \in SUBSET DOMAIN f, NEW x \in DOMAIN f, x \notin s, s \in T
        PROVE  With(s, x) \in T
    <2>1. With(s, x) \in SUBSET DOMAIN f BY DEF With
    <2>2. g[x] \in Int BY DEF Summable
    <2>4. /\ SumFunction(Restrict(f, With(s, x))) = f[x] + SumFunction(Restrict(f, s))
          /\ SumFunction(Restrict(g, With(s, x))) = g[x] + SumFunction(Restrict(g, s))
          /\ SumFunction(Restrict(g, s)) \in Int
      BY <1>2, SumStep
    <2>5. \A a, b \in Int : k * (a + b) = k * a + k * b OBVIOUS
    <2> QED BY <1>2, <2>1, <2>2, <2>4, <2>5
  <1> HIDE DEF T
  <1>3. DOMAIN f \in T BY <1>1, <1>2, FiniteInduction DEF Summable
  <1> QED BY <1>3, RestrictAll DEF T

\* A sum of zeros.
LEMMA SumZero ==
  ASSUME NEW f, Summable(f), \A x \in DOMAIN f : f[x] = 0
  PROVE  SumFunction(f) = 0
  <1> DEFINE T == {s \in SUBSET DOMAIN f : SumFunction(Restrict(f, s)) = 0}
  <1>1. {} \in T BY SumStart
  <1>2. ASSUME NEW s \in SUBSET DOMAIN f, NEW x \in DOMAIN f, x \notin s, s \in T
        PROVE  With(s, x) \in T
    <2>1. With(s, x) \in SUBSET DOMAIN f BY DEF With
    <2> QED BY <1>2, <2>1, SumStep
  <1> HIDE DEF T
  <1>3. DOMAIN f \in T BY <1>1, <1>2, FiniteInduction DEF Summable
  <1> QED BY <1>3, RestrictAll DEF T

\* A sum of natural numbers is one, and no value exceeds it.
LEMMA SumNat ==
  ASSUME NEW f, Summable(f), \A x \in DOMAIN f : f[x] >= 0
  PROVE  SumFunction(f) \in Nat /\ \A x \in DOMAIN f : f[x] <= SumFunction(f)
  <1> DEFINE T == {s \in SUBSET DOMAIN f : /\ SumFunction(Restrict(f, s)) >= 0
                                           /\ \A x \in s : f[x] <= SumFunction(Restrict(f, s))}
  <1>1. {} \in T BY SumStart
  <1>2. ASSUME NEW s \in SUBSET DOMAIN f, NEW x \in DOMAIN f, x \notin s, s \in T
        PROVE  With(s, x) \in T
    <2>1. With(s, x) \in SUBSET DOMAIN f BY DEF With
    <2>2. \A y \in DOMAIN f : f[y] \in Int BY DEF Summable
    <2>3. /\ SumFunction(Restrict(f, With(s, x))) = f[x] + SumFunction(Restrict(f, s))
          /\ SumFunction(Restrict(f, s)) \in Int
      BY <1>2, SumStep
    <2>4. \A y \in With(s, x) : y = x \/ y \in s BY DEF With
    <2> QED BY <1>2, <2>1, <2>2, <2>3, <2>4
  <1> HIDE DEF T
  <1>3. DOMAIN f \in T BY <1>1, <1>2, FiniteInduction DEF Summable
  <1>4. SumFunction(f) \in Int BY SumInt
  <1> QED BY <1>3, <1>4, RestrictAll DEF T

\* One value is replaced.
LEMMA SumChange ==
  ASSUME NEW f, NEW g, NEW x \in DOMAIN f, Summable(f), Summable(g), DOMAIN f = DOMAIN g,
         \A y \in DOMAIN f : y # x => f[y] = g[y]
  PROVE  SumFunction(g) = SumFunction(f) - f[x] + g[x]
  <1> DEFINE r == Restrict(f, DOMAIN f \ {x})
  <1>1. OneMore(f, r, x) BY DEF OneMore, Restrict
  <1>2. OneMore(g, r, x) BY DEF OneMore, Restrict
  <1> HIDE DEF r
  <1>3. /\ SumFunction(f) = f[x] + SumFunction(r)
        /\ SumFunction(g) = g[x] + SumFunction(r) /\ Summable(r)
    BY <1>1, <1>2, SumOneMore
  <1>4. SumFunction(r) \in Int /\ f[x] \in Int /\ g[x] \in Int BY <1>3, SumInt DEF Summable
  <1> QED BY <1>3, <1>4
\* The sum of one value.
LEMMA SumSingle ==
  ASSUME NEW f, NEW x, DOMAIN f = {x}, f[x] \in Int
  PROVE  SumFunction(f) = f[x]
  <1> DEFINE r == Restrict(f, {})
  <1>1. OneMore(f, r, x) BY DEF OneMore, Restrict
  <1>2. Summable(f) BY FS_Singleton DEF Summable
  <1>3. SumFunction(r) = 0 BY SumStart
  <1> HIDE DEF r
  <1> QED BY <1>1, <1>2, <1>3, SumOneMore

\* A sum falls apart along two disjoint halves of its domain.
LEMMA SumSplit ==
  ASSUME NEW f, Summable(f), NEW A \in SUBSET DOMAIN f, NEW B \in SUBSET DOMAIN f,
         A \cup B = DOMAIN f, A \cap B = {}
  PROVE  SumFunction(f) = SumFunction(Restrict(f, A)) + SumFunction(Restrict(f, B))
  <1> DEFINE T == {s \in SUBSET DOMAIN f :
                     SumFunction(Restrict(f, s))
                       = SumFunction(Restrict(f, s \cap A)) + SumFunction(Restrict(f, s \cap B))}
  <1>1. {} \in T
    <2>1. {} \cap A = {} /\ {} \cap B = {} OBVIOUS
    <2> QED BY <2>1, SumStart
  <1>2. ASSUME NEW s \in SUBSET DOMAIN f, NEW x \in DOMAIN f, x \notin s, s \in T
        PROVE  With(s, x) \in T
    <2>1. With(s, x) \in SUBSET DOMAIN f BY DEF With
    <2>2. f[x] \in Int BY DEF Summable
    <2>3. /\ s \cap A \in SUBSET DOMAIN f /\ s \cap B \in SUBSET DOMAIN f
          /\ x \notin s \cap A /\ x \notin s \cap B
      BY <1>2
    <2> DEFINE a == s \cap A
               b == s \cap B
    <2>4. SumFunction(Restrict(f, With(s, x))) = f[x] + SumFunction(Restrict(f, s)) BY <1>2, SumStep
    <2>5. SumFunction(Restrict(f, s)) = SumFunction(Restrict(f, a)) + SumFunction(Restrict(f, b))
      BY <1>2
    <2>6. /\ SumFunction(Restrict(f, a)) \in Int
          /\ SumFunction(Restrict(f, With(a, x))) = f[x] + SumFunction(Restrict(f, a))
      <3> HIDE DEF a
      <3> QED BY <2>3, SumStep DEF a
    <2>7. /\ SumFunction(Restrict(f, b)) \in Int
          /\ SumFunction(Restrict(f, With(b, x))) = f[x] + SumFunction(Restrict(f, b))
      <3> HIDE DEF b
      <3> QED BY <2>3, SumStep DEF b
    <2>8. CASE x \in A
      <3>1. With(s, x) \cap A = With(a, x) /\ With(s, x) \cap B = b BY <2>8 DEF With
      <3> HIDE DEF a, b, T
      <3>2. /\ SumFunction(Restrict(f, With(s, x) \cap A)) = SumFunction(Restrict(f, With(a, x)))
            /\ SumFunction(Restrict(f, With(s, x) \cap B)) = SumFunction(Restrict(f, b))
        BY <3>1
      <3>3. SumFunction(Restrict(f, With(s, x)))
              = SumFunction(Restrict(f, With(a, x))) + SumFunction(Restrict(f, b))
        BY <2>2, <2>4, <2>5, <2>6, <2>7
      <3> QED BY <2>1, <3>2, <3>3 DEF T
    <2>9. CASE x \in B
      <3>1. With(s, x) \cap A = a /\ With(s, x) \cap B = With(b, x) BY <2>9 DEF With
      <3> HIDE DEF a, b, T
      <3>2. /\ SumFunction(Restrict(f, With(s, x) \cap A)) = SumFunction(Restrict(f, a))
            /\ SumFunction(Restrict(f, With(s, x) \cap B)) = SumFunction(Restrict(f, With(b, x)))
        BY <3>1
      <3>3. SumFunction(Restrict(f, With(s, x)))
              = SumFunction(Restrict(f, a)) + SumFunction(Restrict(f, With(b, x)))
        BY <2>2, <2>4, <2>5, <2>6, <2>7
      <3> QED BY <2>1, <3>2, <3>3 DEF T
    <2> QED BY <2>8, <2>9
  <1>3. DOMAIN f \in T
    <2> HIDE DEF T
    <2> QED BY <1>1, <1>2, FiniteInduction DEF Summable
  <1>4. DOMAIN f \cap A = A /\ DOMAIN f \cap B = B OBVIOUS
  <1> QED BY <1>3, <1>4, RestrictAll

\* The elements of s that lab maps to l.
Fibre(lab, s, l) == {x \in s : lab[x] = l}

\* A sum falls apart along the labels of its elements.
LEMMA SumFibres ==
  ASSUME NEW f, Summable(f), NEW lab, NEW h, IsFiniteSet(DOMAIN h),
         \A x \in DOMAIN f : lab[x] \in DOMAIN h,
         \A l \in DOMAIN h : h[l] = SumFunction(Restrict(f, Fibre(lab, DOMAIN f, l)))
  PROVE  SumFunction(h) = SumFunction(f)
  <1> DEFINE H(s) == [l \in DOMAIN h |-> SumFunction(Restrict(f, Fibre(lab, s, l)))]
             T == {s \in SUBSET DOMAIN f : SumFunction(H(s)) = SumFunction(Restrict(f, s))}
  <1>0. ASSUME NEW s \in SUBSET DOMAIN f PROVE Summable(H(s)) /\ DOMAIN H(s) = DOMAIN h
    <2>1. ASSUME NEW l \in DOMAIN h PROVE H(s)[l] \in Int
      <3>1. Fibre(lab, s, l) \in SUBSET DOMAIN f BY DEF Fibre
      <3>2. Summable(Restrict(f, Fibre(lab, s, l))) BY <3>1, RestrictSummable
      <3> QED BY <3>2, SumInt
    <2> QED BY <2>1 DEF Summable
  <1>1. {} \in T
    <2>1. \A l \in DOMAIN h : H({})[l] = 0
      <3>1. \A l \in DOMAIN h : Fibre(lab, {}, l) = {} BY DEF Fibre
      <3> QED BY <3>1, SumStart
    <2>2. Summable(H({})) /\ DOMAIN H({}) = DOMAIN h BY <1>0
    <2>3. SumFunction(H({})) = 0
      <3> HIDE DEF H
      <3> QED BY <2>1, <2>2, SumZero
    <2> QED BY <2>3, SumStart
  <1>2. ASSUME NEW s \in SUBSET DOMAIN f, NEW x \in DOMAIN f, x \notin s, s \in T
        PROVE  With(s, x) \in T
    <2>1. With(s, x) \in SUBSET DOMAIN f BY DEF With
    <2> DEFINE k == lab[x]
               g == H(s)
               g2 == H(With(s, x))
               fib == Fibre(lab, s, k)
    <2>2. Summable(g) /\ DOMAIN g = DOMAIN h /\ Summable(g2) /\ DOMAIN g2 = DOMAIN h BY <1>0, <2>1
    <2>3. k \in DOMAIN h OBVIOUS
    <2>4. ASSUME NEW l \in DOMAIN h, l # k PROVE g[l] = g2[l]
      <3>1. Fibre(lab, With(s, x), l) = Fibre(lab, s, l) BY <2>4 DEF Fibre, With
      <3> QED BY <3>1
    <2>5. g2[k] = f[x] + g[k] /\ g[k] \in Int /\ f[x] \in Int
      <3>1. Fibre(lab, With(s, x), k) = With(fib, x) BY DEF Fibre, With
      <3>2. fib \in SUBSET DOMAIN f /\ x \notin fib BY <1>2 DEF Fibre
      <3>3. g[k] = SumFunction(Restrict(f, fib)) /\ g2[k] = SumFunction(Restrict(f, With(fib, x)))
        BY <3>1
      <3>4. f[x] \in Int BY DEF Summable
      <3> HIDE DEF fib, g, g2, k
      <3> QED BY <3>2, <3>3, <3>4, SumStep
    <2> HIDE DEF g, g2, k
    <2>6. SumFunction(g2) = SumFunction(g) - g[k] + g2[k] BY <2>2, <2>3, <2>4, SumChange
    <2>7. SumFunction(g) = SumFunction(Restrict(f, s)) BY <1>2 DEF g
    <2>8. /\ SumFunction(Restrict(f, With(s, x))) = f[x] + SumFunction(Restrict(f, s))
          /\ SumFunction(Restrict(f, s)) \in Int
      BY <1>2, SumStep
    <2>9. SumFunction(g2) = SumFunction(Restrict(f, With(s, x))) BY <2>5, <2>6, <2>7, <2>8
    <2> QED BY <2>1, <2>9 DEF g2
  <1>3. DOMAIN f \in T
    <2> HIDE DEF T
    <2> QED BY <1>1, <1>2, FiniteInduction DEF Summable
  <1>4. SumFunction(H(DOMAIN f)) = SumFunction(h)
    <2>1. DOMAIN H(DOMAIN f) = DOMAIN h /\ \A l \in DOMAIN h : h[l] = H(DOMAIN f)[l] OBVIOUS
    <2> HIDE DEF H
    <2> QED BY <2>1, SumAgree
  <1> QED BY <1>3, <1>4, RestrictAll

\* A sum keeps its value when its elements are renamed one to one.
LEMMA SumReindex ==
  ASSUME NEW f, NEW g, NEW b, Summable(f), Summable(g),
         \A x \in DOMAIN g : b[x] \in DOMAIN f /\ g[x] = f[b[x]],
         \A x, y \in DOMAIN g : b[x] = b[y] => x = y,
         \A z \in DOMAIN f : \E x \in DOMAIN g : b[x] = z
  PROVE  SumFunction(g) = SumFunction(f)
  <1>1. ASSUME NEW l \in DOMAIN f PROVE f[l] = SumFunction(Restrict(g, Fibre(b, DOMAIN g, l)))
    <2>1. PICK x \in DOMAIN g : b[x] = l OBVIOUS
    <2>2. Fibre(b, DOMAIN g, l) = {x} BY <2>1 DEF Fibre
    <2> DEFINE r == Restrict(g, {x})
    <2>3. DOMAIN r = {x} /\ r[x] = g[x] BY DEF Restrict
    <2>4. g[x] \in Int BY DEF Summable
    <2>5. SumFunction(r) = g[x]
      <3> HIDE DEF r
      <3> QED BY <2>3, <2>4, SumSingle
    <2> QED BY <2>1, <2>2, <2>5
  <1>2. IsFiniteSet(DOMAIN f) BY DEF Summable
  <1> QED BY <1>1, <1>2, SumFibres
=============================================================================
