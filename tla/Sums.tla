-------------------------------- MODULE Sums --------------------------------
(***************************************************************************)
(* What a sum over a finite set is, for the theorems that count units and  *)
(* money: MapThenSumSet takes the members in the order CHOOSE gives them,  *)
(* and these lemmas say that any order gives the same sum.                 *)
(***************************************************************************)
EXTENDS FiniteSetsExt, FiniteSetTheorems, TLAPS

\* Induction over the subsets of a finite set, for a set of the good ones.
LEMMA SetInduction ==
  ASSUME NEW U, IsFiniteSet(U), NEW Good,
         \A s \in SUBSET U : (\A t \in SUBSET s : t # s => t \in Good) => s \in Good
  PROVE  SUBSET U \subseteq Good
<1> DEFINE Bad == (SUBSET U) \ Good
<1>1. SUFFICES ASSUME Bad # {} PROVE FALSE
  OBVIOUS
<1>2. IsWellFoundedOn(StrictSubsetOrdering(U), SUBSET U)
  BY FS_StrictSubsetOrderingWellFounded, FS_FiniteSubsetsOfFinite
<1>3. PICK s \in Bad : \A t \in Bad : ~ <<t, s>> \in StrictSubsetOrdering(U)
  <2> HIDE DEF Bad
  <2>1. Bad \subseteq SUBSET U BY DEF Bad
  <2>2. QED BY <1>1, <1>2, <2>1, WFMin
<1>4. \A t \in SUBSET s : t # s => t \in Good
  BY <1>3 DEF StrictSubsetOrdering
<1>5. QED
  BY <1>3, <1>4

Pick(s) == CHOOSE x \in s : TRUE

SumOf(w, S) == MapThenSumSet(LAMBDA x : w[x], S)

\* The equation that the sum is computed by.
Adds(g, w, S) ==
  g = [s \in SUBSET S |-> IF s = {} THEN 0 ELSE w[Pick(s)] + g[s \ {Pick(s)}]]

LEMMA SumIsChosen ==
  ASSUME NEW w, NEW S
  PROVE  SumOf(w, S) = (CHOOSE g : Adds(g, w, S))[S]
BY DEF SumOf, Adds, MapThenSumSet, MapThenFoldSet, Pick

LEMMA PickIsIn == \A s : s # {} => Pick(s) \in s
BY DEF Pick

LEMMA AddsRestricts ==
  ASSUME NEW w, NEW S, NEW T \in SUBSET S, NEW g, Adds(g, w, S)
  PROVE  Adds([s \in SUBSET T |-> g[s]], w, T)
<1> DEFINE h == [s \in SUBSET T |-> g[s]]
<1>1. ASSUME NEW s \in SUBSET T
      PROVE  h[s] = IF s = {} THEN 0 ELSE w[Pick(s)] + h[s \ {Pick(s)}]
  <2>1. s \in SUBSET S /\ s \ {Pick(s)} \in SUBSET T
    OBVIOUS
  <2>2. g[s] = IF s = {} THEN 0 ELSE w[Pick(s)] + g[s \ {Pick(s)}]
    BY <2>1 DEF Adds
  <2>3. QED BY <2>1, <2>2
<1>2. h = [s \in SUBSET T |-> IF s = {} THEN 0 ELSE w[Pick(s)] + h[s \ {Pick(s)}]]
  <2> HIDE DEF h
  <2>1. h = [s \in SUBSET T |-> h[s]] BY DEF h
  <2>2. QED BY <1>1, <2>1
<1>3. QED
  BY <1>2 DEF Adds

LEMMA AddsOneWay ==
  ASSUME NEW w, NEW S, IsFiniteSet(S), NEW g, NEW h, Adds(g, w, S), Adds(h, w, S)
  PROVE  g = h
<1> DEFINE Good == {s \in SUBSET S : g[s] = h[s]}
<1>1. ASSUME NEW s \in SUBSET S, \A t \in SUBSET s : t # s => t \in Good
      PROVE  s \in Good
  <2>1. CASE s = {}
    BY <2>1 DEF Adds
  <2>2. CASE s # {}
    <3>1. s \ {Pick(s)} \in SUBSET s /\ s \ {Pick(s)} # s
      BY <2>2, PickIsIn
    <3>2. g[s \ {Pick(s)}] = h[s \ {Pick(s)}]
      BY <1>1, <3>1
    <3>3. g[s] = w[Pick(s)] + g[s \ {Pick(s)}] /\ h[s] = w[Pick(s)] + h[s \ {Pick(s)}]
      BY <2>2 DEF Adds
    <3>4. QED BY <3>2, <3>3
  <2>3. QED BY <2>1, <2>2
<1>2. SUBSET S \subseteq Good
  <2> HIDE DEF Good
  <2>1. QED BY <1>1, SetInduction
<1>3. \A s \in SUBSET S : g[s] = h[s]
  BY <1>2
<1>4. g = [s \in SUBSET S |-> g[s]] /\ h = [s \in SUBSET S |-> h[s]]
  BY DEF Adds
<1>5. QED
  BY <1>3, <1>4

LEMMA AddsExists ==
  ASSUME NEW w, NEW U, IsFiniteSet(U)
  PROVE  \E g : Adds(g, w, U)
<1> DEFINE Good == {s \in SUBSET U : \E g : Adds(g, w, s)}
<1>1. ASSUME NEW s \in SUBSET U, \A t \in SUBSET s : t # s => t \in Good
      PROVE  s \in Good
  <2> DEFINE G(t) == CHOOSE g : Adds(g, w, t)
             g == [t \in SUBSET s |-> IF t = {} THEN 0
                                      ELSE w[Pick(t)] + G(t \ {Pick(t)})[t \ {Pick(t)}]]
  <2>1. ASSUME NEW t \in SUBSET s, t # s
        PROVE  Adds(G(t), w, t) /\ IsFiniteSet(t)
    BY <1>1, <2>1, FS_Subset
  <2>2. ASSUME NEW t \in SUBSET s, t # s
        PROVE  g[t] = G(t)[t]
    <3>1. CASE t = {}
      <4>1. Adds(G(t), w, t)
        <5> HIDE DEF G
        <5>1. QED BY <2>1, <2>2
      <4>2. G(t)[t] = 0
        <5> HIDE DEF G
        <5>1. QED BY <3>1, <4>1 DEF Adds
      <4>3. QED BY <3>1, <4>2
    <3>2. CASE t # {}
      <4> DEFINE r == t \ {Pick(t)}
      <4>1. r \in SUBSET t /\ r # t /\ r \in SUBSET s /\ r # s
        BY <2>2, <3>2, PickIsIn
      <4>2. Adds(G(r), w, r) /\ IsFiniteSet(r) /\ Adds(G(t), w, t)
        <5> HIDE DEF G
        <5>1. QED BY <2>1, <2>2, <4>1
      <4>3. Adds([q \in SUBSET r |-> G(t)[q]], w, r)
        <5> HIDE DEF G
        <5>1. QED BY <4>1, <4>2, AddsRestricts
      <4>4. [q \in SUBSET r |-> G(t)[q]] = G(r)
        <5> HIDE DEF G
        <5>1. QED BY <4>2, <4>3, AddsOneWay
      <4>5. G(t)[r] = G(r)[r]
        <5> HIDE DEF G
        <5>1. G(r)[r] = [q \in SUBSET r |-> G(t)[q]][r] BY <4>4
        <5>2. QED BY <5>1
      <4>6. G(t)[t] = w[Pick(t)] + G(t)[r]
        <5> HIDE DEF G
        <5>1. QED BY <3>2, <4>2 DEF Adds
      <4>7. QED BY <3>2, <4>5, <4>6
    <3>3. QED BY <3>1, <3>2
  <2>3. Adds(g, w, s)
    <3>1. ASSUME NEW t \in SUBSET s
          PROVE  g[t] = IF t = {} THEN 0 ELSE w[Pick(t)] + g[t \ {Pick(t)}]
      <4>1. CASE t = {}
        BY <4>1
      <4>2. CASE t # {}
        <5>1. t \ {Pick(t)} \in SUBSET s /\ t \ {Pick(t)} # s
          BY <4>2, PickIsIn
        <5>2. g[t \ {Pick(t)}] = G(t \ {Pick(t)})[t \ {Pick(t)}]
          <6> HIDE DEF g, G
          <6>1. QED BY <2>2, <5>1
        <5>3. QED BY <4>2, <5>2
      <4>3. QED BY <4>1, <4>2
    <3>2. g = [t \in SUBSET s |-> g[t]]
      OBVIOUS
    <3>3. QED
      <4> HIDE DEF g
      <4>1. g = [t \in SUBSET s |-> IF t = {} THEN 0 ELSE w[Pick(t)] + g[t \ {Pick(t)}]]
        BY <3>1, <3>2
      <4>2. QED BY <4>1 DEF Adds
  <2>4. QED
    <3> HIDE DEF g
    <3>1. QED BY <2>3
<1>2. SUBSET U \subseteq Good
  <2> HIDE DEF Good
  <2>1. QED BY <1>1, SetInduction
<1>3. QED
  BY <1>2

LEMMA SumAdds ==
  ASSUME NEW w, NEW S, IsFiniteSet(S), NEW s \in SUBSET S
  PROVE  \A g : Adds(g, w, S) => SumOf(w, s) = g[s]
<1> DEFINE c == CHOOSE g : Adds(g, w, s)
<1>1. TAKE g
<1>2. HAVE Adds(g, w, S)
<1>3. IsFiniteSet(s)
  BY FS_Subset
<1>4. Adds(c, w, s)
  BY <1>3, AddsExists
<1>5. Adds([t \in SUBSET s |-> g[t]], w, s)
  BY <1>2, AddsRestricts
<1>6. [t \in SUBSET s |-> g[t]] = c
  <2> HIDE DEF c
  <2>1. QED BY <1>3, <1>4, <1>5, AddsOneWay
<1>7. [t \in SUBSET s |-> g[t]][s] = g[s]
  OBVIOUS
<1>8. QED
  BY <1>6, <1>7, SumIsChosen

LEMMA SumOfEmpty == \A w : SumOf(w, {}) = 0
<1>1. TAKE w
<1>2. IsFiniteSet({})
  BY FS_EmptySet
<1>3. PICK g : Adds(g, w, {})
  BY <1>2, AddsExists
<1>4. SumOf(w, {}) = g[{}]
  BY <1>2, <1>3, SumAdds
<1>5. QED
  BY <1>3, <1>4 DEF Adds

LEMMA SumOfPick ==
  ASSUME NEW w, NEW S, IsFiniteSet(S), S # {}
  PROVE  SumOf(w, S) = w[Pick(S)] + SumOf(w, S \ {Pick(S)})
<1>1. PICK g : Adds(g, w, S)
  BY AddsExists
<1>2. SumOf(w, S) = g[S] /\ SumOf(w, S \ {Pick(S)}) = g[S \ {Pick(S)}]
  BY <1>1, SumAdds
<1>3. QED
  BY <1>1, <1>2 DEF Adds

\* A sum of integers is one, and naturals add up to a natural.
LEMMA SumOfInt ==
  ASSUME NEW w, NEW S, IsFiniteSet(S), \A x \in S : w[x] \in Int
  PROVE  SumOf(w, S) \in Int
<1> DEFINE Good == {s \in SUBSET S : SumOf(w, s) \in Int}
<1>1. ASSUME NEW s \in SUBSET S, \A t \in SUBSET s : t # s => t \in Good
      PROVE  s \in Good
  <2>1. CASE s = {}
    BY <2>1, SumOfEmpty
  <2>2. CASE s # {}
    <3>1. Pick(s) \in s /\ s \ {Pick(s)} \in SUBSET s /\ s \ {Pick(s)} # s
      BY <2>2, PickIsIn
    <3>2. SumOf(w, s \ {Pick(s)}) \in Int /\ w[Pick(s)] \in Int
      BY <1>1, <3>1
    <3>3. SumOf(w, s) = w[Pick(s)] + SumOf(w, s \ {Pick(s)})
      BY <2>2, FS_Subset, SumOfPick
    <3>4. QED BY <3>2, <3>3
  <2>3. QED BY <2>1, <2>2
<1>2. SUBSET S \subseteq Good
  <2> HIDE DEF Good
  <2>1. QED BY <1>1, SetInduction
<1>3. QED
  BY <1>2

LEMMA SumOfNat ==
  ASSUME NEW w, NEW S, IsFiniteSet(S), \A x \in S : w[x] \in Nat
  PROVE  SumOf(w, S) \in Nat
<1> DEFINE Good == {s \in SUBSET S : SumOf(w, s) \in Nat}
<1>1. ASSUME NEW s \in SUBSET S, \A t \in SUBSET s : t # s => t \in Good
      PROVE  s \in Good
  <2>1. CASE s = {}
    BY <2>1, SumOfEmpty
  <2>2. CASE s # {}
    <3>1. Pick(s) \in s /\ s \ {Pick(s)} \in SUBSET s /\ s \ {Pick(s)} # s
      BY <2>2, PickIsIn
    <3>2. SumOf(w, s \ {Pick(s)}) \in Nat /\ w[Pick(s)] \in Nat
      BY <1>1, <3>1
    <3>3. SumOf(w, s) = w[Pick(s)] + SumOf(w, s \ {Pick(s)})
      BY <2>2, FS_Subset, SumOfPick
    <3>4. QED BY <3>2, <3>3
  <2>3. QED BY <2>1, <2>2
<1>2. SUBSET S \subseteq Good
  <2> HIDE DEF Good
  <2>1. QED BY <1>1, SetInduction
<1>3. QED
  BY <1>2

LEMMA SumOfZeros ==
  ASSUME NEW w, NEW S, IsFiniteSet(S), \A x \in S : w[x] = 0
  PROVE  SumOf(w, S) = 0
<1> DEFINE Good == {s \in SUBSET S : SumOf(w, s) = 0}
<1>1. ASSUME NEW s \in SUBSET S, \A t \in SUBSET s : t # s => t \in Good
      PROVE  s \in Good
  <2>1. CASE s = {}
    BY <2>1, SumOfEmpty
  <2>2. CASE s # {}
    <3>1. Pick(s) \in s /\ s \ {Pick(s)} \in SUBSET s /\ s \ {Pick(s)} # s
      BY <2>2, PickIsIn
    <3>2. SumOf(w, s \ {Pick(s)}) = 0 /\ w[Pick(s)] = 0
      BY <1>1, <3>1
    <3>3. SumOf(w, s) = w[Pick(s)] + SumOf(w, s \ {Pick(s)})
      BY <2>2, FS_Subset, SumOfPick
    <3>4. QED BY <3>2, <3>3
  <2>3. QED BY <2>1, <2>2
<1>2. SUBSET S \subseteq Good
  <2> HIDE DEF Good
  <2>1. QED BY <1>1, SetInduction
<1>3. QED
  BY <1>2

\* Any member may be taken first.
LEMMA SumOfRemove ==
  ASSUME NEW w, NEW S, IsFiniteSet(S), \A x \in S : w[x] \in Int, NEW x \in S
  PROVE  SumOf(w, S) = w[x] + SumOf(w, S \ {x})
<1> DEFINE Good == {s \in SUBSET S : \A y \in s : SumOf(w, s) = w[y] + SumOf(w, s \ {y})}
<1>1. ASSUME NEW s \in SUBSET S, \A t \in SUBSET s : t # s => t \in Good
      PROVE  s \in Good
  <2>1. SUFFICES ASSUME NEW y \in s
                 PROVE  SumOf(w, s) = w[y] + SumOf(w, s \ {y})
    OBVIOUS
  <2> DEFINE p == Pick(s)
  <2>2. p \in s /\ IsFiniteSet(s)
    BY FS_Subset, PickIsIn
  <2>3. SumOf(w, s) = w[p] + SumOf(w, s \ {p})
    BY <2>2, SumOfPick
  <2>4. CASE y = p
    BY <2>3, <2>4
  <2>5. CASE y # p
    <3> HIDE DEF p
    <3>1. /\ s \ {p} \in SUBSET s /\ s \ {p} # s /\ y \in s \ {p}
          /\ s \ {y} \in SUBSET s /\ s \ {y} # s /\ p \in s \ {y}
      BY <2>2, <2>5
    <3>2. /\ SumOf(w, s \ {p}) = w[y] + SumOf(w, (s \ {p}) \ {y})
          /\ SumOf(w, s \ {y}) = w[p] + SumOf(w, (s \ {y}) \ {p})
      BY <1>1, <3>1
    <3>3. (s \ {p}) \ {y} = (s \ {y}) \ {p}
      OBVIOUS
    <3>4. SumOf(w, (s \ {p}) \ {y}) \in Int
      <4>1. IsFiniteSet((s \ {p}) \ {y}) BY <2>2, FS_Subset
      <4>2. QED BY <4>1, SumOfInt
    <3>5. w[p] \in Int /\ w[y] \in Int
      BY <2>2
    <3>6. SumOf(w, (s \ {y}) \ {p}) = SumOf(w, (s \ {p}) \ {y})
      BY <3>3
    <3>7. SumOf(w, s) = w[p] + (w[y] + SumOf(w, (s \ {p}) \ {y}))
      BY <2>3, <3>2
    <3>8. SumOf(w, s \ {y}) = w[p] + SumOf(w, (s \ {p}) \ {y})
      BY <3>2, <3>6
    <3>9. QED
      BY <3>4, <3>5, <3>7, <3>8
  <2>6. QED BY <2>4, <2>5
<1>2. SUBSET S \subseteq Good
  <2> HIDE DEF Good
  <2>1. QED BY <1>1, SetInduction
<1>3. QED
  BY <1>2

LEMMA SumOfAdd ==
  ASSUME NEW w, NEW S, IsFiniteSet(S), NEW x, x \notin S, w[x] \in Int,
         \A y \in S : w[y] \in Int
  PROVE  SumOf(w, S \cup {x}) = SumOf(w, S) + w[x]
<1>1. IsFiniteSet(S \cup {x}) /\ (S \cup {x}) \ {x} = S
  BY FS_AddElement
<1>2. SumOf(w, S) \in Int
  BY SumOfInt
<1>3. \A y \in S \cup {x} : w[y] \in Int
  OBVIOUS
<1>4. SumOf(w, S \cup {x}) = w[x] + SumOf(w, (S \cup {x}) \ {x})
  BY <1>1, <1>3, SumOfRemove
<1>5. SumOf(w, S \cup {x}) = w[x] + SumOf(w, S)
  BY <1>1, <1>4
<1>6. QED
  BY <1>2, <1>5

\* Of naturals, a part sums to no more than the whole.
LEMMA SumOfPart ==
  ASSUME NEW w, NEW S, IsFiniteSet(S), \A x \in S : w[x] \in Nat, NEW T \in SUBSET S
  PROVE  SumOf(w, T) <= SumOf(w, S)
<1> DEFINE Good == {s \in SUBSET S : SumOf(w, s \cap T) <= SumOf(w, s)}
<1>1. ASSUME NEW s \in SUBSET S, \A t \in SUBSET s : t # s => t \in Good
      PROVE  s \in Good
  <2>1. CASE s = {}
    BY <2>1, SumOfEmpty, s \cap T = {}
  <2>2. CASE s # {}
    <3> DEFINE p == Pick(s)
    <3>1. p \in s /\ s \ {p} \in SUBSET s /\ s \ {p} # s
      BY <2>2, PickIsIn
    <3> HIDE DEF p
    <3>2. IsFiniteSet(s) /\ IsFiniteSet(s \ {p}) /\ IsFiniteSet(s \cap T) /\ IsFiniteSet((s \ {p}) \cap T)
      BY FS_Subset
    <3>3. /\ SumOf(w, s) \in Nat /\ SumOf(w, s \ {p}) \in Nat
          /\ SumOf(w, s \cap T) \in Nat /\ SumOf(w, (s \ {p}) \cap T) \in Nat
      BY <3>2, SumOfNat
    <3>4. SumOf(w, (s \ {p}) \cap T) <= SumOf(w, s \ {p})
      BY <1>1, <3>1
    <3>5. SumOf(w, s) = w[p] + SumOf(w, s \ {p})
      BY <3>1, <3>2, SumOfRemove
    <3>6. CASE p \in T
      <4>1. (s \cap T) \ {p} = (s \ {p}) \cap T /\ p \in s \cap T
        BY <3>1, <3>6
      <4>2. SumOf(w, s \cap T) = w[p] + SumOf(w, (s \cap T) \ {p})
        BY <3>2, <4>1, SumOfRemove
      <4>3. SumOf(w, s \cap T) = w[p] + SumOf(w, (s \ {p}) \cap T)
        BY <4>1, <4>2
      <4>4. w[p] \in Nat BY <3>1
      <4>5. SumOf(w, s \cap T) <= SumOf(w, s)
        BY <3>3, <3>4, <3>5, <4>3, <4>4
      <4>6. QED BY <4>5
    <3>7. CASE p \notin T
      <4>1. s \cap T = (s \ {p}) \cap T
        BY <3>7
      <4>2. w[p] \in Nat BY <3>1
      <4>3. SumOf(w, (s \ {p}) \cap T) <= SumOf(w, s)
        BY <3>3, <3>4, <3>5, <4>2
      <4>4. QED BY <4>1, <4>3
    <3>8. QED BY <3>6, <3>7
  <2>3. QED BY <2>1, <2>2
<1>2. SUBSET S \subseteq Good
  <2> HIDE DEF Good
  <2>1. QED BY <1>1, SetInduction
<1>3. S \in Good /\ S \cap T = T
  BY <1>2
<1>4. QED
  BY <1>3

\* A set sums to a part of it and the rest.
LEMMA SumOfSplit ==
  ASSUME NEW w, NEW S, IsFiniteSet(S), \A x \in S : w[x] \in Int, NEW T \in SUBSET S
  PROVE  SumOf(w, S) = SumOf(w, T) + SumOf(w, S \ T)
<1> DEFINE Good == {t \in SUBSET T : SumOf(w, S) = SumOf(w, t) + SumOf(w, S \ t)}
<1>1. ASSUME NEW t \in SUBSET T, \A u \in SUBSET t : u # t => u \in Good
      PROVE  t \in Good
  <2>1. CASE t = {}
    <3>1. SumOf(w, t) = 0
      BY <2>1, SumOfEmpty
    <3>2. SumOf(w, S \ t) = SumOf(w, S)
      <4>1. S \ t = S BY <2>1
      <4>2. QED BY <4>1
    <3>3. SumOf(w, S) \in Int
      BY SumOfInt
    <3>4. QED
      BY <3>1, <3>2, <3>3
  <2>2. CASE t # {}
    <3>1. PICK x \in t : TRUE
      BY <2>2
    <3> DEFINE u == t \ {x}
    <3>2. u \in SUBSET t /\ u # t /\ x \in S \ u /\ t \in SUBSET S /\ u \in SUBSET S
      BY <3>1
    <3>3. (S \ u) \ {x} = S \ t
      BY <3>1
    <3> HIDE DEF u
    <3>4. SumOf(w, S) = SumOf(w, u) + SumOf(w, S \ u)
      BY <1>1, <3>2
    <3>5. IsFiniteSet(S \ u) /\ IsFiniteSet(t) /\ IsFiniteSet(u) /\ IsFiniteSet(S \ t)
      BY <3>2, FS_Subset
    <3>6. SumOf(w, S \ u) = w[x] + SumOf(w, S \ t)
      <4>1. SumOf(w, S \ u) = w[x] + SumOf(w, (S \ u) \ {x})
        BY <3>2, <3>5, SumOfRemove
      <4>2. QED BY <3>3, <4>1
    <3>7. SumOf(w, t) = w[x] + SumOf(w, u)
      BY <3>1, <3>2, <3>5, SumOfRemove DEF u
    <3>8. SumOf(w, u) \in Int /\ SumOf(w, S \ t) \in Int /\ w[x] \in Int
      BY <3>2, <3>5, SumOfInt
    <3>9. SumOf(w, S) = SumOf(w, t) + SumOf(w, S \ t)
      BY <3>4, <3>6, <3>7, <3>8
    <3>10. QED
      BY <3>9
  <2>3. QED BY <2>1, <2>2
<1>2. SUBSET T \subseteq Good
  <2> HIDE DEF Good
  <2>1. IsFiniteSet(T) BY FS_Subset
  <2>2. QED BY <1>1, <2>1, SetInduction
<1>3. QED
  BY <1>2

\* A sum depends on the weights of its members only.
LEMMA SumOfSame ==
  ASSUME NEW v, NEW w, NEW S, IsFiniteSet(S), \A x \in S : v[x] = w[x]
  PROVE  SumOf(v, S) = SumOf(w, S)
<1> DEFINE Good == {s \in SUBSET S : SumOf(v, s) = SumOf(w, s)}
<1>1. ASSUME NEW s \in SUBSET S, \A t \in SUBSET s : t # s => t \in Good
      PROVE  s \in Good
  <2>1. CASE s = {}
    BY <2>1, SumOfEmpty
  <2>2. CASE s # {}
    <3>1. Pick(s) \in s /\ s \ {Pick(s)} \in SUBSET s /\ s \ {Pick(s)} # s
      BY <2>2, PickIsIn
    <3>2. SumOf(v, s \ {Pick(s)}) = SumOf(w, s \ {Pick(s)}) /\ v[Pick(s)] = w[Pick(s)]
      BY <1>1, <3>1
    <3>3. IsFiniteSet(s)
      BY FS_Subset
    <3>4. /\ SumOf(v, s) = v[Pick(s)] + SumOf(v, s \ {Pick(s)})
          /\ SumOf(w, s) = w[Pick(s)] + SumOf(w, s \ {Pick(s)})
      BY <2>2, <3>3, SumOfPick
    <3>5. QED BY <3>2, <3>4
  <2>3. QED BY <2>1, <2>2
<1>2. SUBSET S \subseteq Good
  <2> HIDE DEF Good
  <2>1. QED BY <1>1, SetInduction
<1>3. QED
  BY <1>2

=============================================================================
