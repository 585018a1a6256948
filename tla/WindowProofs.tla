---------------------------- MODULE WindowProofs ---------------------------
(***************************************************************************)
(* Proofs about the window for any readings, any stamps and any number of  *)
(* snapshots: silence decides nothing, a suspicion sticks, the order of    *)
(* arrival is irrelevant, the energy is an integral, and the loop over the *)
(* clocks finds the first drop.  Sums and loops are recursive functions;   *)
(* what they compute is proved by induction over sets, of numbers or of    *)
(* subsets, in place of the library's theorems about operators.            *)
(***************************************************************************)
EXTENDS Window, FiniteSetTheorems, WellFoundedInduction, TLAPS

(***************************************************************************)
(* Series.                                                                 *)
(***************************************************************************)
IsSeries(s) == s \in Seq(Snapshots)

LEMMA SeriesFacts ==
    ASSUME NEW s, IsSeries(s)
    PROVE  /\ DOMAIN s = 1..Len(s) /\ Len(s) \in Nat /\ IsFiniteSet(DOMAIN s)
           /\ \A p \in DOMAIN s : s[p] \in Snapshots /\ s[p].time \in Nat
<1>1. DOMAIN s = 1..Len(s) /\ Len(s) \in Nat
  BY DEF IsSeries
<1>2. \A p \in DOMAIN s : s[p] \in Snapshots
  BY DEF IsSeries
<1>3. \A x \in Snapshots : x.time \in Nat
  BY WindowAssumption DEF Snapshots
<1> QED BY <1>1, <1>2, <1>3, FS_Interval

\* The series grows at its end.
LEMMA GivenFacts ==
    ASSUME NEW s, IsSeries(s), NEW x \in Snapshots
    PROVE  /\ IsSeries(Append(s, x)) /\ Len(Append(s, x)) = Len(s) + 1
           /\ DOMAIN Append(s, x) = DOMAIN s \cup {Len(s) + 1} /\ Len(s) + 1 \notin DOMAIN s
           /\ \A p \in DOMAIN s : Append(s, x)[p] = s[p] /\ p < Len(s) + 1
           /\ Append(s, x)[Len(s) + 1] = x
BY DEF IsSeries

LEMMA SeriesInit == Init => IsSeries(series)
BY DEF Init, IsSeries

LEMMA SeriesStep ==
    ASSUME IsSeries(series), [Next]_series
    PROVE  IsSeries(series)'
BY GivenFacts DEF Next, Given, IsSeries

(***************************************************************************)
(* Induction.                                                              *)
(***************************************************************************)
LEMMA LeastNatural ==
    ASSUME NEW T, T \subseteq Nat, T # {}
    PROVE  \E x \in T : \A y \in T : x <= y
<1>1. PICK x \in T : \A y \in T : <<y, x>> \notin OpToRel(<, Nat)
  BY NatLessThanWellFounded, WFMin
<1>2. \A y \in T : y < x => <<y, x>> \in OpToRel(<, Nat)
  BY DEF OpToRel
<1>3. \A y \in T : ~(y < x)
  BY <1>1, <1>2, Zenon
<1> QED BY <1>3

\* Induction, for a set of numbers: a set that is not all of them would have a
\* least number outside.
LEMMA SetInduction ==
    ASSUME NEW G, 0 \in G, \A n \in Nat : n \in G => n + 1 \in G
    PROVE  Nat \subseteq G
<1> SUFFICES ASSUME ~(Nat \subseteq G) PROVE FALSE
  OBVIOUS
<1>1. PICK n \in Nat \ G : \A m \in Nat \ G : n <= m
  <2> DEFINE T == Nat \ G
  <2>1. T \subseteq Nat /\ T # {}
    OBVIOUS
  <2> HIDE DEF T
  <2>2. \E x \in T : \A y \in T : x <= y
    BY <2>1, LeastNatural
  <2> QED BY <2>2 DEF T
<1>2. n # 0 /\ n - 1 \in Nat /\ n - 1 \in G
  BY <1>1
<1> QED BY <1>1, <1>2

(***************************************************************************)
(* Sums.  SumFunctionOnSet picks one element after the other; the function *)
(* its definition chooses exists and is the only one.                      *)
(***************************************************************************)
Some(s) == CHOOSE x \in s : TRUE
Step(f, g, s) == IF s = {} THEN 0 ELSE f[Some(s)] + g[s \ {Some(s)}]
IsSum(f, S, g) == g = [s \in SUBSET S |-> Step(f, g, s)]

\* Taking out what Some gives leaves a smaller set.
LEMMA SomeFacts ==
    ASSUME NEW s, IsFiniteSet(s), s # {}
    PROVE  /\ Some(s) \in s /\ IsFiniteSet(s \ {Some(s)})
           /\ Cardinality(s) \in Nat /\ Cardinality(s) # 0
           /\ Cardinality(s \ {Some(s)}) = Cardinality(s) - 1
<1>1. Some(s) \in s
  BY DEF Some
<1> QED BY <1>1, FS_RemoveElement, FS_CardinalityType, FS_EmptySet

LEMMA SumExists ==
    ASSUME NEW S, IsFiniteSet(S), NEW f
    PROVE  \E g : IsSum(f, S, g)
<1> DEFINE Small(n) == {s \in SUBSET S : Cardinality(s) <= n}
           Upto(n, g) == g = [s \in Small(n) |-> Step(f, g, s)]
           G == {n \in Nat : \E g : Upto(n, g)}
<1>1. \A s \in SUBSET S : IsFiniteSet(s) /\ Cardinality(s) \in Nat
  BY FS_Subset, FS_CardinalityType
<1>2. 0 \in G
  <2>1. \A s \in Small(0) : s = {}
    BY <1>1, FS_EmptySet
  <2>2. Upto(0, [s \in Small(0) |-> 0])
    BY <2>1 DEF Step
  <2> QED BY <2>2
<1>3. ASSUME NEW n \in Nat, n \in G PROVE n + 1 \in G
  <2>1. PICK g : Upto(n, g)
    BY <1>3
  <2> DEFINE h == [s \in Small(n + 1) |-> Step(f, g, s)]
  <2>2. \A s \in Small(n + 1) : s # {} => s \ {Some(s)} \in Small(n) /\ s \ {Some(s)} \in Small(n + 1)
    BY <1>1, SomeFacts
  <2>3. \A s \in Small(n) : h[s] = g[s]
    <3>1. \A s \in Small(n) : s \in Small(n + 1) /\ g[s] = Step(f, g, s)
      BY <1>1, <2>1
    <3> QED BY <3>1
  <2>4. \A s \in Small(n + 1) : Step(f, g, s) = Step(f, h, s)
    BY <2>2, <2>3 DEF Step
  <2>5. Upto(n + 1, h)
    BY <2>4
  <2> HIDE DEF h, Upto
  <2>6. \E k : Upto(n + 1, k)
    BY <2>5
  <2> QED BY <2>6
<1>4. Nat \subseteq G
  <2> HIDE DEF G
  <2> QED BY <1>2, <1>3, SetInduction
<1>5. PICK g : Upto(Cardinality(S), g)
  BY <1>1, <1>4
<1>6. Small(Cardinality(S)) = SUBSET S
  BY FS_Subset, FS_CardinalityType
<1> QED BY <1>5, <1>6 DEF IsSum

\* Two sums agree on the subsets of both their sets.
LEMMA SumsAgree ==
    ASSUME NEW S, IsFiniteSet(S), NEW T \in SUBSET S, NEW f, NEW g, NEW h,
           IsSum(f, S, g), IsSum(f, T, h)
    PROVE  \A s \in SUBSET T : g[s] = h[s]
<1> DEFINE G == {n \in Nat : \A s \in SUBSET T : Cardinality(s) <= n => g[s] = h[s]}
<1>1. \A s \in SUBSET T : IsFiniteSet(s) /\ Cardinality(s) \in Nat
  BY FS_Subset, FS_CardinalityType
<1>2. \A s \in SUBSET T : g[s] = Step(f, g, s) /\ h[s] = Step(f, h, s)
  BY DEF IsSum
<1>3. 0 \in G
  <2>1. \A s \in SUBSET T : Cardinality(s) <= 0 => s = {}
    BY <1>1, FS_EmptySet
  <2>2. \A s \in SUBSET T : Cardinality(s) <= 0 => g[s] = h[s]
    BY <1>2, <2>1 DEF Step
  <2> QED BY <2>2
<1>4. ASSUME NEW n \in Nat, n \in G PROVE n + 1 \in G
  <2>1. ASSUME NEW s \in SUBSET T, Cardinality(s) <= n + 1, s # {} PROVE g[s] = h[s]
    <3>1. Cardinality(s \ {Some(s)}) <= n /\ s \ {Some(s)} \in SUBSET T
      BY <1>1, <2>1, SomeFacts
    <3>2. g[s \ {Some(s)}] = h[s \ {Some(s)}]
      BY <1>4, <3>1
    <3> QED BY <1>2, <2>1, <3>2 DEF Step
  <2>2. g[{}] = h[{}]
    BY <1>2 DEF Step
  <2> QED BY <2>1, <2>2
<1>5. Nat \subseteq G
  <2> HIDE DEF G
  <2> QED BY <1>3, <1>4, SetInduction
<1> QED BY <1>1, <1>5

LEMMA SumIsSum ==
    ASSUME NEW S, IsFiniteSet(S), NEW f
    PROVE  \E g : IsSum(f, S, g) /\ SumFunctionOnSet(f, S) = g[S]
<1> DEFINE g == CHOOSE g : IsSum(f, S, g)
<1>1. IsSum(f, S, g)
  BY SumExists
<1>2. SumFunctionOnSet(f, S) = g[S]
  BY DEF SumFunctionOnSet, FoldFunctionOnSet, MapThenFoldSet, IsSum, Step, Some
<1> QED BY <1>1, <1>2

\* The sum is what its definition says.
LEMMA SumDef ==
    ASSUME NEW S, IsFiniteSet(S), NEW f
    PROVE  SumFunctionOnSet(f, S) =
               IF S = {} THEN 0
               ELSE f[Some(S)] + SumFunctionOnSet(f, S \ {Some(S)})
<1>1. PICK g : IsSum(f, S, g) /\ SumFunctionOnSet(f, S) = g[S]
  BY SumIsSum
<1>2. g[S] = Step(f, g, S)
  BY <1>1 DEF IsSum
<1>3. CASE S = {}
  BY <1>1, <1>2, <1>3 DEF Step
<1>4. CASE S # {}
  <2> DEFINE T == S \ {Some(S)}
  <2>1. IsFiniteSet(T) /\ T \in SUBSET S
    BY <1>4, SomeFacts
  <2>2. PICK h : IsSum(f, T, h) /\ SumFunctionOnSet(f, T) = h[T]
    BY <2>1, SumIsSum
  <2>3. g[T] = h[T]
    <3> HIDE DEF T
    <3> QED BY <1>1, <2>1, <2>2, SumsAgree
  <2> QED BY <1>1, <1>2, <1>4, <2>2, <2>3 DEF Step
<1> QED BY <1>3, <1>4

(***************************************************************************)
(* Sums of natural numbers.                                                *)
(***************************************************************************)
Numbers(f, S) == \A x \in S : f[x] \in Nat

LEMMA SumType ==
    ASSUME NEW S, IsFiniteSet(S), NEW f, Numbers(f, S)
    PROVE  SumFunctionOnSet(f, S) \in Nat
<1> DEFINE Sum(T) == SumFunctionOnSet(f, T)
           G == {n \in Nat : \A s \in SUBSET S : Cardinality(s) <= n => Sum(s) \in Nat}
<1>1. \A s \in SUBSET S : IsFiniteSet(s) /\ Cardinality(s) \in Nat
  BY FS_Subset, FS_CardinalityType
<1>2. \A s \in SUBSET S : Sum(s) = IF s = {} THEN 0 ELSE f[Some(s)] + Sum(s \ {Some(s)})
  BY <1>1, SumDef
<1> HIDE DEF Sum
<1>3. 0 \in G
  BY <1>1, <1>2, FS_EmptySet
<1>4. ASSUME NEW n \in Nat, n \in G PROVE n + 1 \in G
  <2>1. ASSUME NEW s \in SUBSET S, Cardinality(s) <= n + 1, s # {} PROVE Sum(s) \in Nat
    <3>1. /\ Cardinality(s \ {Some(s)}) <= n /\ s \ {Some(s)} \in SUBSET S
          /\ Some(s) \in S
      BY <1>1, <2>1, SomeFacts
    <3>2. Sum(s \ {Some(s)}) \in Nat /\ f[Some(s)] \in Nat
      BY <1>4, <3>1 DEF Numbers
    <3> QED BY <1>2, <2>1, <3>2
  <2>2. \A s \in SUBSET S : s = {} => Sum(s) = 0
    BY <1>2, Zenon
  <2> QED BY <2>1, <2>2
<1>5. Nat \subseteq G
  <2> HIDE DEF G
  <2> QED BY <1>3, <1>4, SetInduction
<1> QED BY <1>1, <1>5 DEF Sum

\* Any element can be taken out first.
LEMMA SumTake ==
    ASSUME NEW S, IsFiniteSet(S), NEW f, Numbers(f, S), NEW y \in S
    PROVE  SumFunctionOnSet(f, S) = f[y] + SumFunctionOnSet(f, S \ {y})
<1> DEFINE Sum(T) == SumFunctionOnSet(f, T)
           G == {n \in Nat : \A s \in SUBSET S : Cardinality(s) <= n =>
                                \A z \in s : Sum(s) = f[z] + Sum(s \ {z})}
<1>1. \A s \in SUBSET S : IsFiniteSet(s) /\ Cardinality(s) \in Nat
  BY FS_Subset, FS_CardinalityType
<1>2. \A s \in SUBSET S : Sum(s) = IF s = {} THEN 0 ELSE f[Some(s)] + Sum(s \ {Some(s)})
  BY <1>1, SumDef
<1>3. \A s \in SUBSET S : Sum(s) \in Nat
  BY <1>1, SumType DEF Numbers
<1> HIDE DEF Sum
<1>4. 0 \in G
  BY <1>1, FS_EmptySet
<1>5. ASSUME NEW n \in Nat, n \in G PROVE n + 1 \in G
  <2>1. ASSUME NEW s \in SUBSET S, Cardinality(s) <= n + 1, NEW z \in s
        PROVE  Sum(s) = f[z] + Sum(s \ {z})
    <3> DEFINE x == Some(s)
               t == s \ {x}
               u == s \ {z}
               r == t \ {z}
    <3>1. /\ x \in s /\ Cardinality(t) <= n /\ t \in SUBSET S
      BY <1>1, <2>1, SomeFacts
    <3>2. Cardinality(u) <= n /\ u \in SUBSET S
      BY <1>1, <2>1, FS_RemoveElement
    <3>3. Sum(s) = f[x] + Sum(t)
      BY <1>2, <2>1
    <3> HIDE DEF x
    <3>4. CASE z = x
      BY <3>3, <3>4
    <3>5. CASE z # x
      <4>1. z \in t /\ x \in u /\ u \ {x} = r /\ r \in SUBSET S
        BY <3>1, <3>5
      <4> HIDE DEF t, u, r
      <4>2. Sum(t) = f[z] + Sum(t \ {z})
        BY <1>5, <3>1, <4>1
      <4>3. Sum(u) = f[x] + Sum(u \ {x})
        BY <1>5, <3>2, <4>1
      <4>4. f[x] \in Nat /\ f[z] \in Nat /\ Sum(r) \in Nat
        BY <1>3, <2>1, <3>1, <4>1 DEF Numbers
      <4>5. Sum(t) = f[z] + Sum(r) /\ Sum(u) = f[x] + Sum(r)
        BY <4>1, <4>2, <4>3 DEF r
      <4>6. Sum(s) = f[z] + Sum(u)
        BY <3>3, <4>4, <4>5
      <4> QED BY <4>6 DEF u
    <3> QED BY <3>4, <3>5
  <2> QED BY <2>1
<1>6. Nat \subseteq G
  <2> HIDE DEF G
  <2> QED BY <1>4, <1>5, SetInduction
<1> QED BY <1>1, <1>6 DEF Sum

\* Induction over a finite set, for a set of its subsets.
LEMMA SubsetInduction ==
    ASSUME NEW S, IsFiniteSet(S), NEW Good, {} \in Good,
           \A s \in SUBSET S, x \in S : x \notin s /\ s \in Good => s \cup {x} \in Good
    PROVE  S \in Good
<1> DEFINE G == {n \in Nat : \A s \in SUBSET S : Cardinality(s) <= n => s \in Good}
<1>1. \A s \in SUBSET S : IsFiniteSet(s) /\ Cardinality(s) \in Nat
  BY FS_Subset, FS_CardinalityType
<1>2. 0 \in G
  <2>1. \A s \in SUBSET S : Cardinality(s) <= 0 => s = {}
    BY <1>1, FS_EmptySet
  <2> QED BY <2>1
<1>3. ASSUME NEW n \in Nat, n \in G PROVE n + 1 \in G
  <2>1. ASSUME NEW s \in SUBSET S, Cardinality(s) <= n + 1, s # {} PROVE s \in Good
    <3> DEFINE x == Some(s)
               t == s \ {x}
    <3>1. x \in s /\ Cardinality(t) <= n /\ t \in SUBSET S
      BY <1>1, <2>1, SomeFacts
    <3> HIDE DEF x
    <3>2. t \in Good /\ x \in S /\ x \notin t /\ t \cup {x} = s
      BY <1>3, <2>1, <3>1
    <3> HIDE DEF t
    <3> QED BY <3>1, <3>2
  <2> QED BY <2>1
<1>4. Nat \subseteq G
  <2> HIDE DEF G
  <2> QED BY <1>2, <1>3, SetInduction
<1> QED BY <1>1, <1>4

\* The sum over two disjoint sets.
LEMMA SumUnion ==
    ASSUME NEW S, NEW T, IsFiniteSet(S), IsFiniteSet(T), S \cap T = {},
           NEW f, Numbers(f, S \cup T)
    PROVE  SumFunctionOnSet(f, S \cup T) = SumFunctionOnSet(f, S) + SumFunctionOnSet(f, T)
<1> DEFINE Sum(R) == SumFunctionOnSet(f, R)
           Good == {s \in SUBSET S : Sum(s \cup T) = Sum(s) + Sum(T)}
<1>1. \A s \in SUBSET (S \cup T) : IsFiniteSet(s) /\ Sum(s) \in Nat
  BY FS_Union, FS_Subset, SumType DEF Numbers
<1>2. \A s \in SUBSET (S \cup T) : \A y \in s : Sum(s) = f[y] + Sum(s \ {y})
  BY <1>1, SumTake DEF Numbers
<1>3. Sum({}) = 0
  BY FS_EmptySet, SumDef
<1> HIDE DEF Sum
<1>4. {} \in Good
  <2>1. {} \cup T = T /\ Sum(T) \in Nat
    BY <1>1
  <2> QED BY <1>3, <2>1
<1>5. ASSUME NEW s \in SUBSET S, NEW x \in S, x \notin s, s \in Good PROVE s \cup {x} \in Good
  <2> DEFINE t == s \cup {x}
  <2>1. /\ t \in SUBSET (S \cup T) /\ t \cup T \in SUBSET (S \cup T)
        /\ x \in t /\ x \in t \cup T
        /\ t \ {x} = s /\ (t \cup T) \ {x} = s \cup T
    BY <1>5
  <2>2. Sum(t) = f[x] + Sum(s) /\ Sum(t \cup T) = f[x] + Sum(s \cup T)
    <3> HIDE DEF t
    <3>1. Sum(t) = f[x] + Sum(t \ {x}) /\ Sum(t \cup T) = f[x] + Sum((t \cup T) \ {x})
      BY <1>2, <2>1
    <3> QED BY <2>1, <3>1
  <2>3. f[x] \in Nat /\ Sum(s) \in Nat /\ Sum(T) \in Nat
    BY <1>1 DEF Numbers
  <2>4. Sum(s \cup T) = Sum(s) + Sum(T)
    BY <1>5
  <2>5. Sum(t \cup T) = Sum(t) + Sum(T)
    BY <2>2, <2>3, <2>4
  <2> QED BY <2>5
<1>6. S \in Good
  <2> HIDE DEF Good
  <2> QED BY <1>4, <1>5, SubsetInduction
<1> QED BY <1>6 DEF Sum

\* The sum over as many equal values.
LEMMA SumConstant ==
    ASSUME NEW S, IsFiniteSet(S), NEW f, NEW w \in Nat, \A x \in S : f[x] = w
    PROVE  SumFunctionOnSet(f, S) = w * Cardinality(S)
<1> DEFINE Sum(R) == SumFunctionOnSet(f, R)
           Good == {s \in SUBSET S : Sum(s) = w * Cardinality(s)}
<1>1. Numbers(f, S)
  BY DEF Numbers
<1>2. Sum({}) = 0 /\ Cardinality({}) = 0
  BY FS_EmptySet, SumDef
<1>3. \A s \in SUBSET S : IsFiniteSet(s) /\ Cardinality(s) \in Nat /\ Sum(s) \in Nat
  BY <1>1, FS_Subset, FS_CardinalityType, SumType DEF Numbers
<1>4. \A s \in SUBSET S : \A y \in s : Sum(s) = f[y] + Sum(s \ {y})
  BY <1>1, <1>3, SumTake DEF Numbers
<1> HIDE DEF Sum
<1>5. {} \in Good
  BY <1>2
<1>6. ASSUME NEW s \in SUBSET S, NEW x \in S, x \notin s, s \in Good PROVE s \cup {x} \in Good
  <2> DEFINE t == s \cup {x}
  <2>1. t \in SUBSET S /\ x \in t /\ t \ {x} = s
    BY <1>6
  <2>2. Cardinality(t) = Cardinality(s) + 1
    BY <1>3, <1>6, FS_AddElement
  <2> HIDE DEF t
  <2>3. Sum(t) = w + Sum(s)
    BY <1>4, <2>1
  <2>4. Sum(s) = w * Cardinality(s) /\ Cardinality(s) \in Nat
    BY <1>3, <1>6
  <2>5. w * (Cardinality(s) + 1) = w * Cardinality(s) + w
    BY <2>4
  <2>6. Sum(t) = w * Cardinality(t)
    BY <2>2, <2>3, <2>4, <2>5
  <2>7. t \in Good
    BY <2>1, <2>6
  <2> QED BY <2>7 DEF t
<1>7. S \in Good
  <2> HIDE DEF Good
  <2> QED BY <1>5, <1>6, SubsetInduction
<1> QED BY <1>7 DEF Sum

\* The sum of the same values at other places.
LEMMA SumMoved ==
    ASSUME NEW S, IsFiniteSet(S), NEW f, Numbers(f, S),
           NEW T, IsFiniteSet(T), NEW g, NEW h \in [T -> S],
           \A x, y \in T : h[x] = h[y] => x = y, \A y \in S : \E x \in T : h[x] = y,
           \A x \in T : g[x] = f[h[x]]
    PROVE  SumFunctionOnSet(g, T) = SumFunctionOnSet(f, S)
<1> DEFINE Image(t) == {h[x] : x \in t}
           F(R) == SumFunctionOnSet(f, R)
           H(R) == SumFunctionOnSet(g, R)
           Good == {t \in SUBSET T : H(t) = F(Image(t))}
<1>1. \A x \in T : h[x] \in S /\ g[x] = f[h[x]] /\ g[x] \in Nat
  BY DEF Numbers
<1>2. \A s \in SUBSET S : IsFiniteSet(s) /\ \A y \in s : F(s) = f[y] + F(s \ {y})
  BY FS_Subset, SumTake DEF Numbers
<1>3. \A t \in SUBSET T : IsFiniteSet(t) /\ \A y \in t : H(t) = g[y] + H(t \ {y})
  BY <1>1, FS_Subset, SumTake DEF Numbers
<1>4. F({}) = 0 /\ H({}) = 0
  BY FS_EmptySet, SumDef
<1> HIDE DEF F, H
<1>5. {} \in Good
  <2>1. Image({}) = {}
    OBVIOUS
  <2> QED BY <1>4, <2>1
<1>6. ASSUME NEW s \in SUBSET T, NEW x \in T, x \notin s, s \in Good PROVE s \cup {x} \in Good
  <2> DEFINE t == s \cup {x}
  <2>1. t \in SUBSET T /\ x \in t /\ t \ {x} = s
    BY <1>6
  <2>2. Image(t) \in SUBSET S /\ h[x] \in Image(t) /\ Image(t) \ {h[x]} = Image(s)
    BY <1>1, <1>6
  <2>3. H(s) = F(Image(s))
    BY <1>6
  <2> HIDE DEF t, Image
  <2>4. H(t) = g[x] + H(s) /\ F(Image(t)) = f[h[x]] + F(Image(s))
    BY <1>2, <1>3, <2>1, <2>2
  <2>5. H(t) = F(Image(t))
    BY <1>1, <2>3, <2>4
  <2>6. t \in Good
    BY <2>1, <2>5
  <2> QED BY <2>6 DEF t
<1>7. T \in Good
  <2> HIDE DEF Good
  <2> QED BY <1>5, <1>6, SubsetInduction
<1>8. Image(T) = S
  <2>1. \A y \in S : \E x \in T : y = h[x]
    OBVIOUS
  <2> QED BY <1>1, <2>1
<1>9. H(T) = F(Image(T))
  <2> HIDE DEF Image
  <2> QED BY <1>7
<1> QED BY <1>8, <1>9 DEF F, H

(***************************************************************************)
(* The first of several positions.                                         *)
(***************************************************************************)
LEMMA FirstExists ==
    ASSUME NEW s, IsSeries(s), NEW drops, drops \subseteq DOMAIN s, drops # {}
    PROVE  \E p \in drops : \A q \in drops \ {p} : Earlier(s, p, q)
<1> DEFINE stamps == {s[p].time : p \in drops}
<1>1. stamps \subseteq Nat /\ stamps # {}
  BY SeriesFacts
<1>2. PICK t \in stamps : \A u \in stamps : t <= u
  BY <1>1, LeastNatural
<1> DEFINE firsts == {p \in drops : s[p].time = t}
<1>3. firsts \subseteq Nat /\ firsts # {}
  BY SeriesFacts
<1>4. PICK p \in firsts : \A q \in firsts : p <= q
  BY <1>3, LeastNatural
<1>5. ASSUME NEW q \in drops \ {p} PROVE Earlier(s, p, q)
  <2>1. /\ p \in Nat /\ q \in Nat /\ s[p].time \in Nat /\ s[q].time \in Nat
        /\ s[p].time <= s[q].time /\ (s[q].time = s[p].time => p <= q) /\ p # q
    BY <1>2, <1>4, <1>5, SeriesFacts
  <2> QED BY <2>1 DEF Earlier
<1> QED BY <1>4, <1>5

LEMMA FirstFacts ==
    ASSUME NEW s, IsSeries(s), NEW drops, drops \subseteq DOMAIN s, drops # {}
    PROVE  /\ First(s, drops) \in drops
           /\ \A q \in drops \ {First(s, drops)} : Earlier(s, First(s, drops), q)
BY FirstExists DEF First

\* There is only one.
LEMMA FirstUnique ==
    ASSUME NEW s, IsSeries(s), NEW drops, drops \subseteq DOMAIN s, NEW p \in drops,
           \A q \in drops \ {p} : Earlier(s, p, q)
    PROVE  First(s, drops) = p
<1>1. /\ First(s, drops) \in drops
      /\ \A q \in drops \ {First(s, drops)} : Earlier(s, First(s, drops), q)
  BY FirstFacts
<1>2. \A q \in drops : q \in Nat /\ s[q].time \in Nat
  BY SeriesFacts
<1>3. \A q \in drops : ~(Earlier(s, p, q) /\ Earlier(s, q, p))
  BY <1>2 DEF Earlier
<1> QED BY <1>1, <1>3

(***************************************************************************)
(* A silent snapshot.                                                      *)
(***************************************************************************)
LEMMA SilentMeasurements ==
    ASSUME NEW s, IsSeries(s), NEW x \in Snapshots, Silent(x.gpu),
           NEW field \in {"clock", "temperature", "power"}
    PROVE  Measurements(Append(s, x), field) = Measurements(s, field)
<1> DEFINE t == Append(s, x)
           P(u) == {p \in GpuSamples(u) : Supported(u[p].gpu[field])}
<1>1. /\ DOMAIN t = DOMAIN s \cup {Len(s) + 1} /\ \A p \in DOMAIN s : t[p] = s[p]
      /\ t[Len(s) + 1] = x
  BY GivenFacts
<1>2. x.gpu.present => ~Supported(x.gpu[field])
  BY DEF Silent
<1> HIDE DEF t
<1>3. P(t) = P(s)
  BY <1>1, <1>2 DEF GpuSamples
<1>4. \A p \in P(s) : t[p].gpu[field] = s[p].gpu[field]
  BY <1>1 DEF GpuSamples
<1>5. Measurements(t, field) = [p \in P(t) |-> t[p].gpu[field]]
  BY DEF Measurements
<1>6. Measurements(s, field) = [p \in P(s) |-> s[p].gpu[field]]
  BY DEF Measurements
<1>7. Measurements(t, field) = Measurements(s, field)
  BY <1>3, <1>4, <1>5, <1>6
<1> QED BY <1>7 DEF t

Reasons(s) == Active(s, Reported(s))

LEMMA VerdictFacts ==
    ASSUME NEW s
    PROVE  /\ Reasons(s) # {} => SuspectedThrottling(s).state = "suspected"
           /\ Reasons(s) = {} => SuspectedThrottling(s) = ClockVerdict(s, Reported(s))
BY DEF SuspectedThrottling, Reasons, Verdict

\* The state depends on the number of clocks and on the drop.
StateOf(count, drop) ==
    IF count < 2 THEN "unknown"
    ELSE IF ~drop.present THEN "not_suspected"
    ELSE IF Hot(drop) \/ NearLimit(drop) THEN "suspected"
    ELSE IF Idle(drop) THEN "not_suspected" ELSE "unknown"
LEMMA StateFacts ==
    ASSUME NEW s, NEW reported
    PROVE  ClockVerdict(s, reported).state =
               StateOf(Cardinality(Clocked(s)), SubstantialClockDrop(s))
<1> DEFINE count == Cardinality(Clocked(s))
           drop == SubstantialClockDrop(s)
<1>1. \A a, b, c : Verdict(a, b, c).state = a
  BY DEF Verdict
<1> QED BY <1>1, Zenon DEF ClockVerdict, Judged, StateOf

\* Appending changes nothing among the snapshots there are.
LEMMA EarlierStays ==
    ASSUME NEW s, IsSeries(s), NEW x \in Snapshots, NEW p \in DOMAIN s, NEW q \in DOMAIN s
    PROVE  Earlier(Append(s, x), p, q) <=> Earlier(s, p, q)
BY GivenFacts DEF Earlier

LEMMA ClockedFacts ==
    ASSUME NEW s
    PROVE  /\ Clocked(s) \subseteq DOMAIN s
           /\ Clocked(s) = {p \in DOMAIN s : s[p].gpu.present /\ Supported(s[p].gpu.clock)}
BY DEF Clocked, Measurements, GpuSamples

\* The first drop of a larger series is that of the smaller when the drops among
\* the snapshots there are are the same and nothing precedes them.
LEMMA SameDrop ==
    ASSUME NEW s, IsSeries(s), NEW x \in Snapshots,
           Drops(Append(s, x)) = Drops(s)
    PROVE  SubstantialClockDrop(Append(s, x)) = SubstantialClockDrop(s)
<1> DEFINE t == Append(s, x)
           drops == Drops(s)
           first == First(s, drops)
<1>1. drops \subseteq DOMAIN s
  BY ClockedFacts DEF Drops
<1>2. CASE drops = {}
  BY <1>2 DEF SubstantialClockDrop
<1>3. CASE drops # {}
  <2>1. first \in drops /\ \A q \in drops \ {first} : Earlier(s, first, q)
    BY <1>1, <1>3, FirstFacts
  <2>2. first \in DOMAIN s /\ \A q \in drops \ {first} : Earlier(t, first, q)
    BY <1>1, <2>1, EarlierStays
  <2>3. IsSeries(t) /\ drops \subseteq DOMAIN t /\ t[first] = s[first]
    BY <1>1, <2>2, GivenFacts
  <2>4. First(t, drops) = first
    <3> HIDE DEF t, drops, first
    <3> QED BY <2>1, <2>2, <2>3, FirstUnique
  <2>5. SubstantialClockDrop(s) = s[first].gpu
    BY <1>3 DEF SubstantialClockDrop
  <2>6. SubstantialClockDrop(t) = t[First(t, drops)].gpu
    BY <1>3 DEF SubstantialClockDrop
  <2> QED BY <2>3, <2>4, <2>5, <2>6
<1> QED BY <1>2, <1>3

LEMMA SilentClock ==
    ASSUME NEW s, IsSeries(s), NEW x \in Snapshots, Silent(x.gpu)
    PROVE  /\ Clocked(Append(s, x)) = Clocked(s)
           /\ SubstantialClockDrop(Append(s, x)) = SubstantialClockDrop(s)
<1> DEFINE t == Append(s, x)
<1>1. Clocked(t) = Clocked(s)
  BY SilentMeasurements DEF Clocked
<1>2. \A p \in DOMAIN s : t[p] = s[p]
  BY GivenFacts
<1>3. \A p, q \in Clocked(s) :
         /\ Earlier(t, q, p) <=> Earlier(s, q, p)
         /\ t[p] = s[p]
  BY <1>2, ClockedFacts, EarlierStays
<1> HIDE DEF t
<1>4. Drops(t) = Drops(s)
  BY <1>1, <1>3 DEF Drops
<1> QED BY <1>1, <1>4, SameDrop DEF t

LEMMA SilentActive ==
    ASSUME NEW s, IsSeries(s), NEW x \in Snapshots, Silent(x.gpu)
    PROVE  Reasons(Append(s, x)) = Reasons(s)
<1> DEFINE t == Append(s, x)
<1>1. /\ DOMAIN t = DOMAIN s \cup {Len(s) + 1} /\ \A p \in DOMAIN s : t[p] = s[p]
      /\ t[Len(s) + 1] = x
  BY GivenFacts
<1>2. x.gpu.present => x.gpu.active = {}
  BY DEF Silent
<1> HIDE DEF t
<1>3. Reported(s) \subseteq Reported(t) /\ Reported(s) \subseteq DOMAIN s
  BY <1>1 DEF Reported, GpuSamples
<1>4. \A p \in Reported(t) : p \in Reported(s) \/ t[p].gpu.active = {}
  BY <1>1, <1>2 DEF Reported, GpuSamples
<1>5. \A p \in Reported(s) : t[p].gpu.active = s[p].gpu.active
  BY <1>1, <1>3
<1>6. Reasons(t) = Reasons(s)
  BY <1>3, <1>4, <1>5 DEF Reasons, Active
<1> QED BY <1>6 DEF t

LEMMA SilentSays ==
    ASSUME NEW s, IsSeries(s), NEW x \in Snapshots, Silent(x.gpu)
    PROVE  /\ Says(Append(s, x)).temperature = Says(s).temperature
           /\ Says(Append(s, x)).power = Says(s).power
           /\ Says(Append(s, x)).throttling.state = Says(s).throttling.state
<1> DEFINE t == Append(s, x)
<1>1. MaxTemperature(t) = MaxTemperature(s)
  BY SilentMeasurements DEF MaxTemperature
<1>2. MeanPower(t) = MeanPower(s)
  BY SilentMeasurements DEF MeanPower
<1>3. SuspectedThrottling(t).state = SuspectedThrottling(s).state
  <2>1. Reasons(t) = Reasons(s)
    BY SilentActive
  <2>2. /\ Clocked(t) = Clocked(s)
        /\ SubstantialClockDrop(t) = SubstantialClockDrop(s)
    BY SilentClock
  <2>3. ClockVerdict(t, Reported(t)).state = ClockVerdict(s, Reported(s)).state
    BY <2>2, StateFacts
  <2> QED BY <2>1, <2>3, VerdictFacts
<1>4. \A u : /\ Says(u).temperature = MaxTemperature(u)
             /\ Says(u).power = MeanPower(u)
             /\ Says(u).throttling = SuspectedThrottling(u)
  BY DEF Says
<1> QED BY <1>1, <1>2, <1>3, <1>4

\* A device that is missing from a snapshot, or silent in it, leaves the
\* temperature, the power and the verdict what they were.
THEOREM SilenceIsIgnored == Spec => SilenceDecidesNothing
<1>1. ASSUME IsSeries(series), [Next]_series
      PROVE  [Silent(series'[Len(series')].gpu) =>
                /\ Says(series').temperature = Says(series).temperature
                /\ Says(series').power = Says(series).power
                /\ Says(series').throttling.state = Says(series).throttling.state]_series
  <2>1. CASE UNCHANGED series
    BY <2>1
  <2>2. CASE Next
    <3>1. PICK x \in Snapshots : series' = Append(series, x)
      BY <2>2 DEF Next, Given
    <3>2. series'[Len(series')] = x
      BY <1>1, <3>1, GivenFacts
    <3> QED BY <1>1, <3>1, <3>2, SilentSays
  <2> QED BY <1>1, <2>1, <2>2
<1> QED BY <1>1, SeriesInit, SeriesStep, PTL DEF Spec, SilenceDecidesNothing

\* A snapshot that is not earlier than any other comes after all of them, so
\* the first drop stays the first.
Latest(s, x) == \A p \in DOMAIN s : s[p].time <= x.time

LEMMA LatestClock ==
    ASSUME NEW s, IsSeries(s), NEW x \in Snapshots, Latest(s, x)
    PROVE  /\ Clocked(s) \subseteq Clocked(Append(s, x))
           /\ Cardinality(Clocked(s)) <= Cardinality(Clocked(Append(s, x)))
           /\ Cardinality(Clocked(s)) \in Nat /\ Cardinality(Clocked(Append(s, x))) \in Nat
           /\ Clocked(Append(s, x)) \ {Len(s) + 1} = Clocked(s)
<1> DEFINE t == Append(s, x)
<1>1. /\ DOMAIN t = DOMAIN s \cup {Len(s) + 1} /\ Len(s) + 1 \notin DOMAIN s
      /\ \A p \in DOMAIN s : t[p] = s[p]
  BY GivenFacts
<1>2. IsFiniteSet(DOMAIN t)
  BY GivenFacts, SeriesFacts
<1> HIDE DEF t
<1>3. Clocked(t) \ {Len(s) + 1} = Clocked(s)
  BY <1>1, ClockedFacts
<1>4. Clocked(s) \subseteq Clocked(t) /\ Clocked(t) \subseteq DOMAIN t
  BY <1>3, ClockedFacts
<1>5. IsFiniteSet(Clocked(t))
  BY <1>2, <1>4, FS_Subset
<1> QED BY <1>3, <1>4, <1>5, FS_Subset, FS_CardinalityType DEF t

LEMMA LatestDrop ==
    ASSUME NEW s, IsSeries(s), NEW x \in Snapshots, Latest(s, x),
           SubstantialClockDrop(s).present
    PROVE  SubstantialClockDrop(Append(s, x)) = SubstantialClockDrop(s)
<1> DEFINE t == Append(s, x)
           n == Len(s) + 1
           drops == Drops(s)
           more == Drops(t)
           first == First(s, drops)
<1>1. drops # {}
  BY DEF SubstantialClockDrop, Absent
<1>2. drops \subseteq Clocked(s) /\ drops \subseteq DOMAIN s
  BY ClockedFacts DEF Drops
<1>3. first \in drops /\ \A q \in drops \ {first} : Earlier(s, first, q)
  BY <1>1, <1>2, FirstFacts
<1>4. /\ IsSeries(t) /\ DOMAIN t = DOMAIN s \cup {n} /\ n \notin DOMAIN s
      /\ \A p \in DOMAIN s : t[p] = s[p] /\ p < n
      /\ t[n] = x
  BY GivenFacts
<1>5. \A p \in DOMAIN s : Earlier(t, p, n) /\ ~Earlier(t, n, p)
  <2>1. ASSUME NEW p \in DOMAIN s PROVE Earlier(t, p, n) /\ ~Earlier(t, n, p)
    <3>1. s[p].time \in Nat /\ x.time \in Nat /\ p \in Nat /\ n \in Nat /\ p < n
      <4>1. x.time \in Nat
        BY WindowAssumption DEF Snapshots
      <4> QED BY <1>4, <4>1, SeriesFacts
    <3>2. s[p].time <= x.time /\ t[p] = s[p] /\ t[n] = x
      BY <1>4 DEF Latest
    <3> HIDE DEF t, n
    <3> QED BY <3>1, <3>2 DEF Earlier
  <2> QED BY <2>1
<1>6. \A p, q \in DOMAIN s : Earlier(t, p, q) <=> Earlier(s, p, q)
  BY EarlierStays
<1>7. Clocked(t) \ {n} = Clocked(s) /\ Clocked(s) \subseteq DOMAIN s /\ Clocked(t) \subseteq DOMAIN t
  BY LatestClock, ClockedFacts
<1> HIDE DEF t, n
<1>8. more \ {n} = drops /\ more \subseteq DOMAIN t
  BY <1>2, <1>4, <1>5, <1>6, <1>7 DEF Drops
<1> HIDE DEF drops, more, first
<1>9. first \in more /\ first \in DOMAIN s
  BY <1>2, <1>3, <1>8
<1>10. \A q \in more \ {first} : Earlier(t, first, q)
  BY <1>2, <1>3, <1>5, <1>6, <1>8, <1>9
<1>11. First(t, more) = first
  BY <1>4, <1>8, <1>9, <1>10, FirstUnique
<1>12. SubstantialClockDrop(s) = s[first].gpu
  BY <1>1 DEF SubstantialClockDrop, drops, first
<1>13. SubstantialClockDrop(t) = t[First(t, more)].gpu
  BY <1>9 DEF SubstantialClockDrop, more
<1>14. SubstantialClockDrop(t) = SubstantialClockDrop(s)
  BY <1>4, <1>9, <1>11, <1>12, <1>13
<1> QED BY <1>14 DEF t

LEMMA LatestActive ==
    ASSUME NEW s, IsSeries(s), NEW x \in Snapshots
    PROVE  Reasons(s) \subseteq Reasons(Append(s, x))
<1> DEFINE t == Append(s, x)
<1>1. DOMAIN s \subseteq DOMAIN t /\ \A p \in DOMAIN s : t[p] = s[p]
  BY GivenFacts
<1> HIDE DEF t
<1>2. \A p \in Reported(s) : p \in Reported(t) /\ t[p] = s[p]
  BY <1>1 DEF Reported, GpuSamples
<1>3. Reasons(s) \subseteq Reasons(t)
  BY <1>2 DEF Reasons, Active
<1> QED BY <1>3 DEF t

LEMMA LatestVerdict ==
    ASSUME NEW s, IsSeries(s), NEW x \in Snapshots, Latest(s, x),
           SuspectedThrottling(s).state = "suspected"
    PROVE  SuspectedThrottling(Append(s, x)).state = "suspected"
<1> DEFINE t == Append(s, x)
<1>1. CASE Reasons(t) # {}
  BY <1>1, VerdictFacts
<1>2. CASE Reasons(t) = {}
  <2>1. Reasons(s) = {}
    BY <1>2, LatestActive
  <2>2. StateOf(Cardinality(Clocked(s)), SubstantialClockDrop(s)) = "suspected"
    BY <2>1, VerdictFacts, StateFacts
  <2>3. /\ ~(Cardinality(Clocked(s)) < 2)
        /\ SubstantialClockDrop(s).present
        /\ Hot(SubstantialClockDrop(s)) \/ NearLimit(SubstantialClockDrop(s))
    BY <2>2 DEF StateOf
  <2>4. SubstantialClockDrop(t) = SubstantialClockDrop(s)
    BY <2>3, LatestDrop
  <2>5. ~(Cardinality(Clocked(t)) < 2)
    BY <2>3, LatestClock
  <2>6. StateOf(Cardinality(Clocked(t)), SubstantialClockDrop(t)) = "suspected"
    BY <2>3, <2>4, <2>5 DEF StateOf
  <2> QED BY <1>2, <2>6, VerdictFacts, StateFacts
<1> QED BY <1>1, <1>2

\* A suspicion of throttling is not withdrawn by a snapshot that is not earlier
\* than the ones there are.
THEOREM SuspicionLasts == Spec => SuspicionSticks
<1>1. ASSUME IsSeries(series), [Next]_series
      PROVE  [/\ SuspectedThrottling(series).state = "suspected"
              /\ \A p \in DOMAIN series : series[p].time <= series'[Len(series')].time
              => SuspectedThrottling(series').state = "suspected"]_series
  <2>1. CASE UNCHANGED series
    BY <2>1
  <2>2. CASE Next
    <3>1. PICK x \in Snapshots : series' = Append(series, x)
      BY <2>2 DEF Next, Given
    <3>2. series'[Len(series')] = x
      BY <1>1, <3>1, GivenFacts
    <3> QED BY <1>1, <3>1, <3>2, LatestVerdict DEF Latest
  <2> QED BY <1>1, <2>1, <2>2
<1> QED BY <1>1, SeriesInit, SeriesStep, PTL DEF Spec, SuspicionSticks

(***************************************************************************)
(* The order of arrival.  The series t is s with its snapshots in another  *)
(* order: the one at p is the one at o[p] of s.                            *)
(***************************************************************************)
Permutes(o, D) ==
    /\ o \in [D -> D]
    /\ \A p, q \in D : o[p] = o[q] => p = q
    /\ \A q \in D : \E p \in D : o[p] = q
Distinct(s) == \A p, q \in DOMAIN s : s[p].time = s[q].time => p = q
Reordered(t, s, o) ==
    /\ IsSeries(s) /\ Distinct(s) /\ Permutes(o, DOMAIN s)
    /\ t = [p \in DOMAIN s |-> s[o[p]]]

\* Functions on two sets of positions with the same values.
Carried(g, f, o, D) ==
    /\ f = [p \in DOMAIN f |-> f[p]] /\ g = [p \in DOMAIN g |-> g[p]]
    /\ DOMAIN f \subseteq D
    /\ DOMAIN g = {p \in D : o[p] \in DOMAIN f}
    /\ \A p \in DOMAIN g : g[p] = f[o[p]]

LEMMA CarriedCount ==
    ASSUME NEW D, IsFiniteSet(D), NEW o, Permutes(o, D), NEW A, A \subseteq D
    PROVE  Cardinality({p \in D : o[p] \in A}) = Cardinality(A)
<1> DEFINE B == {p \in D : o[p] \in A}
           h == [p \in B |-> o[p]]
<1>1. IsFiniteSet(B)
  BY FS_Subset
<1>2. h \in [B -> A]
  OBVIOUS
<1>3. \A p, q \in B : h[p] = h[q] => p = q
  BY DEF Permutes
<1>4. \A a \in A : \E p \in B : h[p] = a
  BY DEF Permutes
<1> HIDE DEF h, B
<1>5. h \in Injection(B, A) /\ h \in Surjection(B, A)
  BY <1>2, <1>3, <1>4 DEF Injection, Surjection, IsInjective
<1>6. ExistsBijection(B, A)
  BY <1>5 DEF ExistsBijection, Bijection
<1> QED BY <1>1, <1>6, FS_Bijection DEF B

LEMMA CarriedFacts ==
    ASSUME NEW D, IsFiniteSet(D), NEW o, Permutes(o, D), NEW f, NEW g, Carried(g, f, o, D)
    PROVE  /\ Range(g) = Range(f)
           /\ Cardinality(DOMAIN g) = Cardinality(DOMAIN f)
           /\ DOMAIN g = {} <=> DOMAIN f = {}
           /\ Numbers(f, DOMAIN f) => SumFunction(g) = SumFunction(f)
<1>1. \A p \in DOMAIN g : o[p] \in DOMAIN f /\ g[p] = f[o[p]]
  BY DEF Carried
<1>2. \A q \in DOMAIN f : \E p \in DOMAIN g : o[p] = q /\ g[p] = f[q]
  BY DEF Carried, Permutes
<1>3. Range(g) = Range(f)
  BY <1>1, <1>2 DEF Range
<1>4. Cardinality(DOMAIN g) = Cardinality(DOMAIN f)
  BY CarriedCount DEF Carried
<1>5. DOMAIN g = {} <=> DOMAIN f = {}
  BY <1>1, <1>2
<1>6. ASSUME Numbers(f, DOMAIN f) PROVE SumFunction(g) = SumFunction(f)
  <2> DEFINE S == DOMAIN f
             T == DOMAIN g
             h == [p \in T |-> o[p]]
  <2>1. T = {p \in D : o[p] \in S} /\ S \subseteq D
    BY DEF Carried
  <2>2. IsFiniteSet(S) /\ IsFiniteSet(T)
    BY <2>1, FS_Subset
  <2>3. /\ h \in [T -> S]
        /\ \A x, y \in T : h[x] = h[y] => x = y
        /\ \A y \in S : \E x \in T : h[x] = y
        /\ \A x \in T : g[x] = f[h[x]]
    BY <1>1, <1>2, <2>1 DEF Permutes
  <2> HIDE DEF h, S, T
  <2>4. SumFunctionOnSet(g, T) = SumFunctionOnSet(f, S)
    BY <1>6, <2>2, <2>3, SumMoved DEF S
  <2> QED BY <2>4 DEF SumFunction, S, T
<1> QED BY <1>3, <1>4, <1>5, <1>6

LEMMA ReorderedFacts ==
    ASSUME NEW s, NEW o, NEW t, Reordered(t, s, o)
    PROVE  /\ IsSeries(t) /\ DOMAIN t = DOMAIN s /\ IsFiniteSet(DOMAIN s)
           /\ Permutes(o, DOMAIN s)
           /\ \A p \in DOMAIN s : o[p] \in DOMAIN s /\ t[p] = s[o[p]]
           /\ \A p, q \in DOMAIN s : Earlier(t, p, q) <=> Earlier(s, o[p], o[q])
<1>1. /\ DOMAIN s = 1..Len(s) /\ Len(s) \in Nat /\ IsFiniteSet(DOMAIN s)
      /\ \A p \in DOMAIN s : s[p] \in Snapshots /\ s[p].time \in Nat
  BY SeriesFacts DEF Reordered
<1>2. \A p \in DOMAIN s : o[p] \in DOMAIN s
  BY DEF Reordered, Permutes
<1>3. DOMAIN t = DOMAIN s /\ \A p \in DOMAIN s : t[p] = s[o[p]]
  BY DEF Reordered
<1>4. IsSeries(t)
  <2>1. t \in [1..Len(s) -> Snapshots]
    BY <1>1, <1>2 DEF Reordered
  <2> QED BY <1>1, <2>1 DEF IsSeries
<1>5. ASSUME NEW p \in DOMAIN s, NEW q \in DOMAIN s
      PROVE  Earlier(t, p, q) <=> Earlier(s, o[p], o[q])
  <2>1. t[p] = s[o[p]] /\ t[q] = s[o[q]]
    BY <1>3
  <2>2. p \in Nat /\ q \in Nat /\ o[p] \in Nat /\ o[q] \in Nat
    BY <1>1, <1>2
  <2>3. s[o[p]].time = s[o[q]].time => p = q
    BY <1>2 DEF Reordered, Distinct, Permutes
  <2> QED BY <2>1, <2>2, <2>3 DEF Earlier
<1> QED BY <1>1, <1>2, <1>3, <1>4, <1>5 DEF Reordered

LEMMA ReorderedMeasurements ==
    ASSUME NEW s, NEW o, NEW t, Reordered(t, s, o), NEW field
    PROVE  Carried(Measurements(t, field), Measurements(s, field), o, DOMAIN s)
<1>1. DOMAIN t = DOMAIN s /\ \A p \in DOMAIN s : o[p] \in DOMAIN s /\ t[p] = s[o[p]]
  BY ReorderedFacts
<1>2. \A u : /\ DOMAIN Measurements(u, field) =
                    {p \in DOMAIN u : u[p].gpu.present /\ Supported(u[p].gpu[field])}
             /\ \A p \in DOMAIN Measurements(u, field) :
                    Measurements(u, field)[p] = u[p].gpu[field]
             /\ Measurements(u, field) =
                    [p \in DOMAIN Measurements(u, field) |-> Measurements(u, field)[p]]
  BY DEF Measurements, GpuSamples
<1> DEFINE f == Measurements(s, field)
           g == Measurements(t, field)
<1>3. /\ DOMAIN f = {p \in DOMAIN s : s[p].gpu.present /\ Supported(s[p].gpu[field])}
      /\ DOMAIN g = {p \in DOMAIN t : t[p].gpu.present /\ Supported(t[p].gpu[field])}
      /\ \A p \in DOMAIN f : f[p] = s[p].gpu[field]
      /\ \A p \in DOMAIN g : g[p] = t[p].gpu[field]
      /\ f = [p \in DOMAIN f |-> f[p]] /\ g = [p \in DOMAIN g |-> g[p]]
  BY <1>2
<1> HIDE DEF f, g
<1>4. DOMAIN g = {p \in DOMAIN s : o[p] \in DOMAIN f}
  BY <1>1, <1>3
<1>5. \A p \in DOMAIN g : g[p] = f[o[p]]
  BY <1>1, <1>3, <1>4
<1>6. Carried(g, f, o, DOMAIN s)
  BY <1>3, <1>4, <1>5 DEF Carried
<1> QED BY <1>6 DEF f, g

LEMMA ReorderedElapsed ==
    ASSUME NEW s, NEW o, NEW t, Reordered(t, s, o), NEW p \in DOMAIN s
    PROVE  Elapsed(t, p) = Elapsed(s, o[p])
<1>1. /\ DOMAIN t = DOMAIN s
      /\ \A q \in DOMAIN s : o[q] \in DOMAIN s /\ t[q] = s[o[q]]
      /\ \A q \in DOMAIN s : Earlier(t, p, q) <=> Earlier(s, o[p], o[q])
      /\ \A q \in DOMAIN s : \E r \in DOMAIN s : o[r] = q
  BY ReorderedFacts DEF Permutes
<1>2. \A q \in DOMAIN s : q \in Later(t, p) <=> o[q] \in Later(s, o[p])
  BY <1>1 DEF Later
<1>3. Later(t, p) \subseteq DOMAIN s /\ Later(s, o[p]) \subseteq DOMAIN s
  BY <1>1 DEF Later
<1>4. Later(t, p) = {} <=> Later(s, o[p]) = {}
  BY <1>1, <1>2, <1>3
<1>5. {t[q].time : q \in Later(t, p)} = {s[q].time : q \in Later(s, o[p])}
  <2>1. \A q \in Later(t, p) : o[q] \in Later(s, o[p]) /\ t[q].time = s[o[q]].time
    BY <1>1, <1>2, <1>3
  <2>2. \A q \in Later(s, o[p]) : \E r \in Later(t, p) : t[r].time = s[q].time
    BY <1>1, <1>2, <1>3
  <2> QED BY <2>1, <2>2
<1>6. t[p].time = s[o[p]].time
  BY <1>1
<1> QED BY <1>4, <1>5, <1>6 DEF Elapsed

\* What is measured is a natural number, and so is an energy.
LEMMA MeasuredNumbers ==
    ASSUME NEW s, IsSeries(s)
    PROVE  /\ DOMAIN Measurements(s, "power") =
                  {p \in DOMAIN s : s[p].gpu.present /\ Supported(s[p].gpu.power)}
           /\ \A p \in DOMAIN Measurements(s, "power") :
                  Measurements(s, "power")[p] = s[p].gpu.power
           /\ Numbers(Measurements(s, "power"), DOMAIN Measurements(s, "power"))
<1>1. \A x \in Snapshots : x.gpu.present /\ Supported(x.gpu.power) => x.gpu.power \in Nat
  BY WindowAssumption DEF Snapshots, Absent, Supported
<1>2. \A p \in DOMAIN s : s[p] \in Snapshots
  BY SeriesFacts
<1>3. /\ DOMAIN Measurements(s, "power") =
             {p \in DOMAIN s : s[p].gpu.present /\ Supported(s[p].gpu.power)}
      /\ \A p \in DOMAIN Measurements(s, "power") :
             Measurements(s, "power")[p] = s[p].gpu.power
  BY DEF Measurements, GpuSamples
<1> QED BY <1>1, <1>2, <1>3 DEF Numbers

\* The second t lies between p and the snapshot that follows it.
Between(s, p, t) ==
    s[p].time <= t /\ Later(s, p) # {} /\ \A q \in Later(s, p) : t < s[q].time

LEMMA ElapsedFacts ==
    ASSUME NEW s, IsSeries(s), NEW p \in DOMAIN s
    PROVE  /\ Elapsed(s, p) \in Nat
           /\ \A t \in Nat : Between(s, p, t) <=> t \in s[p].time..(s[p].time + Elapsed(s, p) - 1)
<1> DEFINE stamps == {s[q].time : q \in Later(s, p)}
<1>1. s[p].time \in Nat /\ \A q \in Later(s, p) : q \in DOMAIN s /\ s[q].time \in Nat /\ s[p].time <= s[q].time
  BY SeriesFacts DEF Later, Earlier
<1>2. CASE Later(s, p) = {}
  <2>1. Elapsed(s, p) = 0
    BY <1>2 DEF Elapsed
  <2> QED BY <1>1, <1>2, <2>1 DEF Between
<1>3. CASE Later(s, p) # {}
  <2>1. Elapsed(s, p) = Min(stamps) - s[p].time
    BY <1>3 DEF Elapsed
  <2>2. stamps \subseteq Nat /\ stamps # {}
    BY <1>1, <1>3
  <2>3. Min(stamps) \in stamps /\ \A u \in stamps : Min(stamps) <= u
    <3> HIDE DEF stamps
    <3> QED BY <2>2, LeastNatural DEF Min
  <2>4. PICK q \in Later(s, p) : Min(stamps) = s[q].time
    BY <2>3
  <2>5. \A r \in Later(s, p) : Min(stamps) <= s[r].time
    BY <2>3
  <2> HIDE DEF stamps
  <2>6. Elapsed(s, p) \in Nat
    BY <1>1, <2>1, <2>4
  <2>7. ASSUME NEW t \in Nat
        PROVE  Between(s, p, t) <=> t \in s[p].time..(s[p].time + Elapsed(s, p) - 1)
    BY <1>1, <1>3, <2>1, <2>4, <2>5 DEF Between
  <2> QED BY <2>6, <2>7
<1> QED BY <1>2, <1>3

LEMMA EnergyNumbers ==
    ASSUME NEW s, IsSeries(s)
    PROVE  /\ DOMAIN EnergyTerms(s) =
                  {p \in DOMAIN Measurements(s, "power") : Elapsed(s, p) > 0}
           /\ \A p \in DOMAIN EnergyTerms(s) : EnergyTerms(s)[p] = s[p].gpu.power * Elapsed(s, p)
           /\ Numbers(EnergyTerms(s), DOMAIN EnergyTerms(s))
<1> DEFINE ws == Measurements(s, "power")
           es == EnergyTerms(s)
<1>1. /\ DOMAIN ws \subseteq DOMAIN s
      /\ \A p \in DOMAIN ws : ws[p] = s[p].gpu.power /\ ws[p] \in Nat
  BY MeasuredNumbers DEF Numbers
<1>2. /\ DOMAIN es = {p \in DOMAIN ws : Elapsed(s, p) > 0}
      /\ \A p \in DOMAIN es : es[p] = ws[p] * Elapsed(s, p)
  BY <1>1 DEF EnergyTerms, Terms
<1>3. \A p \in DOMAIN s : Elapsed(s, p) \in Nat
  BY ElapsedFacts
<1> HIDE DEF ws, es
<1>4. ASSUME NEW p \in DOMAIN es PROVE es[p] \in Nat /\ es[p] = s[p].gpu.power * Elapsed(s, p)
  <2>1. ws[p] \in Nat /\ Elapsed(s, p) \in Nat /\ es[p] = ws[p] * Elapsed(s, p) /\ ws[p] = s[p].gpu.power
    BY <1>1, <1>2, <1>3
  <2> QED BY <2>1
<1> QED BY <1>2, <1>4 DEF Numbers, es, ws

LEMMA ReorderedTerms ==
    ASSUME NEW s, NEW o, NEW t, Reordered(t, s, o)
    PROVE  Carried(EnergyTerms(t), EnergyTerms(s), o, DOMAIN s)
<1>1. DOMAIN t = DOMAIN s /\ \A p \in DOMAIN s : o[p] \in DOMAIN s
  BY ReorderedFacts
<1>2. Carried(Measurements(t, "power"), Measurements(s, "power"), o, DOMAIN s)
  BY ReorderedMeasurements
<1>3. \A p \in DOMAIN s : Elapsed(t, p) = Elapsed(s, o[p])
  BY ReorderedElapsed
<1>4. ASSUME NEW u, DOMAIN Measurements(u, "power") \subseteq DOMAIN u
      PROVE  /\ DOMAIN EnergyTerms(u) =
                    {p \in DOMAIN Measurements(u, "power") : Elapsed(u, p) > 0}
             /\ \A p \in DOMAIN EnergyTerms(u) :
                    EnergyTerms(u)[p] = Measurements(u, "power")[p] * Elapsed(u, p)
             /\ EnergyTerms(u) = [p \in DOMAIN EnergyTerms(u) |-> EnergyTerms(u)[p]]
  BY <1>4 DEF EnergyTerms, Terms
<1>5. /\ DOMAIN Measurements(s, "power") \subseteq DOMAIN s
      /\ DOMAIN Measurements(t, "power") \subseteq DOMAIN t
  BY <1>1, <1>2 DEF Carried
<1> DEFINE ws == Measurements(s, "power")
           wt == Measurements(t, "power")
           es == EnergyTerms(s)
           et == EnergyTerms(t)
<1>6. /\ DOMAIN ws \subseteq DOMAIN s
      /\ DOMAIN wt = {p \in DOMAIN s : o[p] \in DOMAIN ws}
      /\ \A p \in DOMAIN wt : wt[p] = ws[o[p]]
  BY <1>2 DEF Carried
<1>7. /\ DOMAIN es = {p \in DOMAIN ws : Elapsed(s, p) > 0}
      /\ DOMAIN et = {p \in DOMAIN wt : Elapsed(t, p) > 0}
      /\ \A p \in DOMAIN es : es[p] = ws[p] * Elapsed(s, p)
      /\ \A p \in DOMAIN et : et[p] = wt[p] * Elapsed(t, p)
      /\ es = [p \in DOMAIN es |-> es[p]] /\ et = [p \in DOMAIN et |-> et[p]]
  BY <1>4, <1>5
<1> HIDE DEF ws, wt, es, et
<1>8. DOMAIN et = {p \in DOMAIN s : o[p] \in DOMAIN es}
  BY <1>1, <1>3, <1>6, <1>7
<1>9. \A p \in DOMAIN et : et[p] = es[o[p]]
  <2>1. ASSUME NEW p \in DOMAIN et PROVE et[p] = es[o[p]]
    <3>1. p \in DOMAIN wt /\ p \in DOMAIN s /\ o[p] \in DOMAIN es
      BY <1>6, <1>7, <1>8
    <3>2. et[p] = wt[p] * Elapsed(t, p) /\ es[o[p]] = ws[o[p]] * Elapsed(s, o[p])
      BY <1>7, <3>1
    <3>3. wt[p] = ws[o[p]] /\ Elapsed(t, p) = Elapsed(s, o[p])
      BY <1>3, <1>6, <3>1
    <3> QED BY <3>2, <3>3
  <2> QED BY <2>1
<1>10. Carried(et, es, o, DOMAIN s)
  BY <1>6, <1>7, <1>8, <1>9 DEF Carried
<1> QED BY <1>10 DEF es, et

LEMMA ReorderedClock ==
    ASSUME NEW s, NEW o, NEW t, Reordered(t, s, o)
    PROVE  /\ Clocked(t) = {p \in DOMAIN s : o[p] \in Clocked(s)}
           /\ SubstantialClockDrop(t) = SubstantialClockDrop(s)
<1> DEFINE cs == Clocked(s)
           ct == Clocked(t)
           ds == Drops(s)
           dt == Drops(t)
           first == First(s, ds)
<1>1. /\ IsSeries(s) /\ IsSeries(t) /\ DOMAIN t = DOMAIN s
      /\ \A p \in DOMAIN s : o[p] \in DOMAIN s /\ t[p] = s[o[p]]
      /\ \A p, q \in DOMAIN s : Earlier(t, p, q) <=> Earlier(s, o[p], o[q])
      /\ \A q \in DOMAIN s : \E p \in DOMAIN s : o[p] = q
      /\ \A p, q \in DOMAIN s : o[p] = o[q] => p = q
  BY ReorderedFacts DEF Permutes, Reordered
<1>2. ct = {p \in DOMAIN s : o[p] \in cs} /\ cs \subseteq DOMAIN s
  <2>1. /\ cs = {p \in DOMAIN s : s[p].gpu.present /\ Supported(s[p].gpu.clock)}
        /\ ct = {p \in DOMAIN t : t[p].gpu.present /\ Supported(t[p].gpu.clock)}
    BY ClockedFacts
  <2> HIDE DEF cs, ct
  <2> QED BY <1>1, <2>1
<1> HIDE DEF cs, ct
<1>3. \A p \in ct : p \in dt <=> o[p] \in ds
  <2>1. ASSUME NEW p \in ct, p \in dt PROVE o[p] \in ds
    <3>1. PICK q \in ct : Earlier(t, q, p) /\ Dropped(t[p].gpu.clock, t[q].gpu.clock)
      BY <2>1 DEF Drops, ct
    <3> QED BY <1>1, <1>2, <3>1 DEF Drops, cs
  <2>2. ASSUME NEW p \in ct, o[p] \in ds PROVE p \in dt
    <3>1. PICK r \in cs : /\ Earlier(s, r, o[p])
                          /\ Dropped(s[o[p]].gpu.clock, s[r].gpu.clock)
      BY <2>2 DEF Drops, cs
    <3>2. PICK q \in DOMAIN s : o[q] = r
      BY <1>1, <1>2
    <3>3. q \in ct /\ p \in DOMAIN s
      BY <1>2, <3>2
    <3>4. Earlier(t, q, p) /\ Dropped(t[p].gpu.clock, t[q].gpu.clock)
      BY <1>1, <3>1, <3>2, <3>3
    <3> QED BY <3>3, <3>4 DEF Drops, ct
  <2> QED BY <2>1, <2>2
<1>4. dt \subseteq ct /\ ds \subseteq cs
  BY DEF Drops, cs, ct
<1>5. SubstantialClockDrop(s) = IF ds = {} THEN Absent ELSE s[first].gpu
  BY DEF SubstantialClockDrop, cs
<1>6. SubstantialClockDrop(t) = IF dt = {} THEN Absent ELSE t[First(t, dt)].gpu
  BY DEF SubstantialClockDrop, ct
<1> HIDE DEF ds, dt
<1>7. dt = {p \in DOMAIN s : o[p] \in ds}
  BY <1>2, <1>3, <1>4
<1>8. ASSUME ds = {} PROVE SubstantialClockDrop(t) = SubstantialClockDrop(s)
  BY <1>5, <1>6, <1>7, <1>8
<1>9. ASSUME ds # {} PROVE SubstantialClockDrop(t) = SubstantialClockDrop(s)
  <2>1. first \in ds /\ \A q \in ds \ {first} : Earlier(s, first, q)
    BY <1>1, <1>2, <1>4, <1>9, FirstFacts
  <2> HIDE DEF first
  <2>2. PICK p \in DOMAIN s : o[p] = first
    BY <1>1, <1>2, <1>4, <2>1
  <2>3. p \in dt /\ dt \subseteq DOMAIN t
    BY <1>1, <1>7, <2>1, <2>2
  <2>4. \A q \in dt \ {p} : Earlier(t, p, q)
    BY <1>1, <1>7, <2>1, <2>2
  <2>5. First(t, dt) = p
    BY <1>1, <2>3, <2>4, FirstUnique
  <2>6. t[p] = s[first]
    BY <1>1, <2>2
  <2> QED BY <1>5, <1>6, <1>9, <2>3, <2>5, <2>6
<1>10. SubstantialClockDrop(t) = SubstantialClockDrop(s)
  BY <1>8, <1>9
<1> QED BY <1>2, <1>10 DEF cs, ct

LEMMA ReorderedReports ==
    ASSUME NEW s, NEW o, NEW t, Reordered(t, s, o)
    PROVE  /\ Reasons(t) = Reasons(s)
           /\ Cardinality(Reported(t)) = Cardinality(Reported(s))
           /\ Reported(t) = {} <=> Reported(s) = {}
           /\ Reported(t) = GpuSamples(t) <=> Reported(s) = GpuSamples(s)
<1>1. /\ DOMAIN t = DOMAIN s /\ IsFiniteSet(DOMAIN s) /\ Permutes(o, DOMAIN s)
      /\ \A p \in DOMAIN s : o[p] \in DOMAIN s /\ t[p] = s[o[p]]
      /\ \A q \in DOMAIN s : \E p \in DOMAIN s : o[p] = q
  BY ReorderedFacts DEF Permutes
<1>2. /\ GpuSamples(t) = {p \in DOMAIN s : o[p] \in GpuSamples(s)}
      /\ GpuSamples(s) \subseteq DOMAIN s
  BY <1>1 DEF GpuSamples
<1>3. /\ Reported(t) = {p \in DOMAIN s : o[p] \in Reported(s)}
      /\ Reported(s) \subseteq DOMAIN s
  BY <1>1, <1>2 DEF Reported
<1>4. Reasons(t) = Reasons(s)
  <2>1. \A p \in Reported(t) : o[p] \in Reported(s) /\ t[p].gpu.active = s[o[p]].gpu.active
    BY <1>1, <1>3
  <2>2. \A q \in Reported(s) : \E p \in Reported(t) : t[p].gpu.active = s[q].gpu.active
    BY <1>1, <1>3
  <2> QED BY <2>1, <2>2 DEF Reasons, Active
<1>5. Cardinality(Reported(t)) = Cardinality(Reported(s))
  BY <1>1, <1>3, CarriedCount
<1>6. Reported(t) = {} <=> Reported(s) = {}
  BY <1>1, <1>3
<1>7. Reported(t) = GpuSamples(t) <=> Reported(s) = GpuSamples(s)
  <2>1. ASSUME Reported(t) = GpuSamples(t), NEW q \in DOMAIN s
        PROVE  q \in Reported(s) <=> q \in GpuSamples(s)
    <3>1. PICK p \in DOMAIN s : o[p] = q
      BY <1>1
    <3> QED BY <1>2, <1>3, <2>1, <3>1
  <2>2. ASSUME Reported(t) = GpuSamples(t) PROVE Reported(s) = GpuSamples(s)
    BY <1>2, <1>3, <2>1, <2>2
  <2>3. ASSUME Reported(s) = GpuSamples(s) PROVE Reported(t) = GpuSamples(t)
    BY <1>2, <1>3, <2>3
  <2> QED BY <2>2, <2>3
<1> QED BY <1>4, <1>5, <1>6, <1>7

LEMMA ReorderedVerdict ==
    ASSUME NEW s, NEW o, NEW t, Reordered(t, s, o)
    PROVE  SuspectedThrottling(t) = SuspectedThrottling(s)
<1>1. /\ Reasons(t) = Reasons(s)
      /\ Cardinality(Reported(t)) = Cardinality(Reported(s))
      /\ Reported(t) = {} <=> Reported(s) = {}
      /\ Reported(t) = GpuSamples(t) <=> Reported(s) = GpuSamples(s)
  BY ReorderedReports
<1>2. SubstantialClockDrop(t) = SubstantialClockDrop(s)
  BY ReorderedClock
<1>3. Cardinality(Clocked(t)) = Cardinality(Clocked(s))
  BY ReorderedClock, ReorderedFacts, ClockedFacts, CarriedCount
<1>4. ClockVerdict(t, Reported(t)) = ClockVerdict(s, Reported(s))
  BY <1>1, <1>2, <1>3 DEF ClockVerdict, Judged
<1>5. \A u : SuspectedThrottling(u) =
                IF Reasons(u) # {}
                THEN Verdict("suspected", Reasons(u), Cardinality(Reported(u)))
                ELSE ClockVerdict(u, Reported(u))
  BY DEF SuspectedThrottling, Reasons
<1> QED BY <1>1, <1>4, <1>5

LEMMA ReorderedSays ==
    ASSUME NEW s, NEW o, NEW t, Reordered(t, s, o)
    PROVE  Says(t) = Says(s)
<1>1. IsFiniteSet(DOMAIN s) /\ Permutes(o, DOMAIN s)
  BY ReorderedFacts
<1>2. Carried(Measurements(t, "temperature"), Measurements(s, "temperature"), o, DOMAIN s)
  BY ReorderedMeasurements
<1>3. Range(Measurements(t, "temperature")) = Range(Measurements(s, "temperature"))
  BY <1>1, <1>2, CarriedFacts
<1>4. MaxTemperature(t) = MaxTemperature(s)
  BY <1>3 DEF MaxTemperature
<1>5. Carried(Measurements(t, "power"), Measurements(s, "power"), o, DOMAIN s)
  BY ReorderedMeasurements
<1>6. MeanPower(t) = MeanPower(s)
  <2>1. Numbers(Measurements(s, "power"), DOMAIN Measurements(s, "power"))
    BY MeasuredNumbers DEF Reordered
  <2>2. /\ SumFunction(Measurements(t, "power")) = SumFunction(Measurements(s, "power"))
        /\ Cardinality(DOMAIN Measurements(t, "power")) =
               Cardinality(DOMAIN Measurements(s, "power"))
    BY <1>1, <1>5, <2>1, CarriedFacts
  <2> QED BY <2>2 DEF MeanPower
<1>7. Carried(EnergyTerms(t), EnergyTerms(s), o, DOMAIN s)
  BY ReorderedTerms
<1>8. /\ Cardinality(DOMAIN EnergyTerms(t)) = Cardinality(DOMAIN EnergyTerms(s))
      /\ DOMAIN EnergyTerms(t) = {} <=> DOMAIN EnergyTerms(s) = {}
      /\ SumFunction(EnergyTerms(t)) = SumFunction(EnergyTerms(s))
  <2>1. Numbers(EnergyTerms(s), DOMAIN EnergyTerms(s))
    BY EnergyNumbers DEF Reordered
  <2> QED BY <1>1, <1>7, <2>1, CarriedFacts
<1>9. Energy(t) = Energy(s)
  BY <1>8 DEF Energy
<1>10. SuspectedThrottling(t) = SuspectedThrottling(s)
  BY ReorderedVerdict
<1> QED BY <1>4, <1>6, <1>8, <1>9, <1>10 DEF Says

\* When no two stamps are equal, what a window says does not depend on the
\* order in which the snapshots were given to it.
THEOREM ArrivalIsIrrelevant == Spec => []OrderIsIrrelevant
<1>1. ASSUME IsSeries(series) PROVE OrderIsIrrelevant
  <2>1. SUFFICES ASSUME IsInjective([p \in DOMAIN series |-> series[p].time]),
                        NEW order \in Bijection(DOMAIN series, DOMAIN series)
                 PROVE  Says([p \in DOMAIN series |-> series[order[p]]]) = Says(series)
    BY DEF OrderIsIrrelevant
  <2>2. Distinct(series)
    BY <2>1 DEF IsInjective, Distinct
  <2>3. Permutes(order, DOMAIN series)
    BY DEF Bijection, Injection, Surjection, IsInjective, Permutes
  <2>4. Reordered([p \in DOMAIN series |-> series[order[p]]], series, order)
    BY <1>1, <2>2, <2>3 DEF Reordered
  <2> QED BY <2>4, ReorderedSays
<1> QED BY <1>1, SeriesInit, SeriesStep, PTL DEF Spec

(***************************************************************************)
(* The energy as an integral.  Every second from the first stamp to the    *)
(* last lies between the snapshot in force and the one that follows it,    *)
(* and between no other two.                                               *)
(***************************************************************************)
LEMMA LargestOf ==
    ASSUME NEW T, IsFiniteSet(T), T \subseteq Nat, T # {}
    PROVE  Max(T) \in T /\ \A y \in T : y <= Max(T)
<1> DEFINE Good == {t \in SUBSET T : t # {} => \E x \in t : \A y \in t : y <= x}
<1>1. {} \in Good
  OBVIOUS
<1>2. ASSUME NEW s \in SUBSET T, NEW x \in T, x \notin s, s \in Good PROVE s \cup {x} \in Good
  <2>1. CASE s = {}
    BY <2>1
  <2>2. CASE s # {}
    <3>1. PICK z \in s : \A y \in s : y <= z
      BY <1>2, <2>2
    <3>2. CASE z <= x
      <4>1. \A y \in s \cup {x} : y <= x
        BY <3>1, <3>2
      <4> QED BY <4>1
    <3>3. CASE ~(z <= x)
      <4>1. \A y \in s \cup {x} : y <= z
        BY <3>1, <3>3
      <4> QED BY <3>1, <4>1
    <3> QED BY <3>2, <3>3
  <2> QED BY <2>1, <2>2
<1>3. T \in Good
  <2> HIDE DEF Good
  <2> QED BY <1>1, <1>2, SubsetInduction
<1>4. \E x \in T : \A y \in T : x >= y
  BY <1>3
<1> QED BY <1>4 DEF Max

LEMMA StampsAreFinite ==
    ASSUME NEW s, NEW A, IsFiniteSet(A)
    PROVE  IsFiniteSet({s[p].time : p \in A})
<1> DEFINE T == {s[p].time : p \in A}
           h == [p \in A |-> s[p].time]
<1>1. h \in Surjection(A, T)
  BY DEF Surjection
<1> HIDE DEF T, h
<1>2. IsFiniteSet(T)
  BY <1>1, FS_Surjection
<1> QED BY <1>2 DEF T

LEMMA SecondsFacts ==
    ASSUME NEW s, IsSeries(s), s # <<>>
    PROVE  /\ Seconds(s) \subseteq Nat /\ IsFiniteSet(Seconds(s))
           /\ \A t \in Nat : t \in Seconds(s) <=>
                  /\ \E p \in DOMAIN s : s[p].time <= t
                  /\ \E p \in DOMAIN s : t < s[p].time
<1> DEFINE stamps == {s[p].time : p \in DOMAIN s}
<1>1. IsFiniteSet(stamps)
  BY SeriesFacts, StampsAreFinite
<1>2. stamps \subseteq Nat /\ stamps # {}
  BY SeriesFacts DEF IsSeries
<1>3. Seconds(s) = Min(stamps)..(Max(stamps) - 1)
  BY DEF Seconds
<1>4. \A t \in Nat : /\ (\E p \in DOMAIN s : s[p].time <= t) <=> (\E u \in stamps : u <= t)
                     /\ (\E p \in DOMAIN s : t < s[p].time) <=> (\E u \in stamps : t < u)
  OBVIOUS
<1> HIDE DEF stamps
<1>5. Min(stamps) \in stamps /\ \A u \in stamps : Min(stamps) <= u
  BY <1>2, LeastNatural DEF Min
<1>6. Max(stamps) \in stamps /\ \A u \in stamps : u <= Max(stamps)
  BY <1>1, <1>2, LargestOf
<1>7. \A t \in Nat : t \in Seconds(s) <=> /\ \E u \in stamps : u <= t
                                          /\ \E u \in stamps : t < u
  <2> DEFINE lo == Min(stamps)
             hi == Max(stamps)
  <2>1. lo \in stamps /\ hi \in stamps /\ Seconds(s) = lo..(hi - 1)
    BY <1>3, <1>5, <1>6
  <2>2. \A u \in stamps : lo <= u /\ u <= hi
    BY <1>5, <1>6
  <2> HIDE DEF lo, hi
  <2>3. lo \in Nat /\ hi \in Nat /\ \A u \in stamps : u \in Nat
    BY <1>2, <2>1
  <2>4. ASSUME NEW t \in Nat
        PROVE  t \in Seconds(s) <=> (\E u \in stamps : u <= t) /\ (\E u \in stamps : t < u)
    BY <2>1, <2>2, <2>3
  <2> QED BY <2>4
<1>8. Seconds(s) \subseteq Nat /\ IsFiniteSet(Seconds(s))
  <2> DEFINE lo == Min(stamps)
             hi == Max(stamps) - 1
  <2>1. Min(stamps) \in Nat /\ Max(stamps) \in Nat
    BY <1>2, <1>5, <1>6
  <2>2. lo \in Nat /\ hi \in Int /\ Seconds(s) = lo..hi
    BY <1>3, <2>1
  <2> HIDE DEF lo, hi
  <2> QED BY <2>2, FS_Interval
<1> QED BY <1>4, <1>7, <1>8

LEMMA InForceFacts ==
    ASSUME NEW s, IsSeries(s), s # <<>>, NEW t \in Seconds(s)
    PROVE  /\ InForce(s, t) \in DOMAIN s
           /\ \A p \in DOMAIN s : Between(s, p, t) <=> p = InForce(s, t)
<1> DEFINE past == {p \in DOMAIN s : s[p].time <= t}
           latest == {p \in past : \A q \in past : s[q].time <= s[p].time}
           f == InForce(s, t)
<1>1. /\ t \in Nat /\ past # {} /\ past \subseteq DOMAIN s
      /\ \E p \in DOMAIN s : t < s[p].time
  BY SecondsFacts
<1>2. \A p \in DOMAIN s : p \in Nat /\ s[p].time \in Nat
  BY SeriesFacts
<1>3. latest # {}
  <2> DEFINE times == {s[p].time : p \in past}
  <2>1. IsFiniteSet(past)
    BY SeriesFacts, FS_Subset
  <2>2. IsFiniteSet(times) /\ times \subseteq Nat /\ times # {}
    BY <1>1, <1>2, <2>1, StampsAreFinite
  <2>3. Max(times) \in times /\ \A u \in times : u <= Max(times)
    <3> HIDE DEF times
    <3> QED BY <2>2, LargestOf
  <2>4. PICK p \in past : s[p].time = Max(times)
    BY <2>3
  <2>5. \A q \in past : s[q].time <= s[p].time
    BY <2>3, <2>4
  <2> QED BY <2>5
<1>4. f \in latest /\ \A p \in latest : p <= f
  <2>1. IsFiniteSet(latest) /\ latest \subseteq Nat
    BY <1>2, SeriesFacts, FS_Subset
  <2> HIDE DEF latest
  <2>2. Max(latest) \in latest /\ \A y \in latest : y <= Max(latest)
    BY <1>3, <2>1, LargestOf
  <2> QED BY <2>2 DEF InForce, latest
<1>5. f \in DOMAIN s /\ s[f].time <= t
  BY <1>4
<1>6. Between(s, f, t)
  <2>1. ASSUME NEW q \in DOMAIN s, Earlier(s, f, q) PROVE t < s[q].time
    <3>1. SUFFICES ASSUME s[q].time <= t PROVE FALSE
      BY <1>1, <1>2
    <3>2. q \in past /\ s[q].time <= s[f].time
      BY <1>4, <3>1
    <3>3. s[q].time = s[f].time /\ f < q
      BY <1>2, <1>5, <2>1, <3>2 DEF Earlier
    <3>4. q \in latest
      BY <1>4, <3>2, <3>3
    <3> QED BY <1>2, <1>4, <1>5, <3>3, <3>4
  <2>2. PICK m \in DOMAIN s : t < s[m].time
    BY <1>1
  <2>3. Earlier(s, f, m)
    BY <1>1, <1>2, <1>5, <2>2 DEF Earlier
  <2> HIDE DEF f
  <2> QED BY <1>5, <2>1, <2>2, <2>3 DEF Between, Later
<1>7. ASSUME NEW p \in DOMAIN s, Between(s, p, t) PROVE p = f
  <2>1. s[p].time <= t /\ \A q \in DOMAIN s : Earlier(s, p, q) => t < s[q].time
    BY <1>7 DEF Between, Later
  <2>2. s[f].time <= t /\ \A q \in DOMAIN s : Earlier(s, f, q) => t < s[q].time
    BY <1>6 DEF Between, Later
  <2> HIDE DEF f
  <2>3. ~Earlier(s, p, f) /\ ~Earlier(s, f, p)
    BY <1>1, <1>2, <1>5, <2>1, <2>2
  <2> QED BY <1>2, <1>5, <2>3 DEF Earlier
<1> QED BY <1>5, <1>6, <1>7

\* The energy of a snapshot is the power it puts in force for its seconds.
Slot(s, p) == s[p].time..(s[p].time + Elapsed(s, p) - 1)

LEMMA SlotFacts ==
    ASSUME NEW s, IsSeries(s), s # <<>>, NEW p \in DOMAIN s
    PROVE  /\ Slot(s, p) \subseteq Seconds(s) /\ IsFiniteSet(Slot(s, p))
           /\ Cardinality(Slot(s, p)) = Elapsed(s, p) /\ Elapsed(s, p) \in Nat
           /\ \A t \in Seconds(s) : t \in Slot(s, p) <=> p = InForce(s, t)
<1>1. /\ s[p].time \in Nat /\ Elapsed(s, p) \in Nat
      /\ \A t \in Nat : Between(s, p, t) <=> t \in Slot(s, p)
  BY SeriesFacts, ElapsedFacts DEF Slot
<1>2. IsFiniteSet(Slot(s, p)) /\ Cardinality(Slot(s, p)) = Elapsed(s, p)
  <2> DEFINE a == s[p].time
             b == s[p].time + Elapsed(s, p) - 1
  <2>1. a \in Int /\ b \in Int /\ Slot(s, p) = a..b /\ b - a + 1 = Elapsed(s, p)
        /\ (a > b => Elapsed(s, p) = 0)
    BY <1>1 DEF Slot
  <2> HIDE DEF a, b
  <2> QED BY <2>1, FS_Interval
<1>3. Slot(s, p) \subseteq Nat
  BY <1>1 DEF Slot
<1>4. ASSUME NEW t \in Slot(s, p) PROVE t \in Seconds(s)
  <2>1. t \in Nat /\ Between(s, p, t)
    BY <1>1, <1>3
  <2>2. s[p].time <= t /\ \E q \in DOMAIN s : t < s[q].time
    BY <2>1 DEF Between, Later
  <2> QED BY <2>1, <2>2, SecondsFacts
<1>5. \A t \in Seconds(s) : t \in Slot(s, p) <=> p = InForce(s, t)
  BY <1>1, SecondsFacts, InForceFacts
<1> QED BY <1>1, <1>2, <1>4, <1>5

LEMMA SlotSum ==
    ASSUME NEW s, IsSeries(s), s # <<>>, NEW p \in DOMAIN EnergyTerms(s), NEW power,
           power = [t \in Seconds(s) |-> PowerAt(s, t)]
    PROVE  SumFunctionOnSet(power, Slot(s, p)) = EnergyTerms(s)[p]
<1>1. /\ p \in DOMAIN s /\ s[p].gpu.present /\ Supported(s[p].gpu.power)
      /\ s[p].gpu.power \in Nat
      /\ EnergyTerms(s)[p] = s[p].gpu.power * Elapsed(s, p)
  BY EnergyNumbers, MeasuredNumbers DEF Numbers
<1>2. /\ Slot(s, p) \subseteq Seconds(s) /\ IsFiniteSet(Slot(s, p))
      /\ Cardinality(Slot(s, p)) = Elapsed(s, p)
      /\ \A t \in Slot(s, p) : InForce(s, t) = p
  BY <1>1, SlotFacts
<1>3. \A t \in Slot(s, p) : power[t] = s[p].gpu.power
  BY <1>1, <1>2 DEF PowerAt, Powered
<1>4. SumFunctionOnSet(power, Slot(s, p)) = s[p].gpu.power * Cardinality(Slot(s, p))
  <2> DEFINE w == s[p].gpu.power
             S == Slot(s, p)
  <2>1. w \in Nat /\ IsFiniteSet(S) /\ \A t \in S : power[t] = w
    BY <1>1, <1>2, <1>3
  <2> HIDE DEF w, S
  <2>2. SumFunctionOnSet(power, S) = w * Cardinality(S)
    BY <2>1, SumConstant
  <2> QED BY <2>2 DEF w, S
<1> QED BY <1>1, <1>2, <1>4

LEMMA PowerNumbers ==
    ASSUME NEW s, IsSeries(s), s # <<>>, NEW t \in Seconds(s)
    PROVE  /\ PowerAt(s, t) \in Nat
           /\ Powered(s, t) => InForce(s, t) \in DOMAIN EnergyTerms(s)
           /\ ~Powered(s, t) => PowerAt(s, t) = 0
<1> DEFINE f == InForce(s, t)
<1>1. f \in DOMAIN s /\ t \in Slot(s, f)
  BY InForceFacts, SlotFacts
<1>2. Elapsed(s, f) > 0
  <2>1. s[f].time \in Nat /\ Elapsed(s, f) \in Nat
    BY <1>1, SeriesFacts, ElapsedFacts
  <2> HIDE DEF f
  <2> QED BY <1>1, <2>1 DEF Slot
<1>3. /\ \A p \in DOMAIN s : s[p].gpu.present /\ Supported(s[p].gpu.power) =>
                /\ s[p].gpu.power \in Nat
                /\ p \in DOMAIN Measurements(s, "power")
  BY MeasuredNumbers DEF Numbers
<1>4. Powered(s, t) => s[f].gpu.power \in Nat /\ f \in DOMAIN Measurements(s, "power")
  BY <1>1, <1>3 DEF Powered
<1> QED BY <1>2, <1>4, EnergyNumbers DEF PowerAt

LEMMA SlotsSum ==
    ASSUME NEW s, IsSeries(s), s # <<>>, NEW power,
           power = [t \in Seconds(s) |-> PowerAt(s, t)]
    PROVE  SumFunctionOnSet(power, UNION {Slot(s, p) : p \in DOMAIN EnergyTerms(s)}) =
               SumFunction(EnergyTerms(s))
<1> DEFINE terms == EnergyTerms(s)
           D == DOMAIN terms
           Slots(A) == UNION {Slot(s, p) : p \in A}
           Good == {A \in SUBSET D : SumFunctionOnSet(power, Slots(A)) = SumFunctionOnSet(terms, A)}
<1>1. D \subseteq DOMAIN s /\ IsFiniteSet(D) /\ Numbers(terms, D)
  <2>1. D \subseteq DOMAIN s
    BY EnergyNumbers, MeasuredNumbers
  <2> QED BY <2>1, SeriesFacts, FS_Subset, EnergyNumbers
<1>2. Numbers(power, Seconds(s)) /\ IsFiniteSet(Seconds(s))
  BY PowerNumbers, SecondsFacts DEF Numbers
<1>3. \A p \in D : /\ Slot(s, p) \subseteq Seconds(s) /\ IsFiniteSet(Slot(s, p))
                   /\ \A t \in Seconds(s) : t \in Slot(s, p) <=> p = InForce(s, t)
                   /\ SumFunctionOnSet(power, Slot(s, p)) = terms[p]
  BY <1>1, SlotFacts, SlotSum
<1> HIDE DEF terms, D
<1>4. {} \in Good
  <2>1. Slots({}) = {}
    OBVIOUS
  <2>2. SumFunctionOnSet(power, {}) = 0 /\ SumFunctionOnSet(terms, {}) = 0
    BY FS_EmptySet, SumDef
  <2> QED BY <2>1, <2>2
<1>5. ASSUME NEW A \in SUBSET D, NEW x \in D, x \notin A, A \in Good PROVE A \cup {x} \in Good
  <2> DEFINE B == A \cup {x}
  <2>1. Slots(B) = Slots(A) \cup Slot(s, x)
    OBVIOUS
  <2>2. Slots(A) \cap Slot(s, x) = {} /\ Slots(A) \subseteq Seconds(s)
    <3>1. ASSUME NEW t \in Slots(A) PROVE t \in Seconds(s) /\ t \notin Slot(s, x)
      <4>1. PICK p \in A : t \in Slot(s, p)
        OBVIOUS
      <4> QED BY <1>3, <1>5, <4>1
    <3> QED BY <3>1
  <2>3. IsFiniteSet(Slots(A)) /\ IsFiniteSet(Slot(s, x))
    BY <1>2, <1>3, <2>2, FS_Subset
  <2>4. Numbers(power, Slots(A) \cup Slot(s, x))
    BY <1>2, <1>3, <2>2 DEF Numbers
  <2>5. SumFunctionOnSet(power, Slots(A)) = SumFunctionOnSet(terms, A)
    BY <1>5
  <2> HIDE DEF Slots
  <2>6. SumFunctionOnSet(power, Slots(B)) = SumFunctionOnSet(terms, A) + terms[x]
    <3> DEFINE R == Slots(A)
               T == Slot(s, x)
    <3>1. IsFiniteSet(R) /\ IsFiniteSet(T) /\ R \cap T = {} /\ Numbers(power, R \cup T)
      BY <2>2, <2>3, <2>4
    <3> HIDE DEF R, T
    <3>2. SumFunctionOnSet(power, R \cup T) = SumFunctionOnSet(power, R) + SumFunctionOnSet(power, T)
      BY <3>1, SumUnion
    <3> QED BY <1>3, <2>1, <2>5, <3>2 DEF R, T
  <2>7. IsFiniteSet(A) /\ IsFiniteSet(B) /\ Numbers(terms, A) /\ Numbers(terms, B) /\ x \in B /\ B \ {x} = A
        /\ B \in SUBSET D
    BY <1>1, <1>5, FS_Subset DEF Numbers
  <2> HIDE DEF B
  <2>8. SumFunctionOnSet(terms, B) = terms[x] + SumFunctionOnSet(terms, A)
    BY <2>7, SumTake
  <2>9. SumFunctionOnSet(terms, A) \in Nat /\ terms[x] \in Nat
    BY <1>1, <2>7, SumType DEF Numbers
  <2>10. SumFunctionOnSet(power, Slots(B)) = SumFunctionOnSet(terms, B)
    BY <2>6, <2>8, <2>9
  <2>11. B \in Good
    BY <2>7, <2>10
  <2> QED BY <2>11 DEF B
<1>6. D \in Good
  <2> HIDE DEF Good
  <2> QED BY <1>1, <1>4, <1>5, SubsetInduction
<1>7. SumFunctionOnSet(power, Slots(D)) = SumFunctionOnSet(terms, D)
  BY <1>6
<1> QED BY <1>7 DEF SumFunction, D, terms

LEMMA IntegralOf ==
    ASSUME NEW s, IsSeries(s), s # <<>>
    PROVE  /\ SumFunction([t \in Seconds(s) |-> PowerAt(s, t)]) = SumFunction(EnergyTerms(s))
           /\ (\E t \in Seconds(s) : Powered(s, t)) <=> DOMAIN EnergyTerms(s) # {}
<1> DEFINE power == [t \in Seconds(s) |-> PowerAt(s, t)]
           D == DOMAIN EnergyTerms(s)
           slots == UNION {Slot(s, p) : p \in D}
           rest == Seconds(s) \ slots
<1>1. D \subseteq DOMAIN s /\ \A p \in D : Elapsed(s, p) > 0
  BY EnergyNumbers, MeasuredNumbers
<1>2. \A p \in D : Slot(s, p) \subseteq Seconds(s)
  BY <1>1, SlotFacts
<1>3. slots \subseteq Seconds(s) /\ slots \cup rest = Seconds(s) /\ slots \cap rest = {}
  BY <1>2
<1>4. IsFiniteSet(slots) /\ IsFiniteSet(rest)
  BY <1>3, SecondsFacts, FS_Subset
<1>5. ASSUME NEW t \in Seconds(s) PROVE Powered(s, t) => t \in slots
  BY PowerNumbers, InForceFacts, SlotFacts
<1>6. \A t \in rest : power[t] = 0
  BY <1>5, PowerNumbers
<1>7. Numbers(power, Seconds(s))
  BY PowerNumbers DEF Numbers
<1>8. SumFunctionOnSet(power, slots) = SumFunction(EnergyTerms(s))
  BY SlotsSum
<1>9. (\E t \in Seconds(s) : Powered(s, t)) <=> D # {}
  <2>1. ASSUME NEW t \in Seconds(s), Powered(s, t) PROVE D # {}
    BY <2>1, PowerNumbers
  <2>2. ASSUME NEW p \in D PROVE \E t \in Seconds(s) : Powered(s, t)
    <3>1. s[p].time \in Slot(s, p)
      <4>1. s[p].time \in Nat /\ Elapsed(s, p) \in Nat /\ Elapsed(s, p) > 0
        BY <1>1, SeriesFacts, ElapsedFacts
      <4> QED BY <4>1 DEF Slot
    <3>2. s[p].time \in Seconds(s) /\ InForce(s, s[p].time) = p
      BY <1>1, <1>2, <3>1, SlotFacts
    <3>3. Powered(s, s[p].time)
      <4>1. s[p].gpu.present /\ Supported(s[p].gpu.power)
        BY EnergyNumbers, MeasuredNumbers
      <4> QED BY <3>2, <4>1 DEF Powered
    <3> QED BY <3>2, <3>3
  <2> QED BY <2>1, <2>2
<1>10. DOMAIN power = Seconds(s)
  OBVIOUS
<1> HIDE DEF power, slots, rest, D
<1>11. SumFunctionOnSet(power, rest) = 0
  <2>1. SumFunctionOnSet(power, rest) = 0 * Cardinality(rest)
    BY <1>4, <1>6, SumConstant
  <2> QED BY <2>1, <1>4, FS_CardinalityType
<1>12. SumFunctionOnSet(power, Seconds(s)) =
         SumFunctionOnSet(power, slots) + SumFunctionOnSet(power, rest)
  BY <1>3, <1>4, <1>7, SumUnion
<1>13. SumFunctionOnSet(power, slots) \in Nat
  BY <1>3, <1>4, <1>7, SumType DEF Numbers
<1>14. SumFunction(power) = SumFunction(EnergyTerms(s))
  BY <1>8, <1>10, <1>11, <1>12, <1>13 DEF SumFunction
<1> QED BY <1>9, <1>14 DEF power, D

\* The energy of a window is the integral of the power in force from its first
\* snapshot to its last, whatever the stamps, their order and what is missing.
THEOREM EnergyIsIntegral == Spec => []EnergyIsTheIntegral
<1>1. ASSUME IsSeries(series) PROVE EnergyIsTheIntegral
  BY <1>1, IntegralOf DEF EnergyIsTheIntegral, Energy
<1> QED BY <1>1, SeriesInit, SeriesStep, PTL DEF Spec

(***************************************************************************)
(* The loop of _substantial_clock_drop finds the first drop.  What it      *)
(* carries from sample to sample is a function on the natural numbers.     *)
(***************************************************************************)
Start == [maximum |-> Unsupported, found |-> Absent]
After(s, order, n, w) ==
    w = [k \in 0..n |-> IF k = 0 THEN Start ELSE Watch(w[k - 1], s[order[k]].gpu)]

LEMMA AfterExists ==
    ASSUME NEW s, NEW order, NEW n \in Nat
    PROVE  \E w : After(s, order, n, w)
<1> DEFINE G == {m \in Nat : \E w : After(s, order, m, w)}
<1>1. 0 \in G
  <2>1. After(s, order, 0, [k \in 0..0 |-> Start])
    BY DEF After
  <2> QED BY <2>1
<1>2. ASSUME NEW m \in Nat, m \in G PROVE m + 1 \in G
  <2>1. PICK w : After(s, order, m, w)
    BY <1>2
  <2> DEFINE v == [k \in 0..(m + 1) |->
                     IF k = 0 THEN Start ELSE Watch(w[k - 1], s[order[k]].gpu)]
  <2>2. \A k \in 0..m : v[k] = w[k]
    BY <2>1 DEF After
  <2>3. \A k \in 0..(m + 1) : k # 0 => k - 1 \in 0..m
    OBVIOUS
  <2>4. \A k \in 0..(m + 1) : k # 0 => v[k - 1] = w[k - 1]
    BY <2>2, <2>3
  <2>5. v = [k \in 0..(m + 1) |-> IF k = 0 THEN Start ELSE Watch(v[k - 1], s[order[k]].gpu)]
    BY <2>4
  <2> HIDE DEF v
  <2>6. After(s, order, m + 1, v)
    BY <2>5 DEF After
  <2> QED BY <2>6
<1>3. Nat \subseteq G
  <2> HIDE DEF G
  <2> QED BY <1>1, <1>2, SetInduction
<1> QED BY <1>3

LEMMA LoopRuns ==
    ASSUME NEW s, NEW order, Len(order) \in Nat
    PROVE  \E w : After(s, order, Len(order), w) /\ Loop(s, order) = w[Len(order)].found
<1> DEFINE w == CHOOSE w : After(s, order, Len(order), w)
<1>1. After(s, order, Len(order), w)
  BY AfterExists
<1>2. Loop(s, order) = w[Len(order)].found
  BY DEF Loop, After, Start
<1> QED BY <1>1, <1>2

\* The samples with a clock among the first k.
Behind(s, order, k) == {order[j] : j \in 1..k} \cap Clocked(s)

\* Until it finds the first drop, the loop has the maximum of what is behind.
Found(s, order, k, found) ==
    \E p \in Behind(s, order, k) \cap Drops(s) :
        found = s[p].gpu /\ \A q \in Drops(s) \ {p} : Earlier(s, p, q)
MaximumOf(s, behind, maximum) ==
    \/ behind = {} /\ maximum = Unsupported
    \/ /\ maximum \in Nat
       /\ \E q \in behind : s[q].gpu.clock = maximum
       /\ \A q \in behind : s[q].gpu.clock <= maximum
Watched(s, order, k, state) ==
    /\ state = [maximum |-> state.maximum, found |-> state.found]
    /\ state.found.present => Found(s, order, k, state.found)
    /\ ~state.found.present =>
          /\ state.found = Absent /\ Behind(s, order, k) \cap Drops(s) = {}
          /\ MaximumOf(s, Behind(s, order, k), state.maximum)

LEMMA SortedFacts ==
    ASSUME NEW s, IsSeries(s), NEW order, Sorted(s, order), NEW k \in 0..(Len(order) - 1)
    PROVE  LET p == order[k + 1]
               behind == Behind(s, order, k)
           IN /\ p \in DOMAIN s /\ s[p].gpu.present /\ behind \subseteq Clocked(s)
              /\ \A q \in Clocked(s) : q \in behind <=> Earlier(s, q, p)
              /\ Behind(s, order, k + 1) = behind \cup ({p} \cap Clocked(s))
              /\ \A q \in Clocked(s) : q \in behind \/ q = p \/ Earlier(s, p, q)
<1> DEFINE p == order[k + 1]
           behind == Behind(s, order, k)
<1>1. /\ Len(order) \in Nat /\ DOMAIN order = 1..Len(order) /\ k \in Nat
      /\ k + 1 \in DOMAIN order /\ p \in GpuSamples(s) /\ GpuSamples(s) \subseteq DOMAIN s
  BY DEF Sorted, GpuSamples
<1>2. \A q \in DOMAIN s : q \in Nat /\ s[q].time \in Nat
  BY SeriesFacts
<1>3. \A q, r \in DOMAIN s : ~(Earlier(s, q, r) /\ Earlier(s, r, q))
  BY <1>2 DEF Earlier
<1>4. Clocked(s) \subseteq GpuSamples(s)
  BY ClockedFacts DEF GpuSamples
<1>5. ASSUME NEW q \in Clocked(s)
      PROVE  /\ q \in behind <=> Earlier(s, q, p)
             /\ q \in behind \/ q = p \/ Earlier(s, p, q)
  <2>1. PICK j \in DOMAIN order : order[j] = q
    BY <1>4 DEF Sorted
  <2>2. CASE j <= k
    <3>1. q \in behind
      BY <1>1, <2>1, <2>2 DEF Behind
    <3>2. Earlier(s, q, p)
      BY <1>1, <2>1, <2>2 DEF Sorted
    <3> QED BY <3>1, <3>2
  <2>3. CASE ~(j <= k)
    <3>1. q = p \/ Earlier(s, p, q)
      <4>1. j = k + 1 \/ k + 1 < j
        BY <1>1, <2>3
      <4> QED BY <1>1, <2>1, <4>1 DEF Sorted
    <3>2. ~Earlier(s, q, p)
      BY <1>1, <1>3, <1>4, <3>1
    <3>3. q \notin behind
      <4>1. ASSUME q \in behind PROVE FALSE
        <5>1. PICK i \in 1..k : order[i] = q
          BY <4>1 DEF Behind
        <5>2. Earlier(s, q, p)
          BY <1>1, <5>1 DEF Sorted
        <5> QED BY <3>2, <5>2
      <4> QED BY <4>1
    <3> QED BY <3>1, <3>2, <3>3
  <2> QED BY <2>2, <2>3
<1>6. {order[j] : j \in 1..(k + 1)} = {order[j] : j \in 1..k} \cup {p}
  <2>1. 1..(k + 1) = 1..k \cup {k + 1}
    BY <1>1
  <2> QED BY <2>1
<1>7. Behind(s, order, k + 1) = behind \cup ({p} \cap Clocked(s))
  BY <1>6 DEF Behind
<1>8. behind \subseteq Clocked(s) /\ p \in DOMAIN s /\ s[p].gpu.present
  BY <1>1 DEF Behind, GpuSamples
<1> QED BY <1>5, <1>7, <1>8

\* A clock below an earlier one by the share is below the largest by it.
LEMMA DroppedFurther ==
    ASSUME NEW clock \in Nat, NEW earlier \in Nat, NEW maximum \in Nat,
           earlier <= maximum, Dropped(clock, earlier)
    PROVE  Dropped(clock, maximum)
  BY DEF Dropped

LEMMA WatchStep ==
    ASSUME NEW s, IsSeries(s), NEW order, Sorted(s, order), NEW k \in 0..(Len(order) - 1),
           NEW state, Watched(s, order, k, state)
    PROVE  Watched(s, order, k + 1, Watch(state, s[order[k + 1]].gpu))
<1> DEFINE p == order[k + 1]
           behind == Behind(s, order, k)
           clock == s[p].gpu.clock
           new == Watch(state, s[p].gpu)
<1>1. /\ p \in DOMAIN s /\ s[p].gpu.present /\ behind \subseteq Clocked(s)
      /\ \A q \in Clocked(s) : q \in behind <=> Earlier(s, q, p)
      /\ Behind(s, order, k + 1) = behind \cup ({p} \cap Clocked(s))
      /\ \A q \in Clocked(s) : q \in behind \/ q = p \/ Earlier(s, p, q)
  BY SortedFacts
<1>2. /\ p \in Clocked(s) <=> Supported(clock)
      /\ Drops(s) \subseteq Clocked(s)
      /\ \A q \in Clocked(s) : s[q].gpu.clock \in Nat
  <2>1. \A x \in Snapshots : x.gpu.present /\ Supported(x.gpu.clock) => x.gpu.clock \in Nat
    BY WindowAssumption DEF Snapshots, Absent, Supported
  <2> QED BY <1>1, <2>1, ClockedFacts, SeriesFacts DEF Drops
<1>3. p \in Drops(s) <=> /\ p \in Clocked(s)
                         /\ \E q \in behind : Dropped(clock, s[q].gpu.clock)
  BY <1>1 DEF Drops
<1>4. CASE state.found.present
  <2>1. new = state
    BY <1>4 DEF Watch
  <2>2. Found(s, order, k + 1, state.found)
    BY <1>1, <1>4 DEF Watched, Found
  <2> QED BY <1>4, <2>1, <2>2 DEF Watched
<1>5. CASE ~state.found.present /\ ~Supported(clock)
  <2>1. new = state
    BY <1>5 DEF Watch
  <2>2. Behind(s, order, k + 1) = behind
    BY <1>1, <1>2, <1>5
  <2> QED BY <1>5, <2>1, <2>2 DEF Watched
<1>6. CASE ~state.found.present /\ Supported(clock)
  <2>1. /\ state = [maximum |-> state.maximum, found |-> Absent]
        /\ behind \cap Drops(s) = {} /\ MaximumOf(s, behind, state.maximum)
    BY <1>6, Zenon DEF Watched
  <2>2. p \in Clocked(s) /\ clock \in Nat
    BY <1>2, <1>6
  <2>3. p \in Drops(s) <=> Supported(state.maximum) /\ Dropped(clock, state.maximum)
    <3>1. CASE behind = {} /\ state.maximum = Unsupported
      BY <1>3, <3>1 DEF Supported
    <3>2. CASE ~(behind = {} /\ state.maximum = Unsupported)
      <4>1. PICK q \in behind : /\ s[q].gpu.clock = state.maximum /\ state.maximum \in Nat
                               /\ \A r \in behind : s[r].gpu.clock <= state.maximum
        BY <2>1, <3>2 DEF MaximumOf
      <4>2. Supported(state.maximum)
        BY <4>1 DEF Supported, Unsupported
      <4>3. ASSUME NEW r \in behind, Dropped(clock, s[r].gpu.clock)
            PROVE  Dropped(clock, state.maximum)
        <5>1. s[r].gpu.clock \in Nat /\ s[r].gpu.clock <= state.maximum
          BY <1>1, <1>2, <4>1
        <5> QED BY <2>2, <4>1, <4>3, <5>1, DroppedFurther
      <4> QED BY <1>3, <2>2, <4>1, <4>2, <4>3
    <3> QED BY <3>1, <3>2
  <2>4. CASE p \in Drops(s)
    <3>1. new = [maximum |-> state.maximum, found |-> s[p].gpu]
      BY <1>6, <2>1, <2>3, <2>4 DEF Watch
    <3>2. \A q \in Drops(s) \ {p} : Earlier(s, p, q)
      BY <1>1, <1>2, <2>1
    <3>3. p \in Behind(s, order, k + 1) \cap Drops(s)
      BY <1>1, <2>2, <2>4
    <3>4. Found(s, order, k + 1, s[p].gpu)
      BY <3>2, <3>3 DEF Found
    <3> HIDE DEF new, p
    <3>5. /\ new.found = s[p].gpu /\ s[p].gpu.present
          /\ new = [maximum |-> new.maximum, found |-> new.found]
      BY <1>1, <3>1
    <3>6. Watched(s, order, k + 1, new)
      BY <3>4, <3>5 DEF Watched
    <3> QED BY <3>6 DEF new, p
  <2>5. CASE p \notin Drops(s)
    <3> DEFINE maximum == IF clock > state.maximum THEN clock ELSE state.maximum
    <3>1. new = [maximum |-> maximum, found |-> Absent]
      BY <1>6, <2>1, <2>3, <2>5 DEF Watch
    <3>2. Behind(s, order, k + 1) = behind \cup {p}
      BY <1>1, <2>2
    <3>3. Behind(s, order, k + 1) \cap Drops(s) = {}
      BY <2>1, <2>5, <3>2
    <3>4. MaximumOf(s, behind \cup {p}, maximum)
      <4>1. CASE behind = {} /\ state.maximum = Unsupported
        <5>1. maximum = clock
          BY <2>2, <4>1 DEF Unsupported
        <5> QED BY <2>2, <4>1, <5>1 DEF MaximumOf
      <4>2. CASE ~(behind = {} /\ state.maximum = Unsupported)
        <5>1. PICK q \in behind : /\ s[q].gpu.clock = state.maximum /\ state.maximum \in Nat
                                 /\ \A r \in behind : s[r].gpu.clock <= state.maximum
          BY <2>1, <4>2 DEF MaximumOf
        <5>2. \A r \in behind : s[r].gpu.clock \in Nat
          BY <1>1, <1>2
        <5>3. maximum \in Nat /\ clock <= maximum /\ state.maximum <= maximum
          BY <2>2, <5>1
        <5>4. \E r \in behind \cup {p} : s[r].gpu.clock = maximum
          BY <5>1
        <5>5. \A r \in behind \cup {p} : s[r].gpu.clock <= maximum
          <6> HIDE DEF maximum
          <6>1. ASSUME NEW r \in behind PROVE s[r].gpu.clock <= maximum
            BY <5>1, <5>2, <5>3
          <6> QED BY <5>3, <6>1
        <5> HIDE DEF maximum
        <5> QED BY <5>3, <5>4, <5>5 DEF MaximumOf
      <4> QED BY <4>1, <4>2
    <3> HIDE DEF new, maximum, p, behind
    <3>5. new.found = Absent /\ new.maximum = maximum /\ ~new.found.present
      BY <3>1 DEF Absent
    <3>6. Watched(s, order, k + 1, new)
      BY <3>1, <3>2, <3>3, <3>4, <3>5 DEF Watched
    <3> QED BY <3>6 DEF new, p
  <2> QED BY <2>4, <2>5
<1> QED BY <1>4, <1>5, <1>6

\* The loop over the samples in the order of their times finds the first one
\* with a clock at least 15% below an earlier clock, and nothing if none is.
THEOREM LoopFindsTheFirstDrop ==
    ASSUME NEW s, IsSeries(s), NEW order, Sorted(s, order)
    PROVE  Loop(s, order) = SubstantialClockDrop(s)
<1> DEFINE n == Len(order)
<1>1. n \in Nat /\ DOMAIN order = 1..n
  BY DEF Sorted
<1>2. PICK w : After(s, order, n, w) /\ Loop(s, order) = w[n].found
  BY <1>1, LoopRuns
<1> DEFINE G == {k \in Nat : k <= n => Watched(s, order, k, w[k])}
<1>3. 0 \in G
  <2>1. w[0] = Start
    BY <1>1, <1>2 DEF After
  <2>2. Behind(s, order, 0) = {}
    BY DEF Behind
  <2>3. Watched(s, order, 0, Start)
    BY <2>2 DEF Watched, Start, Absent, MaximumOf
  <2> QED BY <2>1, <2>3
<1>4. ASSUME NEW k \in Nat, k \in G PROVE k + 1 \in G
  <2>1. ASSUME k + 1 <= n PROVE Watched(s, order, k + 1, w[k + 1])
    <3>1. k \in 0..(n - 1) /\ Watched(s, order, k, w[k])
      BY <1>1, <1>4, <2>1
    <3>2. w[k + 1] = Watch(w[k], s[order[k + 1]].gpu)
      <4>1. k + 1 \in 0..n /\ k + 1 # 0 /\ (k + 1) - 1 = k
        BY <1>1, <2>1
      <4> QED BY <1>2, <4>1 DEF After
    <3>3. Watched(s, order, k + 1, Watch(w[k], s[order[k + 1]].gpu))
      BY <3>1, WatchStep
    <3> QED BY <3>2, <3>3
  <2> QED BY <2>1
<1>5. Nat \subseteq G
  <2> HIDE DEF G
  <2> QED BY <1>3, <1>4, SetInduction
<1>6. Watched(s, order, n, w[n])
  BY <1>1, <1>5
<1>7. Behind(s, order, n) = Clocked(s)
  <2>1. \A p \in Clocked(s) : p \in {order[j] : j \in 1..n}
    BY <1>1, ClockedFacts DEF Sorted, GpuSamples
  <2> QED BY <2>1 DEF Behind
<1>8. Drops(s) \subseteq Clocked(s) /\ Drops(s) \subseteq DOMAIN s
  BY ClockedFacts DEF Drops
<1>9. CASE w[n].found.present
  <2>1. PICK p \in Drops(s) : /\ w[n].found = s[p].gpu
                             /\ \A q \in Drops(s) \ {p} : Earlier(s, p, q)
    BY <1>6, <1>9 DEF Watched, Found
  <2>2. First(s, Drops(s)) = p
    BY <1>8, <2>1, FirstUnique
  <2> QED BY <1>2, <2>1, <2>2 DEF SubstantialClockDrop
<1>10. CASE ~w[n].found.present
  <2>1. w[n].found = Absent /\ Drops(s) = {}
    BY <1>6, <1>7, <1>8, <1>10 DEF Watched
  <2> QED BY <1>2, <2>1 DEF SubstantialClockDrop
<1> QED BY <1>9, <1>10
=============================================================================
