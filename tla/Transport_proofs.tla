-------------------------- MODULE Transport_proofs --------------------------
(* That the byte budget never leaks a byte and never admits more than it     *)
(* holds, for any sizes and bounds, and what holds of all that carries       *)
(* contents and messages taken together.                                     *)
EXTENDS MCTransport, RealtimeSocket_proofs, Pools_proofs

-----------------------------------------------------------------------------
(* Sums over finite sets: what MapThenSumSet computes. *)

Sum(w, S) == MapThenSumSet(LAMBDA x : w[x], S)

\* g sums up w over every subset of D.
Adds(g, D, w) ==
    /\ g \in [SUBSET D -> Nat] /\ g[{}] = 0
    /\ \A s \in SUBSET D : \A x \in s : g[s] = w[x] + g[s \ {x}]

\* A set among some finite sets than which none is smaller.
LEMMA SmallestSet ==
    ASSUME NEW F, F # {}, \A s \in F : IsFiniteSet(s)
    PROVE  \E s \in F : \A t \in F : Cardinality(s) <= Cardinality(t)
<1> DEFINE f == [s \in F |-> Cardinality(s)]
<1>1. f \in [F -> Nat]
  BY FS_CardinalityType
<1>2. PICK s \in F : \A t \in F : f[s] <= f[t]
  <2> HIDE DEF f
  <2> QED
    BY <1>1, LeastBy
<1> QED
  BY <1>2

\* A set without one of its elements is smaller.
LEMMA SmallerWithout ==
    ASSUME NEW S, IsFiniteSet(S), NEW x \in S
    PROVE  /\ IsFiniteSet(S \ {x})
           /\ ~(Cardinality(S) <= Cardinality(S \ {x}))
<1>1. IsFiniteSet(S \ {x}) /\ Cardinality(S \ {x}) = Cardinality(S) - 1
  BY FS_RemoveElement
<1>2. Cardinality(S) \in Nat
  BY FS_CardinalityType
<1> QED
  BY <1>1, <1>2

LEMMA AddsExists ==
    ASSUME NEW D, IsFiniteSet(D), NEW w \in [D -> Nat]
    PROVE  \E g : Adds(g, D, w)
<1> DEFINE Bad == {T \in SUBSET D : ~\E g : Adds(g, T, w)}
<1> SUFFICES Bad = {}
  BY DEF Bad
<1> SUFFICES ASSUME Bad # {} PROVE FALSE
  OBVIOUS
<1>1. \A T \in Bad : IsFiniteSet(T)
  BY FS_Subset
<1>2. PICK T \in Bad : \A U \in Bad : Cardinality(T) <= Cardinality(U)
  <2> HIDE DEF Bad
  <2> QED
    BY <1>1, SmallestSet
<1>3. CASE T = {}
  <2> DEFINE g == [s \in SUBSET T |-> 0]
  <2>1. Adds(g, T, w)
    BY <1>3 DEF Adds
  <2> QED
    BY <2>1
<1>4. CASE T # {}
  <2>1. PICK x \in T : TRUE
    BY <1>4
  <2>2. T \ {x} \notin Bad
    BY <1>1, <1>2, SmallerWithout
  <2>3. PICK g : Adds(g, T \ {x}, w)
    BY <2>2
  <2> DEFINE e(s) == IF x \in s THEN w[x] + g[s \ {x}] ELSE g[s]
             h == [s \in SUBSET T |-> e(s)]
  <2>4. /\ \A s \in SUBSET T : s \ {x} \in SUBSET (T \ {x}) /\ g[s \ {x}] \in Nat
        /\ w[x] \in Nat
    BY <2>1, <2>3 DEF Adds
  <2>5. \A s \in SUBSET T : x \notin s => s \ {x} = s
    OBVIOUS
  <2>6. h \in [SUBSET T -> Nat]
    <3>1. ASSUME NEW s \in SUBSET T PROVE e(s) \in Nat
      <4>1. CASE x \in s
        <5>1. w[x] \in Nat /\ g[s \ {x}] \in Nat
          BY <2>4
        <5> QED
          BY <4>1, <5>1
      <4>2. CASE x \notin s
        <5>1. s \ {x} = s
          BY <4>2, <2>5
        <5>2. g[s] \in Nat
          BY <5>1, <2>4
        <5> QED
          BY <4>2, <5>2
      <4> QED
        BY <4>1, <4>2
    <3>2. h = [s \in SUBSET T |-> e(s)]
      OBVIOUS
    <3> HIDE DEF e, h
    <3> QED
      BY <3>1, <3>2
  <2>7. h[{}] = 0
    BY <2>3 DEF Adds
  <2>8. ASSUME NEW s \in SUBSET T, NEW y \in s PROVE h[s] = w[y] + h[s \ {y}]
    <3>1. CASE y = x
      <4>1. h[s \ {x}] = g[s \ {x}]
        BY <2>4
      <4> QED
        BY <3>1, <4>1
    <3>2. CASE y # x /\ x \in s
      <4>1. y \in s \ {x} /\ (s \ {x}) \ {y} = (s \ {y}) \ {x}
        BY <3>2
      <4>2. g[s \ {x}] = w[y] + g[(s \ {x}) \ {y}]
        BY <2>3, <2>4, <4>1 DEF Adds
      <4>3. h[s] = w[x] + g[s \ {x}]
        BY <3>2
      <4>4. h[s \ {y}] = w[x] + g[(s \ {y}) \ {x}]
        BY <3>2
      <4>5. w[y] \in Nat /\ g[(s \ {y}) \ {x}] \in Nat
        BY <2>4
      <4> QED
        <5>1. \A a, b, c \in Nat : a + (b + c) = b + (a + c)
          OBVIOUS
        <5>2. w[x] + (w[y] + g[(s \ {y}) \ {x}]) = w[y] + (w[x] + g[(s \ {y}) \ {x}])
          BY <2>4, <4>5, <5>1
        <5>3. g[s \ {x}] = w[y] + g[(s \ {y}) \ {x}]
          BY <4>1, <4>2
        <5> HIDE DEF h
        <5> QED
          BY <4>3, <4>4, <5>2, <5>3
    <3>3. CASE x \notin s
      <4>1. s \in SUBSET (T \ {x}) /\ s \ {y} \in SUBSET T /\ x \notin s \ {y}
        BY <3>3
      <4>2. g[s] = w[y] + g[s \ {y}]
        BY <2>3, <4>1 DEF Adds
      <4> QED
        BY <3>3, <4>1, <4>2
    <3> QED
      BY <3>1, <3>2, <3>3
  <2>9. Adds(h, T, w)
    BY <2>6, <2>7, <2>8 DEF Adds
  <2> QED
    BY <2>9
<1> QED
  BY <1>3, <1>4

\* How the library's fold goes through a set.
Picked(s) == CHOOSE x \in s : TRUE
Goes(it, w, S) ==
    it = [s \in SUBSET S |-> IF s = {} THEN 0 ELSE w[Picked(s)] + it[s \ {Picked(s)}]]

LEMMA FoldAdds ==
    ASSUME NEW D, IsFiniteSet(D), NEW w, NEW g, Adds(g, D, w), NEW S \in SUBSET D,
           NEW it, Goes(it, w, S)
    PROVE  it[S] = g[S]
<1> DEFINE Bad == {s \in SUBSET S : it[s] # g[s]}
<1> SUFFICES Bad = {}
  OBVIOUS
<1> SUFFICES ASSUME Bad # {} PROVE FALSE
  OBVIOUS
<1>1. \A s \in Bad : IsFiniteSet(s)
  BY FS_Subset
<1>2. PICK s \in Bad : \A t \in Bad : Cardinality(s) <= Cardinality(t)
  <2> HIDE DEF Bad
  <2> QED
    BY <1>1, SmallestSet
<1>3. s # {}
  BY DEF Goes, Adds
<1>4. Picked(s) \in s
  BY <1>3 DEF Picked
<1>5. s \ {Picked(s)} \notin Bad
  BY <1>1, <1>2, <1>4, SmallerWithout
<1>6. it[s \ {Picked(s)}] = g[s \ {Picked(s)}]
  BY <1>5
<1>7. it[s] = w[Picked(s)] + it[s \ {Picked(s)}]
  BY <1>3 DEF Goes
<1>8. g[s] = w[Picked(s)] + g[s \ {Picked(s)}]
  BY <1>4 DEF Adds
<1> QED
  BY <1>6, <1>7, <1>8

LEMMA FoldGoes ==
    ASSUME NEW D, NEW w, NEW g, Adds(g, D, w), NEW S \in SUBSET D
    PROVE  Goes([s \in SUBSET S |-> g[s]], w, S)
<1> DEFINE it == [s \in SUBSET S |-> g[s]]
<1>1. ASSUME NEW s \in SUBSET S
      PROVE  it[s] = IF s = {} THEN 0 ELSE w[Picked(s)] + it[s \ {Picked(s)}]
  <2>1. CASE s = {}
    BY <2>1 DEF Adds
  <2>2. CASE s # {}
    <3>1. Picked(s) \in s
      BY <2>2 DEF Picked
    <3>2. g[s] = w[Picked(s)] + g[s \ {Picked(s)}]
      BY <3>1 DEF Adds
    <3> QED
      BY <2>2, <3>2
  <2> QED
    BY <2>1, <2>2
<1> QED
  BY <1>1 DEF Goes

LEMMA SumAdds ==
    ASSUME NEW D, IsFiniteSet(D), NEW w, NEW g, Adds(g, D, w), NEW S \in SUBSET D
    PROVE  Sum(w, S) = g[S]
<1> DEFINE it == CHOOSE it : Goes(it, w, S)
<1>1. Sum(w, S) = it[S]
  BY Zenon DEF Sum, MapThenSumSet, MapThenFoldSet, Goes, Picked
<1>2. Goes(it, w, S)
  BY FoldGoes
<1> QED
  BY <1>1, <1>2, FoldAdds

LEMMA SumFacts ==
    ASSUME NEW D, IsFiniteSet(D), NEW w \in [D -> Nat]
    PROVE  /\ Sum(w, {}) = 0
           /\ \A S \in SUBSET D : Sum(w, S) \in Nat
           /\ \A S \in SUBSET D : \A x \in S : Sum(w, S) = w[x] + Sum(w, S \ {x})
<1>1. PICK g : Adds(g, D, w)
  BY AddsExists
<1>2. \A S \in SUBSET D : Sum(w, S) = g[S]
  BY <1>1, SumAdds
<1>3. {} \in SUBSET D /\ \A S \in SUBSET D : \A x \in S : S \ {x} \in SUBSET D
  OBVIOUS
<1>4. Sum(w, {}) = 0
  BY <1>1, <1>2, <1>3 DEF Adds
<1>5. \A S \in SUBSET D : Sum(w, S) \in Nat
  BY <1>1, <1>2 DEF Adds
<1>6. ASSUME NEW S \in SUBSET D, NEW x \in S PROVE Sum(w, S) = w[x] + Sum(w, S \ {x})
  <2>1. g[S] = w[x] + g[S \ {x}]
    BY <1>1 DEF Adds
  <2> QED
    BY <1>2, <1>3, <2>1
<1> QED
  BY <1>4, <1>5, <1>6

LEMMA SumUnion ==
    ASSUME NEW D, IsFiniteSet(D), NEW w \in [D -> Nat],
           NEW A \in SUBSET D, NEW B \in SUBSET D, A \cap B = {}
    PROVE  Sum(w, A \cup B) = Sum(w, A) + Sum(w, B)
<1>0. /\ Sum(w, {}) = 0
      /\ \A S \in SUBSET D : Sum(w, S) \in Nat
      /\ \A S \in SUBSET D : \A y \in S : Sum(w, S) = w[y] + Sum(w, S \ {y})
  BY SumFacts
<1> DEFINE Bad == {T \in SUBSET B : Sum(w, A \cup T) # Sum(w, A) + Sum(w, T)}
<1> SUFFICES Bad = {}
  OBVIOUS
<1> SUFFICES ASSUME Bad # {} PROVE FALSE
  OBVIOUS
<1>1. \A T \in Bad : IsFiniteSet(T)
  BY FS_Subset
<1>2. PICK T \in Bad : \A U \in Bad : Cardinality(T) <= Cardinality(U)
  <2> HIDE DEF Bad
  <2> QED
    BY <1>1, SmallestSet
<1>3. Sum(w, A) \in Nat /\ Sum(w, {}) = 0
  BY <1>0
<1>4. T # {}
  <2>1. A \cup {} = A /\ Sum(w, A) = Sum(w, A) + Sum(w, {})
    BY <1>3
  <2> QED
    BY <2>1
<1>5. PICK x \in T : TRUE
  BY <1>4
<1>6. T \ {x} \notin Bad
  BY <1>1, <1>2, <1>5, SmallerWithout
<1>7. Sum(w, A \cup (T \ {x})) = Sum(w, A) + Sum(w, T \ {x})
  BY <1>6
<1>8. (A \cup T) \ {x} = A \cup (T \ {x})
  BY <1>5
<1>9. A \cup T \in SUBSET D /\ T \in SUBSET D /\ T \ {x} \in SUBSET D
  OBVIOUS
<1>10. Sum(w, A \cup T) = w[x] + Sum(w, (A \cup T) \ {x}) /\ Sum(w, T) = w[x] + Sum(w, T \ {x})
  <2>1. x \in T /\ x \in A \cup T
    BY <1>5
  <2> QED
    BY <1>0, <1>9, <2>1
<1>11. w[x] \in Nat /\ Sum(w, T \ {x}) \in Nat
  BY <1>0, <1>5, <1>9
<1>12. Sum(w, A \cup T) = Sum(w, A) + Sum(w, T)
  <2>1. \A a, b, c \in Nat : b + (a + c) = a + (b + c)
    OBVIOUS
  <2>2. w[x] + (Sum(w, A) + Sum(w, T \ {x})) = Sum(w, A) + (w[x] + Sum(w, T \ {x}))
    BY <1>3, <1>11, <2>1
  <2> QED
    BY <1>7, <1>8, <1>10, <2>2
<1> QED
  BY <1>12

LEMMA SumWithout ==
    ASSUME NEW D, IsFiniteSet(D), NEW w \in [D -> Nat], NEW A \in SUBSET D, NEW B \in SUBSET A
    PROVE  Sum(w, A) = Sum(w, A \ B) + Sum(w, B) /\ Sum(w, A \ B) <= Sum(w, A)
<1>1. A \ B \in SUBSET D /\ B \in SUBSET D /\ (A \ B) \cap B = {} /\ (A \ B) \cup B = A
  OBVIOUS
<1>2. Sum(w, A) = Sum(w, A \ B) + Sum(w, B)
  BY <1>1, SumUnion
<1>3. Sum(w, A) \in Nat /\ Sum(w, A \ B) \in Nat /\ Sum(w, B) \in Nat
  BY <1>1, SumFacts
<1> QED
  BY <1>2, <1>3

LEMMA SumLeast ==
    ASSUME NEW D, IsFiniteSet(D), NEW w \in [D -> Nat], NEW v \in [D -> Nat],
           NEW S \in SUBSET D, \A x \in S : w[x] <= v[x]
    PROVE  Sum(w, S) <= Sum(v, S)
<1> DEFINE Bad == {T \in SUBSET S : ~(Sum(w, T) <= Sum(v, T))}
<1> SUFFICES Bad = {}
  OBVIOUS
<1> SUFFICES ASSUME Bad # {} PROVE FALSE
  OBVIOUS
<1>1. \A T \in Bad : IsFiniteSet(T)
  BY FS_Subset
<1>2. PICK T \in Bad : \A U \in Bad : Cardinality(T) <= Cardinality(U)
  <2> HIDE DEF Bad
  <2> QED
    BY <1>1, SmallestSet
<1>3. T # {}
  <2>1. Sum(w, {}) = 0 /\ Sum(v, {}) = 0
    BY SumFacts
  <2>2. ~(Sum(w, T) <= Sum(v, T))
    BY DEF Bad
  <2> QED
    BY <2>1, <2>2
<1>4. PICK x \in T : TRUE
  BY <1>3
<1>5. T \ {x} \notin Bad
  BY <1>1, <1>2, <1>4, SmallerWithout
<1>6. Sum(w, T \ {x}) <= Sum(v, T \ {x})
  BY <1>5
<1>7. T \in SUBSET D /\ T \ {x} \in SUBSET D
  OBVIOUS
<1>8. /\ Sum(w, T) = w[x] + Sum(w, T \ {x}) /\ Sum(v, T) = v[x] + Sum(v, T \ {x})
      /\ Sum(w, T \ {x}) \in Nat /\ Sum(v, T \ {x}) \in Nat
  BY <1>4, <1>7, SumFacts
<1>9. w[x] \in Nat /\ v[x] \in Nat /\ w[x] <= v[x]
  BY <1>4
<1> QED
  BY <1>6, <1>8, <1>9

LEMMA SumAgrees ==
    ASSUME NEW D, IsFiniteSet(D), NEW w \in [D -> Nat], NEW v \in [D -> Nat],
           NEW S \in SUBSET D, \A x \in S : w[x] = v[x]
    PROVE  Sum(w, S) = Sum(v, S)
<1>1. \A x \in S : w[x] <= v[x] /\ v[x] <= w[x]
  <2>1. \A x \in S : w[x] \in Nat
    OBVIOUS
  <2> QED
    BY <2>1
<1>2. Sum(w, S) <= Sum(v, S) /\ Sum(v, S) <= Sum(w, S)
  BY <1>1, SumLeast
<1>3. Sum(w, S) \in Nat /\ Sum(v, S) \in Nat
  BY SumFacts
<1> QED
  BY <1>2, <1>3

-----------------------------------------------------------------------------
(* What holders ask for, and what they are charged. *)

\* The bytes each holder is charged when those of G have grown.
Needs(G) == [h \in Holder |-> IF h \in G THEN GrownTo(h) ELSE SizeOf(h)]

LEMMA HoldersFinite == IsFiniteSet(Holder) /\ Holder \in SUBSET (Nat \ {0}) /\ Cached \in SUBSET Holder
<1>1. Holder \in SUBSET (Work \cup Read)
  BY DEF Holder, Work, Mutation
<1>2. IsFiniteSet(Work \cup Read) /\ Work \cup Read \subseteq Nat \ {0} /\ Cached \subseteq Item
  BY ContentBudgetAssumption
<1>3. IsFiniteSet(Holder)
  BY <1>1, <1>2, FS_Subset
<1> QED
  BY <1>1, <1>2, <1>3 DEF Holder

LEMMA NeedsType ==
    ASSUME NEW G \in SUBSET Group
    PROVE  /\ Needs(G) \in [Holder -> Nat]
           /\ Needs({}) \in [Holder -> Nat]
           /\ \A h \in Holder : Needs({})[h] = SizeOf(h) /\ Needs({})[h] <= Needs(G)[h]
           /\ \A h \in Holder : h \notin G => Needs(G)[h] = SizeOf(h)
<1>1. /\ \A h \in Holder : SizeOf(h) \in Nat
      /\ \A g \in Group : GrownTo(g) \in Nat /\ SizeOf(g) <= GrownTo(g)
  BY ContentBudgetAssumption DEF Holder
<1>2. \A h \in Holder : Needs(G)[h] = IF h \in G THEN GrownTo(h) ELSE SizeOf(h)
  BY DEF Needs
<1>3. \A h \in Holder : Needs({})[h] = SizeOf(h)
  BY DEF Needs
<1>4. \A h \in Holder : Needs(G)[h] \in Nat /\ Needs({})[h] \in Nat /\ Needs({})[h] <= Needs(G)[h]
  BY <1>1, <1>2, <1>3
<1>5. Needs(G) \in [Holder -> Nat] /\ Needs({}) \in [Holder -> Nat]
  BY <1>4 DEF Needs
<1> QED
  BY <1>2, <1>3, <1>4, <1>5

LEMMA ChargeIsSum ==
    ASSUME NEW G \in SUBSET Group, NEW S \in SUBSET Holder
    PROVE  MapThenSumSet(LAMBDA h : IF h \in G THEN GrownTo(h) ELSE SizeOf(h), S) = Sum(Needs(G), S)
<1> DEFINE c(h) == IF h \in G THEN GrownTo(h) ELSE SizeOf(h)
           step(it) == [s \in SUBSET S |-> IF s = {} THEN 0 ELSE c(Picked(s)) + it[s \ {Picked(s)}]]
           it == CHOOSE it : it = step(it)
<1>1. MapThenSumSet(LAMBDA h : IF h \in G THEN GrownTo(h) ELSE SizeOf(h), S) = it[S]
  BY Zenon DEF MapThenSumSet, MapThenFoldSet, Picked
<1>2. \A f : f = step(f) <=> Goes(f, Needs(G), S)
  <2>1. \A s \in SUBSET S : s # {} => c(Picked(s)) = Needs(G)[Picked(s)]
    <3> SUFFICES ASSUME NEW s \in SUBSET S, s # {} PROVE c(Picked(s)) = Needs(G)[Picked(s)]
      OBVIOUS
    <3>1. Picked(s) \in Holder
      BY DEF Picked
    <3> QED
      BY <3>1 DEF Needs
  <2> HIDE DEF c
  <2>2. ASSUME NEW f
        PROVE  step(f) = [s \in SUBSET S |-> IF s = {} THEN 0 ELSE Needs(G)[Picked(s)] + f[s \ {Picked(s)}]]
    BY <2>1
  <2> QED
    BY <2>2 DEF Goes
<1>3. PICK g : Adds(g, Holder, Needs(G))
  BY HoldersFinite, NeedsType, AddsExists
<1>4. Goes([s \in SUBSET S |-> g[s]], Needs(G), S)
  BY <1>3, FoldGoes
<1>5. it = step(it)
  <2>1. \E f : f = step(f)
    <3> HIDE DEF step
    <3> QED
      BY <1>2, <1>4
  <2> HIDE DEF step
  <2> QED
    BY <2>1
<1>6. Goes(it, Needs(G), S)
  <2> HIDE DEF it, step
  <2> QED
    BY <1>2, <1>5
<1>7. it[S] = g[S] /\ Sum(Needs(G), S) = g[S]
  <2> HIDE DEF it, step
  <2>1. IsFiniteSet(Holder)
    BY HoldersFinite
  <2>2. Sum(Needs(G), S) = g[S]
    BY <1>3, <2>1, SumAdds
  <2>3. it[S] = g[S]
    BY <1>3, <1>6, <2>1, FoldAdds
  <2> QED
    BY <2>2, <2>3
<1> HIDE DEF it
<1> QED
  BY <1>1, <1>7

LEMMA AskedIsSum ==
    ASSUME NEW S \in SUBSET Holder
    PROVE  Asked(S) = Sum(Needs({}), S)
<1> DEFINE step(it) == [s \in SUBSET S |-> IF s = {} THEN 0 ELSE SizeOf(Picked(s)) + it[s \ {Picked(s)}]]
           it == CHOOSE it : it = step(it)
<1>1. Asked(S) = it[S]
  BY Zenon DEF Asked, MapThenSumSet, MapThenFoldSet, Picked
<1>2. \A f : f = step(f) <=> Goes(f, Needs({}), S)
  <2>1. \A s \in SUBSET S : s # {} => SizeOf(Picked(s)) = Needs({})[Picked(s)]
    <3> SUFFICES ASSUME NEW s \in SUBSET S, s # {} PROVE SizeOf(Picked(s)) = Needs({})[Picked(s)]
      OBVIOUS
    <3>1. Picked(s) \in Holder
      BY DEF Picked
    <3> QED
      BY <3>1 DEF Needs
  <2>2. ASSUME NEW f
        PROVE  step(f) = [s \in SUBSET S |-> IF s = {} THEN 0 ELSE Needs({})[Picked(s)] + f[s \ {Picked(s)}]]
    BY <2>1
  <2> QED
    BY <2>2 DEF Goes
<1>3. PICK g : Adds(g, Holder, Needs({}))
  BY HoldersFinite, NeedsType, AddsExists
<1>4. Goes([s \in SUBSET S |-> g[s]], Needs({}), S)
  BY <1>3, FoldGoes
<1>5. it = step(it)
  <2> HIDE DEF step
  <2>1. \E f : f = step(f)
    BY <1>2, <1>4
  <2> QED
    BY <2>1
<1>6. Goes(it, Needs({}), S)
  <2> HIDE DEF it, step
  <2> QED
    BY <1>2, <1>5
<1>7. it[S] = g[S] /\ Sum(Needs({}), S) = g[S]
  <2> HIDE DEF it, step
  <2>1. IsFiniteSet(Holder)
    BY HoldersFinite
  <2>2. Sum(Needs({}), S) = g[S]
    BY <1>3, <2>1, SumAdds
  <2>3. it[S] = g[S]
    BY <1>3, <1>6, <2>1, FoldAdds
  <2> QED
    BY <2>2, <2>3
<1> HIDE DEF it
<1> QED
  BY <1>1, <1>7

LEMMA TotalIsSum ==
    ASSUME grown \in SUBSET Group, NEW S \in SUBSET Holder
    PROVE  Total(S) = Sum(Needs(grown), S)
  BY ChargeIsSum, Zenon DEF Total, Charge

-----------------------------------------------------------------------------
(* Queues and Maps: sequences in which nothing occurs twice. *)

Ordered(s, S) ==
    /\ s \in Seq(S)
    /\ \A i, j \in 1..Len(s) : s[i] = s[j] => i = j

LEMMA OrderedCount ==
    ASSUME NEW S, NEW s, Ordered(s, S)
    PROVE  /\ ToSet(s) \in SUBSET S /\ IsFiniteSet(ToSet(s)) /\ Len(s) \in Nat
           /\ Cardinality(ToSet(s)) = Len(s)
<1>1. s \in Seq(S) /\ Len(s) \in Nat /\ DOMAIN s = 1..Len(s) /\ ToSet(s) = {s[i] : i \in 1..Len(s)}
  BY DEF Ordered, ToSet
<1>2. IsFiniteSet(1..Len(s)) /\ Cardinality(1..Len(s)) = Len(s)
  <2>1. \A n \in Nat : /\ IsFiniteSet(1..n)
                      /\ Cardinality(1..n) = IF 1 > n THEN 0 ELSE n - 1 + 1
    BY FS_Interval
  <2>2. \A n \in Nat : (IF 1 > n THEN 0 ELSE n - 1 + 1) = n
    OBVIOUS
  <2> QED
    BY <1>1, <2>1, <2>2
<1>3. s \in [1..Len(s) -> ToSet(s)]
  BY <1>1
<1>4. s \in Surjection(1..Len(s), ToSet(s))
  BY <1>1, <1>3 DEF Surjection
<1>5. s \in Injection(1..Len(s), ToSet(s))
  BY <1>1, <1>3 DEF Ordered, Injection, IsInjective
<1>6. IsFiniteSet(ToSet(s)) /\ Cardinality(ToSet(s)) = Cardinality(1..Len(s))
  BY <1>2, <1>4, <1>5, FS_Surjection
<1> QED
  BY <1>1, <1>2, <1>6

LEMMA OrderedEmpty == \A S : Ordered(<<>>, S) /\ ToSet(<<>>) = {}
<1>1. ASSUME NEW S PROVE <<>> \in Seq(S) /\ Len(<<>>) = 0
  OBVIOUS
<1>2. 1..0 = {}
  OBVIOUS
<1>3. DOMAIN <<>> = 1..Len(<<>>)
  BY <1>1, LenProperties
<1>4. ToSet(<<>>) = {}
  BY <1>1, <1>2, <1>3 DEF ToSet
<1> QED
  BY <1>1, <1>2, <1>4 DEF Ordered

LEMMA OrderedAppend ==
    ASSUME NEW S, NEW s, Ordered(s, S), NEW e \in S, e \notin ToSet(s)
    PROVE  Ordered(Append(s, e), S) /\ ToSet(Append(s, e)) = ToSet(s) \cup {e}
<1> DEFINE t == Append(s, e)
<1>1. s \in Seq(S) /\ Len(s) \in Nat /\ ToSet(s) = {s[i] : i \in 1..Len(s)}
  BY DEF Ordered, ToSet
<1>2. /\ t \in Seq(S) /\ Len(t) = Len(s) + 1 /\ t[Len(s) + 1] = e
      /\ \A i \in 1..Len(s) : t[i] = s[i]
  BY <1>1
<1>3. 1..Len(t) = 1..Len(s) \cup {Len(s) + 1}
  BY <1>1, <1>2
<1>4. ToSet(t) = {t[i] : i \in 1..Len(t)}
  BY <1>2 DEF ToSet
<1>5. \A i \in 1..Len(s) : t[i] \in ToSet(s) /\ t[i] # e
  BY <1>1, <1>2
<1>6. ToSet(t) = ToSet(s) \cup {e}
  <2> HIDE DEF t
  <2> QED
    BY <1>1, <1>2, <1>3, <1>4
<1>7. ASSUME NEW i \in 1..Len(t), NEW j \in 1..Len(t), t[i] = t[j] PROVE i = j
  <2> HIDE DEF t
  <2>1. CASE i \in 1..Len(s) /\ j \in 1..Len(s)
    BY <1>2, <1>7, <2>1 DEF Ordered
  <2>2. CASE i = Len(s) + 1 \/ j = Len(s) + 1
    BY <1>2, <1>3, <1>5, <1>7, <2>2
  <2> QED
    BY <1>3, <2>1, <2>2
<1> QED
  BY <1>2, <1>6, <1>7 DEF Ordered

LEMMA OrderedSplit ==
    ASSUME NEW S, NEW s, Ordered(s, S), NEW n \in 0..Len(s)
    PROVE  LET a == SubSeq(s, 1, n)
               b == SubSeq(s, n + 1, Len(s))
           IN  /\ Ordered(a, S) /\ Ordered(b, S) /\ Len(a) = n
               /\ ToSet(a) = {s[k] : k \in 1..n} /\ ToSet(b) = {s[k] : k \in (n + 1)..Len(s)}
               /\ ToSet(a) \cup ToSet(b) = ToSet(s) /\ ToSet(a) \cap ToSet(b) = {}
<1> DEFINE a == SubSeq(s, 1, n)
           b == SubSeq(s, n + 1, Len(s))
           L == Len(s)
<1>1. s \in Seq(S) /\ L \in Nat /\ n \in Nat /\ n <= L /\ \A i \in 1..L : s[i] \in S
  BY DEF Ordered
<1>2. a \in Seq(S) /\ Len(a) = n /\ \A i \in 1..n : a[i] = s[i]
  <2>1. \A i \in 1..n : s[i] \in S
    BY <1>1
  <2>2. /\ a \in Seq(S) /\ Len(a) = (IF 1 <= n THEN n - 1 + 1 ELSE 0)
        /\ \A i \in 1..(n - 1 + 1) : a[i] = s[1 + i - 1]
    BY <1>1, <2>1, SubSeqProperties
  <2> QED
    BY <1>1, <2>2
<1>3. b \in Seq(S) /\ Len(b) = L - n /\ \A i \in 1..(L - n) : b[i] = s[n + i]
  <2>1. \A i \in (n + 1)..L : s[i] \in S
    BY <1>1
  <2>2. /\ b \in Seq(S) /\ Len(b) = (IF n + 1 <= L THEN L - (n + 1) + 1 ELSE 0)
        /\ \A i \in 1..(L - (n + 1) + 1) : b[i] = s[n + 1 + i - 1]
    BY <1>1, <2>1, SubSeqProperties
  <2> QED
    BY <1>1, <2>2
<1> HIDE DEF a, b
<1>4. \A i, j \in 1..L : s[i] = s[j] => i = j
  BY DEF Ordered
<1>5. Ordered(a, S)
  BY <1>1, <1>2, <1>4 DEF Ordered
<1>6. Ordered(b, S)
  <2>1. ASSUME NEW i \in 1..(L - n), NEW j \in 1..(L - n), b[i] = b[j] PROVE i = j
    <3>1. n + i \in 1..L /\ n + j \in 1..L
      BY <1>1
    <3>2. n + i = n + j
      BY <1>3, <1>4, <2>1, <3>1
    <3> QED
      BY <1>1, <3>2
  <2> QED
    BY <1>3, <2>1 DEF Ordered
<1>7. ToSet(a) = {s[k] : k \in 1..n}
  BY <1>2 DEF ToSet
<1>8. ToSet(b) = {s[k] : k \in (n + 1)..L}
  <2>1. ToSet(b) = {b[i] : i \in 1..(L - n)}
    BY <1>3 DEF ToSet
  <2>2. \A i \in 1..(L - n) : n + i \in (n + 1)..L /\ b[i] = s[n + i]
    BY <1>1, <1>3
  <2>3. \A k \in (n + 1)..L : k - n \in 1..(L - n) /\ n + (k - n) = k
    BY <1>1
  <2>4. \A k \in (n + 1)..L : s[k] = b[k - n]
    BY <2>2, <2>3
  <2> QED
    BY <2>1, <2>2, <2>3, <2>4
<1>9. ToSet(s) = {s[k] : k \in 1..L}
  BY <1>1 DEF ToSet
<1>10. 1..L = 1..n \cup (n + 1)..L
  BY <1>1
<1>11. ToSet(a) \cup ToSet(b) = ToSet(s)
  BY <1>7, <1>8, <1>9, <1>10
<1>12. ToSet(a) \cap ToSet(b) = {}
  <2>1. ASSUME NEW i \in 1..n, NEW j \in (n + 1)..L PROVE s[i] # s[j]
    <3>1. i \in 1..L /\ j \in 1..L /\ i # j
      BY <1>1
    <3> QED
      BY <1>4, <3>1
  <2> QED
    BY <1>7, <1>8, <2>1
<1> QED
  BY <1>2, <1>5, <1>6, <1>7, <1>8, <1>11, <1>12 DEF a, b

\* How Dropping goes through the entries.
Drops(f, s, R) ==
    f = [n \in 0..Len(s) |-> IF n = 0 THEN <<>>
                             ELSE IF s[n] \in R THEN f[n - 1] ELSE Append(f[n - 1], s[n])]

\* The function has a value for every number of entries.
LEMMA DropsExists ==
    ASSUME NEW S, NEW s \in Seq(S), NEW R
    PROVE  \E f : Drops(f, s, R)
<1> DEFINE L == Len(s)
           Upto(f, n) == f = [k \in 0..n |-> IF k = 0 THEN <<>>
                                             ELSE IF s[k] \in R THEN f[k - 1] ELSE Append(f[k - 1], s[k])]
           Bad == {n \in 0..L : ~\E f : Upto(f, n)}
<1>0. L \in Nat
  OBVIOUS
<1> SUFFICES Bad = {}
  <2>1. L \in 0..L /\ \A f : Upto(f, L) => Drops(f, s, R)
    BY <1>0 DEF Drops
  <2> HIDE DEF L, Upto
  <2> QED
    BY <2>1
<1> SUFFICES ASSUME Bad # {} PROVE FALSE
  OBVIOUS
<1>1. PICK n \in Bad : \A k \in Bad : n <= k
  <2>1. Bad \in SUBSET Nat
    BY <1>0
  <2> HIDE DEF Bad
  <2> QED
    BY <2>1, Least
<1>2. CASE n = 0
  <2> DEFINE g == [k \in 0..0 |-> <<>>]
  <2>1. Upto(g, 0)
    OBVIOUS
  <2> QED
    BY <1>2, <2>1
<1>3. CASE n # 0
  <2>1. n \in Nat /\ n <= L /\ n - 1 \in 0..L /\ ~(n <= n - 1)
    BY <1>0, <1>3
  <2>2. PICK f : Upto(f, n - 1)
    BY <1>1, <2>1
  <2> DEFINE v == IF s[n] \in R THEN f[n - 1] ELSE Append(f[n - 1], s[n])
             g == [k \in 0..n |-> IF k = n THEN v ELSE f[k]]
  <2>3. 0..n = 0..(n - 1) \cup {n} /\ \A k \in 0..(n - 1) : k # n
    BY <2>1
  <2>4. \A k \in 0..(n - 1) : g[k] = f[k]
    BY <2>3
  <2>5. \A k \in 0..(n - 1) : k # 0 => k - 1 \in 0..(n - 1)
    BY <2>1
  <2>6. ASSUME NEW k \in 0..n
        PROVE  g[k] = IF k = 0 THEN <<>>
                      ELSE IF s[k] \in R THEN g[k - 1] ELSE Append(g[k - 1], s[k])
    <3>1. CASE k = n
      <4>1. g[k] = v /\ g[k - 1] = f[k - 1] /\ k # 0
        BY <1>3, <2>1, <2>4, <3>1
      <4> QED
        BY <3>1, <4>1
    <3>2. CASE k # n
      <4>1. k \in 0..(n - 1)
        BY <2>3, <3>2
      <4>2. f[k] = IF k = 0 THEN <<>>
                   ELSE IF s[k] \in R THEN f[k - 1] ELSE Append(f[k - 1], s[k])
        BY <2>2, <4>1
      <4> QED
        BY <2>4, <2>5, <4>1, <4>2
    <3> QED
      BY <3>1, <3>2
  <2>7. Upto(g, n)
    <3>1. g = [k \in 0..n |-> g[k]]
      OBVIOUS
    <3> HIDE DEF g
    <3> QED
      BY <2>6, <3>1
  <2> QED
    BY <2>7
<1> QED
  BY <1>2, <1>3

LEMMA DroppingOrdered ==
    ASSUME NEW S, NEW s, Ordered(s, S), NEW R
    PROVE  Ordered(Dropping(s, R), S) /\ ToSet(Dropping(s, R)) = ToSet(s) \ R
<1> DEFINE L == Len(s)
           f == CHOOSE f : Drops(f, s, R)
           Good(n) == Ordered(f[n], S) /\ ToSet(f[n]) = {s[k] : k \in 1..n} \ R
           Bad == {n \in 0..L : ~Good(n)}
<1>1. s \in Seq(S) /\ L \in Nat /\ \A i, j \in 1..L : s[i] = s[j] => i = j
  BY DEF Ordered
<1>2. Dropping(s, R) = f[L]
  BY Zenon DEF Dropping, Drops
<1>3. Drops(f, s, R)
  BY <1>1, DropsExists
<1>4. \A n \in 0..L : f[n] = IF n = 0 THEN <<>>
                             ELSE IF s[n] \in R THEN f[n - 1] ELSE Append(f[n - 1], s[n])
  <2> HIDE DEF f
  <2> QED
    BY <1>3 DEF Drops
<1> HIDE DEF f
<1>5. Bad = {}
  <2> SUFFICES ASSUME Bad # {} PROVE FALSE
    OBVIOUS
  <2>1. PICK n \in Bad : \A k \in Bad : n <= k
    <3>1. Bad \in SUBSET Nat
      BY <1>1
    <3> HIDE DEF Bad
    <3> QED
      BY <3>1, Least
  <2>2. n # 0
    <3>1. f[0] = <<>> /\ 1..0 = {}
      BY <1>1, <1>4
    <3>2. Good(0)
      BY <3>1, OrderedEmpty
    <3> QED
      BY <3>2
  <2>3. /\ n \in Nat /\ n \in 1..L /\ n - 1 \in 0..L /\ ~(n <= n - 1)
        /\ 1..n = 1..(n - 1) \cup {n} /\ \A k \in 1..(n - 1) : k \in 1..L /\ k # n
    BY <1>1, <2>2
  <2>4. Good(n - 1)
    BY <2>1, <2>3
  <2>5. s[n] \in S /\ f[n] = IF s[n] \in R THEN f[n - 1] ELSE Append(f[n - 1], s[n])
    BY <1>1, <1>4, <2>2, <2>3
  <2>6. {s[k] : k \in 1..n} = {s[k] : k \in 1..(n - 1)} \cup {s[n]}
    BY <2>3
  <2>7. CASE s[n] \in R
    <3>1. Good(n)
      BY <2>4, <2>5, <2>6, <2>7
    <3> QED
      BY <3>1
  <2>8. CASE s[n] \notin R
    <3>1. s[n] \notin ToSet(f[n - 1])
      BY <1>1, <2>3, <2>4
    <3>2. Ordered(f[n], S) /\ ToSet(f[n]) = ToSet(f[n - 1]) \cup {s[n]}
      BY <2>4, <2>5, <2>8, <3>1, OrderedAppend
    <3>3. Good(n)
      BY <2>4, <2>6, <2>8, <3>2
    <3> QED
      BY <3>3
  <2> QED
    BY <2>7, <2>8
<1>6. Good(L)
  BY <1>1, <1>5
<1>7. ToSet(s) = {s[k] : k \in 1..L}
  BY <1>1 DEF ToSet
<1> QED
  BY <1>2, <1>6, <1>7

-----------------------------------------------------------------------------
(* The accounts of the budget, when H have a reservation, those of G have    *)
(* grown, and the ciphertexts of C are cached.                               *)

Accounts(b, G, H, C) ==
    /\ b \in [bytes : Nat, active : Nat, queue : Seq(Holder)]
    /\ Ordered(b.queue, Holder) /\ ToSet(b.queue) \cap H = {}
    /\ H \in SUBSET Holder /\ C \in SUBSET Cached /\ G \in SUBSET (H \cap Group)
    /\ b.bytes = Sum(Needs(G), H) + Asked(C)
    /\ b.active = Cardinality(H) + Cardinality(C)
    /\ Asked(H) + Asked(C) <= MaxBytes \/ b.active = 1

\* A set of numbers up to n that has 0 has a largest element.
LEMMA Largest ==
    ASSUME NEW n \in Nat, NEW T \in SUBSET (0..n), 0 \in T
    PROVE  Max(T) \in T /\ \A k \in T : k <= Max(T)
<1> DEFINE f == [k \in T |-> n - k]
<1>1. f \in [T -> Nat]
  <2>1. \A k \in T : n - k \in Nat
    OBVIOUS
  <2> QED
    BY <2>1
<1>2. PICK x \in T : \A k \in T : f[x] <= f[k]
  <2>1. T # {}
    OBVIOUS
  <2> HIDE DEF f
  <2> QED
    BY <1>1, <2>1, LeastBy
<1>3. ASSUME NEW k \in T PROVE x >= k
  <2>1. n - x <= n - k
    BY <1>2
  <2>2. x \in 0..n /\ k \in 0..n
    OBVIOUS
  <2> QED
    BY <2>1, <2>2
<1>4. Max(T) \in T /\ \A k \in T : Max(T) >= k
  <2>1. \E y \in T : \A k \in T : y >= k
    BY <1>3
  <2> QED
    BY <2>1 DEF Max
<1>5. \A k \in T : k \in Int /\ Max(T) \in Int
  <2>1. \A k \in T : k \in Int
    OBVIOUS
  <2> QED
    BY <1>4, <2>1
<1> QED
  BY <1>4, <1>5

\* Who is admitted found room, whatever had been admitted before.
LEMMA AdmittedFound ==
    ASSUME NEW b, Len(b.queue) \in Nat
    PROVE  /\ Admitted(b) \in 0..Len(b.queue)
           /\ \A k \in 1..Admitted(b) :
                 CanAcquire(b.bytes + Asked({b.queue[j] : j \in 1..(k - 1)}), b.active + k - 1,
                            SizeOf(b.queue[k]))
<1> DEFINE room(k) == CanAcquire(b.bytes + Asked({b.queue[j] : j \in 1..(k - 1)}), b.active + k - 1,
                                 SizeOf(b.queue[k]))
           T == {n \in 0..Len(b.queue) : \A k \in 1..n : room(k)}
<1>1. Admitted(b) = Max(T)
  BY DEF Admitted
<1>2. 0 \in T
  <2>1. 1..0 = {}
    OBVIOUS
  <2> HIDE DEF room
  <2> QED
    BY <2>1
<1> HIDE DEF room
<1>3. Max(T) \in T
  BY <1>2, Largest
<1> QED
  BY <1>1, <1>3 DEF room

LEMMA AskedType ==
    ASSUME NEW S \in SUBSET Holder
    PROVE  Asked(S) \in Nat /\ Asked({}) = 0
<1>1. IsFiniteSet(Holder) /\ Needs({}) \in [Holder -> Nat]
  BY HoldersFinite, NeedsType
<1>2. Sum(Needs({}), S) \in Nat /\ Sum(Needs({}), {}) = 0
  BY <1>1, SumFacts
<1>3. {} \in SUBSET Holder
  OBVIOUS
<1> QED
  BY <1>2, <1>3, AskedIsSum

LEMMA AskedWithout ==
    ASSUME NEW S \in SUBSET Holder, NEW R \in SUBSET S
    PROVE  Asked(S) = Asked(S \ R) + Asked(R) /\ Asked(S \ R) <= Asked(S)
<1>1. IsFiniteSet(Holder) /\ Needs({}) \in [Holder -> Nat]
  BY HoldersFinite, NeedsType
<1>2. S \ R \in SUBSET Holder /\ R \in SUBSET Holder
  OBVIOUS
<1>3. Sum(Needs({}), S) = Sum(Needs({}), S \ R) + Sum(Needs({}), R)
      /\ Sum(Needs({}), S \ R) <= Sum(Needs({}), S)
  BY <1>1, SumWithout
<1> QED
  BY <1>2, <1>3, AskedIsSum

LEMMA AskedUnion ==
    ASSUME NEW S \in SUBSET Holder, NEW R \in SUBSET Holder, S \cap R = {}
    PROVE  Asked(S \cup R) = Asked(S) + Asked(R)
<1>1. IsFiniteSet(Holder) /\ Needs({}) \in [Holder -> Nat]
  BY HoldersFinite, NeedsType
<1>2. Sum(Needs({}), S \cup R) = Sum(Needs({}), S) + Sum(Needs({}), R)
  BY <1>1, SumUnion
<1>3. S \cup R \in SUBSET Holder
  OBVIOUS
<1> QED
  BY <1>2, <1>3, AskedIsSum

LEMMA AskedOne ==
    ASSUME NEW h \in Holder
    PROVE  Asked({h}) = SizeOf(h) /\ SizeOf(h) \in Nat
<1>1. IsFiniteSet(Holder) /\ Needs({}) \in [Holder -> Nat] /\ Needs({})[h] = SizeOf(h)
  BY HoldersFinite, NeedsType
<1>2. {h} \in SUBSET Holder /\ h \in {h} /\ {h} \ {h} = {}
  OBVIOUS
<1>3. Sum(Needs({}), {h}) = Needs({})[h] + Sum(Needs({}), {h} \ {h}) /\ Sum(Needs({}), {}) = 0
  <2>1. /\ \A S \in SUBSET Holder : \A x \in S : Sum(Needs({}), S) = Needs({})[x] + Sum(Needs({}), S \ {x})
        /\ Sum(Needs({}), {}) = 0
    BY <1>1, SumFacts
  <2> QED
    BY <1>2, <2>1
<1>4. SizeOf(h) \in Nat
  BY <1>1
<1> QED
  BY <1>1, <1>2, <1>3, <1>4, AskedIsSum

\* Those at the head of the queue that are admitted, and those left behind.
LetIn(b) == SubSeq(b.queue, 1, Admitted(b))
Drained(b) ==
    [bytes  |-> b.bytes + Asked(ToSet(LetIn(b))),
     active |-> b.active + Admitted(b),
     queue  |-> SubSeq(b.queue, Admitted(b) + 1, Len(b.queue))]

\* Admission keeps the accounts, and only the last one admitted may be large.
LEMMA DrainedKeeps ==
    ASSUME NEW b, NEW G, NEW H, NEW C, Accounts(b, G, H, C)
    PROVE  /\ Accounts(Drained(b), G, H \cup ToSet(LetIn(b)), C)
           /\ ToSet(LetIn(b)) \cup ToSet(Drained(b).queue) = ToSet(b.queue)
<1> DEFINE n == Admitted(b)
           q == b.queue
           N == ToSet(LetIn(b))
           d == Drained(b)
<1>1. /\ q \in Seq(Holder) /\ Len(q) \in Nat /\ b.bytes \in Nat /\ b.active \in Nat
      /\ Ordered(q, Holder) /\ ToSet(q) \cap H = {} /\ ToSet(q) \in SUBSET Holder
  <2>1. q \in Seq(Holder) /\ b.bytes \in Nat /\ b.active \in Nat /\ Ordered(q, Holder) /\ ToSet(q) \cap H = {}
    BY DEF Accounts
  <2> QED
    BY <2>1, OrderedCount
<1>2. /\ n \in 0..Len(q)
      /\ \A k \in 1..n : CanAcquire(b.bytes + Asked({q[j] : j \in 1..(k - 1)}), b.active + k - 1, SizeOf(q[k]))
  BY <1>1, AdmittedFound
<1>3. /\ Ordered(LetIn(b), Holder) /\ Ordered(d.queue, Holder) /\ Len(LetIn(b)) = n
      /\ N = {q[k] : k \in 1..n} /\ N \cup ToSet(d.queue) = ToSet(q) /\ N \cap ToSet(d.queue) = {}
  <2>1. d.queue = SubSeq(q, n + 1, Len(q)) /\ LetIn(b) = SubSeq(q, 1, n)
    BY DEF Drained, LetIn
  <2> HIDE DEF n, q, d
  <2>2. Ordered(q, Holder) /\ n \in 0..Len(q)
    BY <1>1, <1>2
  <2>3. LET a == SubSeq(q, 1, n)
            z == SubSeq(q, n + 1, Len(q))
        IN  /\ Ordered(a, Holder) /\ Ordered(z, Holder) /\ Len(a) = n
            /\ ToSet(a) = {q[k] : k \in 1..n} /\ ToSet(a) \cup ToSet(z) = ToSet(q)
            /\ ToSet(a) \cap ToSet(z) = {}
    BY <2>2, OrderedSplit
  <2> QED
    BY <2>1, <2>3
<1>4. IsFiniteSet(N) /\ Cardinality(N) = n /\ N \in SUBSET Holder
  BY <1>3, OrderedCount
<1>5. /\ H \in SUBSET Holder /\ C \in SUBSET Cached /\ G \in SUBSET (H \cap Group) /\ H \cap N = {}
      /\ C \in SUBSET Holder
  BY <1>1, <1>3, HoldersFinite DEF Accounts
<1>6. IsFiniteSet(H) /\ IsFiniteSet(C) /\ IsFiniteSet(Holder)
  BY <1>5, HoldersFinite, FS_Subset
<1>7. Cardinality(H \cup N) = Cardinality(H) + n /\ Cardinality(H) \in Nat /\ Cardinality(C) \in Nat
  <2>1. Cardinality(H \cup N) = Cardinality(H) + Cardinality(N) - Cardinality(H \cap N)
    BY <1>4, <1>6, FS_Union
  <2>2. Cardinality(H) \in Nat /\ Cardinality(C) \in Nat /\ Cardinality(H \cap N) = 0
    BY <1>5, <1>6, FS_CardinalityType, FS_EmptySet
  <2> QED
    BY <1>2, <1>4, <2>1, <2>2
<1>8. Sum(Needs(G), H \cup N) = Sum(Needs(G), H) + Asked(N)
  <2>1. G \in SUBSET Group /\ \A h \in N : h \in Holder /\ h \notin G
    BY <1>4, <1>5
  <2>2. /\ Needs(G) \in [Holder -> Nat] /\ Needs({}) \in [Holder -> Nat]
        /\ \A h \in N : Needs(G)[h] = Needs({})[h]
    BY <2>1, NeedsType
  <2>3. Sum(Needs(G), N) = Sum(Needs({}), N)
    BY <1>4, <1>6, <2>2, SumAgrees
  <2>4. Sum(Needs(G), H \cup N) = Sum(Needs(G), H) + Sum(Needs(G), N)
    BY <1>4, <1>5, <1>6, <2>2, SumUnion
  <2> QED
    BY <1>4, <2>3, <2>4, AskedIsSum
<1>9. /\ Asked(H \cup N) = Asked(H) + Asked(N) /\ Asked(H) \in Nat /\ Asked(N) \in Nat /\ Asked(C) \in Nat
  BY <1>4, <1>5, AskedUnion, AskedType
<1>10. Sum(Needs(G), H) \in Nat /\ Asked(H) <= Sum(Needs(G), H)
  <2>1. /\ Needs(G) \in [Holder -> Nat] /\ Needs({}) \in [Holder -> Nat]
        /\ \A h \in H : Needs({})[h] <= Needs(G)[h]
    BY <1>5, NeedsType
  <2>2. Sum(Needs(G), H) \in Nat
    BY <1>5, <1>6, <2>1, SumFacts
  <2>3. Sum(Needs({}), H) <= Sum(Needs(G), H)
    BY <1>5, <1>6, <2>1, SumLeast
  <2> QED
    BY <1>5, <2>2, <2>3, AskedIsSum
<1>11. /\ b.bytes = Sum(Needs(G), H) + Asked(C) /\ b.active = Cardinality(H) + Cardinality(C)
       /\ Asked(H) + Asked(C) <= MaxBytes \/ b.active = 1
  BY DEF Accounts
<1>12. Asked(H \cup N) + Asked(C) <= MaxBytes \/ b.active + n = 1
  <2>1. CASE n = 0
    <3>1. N = {}
      BY <1>3, <2>1
    <3>2. H \cup N = H
      BY <3>1
    <3>3. b.active + n = b.active
      BY <1>1, <2>1
    <3> HIDE DEF N, n
    <3> QED
      BY <1>11, <3>2, <3>3
  <2>2. CASE n # 0
    <3> DEFINE B == {q[j] : j \in 1..(n - 1)}
    <3>1. n \in 1..n /\ n \in Nat
      BY <1>2, <2>2
    <3>2. CanAcquire(b.bytes + Asked(B), b.active + n - 1, SizeOf(q[n]))
      BY <1>2, <3>1
    <3>3. q[n] \in N /\ N \ {q[n]} = B
      <4>1. \A j \in 1..n : j # n <=> j \in 1..(n - 1)
        BY <3>1
      <4>2. \A j \in 1..n : q[j] = q[n] => j = n
        <5>1. \A j \in 1..n : j \in 1..Len(q)
          BY <1>1, <1>2
        <5> QED
          BY <1>1, <3>1, <5>1 DEF Ordered
      <4>3. q[n] \in N
        BY <1>3, <3>1
      <4> QED
        BY <1>3, <4>1, <4>2, <4>3
    <3>4. {q[n]} \in SUBSET N /\ q[n] \in Holder
      BY <1>4, <3>3
    <3>5. Asked(N) = Asked(B) + SizeOf(q[n]) /\ Asked(B) \in Nat /\ SizeOf(q[n]) \in Nat
      <4>1. Asked(N) = Asked(N \ {q[n]}) + Asked({q[n]})
        BY <1>4, <3>4, AskedWithout
      <4>2. B \in SUBSET Holder
        BY <1>4, <3>3
      <4>3. Asked({q[n]}) = SizeOf(q[n]) /\ SizeOf(q[n]) \in Nat
        BY <3>4, AskedOne
      <4> QED
        BY <3>3, <4>1, <4>2, <4>3, AskedType
    <3>6. CASE SizeOf(q[n]) > MaxBytes
      <4>1. b.active + n - 1 = 0
        BY <3>2, <3>6 DEF CanAcquire
      <4> QED
        BY <1>1, <3>1, <4>1
    <3>7. CASE ~(SizeOf(q[n]) > MaxBytes)
      <4>1. b.bytes + Asked(B) + SizeOf(q[n]) <= MaxBytes
        BY <3>2, <3>7 DEF CanAcquire
      <4>2. MaxBytes \in Nat
        BY ContentBudgetAssumption
      <4>3. Asked(H) + Asked(C) <= b.bytes
        BY <1>9, <1>10, <1>11
      <4>4. Asked(H \cup N) + Asked(C) = Asked(H) + Asked(C) + (Asked(B) + SizeOf(q[n]))
        <5>1. \A a, c, s, t \in Nat : a + (s + t) + c = a + c + (s + t)
          OBVIOUS
        <5> HIDE DEF B, N, n, q
        <5>2. Asked(H \cup N) = Asked(H) + (Asked(B) + SizeOf(q[n]))
          BY <1>9, <3>5
        <5> QED
          BY <1>9, <3>5, <5>1, <5>2
      <4> HIDE DEF B
      <4> QED
        BY <1>1, <1>9, <3>5, <4>1, <4>2, <4>3, <4>4
    <3> QED
      BY <3>6, <3>7
  <2> QED
    BY <2>1, <2>2
<1>13. d.bytes = b.bytes + Asked(N) /\ d.active = b.active + n
  BY DEF Drained
<1>14. d \in [bytes : Nat, active : Nat, queue : Seq(Holder)]
  <2>1. d.bytes \in Nat /\ d.active \in Nat /\ d.queue \in Seq(Holder)
    BY <1>1, <1>2, <1>3, <1>9, <1>13 DEF Ordered
  <2>2. d = [bytes |-> d.bytes, active |-> d.active, queue |-> d.queue]
    BY DEF Drained
  <2> HIDE DEF d
  <2> QED
    BY <2>1, <2>2
<1>15. d.bytes = Sum(Needs(G), H \cup N) + Asked(C)
  BY <1>8, <1>9, <1>10, <1>11, <1>13
<1>16. d.active = Cardinality(H \cup N) + Cardinality(C)
  BY <1>2, <1>7, <1>11, <1>13
<1>17. ToSet(d.queue) \cap (H \cup N) = {} /\ H \cup N \in SUBSET Holder /\ G \in SUBSET ((H \cup N) \cap Group)
  BY <1>1, <1>3, <1>4, <1>5
<1> HIDE DEF d, N, n, q
<1>18. Accounts(d, G, H \cup N, C)
  BY <1>3, <1>5, <1>12, <1>13, <1>14, <1>15, <1>16, <1>17 DEF Accounts
<1> QED
  BY <1>3, <1>18 DEF d, N, n, q

LEMMA DrainBudgetKeeps ==
    ASSUME NEW b, NEW G, NEW H, NEW C, Accounts(b, G, H, C), DrainBudget(b, H)
    PROVE  /\ Accounts(budget', G, holds', C)
           /\ H \in SUBSET holds' /\ holds' \ H \in SUBSET ToSet(b.queue)
           /\ ToSet(budget'.queue) \in SUBSET ToSet(b.queue)
<1>1. budget' = Drained(b) /\ holds' = H \cup ToSet(LetIn(b))
  BY Zenon DEF DrainBudget, Drained, LetIn
<1>2. /\ Accounts(Drained(b), G, H \cup ToSet(LetIn(b)), C)
      /\ ToSet(LetIn(b)) \cup ToSet(Drained(b).queue) = ToSet(b.queue)
  BY DrainedKeeps
<1> QED
  BY <1>1, <1>2

\* The accounts are made of a few facts that are used again and again.
LEMMA AccountsParts ==
    ASSUME NEW b, NEW G, NEW H, NEW C, Accounts(b, G, H, C)
    PROVE  /\ H \in SUBSET Holder /\ C \in SUBSET Holder /\ C \in SUBSET Cached
           /\ G \in SUBSET Group /\ G \in SUBSET H
           /\ IsFiniteSet(Holder) /\ IsFiniteSet(H) /\ IsFiniteSet(C)
           /\ Needs(G) \in [Holder -> Nat] /\ Cardinality(H) \in Nat /\ Cardinality(C) \in Nat
           /\ Sum(Needs(G), H) \in Nat /\ Asked(H) \in Nat /\ Asked(C) \in Nat
           /\ b.bytes \in Nat /\ b.active \in Nat /\ b.queue \in Seq(Holder)
           /\ b = [bytes |-> b.bytes, active |-> b.active, queue |-> b.queue]
<1>1. /\ H \in SUBSET Holder /\ C \in SUBSET Holder /\ C \in SUBSET Cached
      /\ G \in SUBSET Group /\ G \in SUBSET H /\ IsFiniteSet(Holder)
  BY HoldersFinite DEF Accounts
<1>2. IsFiniteSet(H) /\ IsFiniteSet(C)
  BY <1>1, FS_Subset
<1>3. Cardinality(H) \in Nat /\ Cardinality(C) \in Nat
  BY <1>2, FS_CardinalityType
<1>4. Needs(G) \in [Holder -> Nat]
  BY <1>1, NeedsType
<1>5. Sum(Needs(G), H) \in Nat
  BY <1>1, <1>4, SumFacts
<1>6. Asked(H) \in Nat /\ Asked(C) \in Nat
  BY <1>1, AskedType
<1>7. /\ b.bytes \in Nat /\ b.active \in Nat /\ b.queue \in Seq(Holder)
      /\ b = [bytes |-> b.bytes, active |-> b.active, queue |-> b.queue]
  BY DEF Accounts
<1> QED
  BY <1>1, <1>2, <1>3, <1>4, <1>5, <1>6, <1>7

LEMMA BudgetExcept ==
    ASSUME NEW b, b = [bytes |-> b.bytes, active |-> b.active, queue |-> b.queue],
           NEW x, NEW y, NEW q
    PROVE  /\ [b EXCEPT !.bytes = x] = [bytes |-> x, active |-> b.active, queue |-> b.queue]
           /\ [b EXCEPT !.queue = q] = [bytes |-> b.bytes, active |-> b.active, queue |-> q]
           /\ [b EXCEPT !.bytes = x, !.active = y] = [bytes |-> x, active |-> y, queue |-> b.queue]
<1> DEFINE c == [b EXCEPT !.bytes = x]
<1>1. c = [bytes |-> x, active |-> b.active, queue |-> b.queue]
  OBVIOUS
<1>2. [c EXCEPT !.active = y] = [bytes |-> x, active |-> y, queue |-> b.queue]
  <2> HIDE DEF c
  <2> QED
    BY <1>1
<1>3. [b EXCEPT !.queue = q] = [bytes |-> b.bytes, active |-> b.active, queue |-> q]
  OBVIOUS
<1> QED
  BY <1>1, <1>2, <1>3

\* Holders are charged alike when the same of them have grown.
LEMMA SameNeeds ==
    ASSUME NEW G \in SUBSET Group, NEW K \in SUBSET Group, NEW S \in SUBSET Holder,
           \A h \in S : h \in G <=> h \in K
    PROVE  Sum(Needs(G), S) = Sum(Needs(K), S)
<1>1. Needs(G) \in [Holder -> Nat]
  BY NeedsType
<1>2. Needs(K) \in [Holder -> Nat]
  BY NeedsType
<1>3. \A h \in S : Needs(G)[h] = Needs(K)[h]
  BY DEF Needs
<1>4. IsFiniteSet(Holder)
  BY HoldersFinite
<1> QED
  BY <1>1, <1>2, <1>3, <1>4, SumAgrees

LEMMA NeedsFacts ==
    ASSUME NEW G \in SUBSET Group
    PROVE  /\ \A S \in SUBSET Holder : Sum(Needs(G), S) \in Nat
           /\ \A S \in SUBSET Holder : \A x \in S :
                 Sum(Needs(G), S) = Needs(G)[x] + Sum(Needs(G), S \ {x})
<1>1. Needs(G) \in [Holder -> Nat]
  BY NeedsType
<1>2. IsFiniteSet(Holder)
  BY HoldersFinite
<1> QED
  BY <1>1, <1>2, SumFacts

\* What is left when those of S and the ciphertexts of D go.
Returned(b, G, S, D) ==
    [b EXCEPT !.bytes = @ - Sum(Needs(G), S) - Asked(D),
              !.active = @ - Cardinality(S) - Cardinality(D)]

LEMMA ReturnedKeeps ==
    ASSUME NEW b, NEW G, NEW H, NEW C, Accounts(b, G, H, C),
           NEW S \in SUBSET H, NEW D \in SUBSET C
    PROVE  /\ Accounts(Returned(b, G, S, D), G \ S, H \ S, C \ D)
           /\ Returned(b, G, S, D).queue = b.queue
<1> DEFINE r == Returned(b, G, S, D)
<1>1. /\ H \in SUBSET Holder /\ C \in SUBSET Holder /\ C \in SUBSET Cached
      /\ G \in SUBSET Group /\ G \in SUBSET H
      /\ IsFiniteSet(Holder) /\ IsFiniteSet(H) /\ IsFiniteSet(C)
      /\ Needs(G) \in [Holder -> Nat] /\ b.bytes \in Nat /\ b.active \in Nat
      /\ b = [bytes |-> b.bytes, active |-> b.active, queue |-> b.queue]
  BY AccountsParts
<1>2. r = [bytes |-> b.bytes - Sum(Needs(G), S) - Asked(D),
           active |-> b.active - Cardinality(S) - Cardinality(D), queue |-> b.queue]
  <2>1. b = [bytes |-> b.bytes, active |-> b.active, queue |-> b.queue]
    BY <1>1
  <2> QED
    <3> DEFINE x == b.bytes - Sum(Needs(G), S) - Asked(D)
               y == b.active - Cardinality(S) - Cardinality(D)
    <3>1. r = [b EXCEPT !.bytes = x, !.active = y]
      BY DEF Returned
    <3> HIDE DEF x, y, r
    <3>2. r = [bytes |-> x, active |-> y, queue |-> b.queue]
      BY <2>1, <3>1, BudgetExcept
    <3> QED
      BY <3>2 DEF x, y
<1>3. /\ b.bytes = Sum(Needs(G), H) + Asked(C) /\ b.active = Cardinality(H) + Cardinality(C)
      /\ Asked(H) + Asked(C) <= MaxBytes \/ b.active = 1
      /\ b.queue \in Seq(Holder) /\ Ordered(b.queue, Holder) /\ ToSet(b.queue) \cap H = {}
  BY DEF Accounts
<1>4. /\ S \in SUBSET Holder /\ D \in SUBSET Holder /\ H \ S \in SUBSET Holder /\ C \ D \in SUBSET Holder
      /\ G \ S \in SUBSET ((H \ S) \cap Group)
  BY <1>1
<1>5. /\ Sum(Needs(G), H) = Sum(Needs(G), H \ S) + Sum(Needs(G), S)
      /\ Sum(Needs(G), H \ S) \in Nat /\ Sum(Needs(G), S) \in Nat
  <2>1. Sum(Needs(G), H) = Sum(Needs(G), H \ S) + Sum(Needs(G), S)
    BY <1>1, SumWithout
  <2>2. \A T \in SUBSET Holder : Sum(Needs(G), T) \in Nat
    BY <1>1, SumFacts
  <2> QED
    BY <1>4, <2>1, <2>2
<1>6. Sum(Needs(G), H \ S) = Sum(Needs(G \ S), H \ S)
  <2>1. G \ S \in SUBSET Group
    BY <1>1
  <2>2. G \in SUBSET Group /\ H \ S \in SUBSET Holder
    BY <1>1, <1>4
  <2> QED
    BY <2>1, <2>2, SameNeeds
<1>7. /\ Asked(C) = Asked(C \ D) + Asked(D) /\ Asked(C \ D) <= Asked(C)
      /\ Asked(H \ S) <= Asked(H)
      /\ Asked(C) \in Nat /\ Asked(C \ D) \in Nat /\ Asked(D) \in Nat
      /\ Asked(H) \in Nat /\ Asked(H \ S) \in Nat
  <2>1. Asked(C) = Asked(C \ D) + Asked(D) /\ Asked(C \ D) <= Asked(C)
    BY <1>1, AskedWithout
  <2>2. Asked(H \ S) <= Asked(H)
    BY <1>1, AskedWithout
  <2>3. \A T \in SUBSET Holder : Asked(T) \in Nat
    BY AskedType
  <2> QED
    BY <1>1, <1>4, <2>1, <2>2, <2>3
<1>8. /\ Cardinality(H) = Cardinality(H \ S) + Cardinality(S)
      /\ Cardinality(C) = Cardinality(C \ D) + Cardinality(D)
      /\ Cardinality(H \ S) \in Nat /\ Cardinality(S) \in Nat
      /\ Cardinality(C \ D) \in Nat /\ Cardinality(D) \in Nat
  <2>1. \A A, B : IsFiniteSet(A) /\ B \in SUBSET A =>
            Cardinality(A) = Cardinality(A \ B) + Cardinality(B)
            /\ Cardinality(A \ B) \in Nat /\ Cardinality(B) \in Nat
    <3> SUFFICES ASSUME NEW A, NEW B, IsFiniteSet(A), B \in SUBSET A
                 PROVE  Cardinality(A) = Cardinality(A \ B) + Cardinality(B)
                        /\ Cardinality(A \ B) \in Nat /\ Cardinality(B) \in Nat
      OBVIOUS
    <3>1. IsFiniteSet(B) /\ IsFiniteSet(A \ B)
      BY FS_Subset
    <3>2. Cardinality((A \ B) \cup B) = Cardinality(A \ B) + Cardinality(B) - Cardinality((A \ B) \cap B)
      BY <3>1, FS_Union
    <3>3. (A \ B) \cup B = A /\ (A \ B) \cap B = {}
      OBVIOUS
    <3>4. Cardinality(A \ B) \in Nat /\ Cardinality(B) \in Nat /\ Cardinality({}) = 0
      BY <3>1, FS_CardinalityType, FS_EmptySet
    <3>5. Cardinality(A) = Cardinality(A \ B) + Cardinality(B) - Cardinality({})
      BY <3>2, <3>3
    <3> QED
      BY <3>4, <3>5
  <2> QED
    BY <1>1, <2>1
<1>9. /\ r.bytes = Sum(Needs(G \ S), H \ S) + Asked(C \ D)
      /\ r.bytes \in Nat
  <2>1. r.bytes = b.bytes - Sum(Needs(G), S) - Asked(D)
    BY <1>2
  <2>2. b.bytes = (Sum(Needs(G), H \ S) + Sum(Needs(G), S)) + (Asked(C \ D) + Asked(D))
    BY <1>3, <1>5, <1>7
  <2>3. r.bytes = Sum(Needs(G), H \ S) + Asked(C \ D)
    <3> DEFINE x == Sum(Needs(G), H \ S)
               y == Sum(Needs(G), S)
               v == Asked(C \ D)
               w == Asked(D)
    <3>1. x \in Nat /\ y \in Nat /\ v \in Nat /\ w \in Nat
      BY <1>5, <1>7
    <3>2. r.bytes = ((x + y) + (v + w)) - y - w
      BY <2>1, <2>2
    <3> HIDE DEF x, y, v, w, r
    <3>3. r.bytes = x + v
      BY <3>1, <3>2
    <3> QED
      BY <3>3 DEF x, v
  <2> QED
    BY <1>5, <1>6, <1>7, <2>3
<1>10. r.active = Cardinality(H \ S) + Cardinality(C \ D) /\ r.active \in Nat /\ r.active <= b.active
  BY <1>2, <1>3, <1>8
<1>11. Asked(H \ S) + Asked(C \ D) <= MaxBytes \/ r.active = 1
  <2>1. MaxBytes \in Nat
    BY ContentBudgetAssumption
  <2>2. CASE Asked(H) + Asked(C) <= MaxBytes
    BY <1>7, <2>1, <2>2
  <2>3. CASE b.active = 1 /\ r.active # 1
    <3>1. Cardinality(H \ S) = 0 /\ Cardinality(C \ D) = 0
      BY <1>8, <1>10, <2>3
    <3>2. H \ S = {} /\ C \ D = {}
      <4>1. IsFiniteSet(H \ S) /\ IsFiniteSet(C \ D)
        BY <1>1, FS_Subset
      <4> QED
        BY <3>1, <4>1, FS_EmptySet
    <3>3. Asked({}) = 0
      BY <1>1, AskedType
    <3> QED
      BY <2>1, <3>2, <3>3
  <2> QED
    BY <1>3, <2>2, <2>3
<1>12. r \in [bytes : Nat, active : Nat, queue : Seq(Holder)] /\ r.queue = b.queue
  <2>1. r = [bytes |-> r.bytes, active |-> r.active, queue |-> b.queue]
    BY <1>2
  <2> HIDE DEF r
  <2> QED
    BY <1>3, <1>9, <1>10, <2>1
<1>13. ToSet(b.queue) \cap (H \ S) = {} /\ C \ D \in SUBSET Cached
  BY <1>1, <1>3
<1> HIDE DEF r
<1>14. Accounts(r, G \ S, H \ S, C \ D)
  BY <1>3, <1>4, <1>9, <1>10, <1>11, <1>12, <1>13 DEF Accounts
<1> QED
  BY <1>12, <1>14 DEF r

LEMMA QueuedKeeps ==
    ASSUME NEW b, NEW G, NEW H, NEW C, Accounts(b, G, H, C),
           NEW h \in Holder, h \notin H, h \notin ToSet(b.queue)
    PROVE  /\ Accounts([b EXCEPT !.queue = Append(@, h)], G, H, C)
           /\ ToSet([b EXCEPT !.queue = Append(@, h)].queue) = ToSet(b.queue) \cup {h}
<1> DEFINE r == [b EXCEPT !.queue = Append(@, h)]
<1>1. /\ b.bytes \in Nat /\ b.active \in Nat
      /\ b = [bytes |-> b.bytes, active |-> b.active, queue |-> b.queue]
  BY AccountsParts
<1>2. Ordered(Append(b.queue, h), Holder) /\ ToSet(Append(b.queue, h)) = ToSet(b.queue) \cup {h}
  <2>1. Ordered(b.queue, Holder)
    BY DEF Accounts
  <2> QED
    BY <2>1, OrderedAppend
<1>3. r = [bytes |-> b.bytes, active |-> b.active, queue |-> Append(b.queue, h)]
  <2>1. b = [bytes |-> b.bytes, active |-> b.active, queue |-> b.queue]
    BY <1>1
  <2> QED
    BY <2>1, BudgetExcept
<1>4. r \in [bytes : Nat, active : Nat, queue : Seq(Holder)]
  <2>1. Append(b.queue, h) \in Seq(Holder)
    BY <1>2 DEF Ordered
  <2> QED
    BY <1>1, <1>3, <2>1
<1>5. r.bytes = b.bytes /\ r.active = b.active /\ r.queue = Append(b.queue, h)
  BY <1>3
<1> HIDE DEF r
<1>6. Accounts(r, G, H, C)
  BY <1>2, <1>4, <1>5 DEF Accounts
<1> QED
  BY <1>2, <1>5, <1>6 DEF r

LEMMA GrownKeeps ==
    ASSUME NEW b, NEW G, NEW H, NEW C, Accounts(b, G, H, C),
           NEW g \in Group, g \in H, g \notin G
    PROVE  /\ Accounts([b EXCEPT !.bytes = @ + GrownTo(g) - SizeOf(g)], G \cup {g}, H, C)
           /\ [b EXCEPT !.bytes = @ + GrownTo(g) - SizeOf(g)].queue = b.queue
<1> DEFINE r == [b EXCEPT !.bytes = @ + GrownTo(g) - SizeOf(g)]
<1>1. /\ H \in SUBSET Holder /\ G \in SUBSET Group /\ G \in SUBSET H /\ IsFiniteSet(Holder)
      /\ Needs(G) \in [Holder -> Nat] /\ Sum(Needs(G), H) \in Nat /\ Asked(C) \in Nat
      /\ b.bytes \in Nat /\ b.active \in Nat /\ b.queue \in Seq(Holder)
      /\ b = [bytes |-> b.bytes, active |-> b.active, queue |-> b.queue]
  BY AccountsParts
<1>2. r = [bytes |-> b.bytes + GrownTo(g) - SizeOf(g), active |-> b.active, queue |-> b.queue]
  <2>1. b = [bytes |-> b.bytes, active |-> b.active, queue |-> b.queue]
    BY <1>1
  <2> QED
    BY <2>1, BudgetExcept
<1>3. GrownTo(g) \in Nat /\ SizeOf(g) \in Nat /\ SizeOf(g) <= GrownTo(g)
  BY ContentBudgetAssumption DEF Holder
<1>4. G \cup {g} \in SUBSET (H \cap Group) /\ G \cup {g} \in SUBSET Group /\ g \in Holder
  BY <1>1
<1>5. Needs(G)[g] = SizeOf(g) /\ Needs(G \cup {g})[g] = GrownTo(g)
  BY <1>4 DEF Needs
<1>6. H \ {g} \in SUBSET Holder /\ G \in SUBSET Group /\ H \in SUBSET Holder
  BY <1>1
<1>7. Sum(Needs(G), H \ {g}) = Sum(Needs(G \cup {g}), H \ {g})
  <2>1. \A h \in H \ {g} : h \in G <=> h \in G \cup {g}
    OBVIOUS
  <2> QED
    BY <1>4, <1>6, <2>1, SameNeeds
<1>8. /\ Sum(Needs(G), H) = SizeOf(g) + Sum(Needs(G), H \ {g})
      /\ Sum(Needs(G \cup {g}), H) = GrownTo(g) + Sum(Needs(G \cup {g}), H \ {g})
      /\ Sum(Needs(G), H \ {g}) \in Nat
  <2>1. /\ Sum(Needs(G), H) = Needs(G)[g] + Sum(Needs(G), H \ {g})
        /\ Sum(Needs(G), H \ {g}) \in Nat
    BY <1>6, NeedsFacts
  <2>2. Sum(Needs(G \cup {g}), H) = Needs(G \cup {g})[g] + Sum(Needs(G \cup {g}), H \ {g})
    BY <1>4, <1>6, NeedsFacts
  <2> QED
    BY <1>5, <2>1, <2>2
<1>9. b.bytes = Sum(Needs(G), H) + Asked(C)
  BY DEF Accounts
<1>10. /\ b.bytes + GrownTo(g) - SizeOf(g) = Sum(Needs(G \cup {g}), H) + Asked(C)
       /\ b.bytes + GrownTo(g) - SizeOf(g) \in Nat
  <2> DEFINE x == Sum(Needs(G), H \ {g})
             y == Asked(C)
             old == SizeOf(g)
             new == GrownTo(g)
  <2>1. x \in Nat /\ y \in Nat /\ old \in Nat /\ new \in Nat
    BY <1>1, <1>3, <1>8
  <2>2. b.bytes = (old + x) + y /\ Sum(Needs(G \cup {g}), H) = new + x
    BY <1>7, <1>8, <1>9
  <2> HIDE DEF x, y, old, new
  <2>3. /\ b.bytes + new - old = Sum(Needs(G \cup {g}), H) + y
        /\ b.bytes + new - old \in Nat
    BY <2>1, <2>2
  <2> QED
    BY <2>3 DEF y, old, new
<1>11. r \in [bytes : Nat, active : Nat, queue : Seq(Holder)]
  BY <1>1, <1>2, <1>10
<1>12. /\ r.bytes = Sum(Needs(G \cup {g}), H) + Asked(C) /\ r.active = b.active /\ r.queue = b.queue
  BY <1>2, <1>10
<1> HIDE DEF r
<1>13. Accounts(r, G \cup {g}, H, C)
  BY <1>4, <1>11, <1>12 DEF Accounts
<1> QED
  BY <1>12, <1>13 DEF r

CacheTaken(b, i) == [b EXCEPT !.bytes = b.bytes + SizeOf(i), !.active = b.active + 1]

LEMMA CachedKeeps ==
    ASSUME NEW b, NEW G, NEW H, NEW C, Accounts(b, G, H, C), NEW i \in Cached, i \notin C,
           CanAcquire(b.bytes + Asked(ToSet(b.queue)), b.active + Len(b.queue), SizeOf(i))
    PROVE  Accounts(CacheTaken(b, i), G, H, C \cup {i}) /\ CacheTaken(b, i).queue = b.queue
<1> DEFINE r == [b EXCEPT !.bytes = @ + SizeOf(i), !.active = @ + 1]
<1>1. /\ H \in SUBSET Holder /\ C \in SUBSET Holder /\ C \in SUBSET Cached
      /\ IsFiniteSet(C) /\ G \in SUBSET Group
      /\ Cardinality(H) \in Nat /\ Cardinality(C) \in Nat
      /\ Sum(Needs(G), H) \in Nat /\ Asked(H) \in Nat /\ Asked(C) \in Nat
      /\ b.bytes \in Nat /\ b.active \in Nat /\ b.queue \in Seq(Holder)
      /\ b = [bytes |-> b.bytes, active |-> b.active, queue |-> b.queue]
  BY AccountsParts
<1>2. r = [bytes |-> b.bytes + SizeOf(i), active |-> b.active + 1, queue |-> b.queue]
  <2> DEFINE x == b.bytes + SizeOf(i)
             y == b.active + 1
  <2>1. r = [b EXCEPT !.bytes = x, !.active = y]
    OBVIOUS
  <2>2. b = [bytes |-> b.bytes, active |-> b.active, queue |-> b.queue]
    BY <1>1
  <2> HIDE DEF x, y, r
  <2>3. r = [bytes |-> x, active |-> y, queue |-> b.queue]
    BY <2>1, <2>2, BudgetExcept
  <2> QED
    BY <2>3 DEF x, y
<1>3. i \in Holder /\ C \cup {i} \in SUBSET Cached /\ {i} \in SUBSET Holder /\ C \cap {i} = {}
  BY <1>1, HoldersFinite
<1>4. Asked(C \cup {i}) = Asked(C) + SizeOf(i) /\ SizeOf(i) \in Nat
  <2>1. Asked(C \cup {i}) = Asked(C) + Asked({i})
    BY <1>1, <1>3, AskedUnion
  <2>2. Asked({i}) = SizeOf(i) /\ SizeOf(i) \in Nat
    BY <1>3, AskedOne
  <2> QED
    BY <2>1, <2>2
<1>5. Cardinality(C \cup {i}) = Cardinality(C) + 1
  BY <1>1, FS_AddElement
<1>6. /\ b.bytes = Sum(Needs(G), H) + Asked(C) /\ b.active = Cardinality(H) + Cardinality(C)
  BY DEF Accounts
<1>7. r \in [bytes : Nat, active : Nat, queue : Seq(Holder)]
  BY <1>1, <1>2, <1>4
<1>8. r.bytes = Sum(Needs(G), H) + Asked(C \cup {i})
  BY <1>1, <1>2, <1>4, <1>6
<1>9. r.active = Cardinality(H) + Cardinality(C \cup {i}) /\ r.active = b.active + 1
  BY <1>1, <1>2, <1>5, <1>6
<1>10. Asked(H) + Asked(C \cup {i}) <= MaxBytes \/ r.active = 1
  <2>1. /\ ToSet(b.queue) \in SUBSET Holder /\ Len(b.queue) \in Nat
    <3>1. Ordered(b.queue, Holder)
      BY DEF Accounts
    <3> QED
      BY <3>1, OrderedCount
  <2>2. Asked(ToSet(b.queue)) \in Nat /\ MaxBytes \in Nat
    BY <2>1, AskedType, ContentBudgetAssumption
  <2>3. CASE SizeOf(i) > MaxBytes
    BY <1>1, <1>9, <2>1, <2>3 DEF CanAcquire
  <2>4. CASE ~(SizeOf(i) > MaxBytes)
    <3>1. b.bytes + Asked(ToSet(b.queue)) + SizeOf(i) <= MaxBytes
      BY <2>4 DEF CanAcquire
    <3>2. Asked(H) <= Sum(Needs(G), H)
      <4>1. /\ Needs(G) \in [Holder -> Nat] /\ Needs({}) \in [Holder -> Nat]
            /\ \A h \in H : Needs({})[h] <= Needs(G)[h] 
        BY <1>1, NeedsType
      <4>2. IsFiniteSet(Holder)
        BY HoldersFinite
      <4>3. Sum(Needs({}), H) <= Sum(Needs(G), H)
        BY <1>1, <4>1, <4>2, SumLeast
      <4> QED
        BY <1>1, <4>3, AskedIsSum
    <3>3. Asked(H) \in Nat /\ Asked(C) \in Nat /\ Sum(Needs(G), H) \in Nat
      BY <1>1
    <3>4. Asked(H) + Asked(C) <= b.bytes /\ b.bytes \in Nat
      BY <1>6, <3>2, <3>3
    <3>5. Asked(H) + Asked(C) + SizeOf(i) <= MaxBytes
      BY <1>4, <2>2, <3>1, <3>3, <3>4
    <3> QED
      BY <1>4, <3>3, <3>5
  <2> QED
    BY <2>3, <2>4
<1>11. r.queue = b.queue
  BY <1>2
<1> HIDE DEF r
<1>12. Accounts(r, G, H, C \cup {i})
  BY <1>3, <1>7, <1>8, <1>9, <1>10, <1>11 DEF Accounts
<1>13. CacheTaken(b, i) = r
  BY DEF r, CacheTaken
<1> QED
  BY <1>11, <1>12, <1>13

-----------------------------------------------------------------------------
(* The inductive invariant of the budget. *)

Drains == [kind : {"none", "push", "pull"}, stop : BOOLEAN, yield : BOOLEAN,
           closing : BOOLEAN, head : Group \cup {NoGroup}]

Books == Accounts(budget, grown, holds, ToSet(cache)) /\ Ordered(cache, Cached)

\* Mutations move in a push only, groups in a pull; a push that is closing has
\* nothing but jobs.
Seats(st, d) ==
    /\ st \in [Work -> Stage]
    /\ \A m \in Mutation : st[m] \in {"queued", "waiting", "job", "ready", "batch", "done"}
    /\ \A g \in Group : st[g] \in {"queued", "job", "prepared", "null", "done", "gone"}
    /\ d.kind # "push" => \A m \in Mutation : st[m] \in {"queued", "done"}
    /\ d.kind # "pull" => \A g \in Group : st[g] \notin {"job", "prepared"}
    /\ d.kind = "push" /\ d.closing = TRUE =>
          d.stop = TRUE /\ \A m \in Mutation : st[m] \notin {"waiting", "ready", "batch"}

\* Who may wait for bytes or have them, by where it is.
Asking(st, H, Q) ==
    /\ \A m \in Item : /\ m \in Q => st[m] = "job"
                       /\ m \in H => st[m] \in {"job", "ready", "batch"}
    /\ \A g \in Group : /\ g \in Q => st[g] = "job"
                        /\ g \in H => st[g] \in {"job", "prepared"}
                        /\ st[g] = "prepared" => g \in H

Queued == ToSet(budget.queue)

BudgetInv ==
    /\ Books /\ reclaim \in BOOLEAN /\ drain \in Drains
    /\ Seats(stage, drain) /\ Asking(stage, holds, Queued)

\* A step that lets some of Q in, after H kept what they have.
LetsIn(H, Q) ==
    /\ H \in SUBSET holds' /\ holds' \ H \in SUBSET Q
    /\ ToSet(budget'.queue) \in SUBSET Q

LEMMA AskingLetsIn ==
    ASSUME NEW st, NEW H, NEW Q, Asking(st, H, Q), LetsIn(H, Q)
    PROVE  Asking(st, holds', ToSet(budget'.queue))
<1> DEFINE h == holds'
           q == ToSet(budget'.queue)
<1>1. H \in SUBSET h /\ h \ H \in SUBSET Q /\ q \in SUBSET Q
  BY DEF LetsIn
<1> HIDE DEF h, q
<1>2. Asking(st, h, q)
  BY <1>1 DEF Asking
<1> QED
  BY <1>2 DEF h, q

LEMMA WithoutIsReturned ==
    ASSUME Books, NEW S \in SUBSET holds, NEW D
    PROVE  Without(S, D) = Returned(budget, grown, S, D)
<1>1. grown \in SUBSET Group /\ S \in SUBSET Holder
  BY AccountsParts DEF Books
<1>2. Total(S) = Sum(Needs(grown), S)
  BY <1>1, TotalIsSum
<1> QED
  BY <1>2 DEF Without, Returned

LEMMA ReserveKeeps ==
    ASSUME Books, reclaim \in BOOLEAN, NEW h \in Holder, h \notin holds, h \notin Queued,
           Reserve(h), UNCHANGED <<grown, cache>>
    PROVE  Books' /\ reclaim' \in BOOLEAN /\ LetsIn(holds, Queued \cup {h})
<1> DEFINE b == [budget EXCEPT !.queue = Append(@, h)]
<1>1. Accounts(b, grown, holds, ToSet(cache)) /\ ToSet(b.queue) = Queued \cup {h}
  BY QueuedKeeps DEF Books, Queued
<1>2. DrainBudget(b, holds) /\ reclaim' \in BOOLEAN
  BY DEF Reserve
<1> HIDE DEF b
<1>3. /\ Accounts(budget', grown, holds', ToSet(cache))
      /\ holds \in SUBSET holds' /\ holds' \ holds \in SUBSET ToSet(b.queue)
      /\ ToSet(budget'.queue) \in SUBSET ToSet(b.queue)
  BY <1>1, <1>2, DrainBudgetKeeps
<1> QED
  BY <1>1, <1>2, <1>3 DEF Books, LetsIn

LEMMA ReleaseKeeps ==
    ASSUME Books, NEW S \in SUBSET holds, Release(S), UNCHANGED cache
    PROVE  Books' /\ LetsIn(holds \ S, Queued)
<1> DEFINE b == Without(S, {})
<1>1. b = Returned(budget, grown, S, {})
  BY WithoutIsReturned
<1>2. /\ Accounts(Returned(budget, grown, S, {}), grown \ S, holds \ S, ToSet(cache) \ {})
      /\ Returned(budget, grown, S, {}).queue = budget.queue
  BY ReturnedKeeps DEF Books
<1>3. DrainBudget(b, holds \ S) /\ grown' = grown \ S
  BY DEF Release
<1> HIDE DEF b
<1>4. Accounts(b, grown \ S, holds \ S, ToSet(cache)) /\ b.queue = budget.queue
  BY <1>1, <1>2
<1>5. /\ Accounts(budget', grown \ S, holds', ToSet(cache))
      /\ holds \ S \in SUBSET holds' /\ holds' \ (holds \ S) \in SUBSET ToSet(b.queue)
      /\ ToSet(budget'.queue) \in SUBSET ToSet(b.queue)
  BY <1>3, <1>4, DrainBudgetKeeps
<1> QED
  BY <1>3, <1>4, <1>5 DEF Books, LetsIn, Queued

LEMMA ReclaimKeeps ==
    ASSUME Books, reclaim \in BOOLEAN, Reclaim
    PROVE  Books' /\ reclaim' \in BOOLEAN /\ LetsIn(holds, Queued)
<1>1. CASE budget.queue # <<>> /\ cache # <<>>
  <2>1. /\ cache' = Tail(cache) /\ DrainBudget(Without({}, {Head(cache)}), holds)
        /\ reclaim' = reclaim /\ grown' = grown
    BY <1>1 DEF Reclaim
  <2>2. cache \in Seq(Cached) /\ Len(cache) \in Nat /\ Len(cache) # 0 /\ Ordered(cache, Cached)
    BY <1>1, EmptySeq DEF Books, Ordered
  <2>3. cache' = SubSeq(cache, 2, Len(cache)) /\ Head(cache) = cache[1]
    BY <1>1, <2>1, <2>2, TailIsSubSeq
  <2>4. /\ Ordered(cache', Cached) /\ ToSet(cache') = ToSet(cache) \ {Head(cache)}
        /\ Head(cache) \in ToSet(cache)
    <3>1. 1 \in 0..Len(cache) /\ 1 + 1 = 2 /\ 1..1 = {1}
      BY <2>2
    <3>2. /\ Ordered(SubSeq(cache, 1 + 1, Len(cache)), Cached)
          /\ ToSet(SubSeq(cache, 1, 1)) = {cache[k] : k \in 1..1}
          /\ ToSet(SubSeq(cache, 1, 1)) \cup ToSet(SubSeq(cache, 1 + 1, Len(cache))) = ToSet(cache)
          /\ ToSet(SubSeq(cache, 1, 1)) \cap ToSet(SubSeq(cache, 1 + 1, Len(cache))) = {}
      BY <2>2, <3>1, OrderedSplit
    <3>3. ToSet(SubSeq(cache, 1, 1)) = {Head(cache)}
      BY <2>3, <3>1, <3>2
    <3> QED
      BY <2>3, <3>1, <3>2, <3>3
  <2> DEFINE b == Without({}, {Head(cache)})
  <2>5. b = Returned(budget, grown, {}, {Head(cache)})
    BY WithoutIsReturned
  <2>6. /\ Accounts(Returned(budget, grown, {}, {Head(cache)}), grown \ {}, holds \ {}, ToSet(cache) \ {Head(cache)})
        /\ Returned(budget, grown, {}, {Head(cache)}).queue = budget.queue
    <3>1. {} \in SUBSET holds /\ {Head(cache)} \in SUBSET ToSet(cache)
      BY <2>4
    <3>2. Accounts(budget, grown, holds, ToSet(cache))
      BY DEF Books
    <3>3. \A S \in SUBSET holds, D \in SUBSET ToSet(cache) :
             /\ Accounts(Returned(budget, grown, S, D), grown \ S, holds \ S, ToSet(cache) \ D)
             /\ Returned(budget, grown, S, D).queue = budget.queue
      BY <3>2, ReturnedKeeps
    <3> QED
      BY <3>1, <3>3
  <2> HIDE DEF b
  <2>7. Accounts(b, grown, holds, ToSet(cache')) /\ b.queue = budget.queue
    <3>1. grown \ {} = grown /\ holds \ {} = holds
      OBVIOUS
    <3> QED
      BY <2>4, <2>5, <2>6, <3>1
  <2>8. DrainBudget(b, holds)
    BY <2>1 DEF b
  <2>9. /\ Accounts(budget', grown, holds', ToSet(cache'))
        /\ holds \in SUBSET holds' /\ holds' \ holds \in SUBSET ToSet(b.queue)
        /\ ToSet(budget'.queue) \in SUBSET ToSet(b.queue)
    BY <2>7, <2>8, DrainBudgetKeeps
  <2> QED
    BY <2>1, <2>4, <2>7, <2>9 DEF Books, LetsIn, Queued
<1>2. CASE ~(budget.queue # <<>> /\ cache # <<>>)
  <2>1. UNCHANGED <<budget, holds, cache, grown>>
    BY <1>2 DEF Reclaim
  <2>2. reclaim' \in BOOLEAN
    BY Zenon, <1>2 DEF Reclaim
  <2> QED
    BY <2>1, <2>2 DEF Books, LetsIn, Queued
<1> QED
  BY <1>1, <1>2

LEMMA CachePutKeeps ==
    ASSUME Books, NEW i \in Cached, CachePut(i), UNCHANGED grown
    PROVE  Books' /\ LetsIn(holds, Queued)
<1> DEFINE others == Dropping(cache, {i})
           From(n) == SubSeq(others, n, Len(others))
           Fit(n) == n > Len(others) \/ Asked(ToSet(From(n))) + SizeOf(i) <= CacheBytes
           keep == IF SizeOf(i) > CacheBytes THEN others
                   ELSE From(Min({n \in 1..Len(others) + 1 : Fit(n)}))
           gone == ToSet(cache) \ ToSet(keep)
           b == Without({}, gone)
           c == [b EXCEPT !.bytes = @ + SizeOf(i), !.active = @ + 1]
           room == /\ SizeOf(i) <= CacheBytes
                   /\ Admitted(b) = Len(b.queue)
                   /\ CanAcquire(b.bytes + Asked(ToSet(b.queue)),
                                 b.active + Len(b.queue), SizeOf(i))
<1>1. IF room THEN cache' = Append(keep, i) /\ DrainBudget(c, holds)
              ELSE cache' = keep /\ DrainBudget(b, holds)
  BY Zenon DEF CachePut
<1>2. Ordered(others, Cached) /\ ToSet(others) = ToSet(cache) \ {i} /\ Len(others) \in Nat
  <2>1. Ordered(others, Cached) /\ ToSet(others) = ToSet(cache) \ {i}
    BY DroppingOrdered DEF Books
  <2> QED
    BY <2>1, OrderedCount
<1> HIDE DEF others, Fit
<1>3. Ordered(keep, Cached) /\ ToSet(keep) \in SUBSET ToSet(others)
  <2>1. \A n \in 1..Len(others) + 1 : Ordered(From(n), Cached) /\ ToSet(From(n)) \in SUBSET ToSet(others)
    <3> SUFFICES ASSUME NEW n \in 1..Len(others) + 1
                 PROVE  Ordered(From(n), Cached) /\ ToSet(From(n)) \in SUBSET ToSet(others)
      OBVIOUS
    <3>1. n - 1 \in 0..Len(others) /\ (n - 1) + 1 = n
      BY <1>2
    <3>2. /\ Ordered(SubSeq(others, (n - 1) + 1, Len(others)), Cached)
          /\ ToSet(SubSeq(others, 1, n - 1)) \cup ToSet(SubSeq(others, (n - 1) + 1, Len(others))) = ToSet(others)
      BY <1>2, <3>1, OrderedSplit
    <3> QED
      BY <3>1, <3>2
  <2>2. Len(others) + 1 \in {n \in 1..Len(others) + 1 : Fit(n)}
    BY <1>2 DEF Fit
  <2> HIDE DEF From
  <2>3. Min({n \in 1..Len(others) + 1 : Fit(n)}) \in 1..Len(others) + 1
    <3> DEFINE T == {n \in 1..Len(others) + 1 : Fit(n)}
    <3>1. T \in SUBSET Nat /\ T # {}
      BY <1>2, <2>2
    <3>2. \E x \in T : \A y \in T : x <= y
      <4> HIDE DEF T
      <4> QED
        BY <3>1, Least
    <3>3. Min(T) \in T
      <4> HIDE DEF T
      <4> QED
        BY <3>2 DEF Min
    <3> QED
      BY <3>3
  <2> QED
    BY <1>2, <2>1, <2>3
<1> HIDE DEF keep
<1>4. i \notin ToSet(keep) /\ ToSet(cache) \ gone = ToSet(keep) /\ gone \in SUBSET ToSet(cache)
  BY <1>2, <1>3
<1>5. Accounts(b, grown, holds, ToSet(keep)) /\ b.queue = budget.queue
  <2> HIDE DEF gone
  <2>1. {} \in SUBSET holds /\ grown \ {} = grown /\ holds \ {} = holds
    OBVIOUS
  <2>2. b = Returned(budget, grown, {}, gone)
    BY <2>1, WithoutIsReturned
  <2>3. \A S \in SUBSET holds, D \in SUBSET ToSet(cache) :
           /\ Accounts(Returned(budget, grown, S, D), grown \ S, holds \ S, ToSet(cache) \ D)
           /\ Returned(budget, grown, S, D).queue = budget.queue
    BY ReturnedKeeps DEF Books
  <2> HIDE DEF b
  <2> QED
    BY <1>4, <2>1, <2>2, <2>3
<1> HIDE DEF b
<1>6. CASE room
  <2>1. cache' = Append(keep, i) /\ DrainBudget(c, holds)
    BY <1>1, <1>6
  <2>2. Accounts(c, grown, holds, ToSet(keep) \cup {i}) /\ c.queue = budget.queue
    <3>1. CanAcquire(b.bytes + Asked(ToSet(b.queue)), b.active + Len(b.queue), SizeOf(i))
      BY <1>6
    <3>2. Accounts(b, grown, holds, ToSet(keep)) /\ i \notin ToSet(keep)
      BY <1>4, <1>5
    <3>3. c = CacheTaken(b, i)
      BY DEF CacheTaken
    <3> HIDE DEF c, room, gone, keep
    <3>4. Accounts(CacheTaken(b, i), grown, holds, ToSet(keep) \cup {i}) /\ CacheTaken(b, i).queue = b.queue
      BY <3>1, <3>2, CachedKeeps
    <3> QED
      BY <1>5, <3>3, <3>4
  <2>3. Ordered(cache', Cached) /\ ToSet(cache') = ToSet(keep) \cup {i}
    BY <1>3, <1>4, <2>1, OrderedAppend
  <2> HIDE DEF c
  <2>4. /\ Accounts(budget', grown, holds', ToSet(keep) \cup {i})
        /\ holds \in SUBSET holds' /\ holds' \ holds \in SUBSET ToSet(c.queue)
        /\ ToSet(budget'.queue) \in SUBSET ToSet(c.queue)
    BY <2>1, <2>2, DrainBudgetKeeps
  <2> QED
    BY <2>2, <2>3, <2>4 DEF Books, LetsIn, Queued
<1>7. CASE ~room
  <2>1. cache' = keep /\ DrainBudget(b, holds)
    BY <1>1, <1>7
  <2>2. /\ Accounts(budget', grown, holds', ToSet(keep))
        /\ holds \in SUBSET holds' /\ holds' \ holds \in SUBSET ToSet(b.queue)
        /\ ToSet(budget'.queue) \in SUBSET ToSet(b.queue)
    BY <1>5, <2>1, DrainBudgetKeeps
  <2> QED
    BY <1>3, <1>5, <2>1, <2>2 DEF Books, LetsIn, Queued
<1> QED
  BY <1>6, <1>7

LEMMA RetainKeeps ==
    ASSUME Books, NEW g \in Group, g \in holds, g \notin grown,
           grown' = grown \cup {g}, UNCHANGED cache,
           DrainBudget([budget EXCEPT !.bytes = @ + GrownTo(g) - SizeOf(g)], holds)
    PROVE  Books' /\ LetsIn(holds, Queued)
<1> DEFINE b == [budget EXCEPT !.bytes = @ + GrownTo(g) - SizeOf(g)]
<1>1. Accounts(b, grown \cup {g}, holds, ToSet(cache)) /\ b.queue = budget.queue
  BY GrownKeeps DEF Books
<1> HIDE DEF b
<1>2. DrainBudget(b, holds)
  BY DEF b
<1>3. /\ Accounts(budget', grown \cup {g}, holds', ToSet(cache))
      /\ holds \in SUBSET holds' /\ holds' \ holds \in SUBSET ToSet(b.queue)
      /\ ToSet(budget'.queue) \in SUBSET ToSet(b.queue)
  BY <1>1, <1>2, DrainBudgetKeeps
<1> QED
  BY <1>1, <1>3 DEF Books, LetsIn, Queued

LEMMA BatchReturnsKeeps ==
    ASSUME Books, NEW accepted, BatchReturns(accepted), At("batch") \cap grown = {},
           cache' = Dropping(cache, accepted)
    PROVE  Books' /\ LetsIn(holds \ At("batch"), Queued)
<1> DEFINE S == At("batch") \cap holds
           D == ToSet(cache) \cap accepted
           b == Without(S, D)
<1>1. b = Returned(budget, grown, S, D)
  BY WithoutIsReturned
<1>2. Accounts(Returned(budget, grown, S, D), grown \ S, holds \ S, ToSet(cache) \ D)
      /\ Returned(budget, grown, S, D).queue = budget.queue
  <2> HIDE DEF S, D
  <2>1. S \in SUBSET holds /\ D \in SUBSET ToSet(cache)
    BY DEF S, D
  <2> QED
    BY <2>1, ReturnedKeeps DEF Books
<1>3. DrainBudget(b, holds \ S) /\ grown' = grown
  <2>1. holds \ At("batch") = holds \ S
    OBVIOUS
  <2> HIDE DEF S
  <2> QED
    BY <2>1 DEF BatchReturns, S
<1>4. grown \ S = grown /\ holds \ S = holds \ At("batch")
  OBVIOUS
<1> HIDE DEF b
<1>5. Ordered(cache', Cached) /\ ToSet(cache') = ToSet(cache) \ D
  <2>1. Ordered(cache, Cached)
    BY DEF Books
  <2>2. Ordered(Dropping(cache, accepted), Cached)
        /\ ToSet(Dropping(cache, accepted)) = ToSet(cache) \ accepted
    BY <2>1, DroppingOrdered
  <2> QED
    BY <2>1, <2>2
<1>6. Accounts(b, grown, holds \ S, ToSet(cache')) /\ b.queue = budget.queue
  <2> HIDE DEF S, D
  <2> QED
    BY <1>1, <1>2, <1>4, <1>5
<1>7. /\ Accounts(budget', grown, holds', ToSet(cache'))
      /\ holds \ S \in SUBSET holds' /\ holds' \ (holds \ S) \in SUBSET ToSet(b.queue)
      /\ ToSet(budget'.queue) \in SUBSET ToSet(b.queue)
  <2> HIDE DEF S, D
  <2> QED
    BY <1>3, <1>6, DrainBudgetKeeps
<1> HIDE DEF S, D
<1> QED
  BY <1>3, <1>4, <1>5, <1>6, <1>7 DEF Books, LetsIn, Queued

-----------------------------------------------------------------------------
(* Every step keeps the invariant: first where things are. *)

LEMMA Kinds ==
    /\ Item \cap Bare = {} /\ Mutation \cap Group = {} /\ Mutation \cap Read = {} /\ Group \cap Read = {}
    /\ Item \in SUBSET Mutation /\ Mutation \in SUBSET Work /\ Group \in SUBSET Work
    /\ Work = Mutation \cup Group /\ Holder = Item \cup Group \cup Read
    /\ Work \in SUBSET Nat /\ NoGroup \notin Group
<1>1. Work \cup Read \subseteq Nat \ {0} /\ Item \cap (Bare \cup Group \cup Read) = {}
      /\ Bare \cap (Group \cup Read) = {} /\ Group \cap Read = {}
  BY ContentBudgetAssumption
<1>2. NoGroup = 0
  BY DEF NoGroup
<1> QED
  BY <1>1, <1>2 DEF Mutation, Work, Holder

LEMMA DrainMoves ==
    ASSUME NEW d, d \in Drains, NEW g \in Group \cup {NoGroup}
    PROVE  /\ LET e == [d EXCEPT !.yield = TRUE]
              IN  e \in Drains /\ e.kind = d.kind /\ e.closing = d.closing /\ e.stop = d.stop
           /\ LET e == [d EXCEPT !.stop = TRUE]
              IN  e \in Drains /\ e.kind = d.kind /\ e.closing = d.closing /\ e.stop = TRUE
           /\ LET e == [d EXCEPT !.stop = TRUE, !.closing = TRUE]
              IN  e \in Drains /\ e.kind = d.kind /\ e.closing = TRUE /\ e.stop = TRUE
           /\ LET e == [d EXCEPT !.head = g]
              IN  e \in Drains /\ e.kind = d.kind /\ e.closing = d.closing /\ e.stop = d.stop
           /\ LET e == [d EXCEPT !.stop = TRUE, !.closing = TRUE, !.head = g]
              IN  e \in Drains /\ e.kind = d.kind /\ e.closing = TRUE /\ e.stop = TRUE
<1>1. TRUE \in BOOLEAN
  OBVIOUS
<1> QED
  BY <1>1 DEF Drains

LEMMA NoDrainMoves ==
    /\ NoDrain \in Drains /\ NoDrain.kind = "none"
    /\ LET e == [NoDrain EXCEPT !.kind = "push"]
       IN  e \in Drains /\ e.kind = "push" /\ e.closing = FALSE
    /\ LET e == [NoDrain EXCEPT !.kind = "pull"]
       IN  e \in Drains /\ e.kind = "pull"
<1>1. NoDrain \in Drains /\ NoDrain.kind = "none" /\ NoDrain.closing = FALSE
  BY DEF NoDrain, Drains
<1> HIDE DEF NoDrain
<1> QED
  BY <1>1 DEF Drains

LEMMA PutMoves ==
    ASSUME stage \in [Work -> Stage], NEW S, NEW s \in Stage, Put(S, s)
    PROVE  /\ stage' \in [Work -> Stage]
           /\ \A w \in Work : stage'[w] = IF w \in S THEN s ELSE stage[w]
<1>1. stage' = [w \in Work |-> IF w \in S THEN s ELSE stage[w]]
  BY DEF Put
<1>2. \A w \in Work : (IF w \in S THEN s ELSE stage[w]) \in Stage
  OBVIOUS
<1> QED
  BY <1>1, <1>2

\* The least element of a set of workers is one of them.
LEMMA MinIsIn ==
    ASSUME NEW S \in SUBSET Work, S # {}
    PROVE  Min(S) \in S
<1>1. S \in SUBSET Nat
  BY Kinds
<1>2. \E x \in S : \A y \in S : x <= y
  BY <1>1, Least
<1> QED
  BY <1>2 DEF Min

\* A step that only moves things between places, without asking for bytes.
LEMMA NothingAsked ==
    ASSUME BudgetInv, UNCHANGED <<budget, holds, grown, cache, reclaim>>, drain' \in Drains,
           Seats(stage', drain'), Asking(stage', holds, Queued)
    PROVE  BudgetInv'
<1>1. Books'
  BY DEF BudgetInv, Books
<1>2. reclaim' \in BOOLEAN
  BY Zenon DEF BudgetInv
<1>3. Queued' = Queued /\ holds' = holds
  BY DEF Queued
<1>4. Asking(stage', holds', Queued')
  BY <1>3
<1> QED
  BY <1>1, <1>2, <1>4 DEF BudgetInv

\* A step whose books are right, that lets some in.
LEMMA SomeLetIn ==
    ASSUME Books', reclaim' \in BOOLEAN, drain' \in Drains, Seats(stage', drain'),
           NEW H, NEW Q, LetsIn(H, Q), Asking(stage', H, Q)
    PROVE  BudgetInv'
<1>1. Asking(stage', holds', Queued')
  <2> DEFINE st == stage'
  <2>1. Asking(st, H, Q)
    OBVIOUS
  <2> HIDE DEF st
  <2>2. Asking(st, holds', ToSet(budget'.queue))
    BY <2>1, AskingLetsIn
  <2> QED
    BY <2>2 DEF st, Queued
<1> QED
  BY <1>1 DEF BudgetInv

\* Nobody else asks: reclaiming changes neither places nor drains.
LEMMA ReclaimNext == ASSUME BudgetInv, Reclaim PROVE BudgetInv'
<1>1. Books' /\ reclaim' \in BOOLEAN /\ LetsIn(holds, Queued)
  BY ReclaimKeeps DEF BudgetInv
<1>2. stage' = stage /\ drain' = drain
  BY DEF Reclaim
<1>3. drain' \in Drains /\ Seats(stage', drain') /\ Asking(stage', holds, Queued)
  BY <1>2 DEF BudgetInv
<1> QED
  BY <1>1, <1>3, SomeLetIn

LEMMA ReadAsksNext == ASSUME BudgetInv, NEW r \in Read, ReadAsks(r) PROVE BudgetInv'
<1>1. r \in Holder /\ r \notin holds /\ r \notin Queued /\ r \notin Item /\ r \notin Group
  BY Kinds DEF ReadAsks, Queued
<1>2. Books' /\ reclaim' \in BOOLEAN /\ LetsIn(holds, Queued \cup {r})
  BY <1>1, ReserveKeeps DEF BudgetInv, ReadAsks
<1>3. stage' = stage /\ drain' = drain
  BY DEF ReadAsks
<1>4. drain' \in Drains /\ Seats(stage', drain') /\ Asking(stage', holds, Queued)
  BY <1>3 DEF BudgetInv
<1>5. Asking(stage', holds, Queued \cup {r})
  BY <1>1, <1>4 DEF Asking
<1> QED
  BY <1>2, <1>4, <1>5, SomeLetIn

LEMMA ReadEndsNext == ASSUME BudgetInv, NEW r \in Read, ReadEnds(r) PROVE BudgetInv'
<1>1. r \notin Group
  BY Kinds
<1>2. Books' /\ LetsIn(holds \ {r}, Queued)
  BY ReleaseKeeps DEF BudgetInv, ReadEnds
<1>3. stage' = stage /\ drain' = drain
  BY DEF ReadEnds
<1>4. reclaim' \in BOOLEAN
  BY Zenon DEF BudgetInv, ReadEnds
<1>5. drain' \in Drains /\ Seats(stage', drain') /\ Asking(stage', holds, Queued)
  BY <1>3 DEF BudgetInv
<1>6. Asking(stage', holds \ {r}, Queued)
  BY <1>1, <1>5 DEF Asking
<1> QED
  BY <1>2, <1>4, <1>5, <1>6, SomeLetIn

-----------------------------------------------------------------------------
(* A push. *)

LEMMA PushStartNext == ASSUME BudgetInv, PushStart PROVE BudgetInv'
<1>1. /\ drain' \in Drains /\ drain'.kind = "push" /\ drain'.closing = FALSE /\ drain.kind = "none"
  BY NoDrainMoves DEF PushStart
<1>2. UNCHANGED <<budget, holds, grown, cache, reclaim, stage>>
  BY DEF PushStart
<1>3. Seats(stage', drain')
  BY <1>1, <1>2 DEF BudgetInv, Seats
<1>4. Asking(stage', holds, Queued)
  BY <1>2 DEF BudgetInv
<1> QED
  BY <1>1, <1>2, <1>3, <1>4, NothingAsked

LEMMA PushYieldsNext == ASSUME BudgetInv, PushYields PROVE BudgetInv'
<1>1. drain \in Drains /\ drain' = [drain EXCEPT !.yield = TRUE]
  BY DEF BudgetInv, PushYields
<1>2. /\ drain' \in Drains /\ drain'.kind = drain.kind /\ drain'.closing = drain.closing
      /\ drain'.stop = drain.stop
  BY <1>1, DrainMoves
<1>3. UNCHANGED <<budget, holds, grown, cache, reclaim, stage>>
  BY DEF PushYields
<1>4. Seats(stage', drain')
  BY <1>2, <1>3 DEF BudgetInv, Seats
<1>5. Asking(stage', holds, Queued)
  BY <1>3 DEF BudgetInv
<1> QED
  BY <1>2, <1>3, <1>4, <1>5, NothingAsked

\* A move of mutations that do not wait for bytes nor hold any.
LEMMA PushSeats ==
    ASSUME BudgetInv, drain.kind = "push",
           NEW S \in SUBSET Mutation, NEW s \in {"waiting", "job", "batch", "queued", "ready"}, Put(S, s),
           s \in {"waiting", "ready", "batch"} => drain.closing # TRUE
    PROVE  Seats(stage', drain)
<1>1. stage \in [Work -> Stage] /\ s \in Stage
  BY DEF BudgetInv, Seats, Stage
<1>2. stage' \in [Work -> Stage] /\ \A w \in Work : stage'[w] = IF w \in S THEN s ELSE stage[w]
  BY <1>1, PutMoves
<1>3. \A m \in Mutation : m \in Work /\ m \notin Group
  BY Kinds
<1>4. \A g \in Group : g \in Work /\ g \notin S
  BY Kinds
<1>5. Seats(stage, drain)
  BY DEF BudgetInv
<1>6. \A m \in Mutation : stage'[m] \in {"queued", "waiting", "job", "ready", "batch", "done"}
  BY <1>2, <1>3, <1>5 DEF Seats
<1>7. \A g \in Group : stage'[g] = stage[g]
  BY <1>2, <1>4
<1>8. drain.closing = TRUE =>
        drain.stop = TRUE /\ \A m \in Mutation : stage'[m] \notin {"waiting", "ready", "batch"}
  BY <1>2, <1>3, <1>5 DEF Seats
<1> QED
  BY <1>2, <1>5, <1>6, <1>7, <1>8 DEF Seats

LEMMA PushMoves ==
    ASSUME BudgetInv, drain.kind = "push", UNCHANGED drain,
           NEW S \in SUBSET Mutation, NEW s \in {"waiting", "job", "batch", "queued", "ready"}, Put(S, s),
           s \in {"waiting", "ready", "batch"} => drain.closing # TRUE
    PROVE  drain' \in Drains /\ Seats(stage', drain')
<1>1. Seats(stage', drain)
  BY PushSeats
<1> QED
  BY <1>1 DEF BudgetInv

\* The drain stops: nothing moves for that.
LEMMA StopSeats ==
    ASSUME NEW st, NEW d, d \in Drains, Seats(st, d)
    PROVE  [d EXCEPT !.stop = TRUE] \in Drains /\ Seats(st, [d EXCEPT !.stop = TRUE])
<1> DEFINE e == [d EXCEPT !.stop = TRUE]
<1>1. e \in Drains /\ e.kind = d.kind /\ e.closing = d.closing /\ e.stop = TRUE
  BY DrainMoves
<1> HIDE DEF e
<1>2. Seats(st, e)
  BY <1>1 DEF Seats
<1> QED
  BY <1>1, <1>2 DEF e

LEMMA StageAfter ==
    ASSUME BudgetInv, NEW S, NEW s \in {"waiting", "job", "batch", "queued", "ready"}, Put(S, s)
    PROVE  \A w \in Work : stage'[w] = IF w \in S THEN s ELSE stage[w]
<1>1. stage \in [Work -> Stage] /\ s \in Stage
  BY DEF BudgetInv, Seats, Stage
<1> QED
  BY <1>1, PutMoves

LEMMA PushLoadNext == ASSUME BudgetInv, PushLoad PROVE BudgetInv'
<1>1. PICK S \in SUBSET (Mutation \cap At("queued")) : Put(S, "waiting")
  <2> DEFINE free == Mutation \cap At("queued")
             room == MaxOwned - Cardinality(Owned)
  <2>1. Put({m \in free : Cardinality({k \in free : k < m}) < room}, "waiting")
    BY DEF PushLoad
  <2> QED
    BY <2>1
<1>2. /\ drain.kind = "push" /\ drain.closing # TRUE
      /\ UNCHANGED <<budget, holds, grown, cache, reclaim, drain>>
  BY DEF PushLoad, Running
<1>3. drain' \in Drains /\ Seats(stage', drain')
  BY <1>1, <1>2, PushMoves
<1>4. \A w \in Work : stage'[w] = IF w \in S THEN "waiting" ELSE stage[w]
  BY <1>1, StageAfter
<1>5. \A m \in S : m \in Work /\ stage[m] = "queued" /\ m \notin Group
  BY <1>1, Kinds DEF At
<1>6. Asking(stage', holds, Queued)
  <2>1. Asking(stage, holds, Queued)
    BY DEF BudgetInv
  <2>2. \A m \in Item : m \in Queued \cup holds => stage'[m] = stage[m]
    BY <1>4, <1>5, <2>1, Kinds DEF Asking
  <2>3. \A g \in Group : stage'[g] = stage[g]
    BY <1>4, <1>5, Kinds
  <2> QED
    BY <2>1, <2>2, <2>3 DEF Asking
<1> QED
  BY <1>2, <1>3, <1>6, NothingAsked

LEMMA PushPumpNext == ASSUME BudgetInv, PushPump PROVE BudgetInv'
<1> DEFINE m == Min(At("waiting"))
<1>1. /\ drain.kind = "push" /\ UNCHANGED <<grown, cache, drain>> /\ Put({m}, "job")
      /\ IF m \in Item THEN Reserve(m) ELSE UNCHANGED <<budget, holds, reclaim>>
      /\ At("waiting") # {}
  BY DEF PushPump
<1>2. m \in Work /\ stage[m] = "waiting"
  <2>1. At("waiting") \in SUBSET Work
    BY DEF At
  <2>2. m \in At("waiting")
    BY <1>1, <2>1, MinIsIn
  <2> QED
    BY <2>2 DEF At
<1> HIDE DEF m
<1>3. m \in Mutation
  BY <1>2, Kinds DEF BudgetInv, Seats
<1>4. drain' \in Drains /\ Seats(stage', drain')
  <2>1. {m} \in SUBSET Mutation
    BY <1>3
  <2> QED
    BY <1>1, <2>1, PushMoves
<1>5. \A w \in Work : stage'[w] = IF w = m THEN "job" ELSE stage[w]
  <2>1. \A w \in Work : stage'[w] = IF w \in {m} THEN "job" ELSE stage[w]
    BY <1>1, StageAfter
  <2> QED
    BY <2>1
<1>6. Asking(stage, holds, Queued)
  BY DEF BudgetInv
<1>7. Asking(stage', holds, Queued \cup {m})
  BY <1>2, <1>3, <1>5, <1>6, Kinds DEF Asking
<1>8. CASE m \in Item
  <2>1. m \in Holder /\ m \notin holds /\ m \notin Queued
    BY <1>2, <1>6, <1>8, Kinds DEF Asking
  <2>2. Books' /\ reclaim' \in BOOLEAN /\ LetsIn(holds, Queued \cup {m})
    BY <1>1, <1>8, <2>1, ReserveKeeps DEF BudgetInv
  <2> QED
    BY <1>4, <1>7, <2>2, SomeLetIn
<1>9. CASE m \notin Item
  <2>1. UNCHANGED <<budget, holds, grown, cache, reclaim>>
    BY <1>1, <1>9
  <2>2. Asking(stage', holds, Queued)
    BY <1>7 DEF Asking
  <2> QED
    BY <1>4, <2>1, <2>2, NothingAsked
<1> QED
  BY <1>8, <1>9

\* A mutation whose job ends, and gives back its bytes.
LEMMA JobReturns ==
    ASSUME BudgetInv, NEW m \in Mutation, MayWork(m), drain.kind = "push",
           NEW s \in {"queued", "ready"}, Put({m}, s), Release({m} \cap Item),
           UNCHANGED <<cache, reclaim>>, drain' \in Drains, Seats(stage', drain')
    PROVE  BudgetInv'
<1>1. {m} \cap Item \in SUBSET holds
  <2>1. m \in Item => m \notin Bare
    BY Kinds
  <2> QED
    BY <2>1 DEF MayWork
<1>2. Books' /\ LetsIn(holds \ ({m} \cap Item), Queued)
  BY <1>1, ReleaseKeeps DEF BudgetInv
<1>3. reclaim' \in BOOLEAN
  BY Zenon DEF BudgetInv
<1>4. \A w \in Work : stage'[w] = IF w \in {m} THEN s ELSE stage[w]
  BY StageAfter
<1>5. Asking(stage, holds, Queued) /\ m \notin Group
  BY Kinds DEF BudgetInv
<1>6. m \notin Queued \/ m \notin Item
  <2>1. ToSet(budget.queue) \cap holds = {}
    BY DEF BudgetInv, Books, Accounts
  <2> QED
    BY <1>1, <2>1 DEF Queued
<1>7. Asking(stage', holds \ ({m} \cap Item), Queued)
  <2>1. \A i \in Item : i # m => stage'[i] = stage[i]
    BY <1>4, Kinds
  <2>2. \A g \in Group : stage'[g] = stage[g]
    BY <1>4, <1>5, Kinds
  <2> QED
    BY <1>5, <1>6, <2>1, <2>2 DEF Asking
<1> QED
  BY <1>2, <1>3, <1>7, SomeLetIn

LEMMA PushPreparedNext == ASSUME BudgetInv, NEW m \in Mutation, PushPrepared(m) PROVE BudgetInv'
<1>1. drain.kind = "push" /\ MayWork(m) /\ UNCHANGED <<reclaim, drain>> /\ {m} \in SUBSET Mutation
  BY DEF PushPrepared
<1>2. CASE drain.stop
  <2>1. Put({m}, "queued") /\ Release({m} \cap Item) /\ UNCHANGED cache
    BY <1>2 DEF PushPrepared
  <2>2. drain' \in Drains /\ Seats(stage', drain')
    BY <1>1, <2>1, PushMoves
  <2> QED
    BY <1>1, <2>1, <2>2, JobReturns
<1>3. CASE ~drain.stop
  <2>1. /\ Put({m}, "ready") /\ UNCHANGED grown
        /\ IF m \in Cached THEN CachePut(m) ELSE UNCHANGED <<budget, holds, cache>>
    BY <1>3 DEF PushPrepared
  <2>2. drain.closing # TRUE
    BY <1>1, <1>3 DEF BudgetInv, Seats
  <2>3. drain' \in Drains /\ Seats(stage', drain')
    BY <1>1, <2>1, <2>2, PushMoves
  <2>4. \A w \in Work : stage'[w] = IF w \in {m} THEN "ready" ELSE stage[w]
    BY <2>1, StageAfter
  <2>5. Asking(stage', holds, Queued)
    <3>1. Asking(stage, holds, Queued) /\ m \notin Group
      BY Kinds DEF BudgetInv
    <3>2. m \notin Queued \/ m \notin Item
      <4>1. ToSet(budget.queue) \cap holds = {}
        BY DEF BudgetInv, Books, Accounts
      <4>2. m \in Item => m \in holds
        BY <1>1, Kinds DEF MayWork
      <4> QED
        BY <4>1, <4>2 DEF Queued
    <3>3. \A i \in Item : i # m => stage'[i] = stage[i]
      BY <2>4, Kinds
    <3>4. \A g \in Group : stage'[g] = stage[g]
      BY <2>4, <3>1, Kinds
    <3>5. stage'[m] = "ready"
      BY <2>4, Kinds
    <3> QED
      BY <3>1, <3>2, <3>3, <3>4, <3>5 DEF Asking
  <2>6. CASE m \in Cached
    <3>1. Books' /\ LetsIn(holds, Queued)
      BY <2>1, <2>6, CachePutKeeps DEF BudgetInv
    <3>2. reclaim' \in BOOLEAN
      BY Zenon, <1>1 DEF BudgetInv
    <3> QED
      BY <2>3, <2>5, <3>1, <3>2, SomeLetIn
  <2>7. CASE m \notin Cached
    <3>1. UNCHANGED <<budget, holds, grown, cache, reclaim>>
      BY <1>1, <2>1, <2>7
    <3> QED
      BY <2>3, <2>5, <3>1, NothingAsked
  <2> QED
    BY <2>6, <2>7
<1> QED
  BY <1>2, <1>3

LEMMA PushSkipsNext == ASSUME BudgetInv, NEW m \in Mutation, PushSkips(m) PROVE BudgetInv'
<1> DEFINE s == IF drain.stop THEN "queued" ELSE "ready"
<1>1. /\ drain.kind = "push" /\ MayWork(m) /\ UNCHANGED <<cache, reclaim, drain>>
      /\ {m} \in SUBSET Mutation /\ m \in Item /\ Put({m}, s) /\ Release({m})
  BY DEF PushSkips
<1>2. s \in {"queued", "ready"} /\ (s = "ready" => drain.closing # TRUE)
  BY <1>1 DEF BudgetInv, Seats
<1>3. {m} \cap Item = {m}
  BY <1>1
<1> HIDE DEF s
<1>4. drain' \in Drains /\ Seats(stage', drain')
  BY <1>1, <1>2, PushMoves
<1>5. Release({m} \cap Item)
  BY <1>1, <1>3
<1> QED
  BY <1>1, <1>2, <1>4, <1>5, JobReturns

LEMMA PushJobFailsNext == ASSUME BudgetInv, NEW m \in Mutation, PushJobFails(m) PROVE BudgetInv'
<1>1. /\ drain.kind = "push" /\ MayWork(m) /\ UNCHANGED <<cache, reclaim>>
      /\ {m} \in SUBSET Mutation /\ Put({m}, "queued") /\ Release({m} \cap Item)
      /\ drain' = [drain EXCEPT !.stop = TRUE]
  BY DEF PushJobFails
<1>2. Seats(stage', drain)
  BY <1>1, PushSeats
<1>3. drain \in Drains
  BY DEF BudgetInv
<1>4. drain' \in Drains /\ Seats(stage', drain')
  <2> DEFINE st == stage'
  <2>1. Seats(st, drain)
    BY <1>2
  <2> HIDE DEF st
  <2>2. [drain EXCEPT !.stop = TRUE] \in Drains /\ Seats(st, [drain EXCEPT !.stop = TRUE])
    BY <1>3, <2>1, StopSeats
  <2> QED
    BY <1>1, <2>2 DEF st
<1> QED
  BY <1>1, <1>4, JobReturns

LEMMA PushYieldsBatchNext == ASSUME BudgetInv, PushYieldsBatch PROVE BudgetInv'
<1>1. /\ drain.kind = "push" /\ drain.closing # TRUE /\ Put(At("ready"), "batch")
      /\ UNCHANGED <<budget, holds, grown, cache, reclaim, drain>>
  BY DEF PushYieldsBatch, Running
<1>2. At("ready") \in SUBSET Mutation
  BY Kinds DEF BudgetInv, Seats, At
<1>3. drain' \in Drains /\ Seats(stage', drain')
  BY <1>1, <1>2, PushMoves
<1>4. \A w \in Work : stage'[w] = IF w \in At("ready") THEN "batch" ELSE stage[w]
  BY <1>1, StageAfter
<1>5. Asking(stage', holds, Queued)
  <2>1. Asking(stage, holds, Queued)
    BY DEF BudgetInv
  <2>2. \A g \in Group : stage'[g] = stage[g]
    BY <1>2, <1>4, Kinds
  <2>3. \A m \in Item : stage'[m] = IF stage[m] = "ready" THEN "batch" ELSE stage[m]
    BY <1>4, Kinds DEF At
  <2> QED
    BY <2>1, <2>2, <2>3 DEF Asking
<1> QED
  BY <1>1, <1>3, <1>5, NothingAsked

\* The batch is a part of a push that is not closing, and no group.
LEMMA BatchFacts ==
    ASSUME BudgetInv, At("batch") # {}
    PROVE  /\ At("batch") \in SUBSET Mutation /\ At("batch") \cap grown = {}
           /\ drain.kind = "push" /\ drain.closing # TRUE
<1>1. At("batch") \in SUBSET Mutation
  BY Kinds DEF BudgetInv, Seats, At
<1>2. grown \in SUBSET Group
  BY AccountsParts DEF BudgetInv, Books
<1>3. At("batch") \cap grown = {}
  BY <1>1, <1>2, Kinds
<1>4. drain.kind = "push" /\ drain.closing # TRUE
  BY <1>1 DEF BudgetInv, Seats, At
<1> QED
  BY <1>1, <1>3, <1>4

LEMMA BatchEndsKeeps ==
    ASSUME BudgetInv, NEW accepted, NEW over \in SUBSET At("batch"), BatchEnds(accepted, over),
           drain' = drain \/ drain' = [drain EXCEPT !.stop = TRUE]
    PROVE  BudgetInv'
<1>1. /\ stage' = [w \in Work |-> IF w \in over THEN "done"
                                  ELSE IF w \in At("batch") THEN "queued" ELSE stage[w]]
      /\ BatchReturns(accepted) /\ cache' = Dropping(cache, accepted)
      /\ UNCHANGED reclaim /\ At("batch") # {}
  BY DEF BatchEnds
<1>2. /\ At("batch") \in SUBSET Mutation /\ At("batch") \cap grown = {}
      /\ drain.kind = "push" /\ drain.closing # TRUE
  BY <1>1, BatchFacts
<1>4. Books' /\ LetsIn(holds \ At("batch"), Queued)
  BY <1>1, <1>2, BatchReturnsKeeps DEF BudgetInv
<1>5. Seats(stage, drain) /\ Asking(stage, holds, Queued)
  BY DEF BudgetInv
<1>6. \A w \in Work : stage'[w] = IF w \in over THEN "done"
                                  ELSE IF w \in At("batch") THEN "queued" ELSE stage[w]
  BY <1>1
<1>7. stage' \in [Work -> Stage]
  <2>1. \A w \in Work : (IF w \in over THEN "done"
                         ELSE IF w \in At("batch") THEN "queued" ELSE stage[w]) \in Stage
    BY <1>5 DEF Seats, Stage
  <2> QED
    BY <1>1, <2>1
<1>8. \A g \in Group : stage'[g] = stage[g]
  BY <1>2, <1>6, Kinds
<1>9. \A m \in Mutation : /\ stage'[m] \in {"queued", "waiting", "job", "ready", "batch", "done"}
                          /\ m \notin At("batch") => stage'[m] = stage[m]
  BY <1>5, <1>6, Kinds DEF Seats
<1>10. Seats(stage', drain)
  BY <1>2, <1>5, <1>7, <1>8, <1>9 DEF Seats
<1>11. Asking(stage', holds \ At("batch"), Queued)
  <2>1. \A m \in Item : m \in Queued => m \notin At("batch")
    BY <1>5 DEF Asking, At
  <2>2. \A g \in Group : g \notin At("batch")
    BY <1>2, Kinds
  <2> QED
    BY <1>5, <1>8, <1>9, <2>1, <2>2, Kinds DEF Asking
<1>12. drain' \in Drains /\ Seats(stage', drain')
  <2> DEFINE st == stage'
  <2>1. Seats(st, drain) /\ drain \in Drains
    BY <1>10 DEF BudgetInv
  <2> HIDE DEF st
  <2>2. [drain EXCEPT !.stop = TRUE] \in Drains /\ Seats(st, [drain EXCEPT !.stop = TRUE])
    BY <2>1, StopSeats
  <2> QED
    BY <2>1, <2>2 DEF st
<1>13. reclaim' \in BOOLEAN
  BY Zenon, <1>1 DEF BudgetInv
<1> QED
  BY <1>4, <1>11, <1>12, <1>13, SomeLetIn

LEMMA PushCommittedNext == ASSUME BudgetInv, PushCommitted PROVE BudgetInv'
<1>1. Committable \in SUBSET At("batch") /\ BatchEnds(Committable, Committable) /\ drain' = drain
  BY DEF PushCommitted, Committable
<1> QED
  BY <1>1, BatchEndsKeeps

LEMMA PushConflictsNext == ASSUME BudgetInv, PushConflicts PROVE BudgetInv'
<1>1. PICK accepted : BatchEnds(accepted, Committable)
  BY DEF PushConflicts
<1>2. Committable \in SUBSET At("batch") /\ drain' = drain
  BY DEF PushConflicts, Committable
<1> QED
  BY <1>1, <1>2, BatchEndsKeeps

LEMMA PushRefusedNext == ASSUME BudgetInv, PushRefused PROVE BudgetInv'
<1>1. PICK accepted \in SUBSET Committable : BatchEnds(accepted, accepted) \/ BatchEnds(accepted, {})
  BY DEF PushRefused
<1>2. accepted \in SUBSET At("batch") /\ drain' = [drain EXCEPT !.stop = TRUE]
  BY DEF PushRefused, Committable
<1>3. CASE BatchEnds(accepted, accepted)
  BY <1>2, <1>3, BatchEndsKeeps
<1>4. CASE BatchEnds(accepted, {})
  BY <1>2, <1>4, BatchEndsKeeps
<1> QED
  BY <1>1, <1>3, <1>4

LEMMA PushClosesNext == ASSUME BudgetInv, PushCloses PROVE BudgetInv'
<1> DEFINE S == At("waiting") \cup At("ready")
<1>1. /\ drain.kind = "push" /\ At("batch") = {} /\ UNCHANGED <<cache, reclaim>>
      /\ drain' = [drain EXCEPT !.stop = TRUE, !.closing = TRUE]
      /\ Put(S, "queued") /\ Release(At("ready") \cap holds)
  BY DEF PushCloses, Running
<1>2. S \in SUBSET Mutation
  BY Kinds DEF BudgetInv, Seats, At
<1>3. \A w \in Work : w \in S <=> stage[w] \in {"waiting", "ready"}
  BY DEF At
<1> HIDE DEF S
<1>4. drain' \in Drains /\ drain'.kind = drain.kind /\ drain'.closing = TRUE /\ drain'.stop = TRUE
  BY <1>1, DrainMoves DEF BudgetInv
<1>5. Seats(stage', drain)
  BY <1>1, <1>2, PushSeats
<1>6. \A w \in Work : stage'[w] = IF w \in S THEN "queued" ELSE stage[w]
  BY <1>1, StageAfter
<1>7. \A m \in Mutation : stage'[m] \notin {"waiting", "ready", "batch"}
  <2>1. \A m \in Mutation : stage[m] # "batch"
    BY <1>1, Kinds DEF At
  <2> QED
    BY <1>3, <1>6, <2>1, Kinds
<1>8. Seats(stage', drain')
  BY <1>1, <1>4, <1>5, <1>7 DEF Seats
<1>9. Books' /\ LetsIn(holds \ (At("ready") \cap holds), Queued)
  BY <1>1, ReleaseKeeps DEF BudgetInv
<1>10. Asking(stage', holds \ (At("ready") \cap holds), Queued)
  <2>1. Asking(stage, holds, Queued)
    BY DEF BudgetInv
  <2>2. \A g \in Group : g \notin S
    BY <1>2, Kinds
  <2>3. \A m \in Item : m \in Queued => m \notin S
    BY <1>3, <2>1, Kinds DEF Asking
  <2>4. \A m \in Item : m \in holds => m \notin S \/ m \in At("ready")
    BY <1>3, <2>1, Kinds DEF Asking, At
  <2>5. \A g \in Group : g \notin At("ready")
    BY <1>3, <2>2, Kinds DEF At
  <2> QED
    BY <1>6, <2>1, <2>2, <2>3, <2>4, <2>5, Kinds DEF Asking
<1>11. reclaim' \in BOOLEAN
  BY Zenon, <1>1 DEF BudgetInv
<1> QED
  BY <1>4, <1>8, <1>9, <1>10, <1>11, SomeLetIn

LEMMA PushEndsNext == ASSUME BudgetInv, PushEnds PROVE BudgetInv'
<1>1. /\ drain.kind = "push" /\ drain.closing = TRUE /\ Job = {} /\ drain' = NoDrain
      /\ UNCHANGED <<budget, holds, grown, cache, reclaim, stage>>
  BY DEF PushEnds, BudgetInv, Drains
<1>2. drain' \in Drains /\ drain'.kind = "none"
  BY <1>1, NoDrainMoves
<1>3. \A m \in Mutation : stage[m] # "job"
  BY <1>1, Kinds DEF Job, At
<1>4. Seats(stage', drain')
  BY <1>1, <1>2, <1>3 DEF BudgetInv, Seats
<1>5. Asking(stage', holds, Queued)
  BY <1>1 DEF BudgetInv
<1> QED
  BY <1>1, <1>2, <1>4, <1>5, NothingAsked

-----------------------------------------------------------------------------
(* A pull. *)

LEMMA PullSeats ==
    ASSUME BudgetInv, drain.kind = "pull", NEW d, d.kind = "pull", NEW g \in Group,
           NEW s \in {"queued", "job", "prepared", "null", "done", "gone"}, Put({g}, s)
    PROVE  /\ Seats(stage', d)
           /\ \A w \in Work : stage'[w] = IF w = g THEN s ELSE stage[w]
<1>1. stage \in [Work -> Stage] /\ s \in Stage /\ Seats(stage, drain)
  BY DEF BudgetInv, Seats, Stage
<1>2. stage' \in [Work -> Stage] /\ \A w \in Work : stage'[w] = IF w \in {g} THEN s ELSE stage[w]
  BY <1>1, PutMoves
<1>3. \A w \in Work : stage'[w] = IF w = g THEN s ELSE stage[w]
  BY <1>2
<1>4. \A m \in Mutation : m \in Work /\ m # g
  BY Kinds
<1>5. \A m \in Mutation : stage'[m] \in {"queued", "done"}
  BY <1>1, <1>3, <1>4 DEF Seats
<1>6. \A k \in Group : stage'[k] \in {"queued", "job", "prepared", "null", "done", "gone"}
  BY <1>1, <1>3, Kinds DEF Seats
<1> QED
  BY <1>2, <1>3, <1>5, <1>6 DEF Seats

\* A group of a pull that no longer waits ends with what it holds given back.
LEMMA GroupReturns ==
    ASSUME BudgetInv, drain.kind = "pull", NEW g \in Group, g \notin Queued,
           NEW s \in {"null", "done", "gone"}, Put({g}, s), Release({g} \cap holds),
           UNCHANGED <<cache, reclaim>>, drain' \in Drains, drain'.kind = "pull"
    PROVE  BudgetInv'
<1>1. {g} \cap holds \in SUBSET holds
  OBVIOUS
<1>2. Books' /\ LetsIn(holds \ ({g} \cap holds), Queued)
  BY <1>1, ReleaseKeeps DEF BudgetInv
<1>3. reclaim' \in BOOLEAN
  BY Zenon DEF BudgetInv
<1>4. Seats(stage', drain') /\ \A w \in Work : stage'[w] = IF w = g THEN s ELSE stage[w]
  <2>1. s \in {"queued", "job", "prepared", "null", "done", "gone"}
    OBVIOUS
  <2>2. \A d : d.kind = "pull" => /\ Seats(stage', d)
                                  /\ \A w \in Work : stage'[w] = IF w = g THEN s ELSE stage[w]
    BY <2>1, PullSeats
  <2> QED
    BY <2>2
<1>5. Asking(stage, holds, Queued)
  BY DEF BudgetInv
<1>6. \A m \in Item : stage'[m] = stage[m]
  BY <1>4, Kinds
<1>7. \A k \in Group : stage'[k] = IF k = g THEN s ELSE stage[k]
  BY <1>4, Kinds
<1>8. Asking(stage', holds \ ({g} \cap holds), Queued)
  BY <1>5, <1>6, <1>7 DEF Asking
<1> QED
  BY <1>2, <1>3, <1>4, <1>8, SomeLetIn

\* Whoever holds bytes does not wait for them.
LEMMA HoldersDoNotWait == ASSUME BudgetInv, NEW h \in holds PROVE h \notin Queued
  BY DEF BudgetInv, Books, Accounts, Queued

\* The job of a group works only on bytes it holds.
LEMMA WorkingGroupHolds ==
    ASSUME BudgetInv, NEW g \in Group, MayWork(g)
    PROVE  stage[g] = "job" /\ g \in holds /\ g \notin Queued /\ {g} \cap holds = {g}
<1>1. g \notin Bare
  BY ContentBudgetAssumption
<1>2. stage[g] = "job" /\ g \in holds
  BY <1>1 DEF MayWork
<1> QED
  BY <1>2, HoldersDoNotWait

\* The drain of a pull keeps its kind when its head changes or it stops.
LEMMA PullDrains ==
    ASSUME BudgetInv, drain.kind = "pull", NEW g \in Group \cup {NoGroup}
    PROVE  /\ [drain EXCEPT !.head = g] \in Drains /\ [drain EXCEPT !.head = g].kind = "pull"
           /\ [drain EXCEPT !.stop = TRUE] \in Drains /\ [drain EXCEPT !.stop = TRUE].kind = "pull"
           /\ [drain EXCEPT !.stop = TRUE, !.closing = TRUE, !.head = g] \in Drains
           /\ [drain EXCEPT !.stop = TRUE, !.closing = TRUE, !.head = g].kind = "pull"
<1>1. drain \in Drains
  BY DEF BudgetInv
<1> QED
  BY <1>1, DrainMoves

LEMMA PullStartNext == ASSUME BudgetInv, PullStart PROVE BudgetInv'
<1>1. /\ drain.kind = "none" /\ drain' = [NoDrain EXCEPT !.kind = "pull"] /\ Put(Group, "queued")
      /\ UNCHANGED <<budget, holds, grown, cache, reclaim>>
  BY DEF PullStart
<1>2. drain' \in Drains /\ drain'.kind = "pull"
  BY <1>1, NoDrainMoves
<1>3. stage \in [Work -> Stage] /\ "queued" \in Stage /\ Seats(stage, drain) /\ Asking(stage, holds, Queued)
  BY DEF BudgetInv, Seats, Stage
<1>4. /\ stage' \in [Work -> Stage]
      /\ \A w \in Work : stage'[w] = IF w \in Group THEN "queued" ELSE stage[w]
  BY <1>1, <1>3, PutMoves
<1>5. \A m \in Mutation : stage'[m] = stage[m]
  BY <1>4, Kinds
<1>6. \A g \in Group : stage'[g] = "queued"
  BY <1>4, Kinds
<1>7. Seats(stage', drain')
  BY <1>1, <1>2, <1>3, <1>4, <1>5, <1>6 DEF Seats
<1>8. \A g \in Group : g \notin Queued /\ g \notin holds
  BY <1>1, <1>3 DEF Seats, Asking
<1>9. Asking(stage', holds, Queued)
  BY <1>3, <1>5, <1>6, <1>8, Kinds DEF Asking
<1> QED
  BY <1>1, <1>2, <1>7, <1>9, NothingAsked

LEMMA PullFillNext == ASSUME BudgetInv, PullFill PROVE BudgetInv'
<1> DEFINE g == Min(Group \cap At("queued"))
<1>1. /\ drain.kind = "pull" /\ UNCHANGED <<grown, cache, drain>>
      /\ Put({g}, "job") /\ Reserve(g) /\ Group \cap At("queued") # {}
  BY DEF PullFill, Running
<1>2. g \in Group /\ stage[g] = "queued"
  <2>1. Group \cap At("queued") \in SUBSET Work
    BY DEF At
  <2>2. g \in Group \cap At("queued")
    BY <1>1, <2>1, MinIsIn
  <2> QED
    BY <2>2 DEF At
<1> HIDE DEF g
<1>3. drain' \in Drains /\ drain'.kind = "pull"
  BY <1>1 DEF BudgetInv
<1>4. Seats(stage', drain') /\ \A w \in Work : stage'[w] = IF w = g THEN "job" ELSE stage[w]
  BY <1>1, <1>2, <1>3, PullSeats
<1>5. Asking(stage, holds, Queued)
  BY DEF BudgetInv
<1>6. Asking(stage', holds, Queued \cup {g})
  <2>1. \A m \in Item : stage'[m] = stage[m] /\ m # g
    BY <1>2, <1>4, Kinds
  <2>2. \A k \in Group : stage'[k] = IF k = g THEN "job" ELSE stage[k]
    BY <1>4, Kinds
  <2> QED
    BY <1>5, <2>1, <2>2 DEF Asking
<1>7. g \in Holder /\ g \notin holds /\ g \notin Queued
  BY <1>2, <1>5, Kinds DEF Asking
<1>8. Books' /\ reclaim' \in BOOLEAN /\ LetsIn(holds, Queued \cup {g})
  BY <1>1, <1>7, ReserveKeeps DEF BudgetInv
<1> QED
  BY <1>3, <1>4, <1>6, <1>8, SomeLetIn

LEMMA PullTakesHeadNext == ASSUME BudgetInv, PullTakesHead PROVE BudgetInv'
<1> DEFINE g == Min(PendingGroups)
<1>1. /\ drain.kind = "pull" /\ PendingGroups # {} /\ drain' = [drain EXCEPT !.head = g]
      /\ UNCHANGED <<budget, holds, grown, cache, reclaim, stage>>
  BY DEF PullTakesHead, Running
<1>2. g \in Group
  <2>1. PendingGroups \in SUBSET Work /\ PendingGroups \in SUBSET Group
    BY Kinds DEF PendingGroups
  <2> QED
    BY <1>1, <2>1, MinIsIn
<1> HIDE DEF g
<1>3. drain' \in Drains /\ drain'.kind = "pull"
  BY <1>1, <1>2, PullDrains
<1>4. Seats(stage', drain') /\ Asking(stage', holds, Queued)
  BY <1>1, <1>3 DEF BudgetInv, Seats
<1> QED
  BY <1>1, <1>3, <1>4, NothingAsked

LEMMA PullRetainsNext == ASSUME BudgetInv, NEW g \in Group, PullRetains(g) PROVE BudgetInv'
<1>1. /\ MayWork(g) /\ g \notin grown /\ grown' = grown \cup {g}
      /\ DrainBudget([budget EXCEPT !.bytes = @ + GrownTo(g) - SizeOf(g)], holds)
      /\ UNCHANGED <<cache, reclaim, drain, stage>>
  BY DEF PullRetains
<1>2. g \in holds
  BY <1>1, WorkingGroupHolds
<1>3. Books' /\ LetsIn(holds, Queued)
  BY <1>1, <1>2, RetainKeeps DEF BudgetInv
<1>4. reclaim' \in BOOLEAN
  BY Zenon, <1>1 DEF BudgetInv
<1>5. drain' \in Drains /\ Seats(stage', drain') /\ Asking(stage', holds, Queued)
  BY <1>1 DEF BudgetInv
<1> QED
  BY <1>3, <1>4, <1>5, SomeLetIn

LEMMA PullPreparedNext == ASSUME BudgetInv, NEW g \in Group, PullPrepared(g) PROVE BudgetInv'
<1>1. drain.kind = "pull" /\ MayWork(g) /\ UNCHANGED <<cache, reclaim, drain>>
  BY DEF PullPrepared
<1>2. stage[g] = "job" /\ g \in holds /\ g \notin Queued /\ {g} \cap holds = {g}
  BY <1>1, WorkingGroupHolds
<1>3. drain' \in Drains /\ drain'.kind = "pull"
  BY <1>1 DEF BudgetInv
<1>4. CASE Put({g}, "prepared") /\ UNCHANGED <<budget, holds, grown>>
  <2>1. Seats(stage', drain') /\ \A w \in Work : stage'[w] = IF w = g THEN "prepared" ELSE stage[w]
    BY <1>1, <1>3, <1>4, PullSeats
  <2>2. Asking(stage, holds, Queued)
    BY DEF BudgetInv
  <2>3. Asking(stage', holds, Queued)
    <3>1. \A m \in Item : stage'[m] = stage[m]
      BY <2>1, Kinds
    <3>2. \A k \in Group : stage'[k] = IF k = g THEN "prepared" ELSE stage[k]
      BY <2>1, Kinds
    <3> QED
      BY <1>2, <2>2, <3>1, <3>2 DEF Asking
  <2> QED
    BY <1>1, <1>3, <1>4, <2>1, <2>3, NothingAsked
<1>5. CASE Put({g}, "null") /\ Release({g})
  <2>1. Release({g} \cap holds)
    BY <1>2, <1>5
  <2> QED
    BY <1>1, <1>2, <1>3, <1>5, <2>1, GroupReturns
<1> QED
  BY <1>4, <1>5 DEF PullPrepared

LEMMA PullJobFailsNext == ASSUME BudgetInv, NEW g \in Group, PullJobFails(g) PROVE BudgetInv'
<1>1. /\ drain.kind = "pull" /\ MayWork(g) /\ Put({g}, "null") /\ Release({g})
      /\ drain' = [drain EXCEPT !.stop = TRUE] /\ UNCHANGED <<cache, reclaim>>
  BY DEF PullJobFails
<1>2. g \notin Queued /\ {g} \cap holds = {g}
  BY <1>1, WorkingGroupHolds
<1>3. drain' \in Drains /\ drain'.kind = "pull"
  BY <1>1, PullDrains
<1>4. Release({g} \cap holds)
  BY <1>1, <1>2
<1> QED
  BY <1>1, <1>2, <1>3, <1>4, GroupReturns

\* What is prepared holds its bytes until it is applied or dropped.
LEMMA PreparedHolds ==
    ASSUME BudgetInv, NEW g \in Group, stage[g] = "prepared"
    PROVE  g \in holds /\ g \notin Queued /\ {g} \cap holds = {g}
<1>1. g \in holds
  BY DEF BudgetInv, Asking
<1> QED
  BY <1>1, HoldersDoNotWait

LEMMA PullAppliedNext == ASSUME BudgetInv, PullApplied PROVE BudgetInv'
<1> DEFINE g == drain.head
<1>1. /\ drain.kind = "pull" /\ g # NoGroup /\ stage[g] = "prepared" /\ Put({g}, "done")
      /\ Release({g}) /\ drain' = [drain EXCEPT !.head = NoGroup] /\ UNCHANGED <<cache, reclaim>>
  BY DEF PullApplied, Running
<1>2. g \in Group
  BY <1>1 DEF BudgetInv, Drains
<1> HIDE DEF g
<1>3. g \notin Queued /\ {g} \cap holds = {g}
  BY <1>1, <1>2, PreparedHolds
<1>4. drain' \in Drains /\ drain'.kind = "pull"
  <2>1. NoGroup \in Group \cup {NoGroup}
    OBVIOUS
  <2> QED
    BY <1>1, <2>1, PullDrains
<1>5. Release({g} \cap holds)
  BY <1>1, <1>3
<1> QED
  BY <1>1, <1>2, <1>3, <1>4, <1>5, GroupReturns

LEMMA PullClosesNext == ASSUME BudgetInv, PullCloses PROVE BudgetInv'
<1> DEFINE g == drain.head
<1>1. /\ drain.kind = "pull" /\ g # NoGroup /\ UNCHANGED <<cache, reclaim>> /\ Put({g}, "gone")
      /\ drain' = [drain EXCEPT !.stop = TRUE, !.closing = TRUE, !.head = NoGroup]
      /\ \/ stage[g] = "null" /\ UNCHANGED <<budget, holds, grown>>
         \/ stage[g] = "prepared" /\ Release({g})
  BY DEF PullCloses, Running
<1>2. g \in Group
  BY <1>1 DEF BudgetInv, Drains
<1> HIDE DEF g
<1>3. drain' \in Drains /\ drain'.kind = "pull"
  <2>1. NoGroup \in Group \cup {NoGroup}
    OBVIOUS
  <2> QED
    BY <1>1, <2>1, PullDrains
<1>4. CASE stage[g] = "prepared" /\ Release({g})
  <2>1. g \notin Queued /\ {g} \cap holds = {g}
    BY <1>2, <1>4, PreparedHolds
  <2>2. Release({g} \cap holds)
    BY <1>4, <2>1
  <2> QED
    BY <1>1, <1>2, <1>3, <2>1, <2>2, GroupReturns
<1>5. CASE stage[g] = "null" /\ UNCHANGED <<budget, holds, grown>>
  <2>1. Seats(stage', drain') /\ \A w \in Work : stage'[w] = IF w = g THEN "gone" ELSE stage[w]
    BY <1>1, <1>2, <1>3, PullSeats
  <2>2. Asking(stage, holds, Queued)
    BY DEF BudgetInv
  <2>3. Asking(stage', holds, Queued)
    <3>1. \A m \in Item : stage'[m] = stage[m]
      BY <1>2, <2>1, Kinds
    <3>2. \A k \in Group : stage'[k] = IF k = g THEN "gone" ELSE stage[k]
      BY <2>1, Kinds
    <3> QED
      BY <1>5, <2>2, <3>1, <3>2 DEF Asking
  <2> QED
    BY <1>1, <1>3, <1>5, <2>1, <2>3, NothingAsked
<1> QED
  BY <1>1, <1>4, <1>5

LEMMA PullSettlesNext == ASSUME BudgetInv, NEW g \in Group, PullSettles(g) PROVE BudgetInv'
<1>1. /\ drain.kind = "pull" /\ stage[g] \in {"prepared", "null"} /\ Put({g}, "gone")
      /\ Release({g} \cap holds) /\ UNCHANGED <<cache, reclaim, drain>>
  BY DEF PullSettles
<1>2. drain' \in Drains /\ drain'.kind = "pull"
  BY <1>1 DEF BudgetInv
<1>3. g \notin Queued
  BY <1>1 DEF BudgetInv, Asking
<1> QED
  BY <1>1, <1>2, <1>3, GroupReturns

LEMMA PullEndsNext == ASSUME BudgetInv, PullEnds PROVE BudgetInv'
<1>1. /\ drain.kind = "pull" /\ drain.head = NoGroup /\ PendingGroups = {} /\ drain' = NoDrain
      /\ UNCHANGED <<budget, holds, grown, cache, reclaim, stage>>
  BY DEF PullEnds
<1>2. drain' \in Drains /\ drain'.kind = "none"
  BY <1>1, NoDrainMoves
<1>3. \A g \in Group : stage[g] \notin {"job", "prepared"}
  BY <1>1, Kinds DEF PendingGroups
<1>4. Seats(stage', drain') /\ Asking(stage', holds, Queued)
  BY <1>1, <1>2, <1>3 DEF BudgetInv, Seats
<1> QED
  BY <1>1, <1>2, <1>4, NothingAsked

-----------------------------------------------------------------------------
(* The theorems of the byte budget. *)

LEMMA BudgetInvInit == BudgetInit => BudgetInv
<1> SUFFICES ASSUME BudgetInit PROVE BudgetInv
  OBVIOUS
<1>1. /\ budget = [bytes |-> 0, active |-> 0, queue |-> <<>>]
      /\ holds = {} /\ grown = {} /\ cache = <<>> /\ drain = NoDrain
      /\ stage = [w \in Work |-> "queued"]
  BY DEF BudgetInit
<1>2. reclaim \in BOOLEAN
  BY Zenon DEF BudgetInit
<1>3. Ordered(<<>>, Holder) /\ Ordered(<<>>, Cached) /\ ToSet(<<>>) = {}
  BY OrderedEmpty
<1>4. Books
  <2>1. Asked({}) = 0 /\ Cardinality({}) = 0 /\ Sum(Needs({}), {}) = 0 /\ MaxBytes \in Nat
    <3>1. Asked({}) = 0
      BY AskedType
    <3>2. Sum(Needs({}), {}) = 0
      <4>1. {} \in SUBSET Holder
        OBVIOUS
      <4> QED
        BY <3>1, <4>1, AskedIsSum
    <3> QED
      BY <3>1, <3>2, FS_EmptySet, ContentBudgetAssumption
  <2>2. <<>> \in Seq(Holder)
    OBVIOUS
  <2>3. budget \in [bytes : Nat, active : Nat, queue : Seq(Holder)]
    BY <1>1, <2>2
  <2>4. budget.bytes = 0 /\ budget.active = 0 /\ budget.queue = <<>>
    BY <1>1
  <2>5. Accounts(budget, {}, {}, {})
    <3>1. 0 + 0 = 0 /\ 0 <= MaxBytes
      BY <2>1
    <3>2. /\ budget.bytes = Sum(Needs({}), {}) + Asked({})
          /\ budget.active = Cardinality({}) + Cardinality({})
          /\ Asked({}) + Asked({}) <= MaxBytes
      BY <2>1, <2>4, <3>1
    <3>3. Ordered(budget.queue, Holder) /\ ToSet(budget.queue) \cap {} = {}
      BY <1>3, <2>4
    <3> QED
      BY <2>3, <3>2, <3>3 DEF Accounts
  <2> QED
    BY <1>1, <1>3, <2>5 DEF Books
<1>5. Seats(stage, drain)
  BY <1>1, NoDrainMoves, Kinds DEF Seats, Stage
<1>6. \A w \in Work : stage[w] = "queued"
  BY <1>1
<1>7. Queued = {} /\ holds = {}
  BY <1>1, <1>3 DEF Queued
<1>8. Asking(stage, holds, Queued)
  BY <1>6, <1>7, Kinds DEF Asking
<1> QED
  BY <1>1, <1>2, <1>4, <1>5, <1>8, NoDrainMoves DEF BudgetInv

LEMMA BudgetInvNext == ASSUME BudgetInv, [BudgetNext]_budgetVars PROVE BudgetInv'
<1>1. CASE Reclaim
  BY <1>1, ReclaimNext
<1>2. CASE PushStart \/ PushYields \/ PushConflicts \/ PushRefused
  BY <1>2, PushStartNext, PushYieldsNext, PushConflictsNext, PushRefusedNext
<1>3. CASE PushStep
  BY <1>3, PushLoadNext, PushPumpNext, PushYieldsBatchNext, PushCommittedNext, PushClosesNext,
     PushEndsNext, PushPreparedNext DEF PushStep
<1>4. CASE PullStart
  BY <1>4, PullStartNext
<1>5. CASE PullStep
  BY <1>5, PullFillNext, PullTakesHeadNext, PullAppliedNext, PullClosesNext, PullEndsNext,
     PullPreparedNext, PullSettlesNext DEF PullStep
<1>6. CASE \E r \in Read : ReadAsks(r) \/ ReadEnds(r)
  BY <1>6, ReadAsksNext, ReadEndsNext
<1>7. CASE \E m \in Mutation : PushSkips(m) \/ PushJobFails(m)
  BY <1>7, PushSkipsNext, PushJobFailsNext
<1>8. CASE \E g \in Group : PullRetains(g) \/ PullJobFails(g)
  BY <1>8, PullRetainsNext, PullJobFailsNext
<1>9. CASE UNCHANGED budgetVars
  <2>1. UNCHANGED <<budget, holds, grown, cache, reclaim>> /\ drain' = drain /\ stage' = stage
    BY <1>9 DEF budgetVars
  <2>2. drain' \in Drains /\ Seats(stage', drain') /\ Asking(stage', holds, Queued)
    BY <2>1 DEF BudgetInv
  <2> QED
    BY <2>1, <2>2, NothingAsked
<1> QED
  BY <1>1, <1>2, <1>3, <1>4, <1>5, <1>6, <1>7, <1>8, <1>9 DEF BudgetNext

LEMMA BudgetInvariance == BudgetInit /\ [][BudgetNext]_budgetVars => []BudgetInv
  BY BudgetInvInit, BudgetInvNext, PTL

LEMMA BudgetTypeHolds == BudgetInv => BudgetTypeOK
<1> SUFFICES ASSUME BudgetInv PROVE BudgetTypeOK
  OBVIOUS
<1>1. /\ budget \in [bytes : Nat, active : Nat, queue : Seq(Holder)]
      /\ holds \subseteq Holder /\ grown \subseteq Group
  BY DEF BudgetInv, Books, Accounts
<1>2. cache \in Seq(Cached)
  BY DEF BudgetInv, Books, Ordered
<1>3. reclaim \in BOOLEAN
  BY Zenon DEF BudgetInv
<1>4. stage \in [Work -> Stage] /\ drain \in Drains
  BY DEF BudgetInv, Seats
<1> QED
  BY <1>1, <1>2, <1>3, <1>4 DEF BudgetTypeOK, Drains

LEMMA AccountsHold == BudgetInv => NoBytesLeak
<1> SUFFICES ASSUME BudgetInv PROVE NoBytesLeak
  OBVIOUS
<1>1. /\ budget.bytes = Sum(Needs(grown), holds) + Asked(ToSet(cache))
      /\ budget.active = Cardinality(holds) + Cardinality(ToSet(cache))
      /\ ToSet(budget.queue) \cap holds = {}
      /\ grown \in SUBSET Group /\ holds \in SUBSET Holder
  BY DEF BudgetInv, Books, Accounts
<1>2. Total(holds) = Sum(Needs(grown), holds)
  BY <1>1, TotalIsSum
<1>3. Cardinality(ToSet(cache)) = Len(cache)
  <2>1. Ordered(cache, Cached)
    BY DEF BudgetInv, Books
  <2> QED
    BY <2>1, OrderedCount
<1>4. ASSUME drain.kind = "none" PROVE holds \subseteq Read
  <2>1. \A m \in Item : m \notin holds
    BY <1>4, Kinds DEF BudgetInv, Seats, Asking
  <2>2. \A g \in Group : g \notin holds
    BY <1>4 DEF BudgetInv, Seats, Asking
  <2> QED
    BY <1>1, <2>1, <2>2, Kinds
<1> QED
  BY <1>1, <1>2, <1>3, <1>4 DEF NoBytesLeak

LEMMA AdmittedFitBudget == BudgetInv => AdmittedFits
  BY DEF BudgetInv, Books, Accounts, AdmittedFits

(* The budget, the drain and the places of mutations and groups are always   *)
(* ones they can be in.                                                      *)
THEOREM BudgetTypeCorrect == BudgetSpec => []BudgetTypeOK
  BY BudgetTypeHolds, BudgetInvariance, PTL DEF BudgetSpec

(* For any sizes, bounds and order of events the bytes that the budget       *)
(* counts are those really held: what reserve and retain charge comes back   *)
(* once, by whatever way a job, a batch, a group or a read ends              *)
(* (ContentReservation of content-runtime.ts).                               *)
THEOREM NothingLeaks == BudgetSpec => []NoBytesLeak
  BY AccountsHold, BudgetInvariance, PTL DEF BudgetSpec

(* What was admitted never asked for more than the budget, but for one       *)
(* reservation that is larger than it and alone (BytesInFlightBudget).       *)
THEOREM BudgetSuffices == BudgetSpec => []AdmittedFits
  BY AdmittedFitBudget, BudgetInvariance, PTL DEF BudgetSpec

-----------------------------------------------------------------------------
(* All that carries contents and messages, taken together: each part keeps   *)
(* to its own specification.                                                 *)

LEMMA BudgetApart == Init /\ [][Next]_vars => BudgetInit /\ [][BudgetNext]_budgetVars
<1>1. Init => BudgetInit
  BY DEF Init
<1>2. [Next]_vars => [BudgetNext]_budgetVars
  BY DEF Next, vars
<1> QED
  BY <1>1, <1>2, PTL

LEMMA HashApart == Init /\ [][Next]_vars => HashInit /\ [][HashNext]_hashVars
<1>1. Init => HashInit
  BY DEF Init
<1>2. [Next]_vars => [HashNext]_hashVars
  BY DEF Next, vars
<1> QED
  BY <1>1, <1>2, PTL

LEMMA TransferApart == Init /\ [][Next]_vars => TransferInit /\ [][TransferNext]_transferVars
<1>1. Init => TransferInit
  BY DEF Init
<1>2. [Next]_vars => [TransferNext]_transferVars
  BY DEF Next, vars
<1> QED
  BY <1>1, <1>2, PTL

LEMMA SocketApart == Init /\ [][Next]_vars => SocketInit /\ [][SocketNext]_socketVars
<1>1. Init => SocketInit
  BY DEF Init
<1>2. [Next]_vars => [SocketNext]_socketVars
  BY DEF Next, vars
<1> QED
  BY <1>1, <1>2, PTL

(* Every part is always in one of its states, in whatever run of them.       *)
THEOREM TransportTypeCorrect == Spec => []TypesOK
<1>1. BudgetInv => BudgetTypeOK
  BY BudgetTypeHolds
<1>2. HashInv => HashTypeOK
  BY DEF HashInv
<1>3. TransferInv => TransferTypeOK
  BY DEF TransferInv, TransferTypeOK, Parts, Sound, Policy, JobState, LaneState
<1>4. SocketTypeOK /\ [SocketNext]_socketVars => SocketTypeOK'
  BY SocketStepOfNext, SocketTypeNext
<1>5. SocketInit /\ [][SocketNext]_socketVars => []SocketTypeOK
  BY <1>4, SocketTypeInit, PTL
<1>6. BudgetTypeOK /\ HashTypeOK /\ TransferTypeOK /\ SocketTypeOK => TypesOK
  BY DEF TypesOK
<1> QED
  BY <1>1, <1>2, <1>3, <1>5, <1>6, BudgetApart, HashApart, TransferApart, SocketApart,
     BudgetInvariance, HashInvariance, TransferInvariance, PTL DEF Spec

(* No job waits beside an idle worker and no transfer beside free room in    *)
(* its lane: both pumps run after every way a job or a transfer ends.        *)
THEOREM NoSlotIdles == Spec => []NoIdleSlot
<1>1. HashInv => NoIdleWorker
  BY DEF HashInv
<1>2. TransferInv => NoIdleLane
  BY DEF TransferInv, LaneFull, NoIdleLane
<1>3. NoIdleWorker /\ NoIdleLane => NoIdleSlot
  BY DEF NoIdleSlot
<1> QED
  BY <1>1, <1>2, <1>3, HashApart, TransferApart, HashInvariance, TransferInvariance, PTL DEF Spec

(* What the runs check of the composition as a whole.                        *)
THEOREM TransportKeepsAccounts == Spec => [](NoBytesLeak /\ AdmittedFits /\ OwnDigest)
<1>1. BudgetInv => NoBytesLeak /\ AdmittedFits
  BY AccountsHold, AdmittedFitBudget
<1>2. HashInv => OwnDigest
  BY DEF HashInv
<1> QED
  BY <1>1, <1>2, BudgetApart, HashApart, BudgetInvariance, HashInvariance, PTL DEF Spec

=============================================================================
