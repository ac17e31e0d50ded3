-------------------------- MODULE PullApply_proofs --------------------------
(***************************************************************************)
(* Proofs about the pull of several entries.                               *)
(***************************************************************************)
EXTENDS PullApply, FiniteSetTheorems, SequenceTheorems, NaturalsInduction, WellFoundedInduction, TLAPS

LEMMA LeastIndex ==
    ASSUME NEW S \in SUBSET Nat, S # {}
    PROVE  \E m \in S : \A k \in S : m <= k
<1>1. PICK m \in S : \A k \in S : ~(<<k, m>> \in OpToRel(<, Nat))
  BY WFMin, NatLessThanWellFounded
<1>2. \A k \in S : ~(k < m)
  BY <1>1 DEF OpToRel
<1> QED
  BY <1>2

-----------------------------------------------------------------------------
(* The members of a sequence. *)

Keeps(f, s, S, n) ==
    f = [i \in 0..n |-> IF i = 0 THEN << >>
                        ELSE IF s[i] \in S THEN Append(f[i - 1], s[i]) ELSE f[i - 1]]

LEMMA KeepsExists ==
    ASSUME NEW s, NEW S, NEW n \in Nat
    PROVE  \E f : Keeps(f, s, S, n)
<1> DEFINE Bad == {k \in 0..n : ~\E f : Keeps(f, s, S, k)}
<1> SUFFICES ASSUME Bad # {} PROVE FALSE
  OBVIOUS
<1>1. PICK m \in Bad : \A k \in Bad : m <= k
  <2>1. Bad \in SUBSET Nat
    OBVIOUS
  <2> HIDE DEF Bad
  <2> QED
    BY <2>1, LeastIndex
<1>2. CASE m = 0
  <2> DEFINE g == [i \in 0..0 |-> << >>]
  <2>1. Keeps(g, s, S, 0)
    BY DEF Keeps
  <2> QED
    BY <1>2, <2>1
<1>3. CASE m # 0
  <2>1. m \in Nat /\ m - 1 \in 0..n /\ ~(m <= m - 1)
    BY <1>3
  <2>2. PICK f : Keeps(f, s, S, m - 1)
    BY <1>1, <2>1
  <2> DEFINE next(x, i) == IF s[i] \in S THEN Append(x, s[i]) ELSE x
             v == next(f[m - 1], m)
             g == [i \in 0..m |-> IF i = m THEN v ELSE f[i]]
  <2>3. 0..m = 0..(m - 1) \cup {m} /\ \A i \in 0..(m - 1) : i # m
    BY <2>1
  <2>4. \A i \in 0..(m - 1) : g[i] = f[i]
    BY <2>3
  <2>5. \A i \in 0..(m - 1) : i # 0 => i - 1 \in 0..(m - 1)
    BY <2>1
  <2>6. \A i \in 0..(m - 1) : f[i] = IF i = 0 THEN << >> ELSE next(f[i - 1], i)
    BY <2>2 DEF Keeps
  <2>7. g[m] = v /\ g[m - 1] = f[m - 1] /\ m # 0
    BY <1>3, <2>1, <2>4
  <2>8. g = [i \in 0..m |-> g[i]]
    OBVIOUS
  <2> HIDE DEF g, v, next
  <2>9. ASSUME NEW i \in 0..m
        PROVE  g[i] = IF i = 0 THEN << >> ELSE next(g[i - 1], i)
    <3>1. CASE i = m
      <4>1. g[m] = next(g[m - 1], m)
        BY <2>7 DEF v
      <4> QED
        BY <3>1, <4>1, <2>7
    <3>2. CASE i # m
      BY <2>3, <2>4, <2>5, <2>6, <3>2
    <3> QED
      BY <3>1, <3>2
  <2>10. Keeps(g, s, S, m)
    BY <2>8, <2>9 DEF Keeps, next
  <2> QED
    BY <2>10
<1> QED
  BY <1>2, <1>3

\* What Those returns: a sequence of some of the members, each of them in S,
\* and none twice if s has none twice.
LEMMA ThoseOf ==
    ASSUME NEW T, NEW s \in Seq(T), NEW S, NEW r, r = Those(s, S)
    PROVE  /\ r \in Seq(T)
           /\ \A k \in 1..Len(r) : r[k] \in S
           /\ (\A i, j \in 1..Len(s) : s[i] = s[j] => i = j)
              => \A k, l \in 1..Len(r) : r[k] = r[l] => k = l
<1> DEFINE n == Len(s)
           h == CHOOSE f : Keeps(f, s, S, n)
           Fine(x, m) ==
              /\ x \in Seq(T)
              /\ \A k \in 1..Len(x) : x[k] \in S /\ \E i \in 1..m : x[k] = s[i]
              /\ (\A i, j \in 1..n : s[i] = s[j] => i = j) => \A k, l \in 1..Len(x) : x[k] = x[l] => k = l
           Bad == {m \in 0..n : ~Fine(h[m], m)}
<1>1. n \in Nat
  OBVIOUS
<1>2. Keeps(h, s, S, n)
  BY <1>1, KeepsExists
<1>3. r = h[n]
  BY DEF Those, Keeps
<1> HIDE DEF h
<1>4. ASSUME NEW m \in 0..n
      PROVE  h[m] = IF m = 0 THEN << >> ELSE IF s[m] \in S THEN Append(h[m - 1], s[m]) ELSE h[m - 1]
  BY <1>2 DEF Keeps
<1>5. Fine(h[0], 0)
  <2>1. h[0] = << >>
    BY <1>1, <1>4
  <2> QED
    BY <2>1
<1>6. ASSUME NEW m \in 1..n, Fine(h[m - 1], m - 1)
      PROVE  Fine(h[m], m)
  <2> DEFINE x == h[m - 1]
  <2>0. m \in 0..n /\ m # 0 /\ \A i \in 1..(m - 1) : i \in 1..m /\ i \in 1..n /\ i # m
    BY <1>1
  <2>1. CASE s[m] \notin S
    <3>1. h[m] = x
      BY <1>4, <2>0, <2>1
    <3> QED
      BY <1>6, <2>0, <3>1
  <2>2. CASE s[m] \in S
    <3>1. h[m] = Append(x, s[m])
      BY <1>4, <2>0, <2>2
    <3>2. s[m] \in T /\ x \in Seq(T)
      BY <1>1, <1>6
    <3> HIDE DEF x
    <3> DEFINE y == Append(x, s[m])
    <3>3. y \in Seq(T) /\ Len(y) = Len(x) + 1 /\ y[Len(x) + 1] = s[m]
          /\ \A k \in 1..Len(x) : y[k] = x[k]
      BY <3>2
    <3>4. Len(x) \in Nat
      BY <3>2
    <3> HIDE DEF y
    <3>5. \A k \in 1..Len(y) : k \in 1..Len(x) \/ k = Len(x) + 1
      BY <3>3, <3>4
    <3>6. \A k \in 1..Len(y) : y[k] \in S /\ \E i \in 1..m : y[k] = s[i]
      <4>1. \A k \in 1..Len(x) : x[k] \in S /\ \E i \in 1..(m - 1) : x[k] = s[i]
        BY <1>6 DEF x
      <4>2. m \in 1..m
        BY <2>0
      <4> QED
        BY <2>0, <2>2, <3>3, <3>5, <4>1, <4>2
    <3>7. ASSUME \A i, j \in 1..n : s[i] = s[j] => i = j
          PROVE  \A k, l \in 1..Len(y) : y[k] = y[l] => k = l
      <4>1. \A k \in 1..Len(x) : y[k] # s[m]
        <5>1. \A k \in 1..Len(x) : \E i \in 1..(m - 1) : x[k] = s[i]
          BY <1>6 DEF x
        <5>2. \A i \in 1..(m - 1) : s[i] # s[m]
          BY <2>0, <3>7
        <5> QED
          BY <3>3, <5>1, <5>2
      <4>2. \A k, l \in 1..Len(x) : x[k] = x[l] => k = l
        BY <1>6, <3>7 DEF x
      <4> QED
        BY <3>3, <3>5, <4>1, <4>2
    <3> QED
      BY <3>1, <3>3, <3>6, <3>7 DEF y
  <2> QED
    BY <2>1, <2>2
<1>7. Bad = {}
  <2> SUFFICES ASSUME Bad # {} PROVE FALSE
    OBVIOUS
  <2>1. Bad \in SUBSET Nat
    BY <1>1
  <2>2. PICK m \in Bad : \A k \in Bad : m <= k
    <3> HIDE DEF Bad
    <3> QED
      BY <2>1, LeastIndex
  <2>3. m # 0
    BY <1>5
  <2>4. m \in 1..n /\ m - 1 \in 0..n /\ ~(m <= m - 1)
    BY <1>1, <2>3
  <2>5. Fine(h[m - 1], m - 1)
    <3> HIDE DEF Fine
    <3> QED
      BY <2>2, <2>4
  <2> HIDE DEF Fine
  <2> QED
    BY <1>6, <2>4, <2>5
<1>8. Fine(h[n], n)
  <2> HIDE DEF Fine
  <2>1. n \in 0..n
    BY <1>1
  <2> QED
    BY <1>7, <2>1
<1>9. \A k \in 1..Len(r) : r[k] \in S
  BY <1>3, <1>8
<1>10. (\A i, j \in 1..Len(s) : s[i] = s[j] => i = j) => \A k, l \in 1..Len(r) : r[k] = r[l] => k = l
  BY <1>3, <1>8
<1>11. r \in Seq(T)
  BY <1>3, <1>8
<1> QED
  BY <1>9, <1>10, <1>11

LEMMA AscendingOf ==
    ASSUME NEW n \in Nat, NEW S, NEW r, r = Ascending(S, n)
    PROVE  /\ r \in Seq(1..n)
           /\ \A k \in 1..Len(r) : r[k] \in S
           /\ \A k, l \in 1..Len(r) : r[k] = r[l] => k = l
<1> DEFINE s == [i \in 1..n |-> i]
<1>1. s \in Seq(1..n) /\ Len(s) = n /\ \A i \in 1..n : s[i] = i
  OBVIOUS
<1>2. r = Those(s, S)
  BY DEF Ascending
<1> HIDE DEF s
<1>3. \A i, j \in 1..Len(s) : s[i] = s[j] => i = j
  BY <1>1
<1>4. (\A i, j \in 1..Len(s) : s[i] = s[j] => i = j) => \A k, l \in 1..Len(r) : r[k] = r[l] => k = l
  BY <1>1, <1>2, ThoseOf
<1>5. r \in Seq(1..n) /\ \A k \in 1..Len(r) : r[k] \in S
  BY <1>1, <1>2, ThoseOf
<1> QED
  BY <1>3, <1>4, <1>5

-----------------------------------------------------------------------------
(* Groups share no keys. *)

LEMMA ComponentOf ==
    ASSUME NEW keys, NEW linked, linked = Linked(keys), NEW i \in DOMAIN keys, NEW P,
           P = Component(i, DOMAIN keys, linked)
    PROVE  /\ P \subseteq DOMAIN keys /\ i \in P
           /\ \A j \in P, k \in DOMAIN keys : keys[j] \cap keys[k] # {} => k \in P
           /\ \A C \in SUBSET DOMAIN keys : i \in C /\ Closed(C, linked) => P \subseteq C
<1>1. P \subseteq DOMAIN keys /\ i \in P
  BY DEF Component
<1>2. ASSUME NEW j \in P, NEW k \in DOMAIN keys, keys[j] \cap keys[k] # {}
      PROVE  k \in P
  <2>1. <<j, k>> \in linked
    BY <1>1, <1>2 DEF Linked
  <2>2. ASSUME NEW C \in SUBSET DOMAIN keys, i \in C, Closed(C, linked)
        PROVE  k \in C
    <3>1. j \in C
      BY <2>2 DEF Component
    <3> QED
      BY <2>1, <2>2, <3>1 DEF Closed
  <2> QED
    BY <2>2 DEF Component
<1>3. \A C \in SUBSET DOMAIN keys : i \in C /\ Closed(C, linked) => P \subseteq C
  BY DEF Component
<1> QED
  BY <1>1, <1>2, <1>3

\* Components that meet are one.
LEMMA ComponentsMeet ==
    ASSUME NEW keys, NEW linked, linked = Linked(keys), NEW i \in DOMAIN keys, NEW j \in DOMAIN keys,
           NEW P, P = Component(i, DOMAIN keys, linked), NEW Q, Q = Component(j, DOMAIN keys, linked),
           NEW k, k \in P, k \in Q
    PROVE  P = Q
<1>1. ASSUME NEW x \in DOMAIN keys, NEW A, A = Component(x, DOMAIN keys, linked)
      PROVE  /\ A \subseteq DOMAIN keys /\ x \in A
             /\ \A y \in A, z \in DOMAIN keys : keys[y] \cap keys[z] # {} => z \in A
             /\ \A C \in SUBSET DOMAIN keys : x \in C /\ Closed(C, linked) => A \subseteq C
  BY <1>1, ComponentOf
<1>2. ASSUME NEW x \in DOMAIN keys, NEW A, A = Component(x, DOMAIN keys, linked)
      PROVE  Closed(A, linked) /\ Closed(DOMAIN keys \ A, linked)
  <2>1. \A l \in linked : l[1] \in DOMAIN keys /\ l[2] \in DOMAIN keys
                          /\ keys[l[1]] \cap keys[l[2]] # {} /\ keys[l[2]] \cap keys[l[1]] # {}
    BY DEF Linked
  <2>2. ASSUME NEW l \in linked
        PROVE  (l[1] \in A => l[2] \in A) /\ (l[1] \in DOMAIN keys \ A => l[2] \in DOMAIN keys \ A)
    <3> DEFINE y == l[1]
               z == l[2]
    <3>1. y \in DOMAIN keys /\ z \in DOMAIN keys /\ keys[y] \cap keys[z] # {} /\ keys[z] \cap keys[y] # {}
      BY <2>1
    <3> HIDE DEF y, z
    <3>2. y \in A <=> z \in A
      BY <1>1, <1>2, <3>1
    <3>3. (y \in A => z \in A) /\ (y \in DOMAIN keys \ A => z \in DOMAIN keys \ A)
      BY <3>1, <3>2
    <3> QED
      BY <3>3 DEF y, z
  <2>3. Closed(A, linked)
    BY <2>2 DEF Closed
  <2>4. Closed(DOMAIN keys \ A, linked)
    <3> DEFINE B == DOMAIN keys \ A
    <3>1. \A l \in linked : l[1] \in B => l[2] \in B
      BY <2>2
    <3> HIDE DEF B
    <3>2. Closed(B, linked)
      BY <3>1 DEF Closed
    <3> QED
      BY <3>2 DEF B
  <2> QED
    BY <2>3, <2>4
<1> DEFINE R == Component(k, DOMAIN keys, linked)
<1>3. k \in DOMAIN keys
  BY <1>1
<1>0. R \subseteq DOMAIN keys /\ k \in R /\ Closed(R, linked) /\ Closed(DOMAIN keys \ R, linked)
      /\ \A C \in SUBSET DOMAIN keys : k \in C /\ Closed(C, linked) => R \subseteq C
  BY <1>1, <1>2, <1>3
<1>4. ASSUME NEW x \in DOMAIN keys, NEW A, A = Component(x, DOMAIN keys, linked), k \in A
      PROVE  A = R
  <2>0. A \in SUBSET DOMAIN keys /\ Closed(A, linked)
    BY <1>1, <1>2, <1>4
  <2>1. R \subseteq A
    <3> HIDE DEF R
    <3> QED
      BY <1>0, <1>4, <2>0
  <2>2. x \in R
    <3> SUFFICES ASSUME x \notin R PROVE FALSE
      OBVIOUS
    <3>1. Closed(DOMAIN keys \ R, linked)
      BY <1>2, <1>3
    <3>2. A \subseteq DOMAIN keys \ R
      BY <1>1, <1>4, <3>1
    <3>3. k \in R
      BY <1>1, <1>3
    <3> QED
      BY <1>4, <3>2, <3>3
  <2>3. A \subseteq R
    <3>1. Closed(R, linked) /\ R \in SUBSET DOMAIN keys
      BY <1>1, <1>2, <1>3
    <3> HIDE DEF R
    <3> QED
      BY <1>1, <1>4, <2>2, <3>1
  <2> QED
    BY <2>1, <2>3
<1> QED
  BY <1>4

LEMMA Halves ==
    ASSUME NEW n \in Nat, NEW m \in Nat
    PROVE  /\ \A i \in 1..n : i \in 1..(n + m) /\ i <= n
           /\ \A i \in 1..(n + m) : i \notin 1..n => ~(i <= n)
OBVIOUS

Group(g, c) ==
    /\ g = [plans |-> g.plans, superseded |-> g.superseded, remove |-> g.remove, conflicts |-> c]
    /\ \E S : g.plans \in Seq(S)

\* Its plans, and the entries that others supersede in it, are those of the window.
From(g, planned) ==
    /\ \A plan \in ToSet(g.plans) : \E i \in 1..Len(planned.plans) : plan = planned.plans[i]
    /\ \A e \in g.superseded : \E i \in 1..Len(planned.superseded) : e = planned.superseded[i]

AllKeys(planned) == Keys(planned.plans, planned.superseded)

\* What a group reads and writes is among the keys of its members.
LEMMA GroupWithin ==
    ASSUME NEW planned, NEW n \in Nat, n = Len(planned.plans), NEW m \in Nat, m = Len(planned.superseded),
           NEW C \in SUBSET (1..(n + m)), NEW g, g = GroupOf(C, planned)
    PROVE  /\ \A x \in Places(g) \cup Touched(g) : \E i \in C : x \in AllKeys(planned)[i]
           /\ Group(g, None) /\ From(g, planned)
<1> DEFINE own == Ascending(C, n)
           losers == {planned.superseded[i - n] : i \in C \ (1..n)}
           keys == AllKeys(planned)
<1>1. /\ own \in Seq(1..n)
      /\ \A k \in 1..Len(own) : own[k] \in C
  BY AscendingOf
<1>2. g = [plans |-> [k \in 1..Len(own) |-> planned.plans[own[k]]], superseded |-> losers,
           remove |-> LoserFiles(losers, planned.plans), conflicts |-> None]
  BY DEF GroupOf
<1>3. /\ g.plans = [k \in 1..Len(own) |-> planned.plans[own[k]]] /\ g.superseded = losers
      /\ g.remove = LoserFiles(losers, planned.plans)
  BY <1>2
<1>4. Len(own) \in Nat /\ \A k \in 1..Len(own) : own[k] \in 1..n
  BY <1>1
<1>5. \A plan \in ToSet(g.plans) : \E i \in C : i \in 1..n /\ plan = planned.plans[i]
  <2>1. DOMAIN g.plans = 1..Len(own) /\ \A k \in 1..Len(own) : g.plans[k] = planned.plans[own[k]]
    BY <1>3
  <2> HIDE DEF own
  <2> QED
    BY <1>1, <1>4, <2>1 DEF ToSet
<1>6. \A i \in 1..n : i \in 1..(n + m) /\ i <= n
  BY Halves
<1>7. \A i \in C \ (1..n) : i \in 1..(n + m) /\ ~(i <= n)
  BY Halves
<1>8. ASSUME NEW i \in 1..n
      PROVE  keys[i] = EntriesOf(planned.plans[i]) \cup PathsOf(planned.plans[i])
  BY <1>6 DEF AllKeys, Keys
<1>9. ASSUME NEW i \in C \ (1..n), NEW e, e = planned.superseded[i - n]
      PROVE  keys[i] = {e} \cup Given({server[e].path, OldPath(e)})
  BY <1>7, <1>9 DEF AllKeys, Keys
<1> HIDE DEF keys
<1>10. ASSUME NEW x \in Touched(g) PROVE \E i \in C : x \in keys[i]
  <2>1. CASE x \in losers
    <3>1. PICK i \in C \ (1..n) : x = planned.superseded[i - n]
      BY <2>1
    <3>2. keys[i] = {x} \cup Given({server[x].path, OldPath(x)})
      BY <1>9, <3>1
    <3> QED
      BY <3>2
  <2>2. CASE x \notin losers
    <3>1. PICK plan \in ToSet(g.plans) : x \in EntriesOf(plan)
      BY <1>3, <2>2 DEF Touched
    <3> QED
      BY <1>5, <1>8, <3>1
  <2> QED
    BY <2>1, <2>2
<1>11. ASSUME NEW x \in Places(g) PROVE \E i \in C : x \in keys[i]
  <2>1. CASE x \in g.remove
    <3>1. PICK e \in losers : x = OldPath(e) /\ x # None
      BY <1>3, <2>1 DEF LoserFiles, Given
    <3>2. PICK i \in C \ (1..n) : e = planned.superseded[i - n]
      OBVIOUS
    <3>3. keys[i] = {e} \cup Given({server[e].path, OldPath(e)})
      BY <1>9, <3>2
    <3> QED
      BY <3>1, <3>3 DEF Given
  <2>2. CASE x \notin g.remove
    <3>1. PICK plan \in ToSet(g.plans) : x \in Given({plan.final} \cup Removes(plan) \cup Moved(plan))
      BY <2>2 DEF Places
    <3>2. x \in PathsOf(plan)
      BY <3>1 DEF PathsOf, Given, Removes, Moved
    <3> QED
      BY <1>5, <1>8, <3>2
  <2> QED
    BY <2>1, <2>2
<1>12. g = [plans |-> g.plans, superseded |-> g.superseded, remove |-> g.remove, conflicts |-> None]
  BY <1>2
<1>13. \E S : g.plans \in Seq(S)
  <2> DEFINE k == Len(own)
             v(i) == planned.plans[own[i]]
  <2>1. k \in Nat /\ g.plans = [i \in 1..k |-> v(i)]
    BY <1>3, <1>4
  <2> HIDE DEF k, v
  <2>2. g.plans \in [1..k -> {v(i) : i \in 1..k}]
    BY <2>1
  <2> DEFINE S == {v(i) : i \in 1..k}
  <2>3. g.plans \in [1..k -> S]
    BY <2>2
  <2> HIDE DEF S
  <2>4. g.plans \in Seq(S)
    BY <2>1, <2>3, SeqDef
  <2> QED
    BY <2>4
<1>14. Group(g, None)
  BY <1>12, <1>13 DEF Group
<1>15. From(g, planned)
  <2>1. ASSUME NEW i \in C \ (1..n) PROVE i - n \in 1..m
    <3>1. i \in 1..(n + m) /\ ~(i <= n)
      BY <1>7
    <3>2. \A a, b \in Nat : \A j \in 1..(a + b) : ~(j <= a) => j - a \in 1..b
      OBVIOUS
    <3> QED
      BY <3>1, <3>2
  <2>2. \A e \in losers : \E i \in 1..m : e = planned.superseded[i]
    BY <2>1
  <2> QED
    BY <1>3, <1>5, <2>2 DEF From
<1> QED
  BY <1>10, <1>11, <1>14, <1>15 DEF keys

\* The groups of a window are apart.
LEMMA GroupsApart ==
    ASSUME NEW planned, Len(planned.plans) \in Nat, Len(planned.superseded) \in Nat,
           NEW gs, gs = Groups(planned)
    PROVE  /\ \E n \in Nat : gs = [k \in 1..n |-> gs[k]]
           /\ \A k \in DOMAIN gs : Group(gs[k], None) /\ From(gs[k], planned)
           /\ \A k, l \in DOMAIN gs : k # l => Apart(gs[k], gs[l])
<1> DEFINE n == Len(planned.plans)
           m == Len(planned.superseded)
           keys == AllKeys(planned)
           linked == Linked(keys)
           component(i) == Component(i, DOMAIN keys, linked)
           firsts == {i \in DOMAIN keys : \A j \in component(i) : i <= j}
           order == Ascending(firsts, Len(keys))
<1>1. DOMAIN keys = 1..(n + m) /\ Len(keys) = n + m /\ n + m \in Nat /\ DOMAIN keys \subseteq Nat
  <2>1. DOMAIN keys = 1..(n + m) /\ keys = [i \in 1..(n + m) |-> keys[i]]
    BY DEF AllKeys, Keys
  <2> HIDE DEF keys
  <2>2. n + m \in Nat
    <3> HIDE DEF n, m
    <3>1. n \in Nat /\ m \in Nat
      BY DEF n, m
    <3> QED
      BY <3>1
  <2>3. Len(keys) = n + m
    <3> DEFINE k == n + m
    <3>1. DOMAIN keys = 1..k /\ k \in Nat /\ keys = [i \in 1..k |-> keys[i]]
      BY <2>1, <2>2
    <3> HIDE DEF k
    <3>2. keys \in Seq({keys[i] : i \in 1..k})
      <4>1. keys \in [1..k -> {keys[i] : i \in 1..k}]
        BY <3>1
      <4> QED
        BY <3>1, <4>1, SeqDef
    <3>3. 1..Len(keys) = 1..k /\ Len(keys) \in Nat
      BY <3>1, <3>2, LenProperties
    <3>4. Len(keys) = k
      BY <3>1, <3>3
    <3> QED
      BY <3>4 DEF k
  <2>4. DOMAIN keys \subseteq Nat
    <3> DEFINE k == n + m
    <3>1. DOMAIN keys = 1..k /\ k \in Nat
      BY <2>1, <2>2
    <3> HIDE DEF k
    <3> QED
      BY <3>1
  <2> QED
    BY <2>1, <2>2, <2>3, <2>4
<1>2. gs = [k \in 1..Len(order) |-> GroupOf(component(order[k]), planned)]
  BY DEF Groups, AllKeys
<1>3. /\ order \in Seq(DOMAIN keys) /\ \A k \in 1..Len(order) : order[k] \in firsts
      /\ \A k, l \in 1..Len(order) : order[k] = order[l] => k = l
  <2> HIDE DEF firsts, keys
  <2> QED
    BY <1>1, AscendingOf
<1>4. Len(order) \in Nat /\ \A k \in 1..Len(order) : order[k] \in DOMAIN keys
  <2> HIDE DEF order, keys
  <2> QED
    BY <1>3, LenProperties, ElementOfSeq
<1>5. ASSUME NEW i \in DOMAIN keys
      PROVE  /\ component(i) \subseteq DOMAIN keys /\ i \in component(i)
             /\ \A j \in component(i), k \in DOMAIN keys : keys[j] \cap keys[k] # {} => k \in component(i)
  BY ComponentOf
<1>6. ASSUME NEW i \in DOMAIN keys, NEW j \in DOMAIN keys, NEW k \in component(i), k \in component(j)
      PROVE  component(i) = component(j)
  BY <1>6, ComponentsMeet
<1> HIDE DEF order, linked, component, keys
<1>7. ASSUME NEW k \in 1..Len(order)
      PROVE  /\ gs[k] = GroupOf(component(order[k]), planned) /\ Group(gs[k], None) /\ From(gs[k], planned)
             /\ \A x \in Places(gs[k]) \cup Touched(gs[k]) : \E i \in component(order[k]) : x \in keys[i]
  <2>1. component(order[k]) \in SUBSET (1..(n + m))
    BY <1>1, <1>4, <1>5
  <2>2. gs[k] = GroupOf(component(order[k]), planned)
    BY <1>2
  <2>3. \A x \in Places(gs[k]) \cup Touched(gs[k]) : \E i \in component(order[k]) : x \in keys[i]
    BY <2>1, <2>2, GroupWithin DEF keys
  <2>4. Group(gs[k], None) /\ From(gs[k], planned)
    BY <2>1, <2>2, GroupWithin
  <2> QED
    BY <2>2, <2>3, <2>4
<1>8. ASSUME NEW k \in 1..Len(order), NEW l \in 1..Len(order), k # l
      PROVE  Apart(gs[k], gs[l])
  <2> DEFINE i == order[k]
             j == order[l]
  <2>1. i \in firsts /\ j \in firsts /\ i # j
    BY <1>3, <1>8
  <2>2. i \in DOMAIN keys /\ j \in DOMAIN keys /\ i \in Nat /\ j \in Nat
    BY <1>1, <1>4
  <2>3. component(i) \cap component(j) = {}
    <3> SUFFICES ASSUME component(i) \cap component(j) # {} PROVE FALSE
      OBVIOUS
    <3>1. component(i) = component(j)
      BY <1>6, <2>2
    <3>2. i \in component(j) /\ j \in component(i)
      BY <1>5, <2>2, <3>1
    <3>3. i <= j /\ j <= i
      BY <2>1, <3>2
    <3> QED
      BY <2>1, <2>2, <3>3
  <2>4. \A x \in component(i), y \in component(j) : keys[x] \cap keys[y] = {}
    BY <1>5, <2>2, <2>3
  <2> HIDE DEF i, j
  <2>5. \A x \in Places(gs[k]) \cup Touched(gs[k]) : \E a \in component(i) : x \in keys[a]
    BY <1>7 DEF i
  <2>6. \A x \in Places(gs[l]) \cup Touched(gs[l]) : \E a \in component(j) : x \in keys[a]
    BY <1>7 DEF j
  <2>7. (Places(gs[k]) \cup Touched(gs[k])) \cap (Places(gs[l]) \cup Touched(gs[l])) = {}
    BY <2>4, <2>5, <2>6
  <2> QED
    BY <2>7 DEF Apart
<1>9. DOMAIN gs = 1..Len(order) /\ gs = [k \in 1..Len(order) |-> gs[k]]
  BY <1>2
<1> QED
  BY <1>4, <1>7, <1>8, <1>9

-----------------------------------------------------------------------------
(* The plans of a window. *)

Extended(before, s, i, moving) ==
    Append(before, Plan(s[i], {plan.final : plan \in ToSet(before)}, moving))
Lists(f, s, moving, n) ==
    f = [i \in 0..n |-> IF i = 0 THEN << >> ELSE Extended(f[i - 1], s, i, moving)]

LEMMA ListsExists ==
    ASSUME NEW s, NEW moving, NEW n \in Nat
    PROVE  \E f : Lists(f, s, moving, n)
<1> DEFINE Bad == {k \in 0..n : ~\E f : Lists(f, s, moving, k)}
<1> SUFFICES ASSUME Bad # {} PROVE FALSE
  OBVIOUS
<1>1. PICK m \in Bad : \A k \in Bad : m <= k
  <2>1. Bad \in SUBSET Nat
    OBVIOUS
  <2> HIDE DEF Bad
  <2> QED
    BY <2>1, LeastIndex
<1>2. CASE m = 0
  <2> DEFINE g == [i \in 0..0 |-> << >>]
  <2>1. Lists(g, s, moving, 0)
    BY DEF Lists
  <2> QED
    BY <1>2, <2>1
<1>3. CASE m # 0
  <2>1. m \in Nat /\ m - 1 \in 0..n /\ ~(m <= m - 1)
    BY <1>3
  <2>2. PICK f : Lists(f, s, moving, m - 1)
    BY <1>1, <2>1
  <2> DEFINE v == Extended(f[m - 1], s, m, moving)
             g == [i \in 0..m |-> IF i = m THEN v ELSE f[i]]
  <2>3. 0..m = 0..(m - 1) \cup {m} /\ \A i \in 0..(m - 1) : i # m
    BY <2>1
  <2>4. \A i \in 0..(m - 1) : g[i] = f[i]
    BY <2>3
  <2>5. \A i \in 0..(m - 1) : i # 0 => i - 1 \in 0..(m - 1)
    BY <2>1
  <2>6. \A i \in 0..(m - 1) : f[i] = IF i = 0 THEN << >> ELSE Extended(f[i - 1], s, i, moving)
    BY <2>2 DEF Lists
  <2>7. g[m] = v /\ g[m - 1] = f[m - 1] /\ m # 0
    BY <1>3, <2>1, <2>4
  <2>8. g = [i \in 0..m |-> g[i]]
    OBVIOUS
  <2> HIDE DEF g, v
  <2>9. ASSUME NEW i \in 0..m
        PROVE  g[i] = IF i = 0 THEN << >> ELSE Extended(g[i - 1], s, i, moving)
    <3>1. CASE i = m
      BY <2>7, <3>1 DEF v
    <3>2. CASE i # m
      BY <2>3, <2>4, <2>5, <2>6, <3>2
    <3> QED
      BY <3>1, <3>2
  <2>10. Lists(g, s, moving, m)
    BY <2>8, <2>9 DEF Lists
  <2> QED
    BY <2>10
<1> QED
  BY <1>2, <1>3

\* All of them are plans, for an entry each.
PlanFor(plan, e, moving) == \E reserved : IsFiniteSet(reserved) /\ plan = Plan(e, reserved, moving)
PlansOf(S, s, n, moving) == IsFiniteSet(S) /\ \A plan \in S : \E i \in 1..n : PlanFor(plan, s[i], moving)

LEMMA ImageFinite ==
    ASSUME NEW S, IsFiniteSet(S), NEW f, DOMAIN f = S, NEW T, T = {f[x] : x \in S}
    PROVE  IsFiniteSet(T)
<1> DEFINE h == [x \in S |-> f[x]]
<1>1. h \in Surjection(S, T)
  BY DEF Surjection
<1> HIDE DEF h
<1> QED
  BY <1>1, FS_Surjection

LEMMA FinalsFinite ==
    ASSUME NEW S, IsFiniteSet(S)
    PROVE  IsFiniteSet({plan.final : plan \in S})
<1> DEFINE f == [plan \in S |-> plan.final]
           T == {plan.final : plan \in S}
<1>1. DOMAIN f = S /\ T = {f[plan] : plan \in S}
  OBVIOUS
<1> HIDE DEF f, T
<1>2. IsFiniteSet(T)
  BY <1>1, ImageFinite
<1> QED
  BY <1>2 DEF T

LEMMA ListsOf ==
    ASSUME NEW s, NEW moving, NEW n \in Nat, NEW f, Lists(f, s, moving, n)
    PROVE  \E S : f[n] \in Seq(S) /\ PlansOf(S, s, n, moving)
<1> DEFINE Bad == {m \in 0..n : ~\E S : f[m] \in Seq(S) /\ PlansOf(S, s, n, moving)}
<1>1. \A i \in 0..n : f[i] = IF i = 0 THEN << >> ELSE Extended(f[i - 1], s, i, moving)
  BY DEF Lists
<1> SUFFICES ASSUME Bad # {} PROVE FALSE
  OBVIOUS
<1>2. PICK m \in Bad : \A k \in Bad : m <= k
  <2>1. Bad \in SUBSET Nat
    OBVIOUS
  <2> HIDE DEF Bad
  <2> QED
    BY <2>1, LeastIndex
<1>3. m # 0
  <2>1. f[0] = << >> /\ << >> \in Seq({}) /\ PlansOf({}, s, n, moving)
    BY <1>1, FS_EmptySet DEF PlansOf
  <2> QED
    BY <2>1
<1>4. m \in 1..n /\ m - 1 \in 0..n /\ ~(m <= m - 1)
  BY <1>3
<1>5. PICK S : f[m - 1] \in Seq(S) /\ PlansOf(S, s, n, moving)
  BY <1>2, <1>4
<1> DEFINE before == f[m - 1]
           reserved == {plan.final : plan \in ToSet(before)}
           v == Plan(s[m], reserved, moving)
<1>6. f[m] = Append(before, v)
  BY <1>1, <1>3, <1>4 DEF Extended
<1>10. IsFiniteSet(reserved)
  <2> HIDE DEF before
  <2>1. ToSet(before) \subseteq S
    BY <1>5 DEF before, ToSet
  <2>2. IsFiniteSet(ToSet(before))
    BY <1>5, <2>1, FS_Subset DEF PlansOf
  <2> QED
    BY <2>2, FinalsFinite
<1>11. PlanFor(v, s[m], moving)
  BY <1>10 DEF PlanFor
<1> HIDE DEF v, reserved
<1>7. f[m - 1] \in Seq(S \cup {v})
  BY <1>5, SeqMonotonic
<1>8. f[m] \in Seq(S \cup {v})
  BY <1>6, <1>7
<1>9. PlansOf(S \cup {v}, s, n, moving)
  <2>1. IsFiniteSet(S \cup {v})
    BY <1>5, FS_AddElement DEF PlansOf
  <2>2. \A p \in S \cup {v} : \E i \in 1..n : PlanFor(p, s[i], moving)
    BY <1>4, <1>5, <1>11 DEF PlansOf
  <2> QED
    BY <2>1, <2>2 DEF PlansOf
<1>12. ~\E T : f[m] \in Seq(T) /\ PlansOf(T, s, n, moving)
  BY <1>2
<1> HIDE DEF before
<1> QED
  BY <1>8, <1>9, <1>12

LEMMA PlannedFrom ==
    ASSUME NEW T, NEW window \in Seq(T), NEW last, NEW r, r = Planned(window, last)
    PROVE  /\ Len(r.plans) \in Nat
           /\ r.deferred \in Seq(T) /\ r.superseded \in Seq(T)
           /\ r.skipped \in Seq(T)
           /\ IsFiniteSet(ToSet(r.plans))
           /\ \A i \in 1..Len(r.plans) : \E e \in T : \E moving : PlanFor(r.plans[i], e, moving)
<1> DEFINE valid == {e \in ToSet(window) : ~Rejected(server[e].path)}
           active == {e \in valid : ~Superseded(e, valid)}
           waiting == IF last THEN {} ELSE Waiting(active)
           moving == BeforeThreshold(active, waiting)
           deferred == {e \in active : \/ e \notin moving
                                       \/ ~last /\ HeldByOther(e, moving) /\ ~LatestWins(server[e].path)}
           planning == Those(window, active \ deferred)
           n == Len(planning)
           plans == CHOOSE f : Lists(f, planning, moving, n)
<1>1. /\ r.plans = plans[n] /\ r.deferred = Those(window, deferred)
      /\ r.superseded = Those(window, valid \ active)
  BY DEF Planned, Lists, Extended
<1> HIDE DEF valid, moving, deferred
<1>2. planning \in Seq(T) /\ r.deferred \in Seq(T) /\ r.superseded \in Seq(T)
  BY <1>1, ThoseOf
<1>3. n \in Nat
  BY <1>2
<1> HIDE DEF planning, n
<1>4. Lists(plans, planning, moving, n)
  BY <1>3, ListsExists
<1> HIDE DEF plans
<1>5. PICK S : plans[n] \in Seq(S) /\ PlansOf(S, planning, n, moving)
  BY <1>3, <1>4, ListsOf
<1>6. \A i \in 1..n : planning[i] \in T
  BY <1>2 DEF n
<1>7. ASSUME NEW i \in 1..Len(r.plans)
      PROVE  \E e \in T : \E before : PlanFor(r.plans[i], e, before)
  <2>1. r.plans[i] \in S
    BY <1>1, <1>5
  <2>2. PICK k \in 1..n : PlanFor(r.plans[i], planning[k], moving)
    BY <1>5, <2>1 DEF PlansOf
  <2> QED
    BY <1>6, <2>2
<1>8. r.skipped \in Seq(T)
  <2>1. r.skipped = Those(window, {e \in ToSet(window) : Rejected(server[e].path)})
    BY DEF Planned
  <2> QED
    BY <2>1, ThoseOf
<1>9. IsFiniteSet(ToSet(r.plans))
  <2>1. ToSet(r.plans) \subseteq S
    BY <1>1, <1>5 DEF ToSet
  <2> QED
    BY <1>5, <2>1, FS_Subset DEF PlansOf
<1> QED
  BY <1>1, <1>2, <1>5, <1>7, <1>8, <1>9

LEMMA PlannedShape ==
    ASSUME NEW window \in Seq(Entry), NEW last, NEW r, r = Planned(window, last)
    PROVE  /\ Len(r.plans) \in Nat
           /\ r.deferred \in Seq(Entry) /\ r.superseded \in Seq(Entry)
           /\ r.skipped \in Seq(Entry)
           /\ \A i \in 1..Len(r.plans) : \E e \in Entry : \E reserved, moving : r.plans[i] = Plan(e, reserved, moving)
<1>1. /\ Len(r.plans) \in Nat
      /\ r.deferred \in Seq(Entry) /\ r.superseded \in Seq(Entry)
      /\ r.skipped \in Seq(Entry)
      /\ \A i \in 1..Len(r.plans) : \E e \in Entry : \E moving : PlanFor(r.plans[i], e, moving)
  BY PlannedFrom
<1> QED
  BY <1>1 DEF PlanFor

-----------------------------------------------------------------------------
(* The pull in progress. *)

Fields(p) ==
    p = [phase |-> p.phase, window |-> p.window, rest |-> p.rest, deferred |-> p.deferred,
         groups |-> p.groups, group |-> p.group, todo |-> p.todo, saved |-> p.saved,
         named |-> p.named, outcome |-> p.outcome]

GoodGroups(gs) ==
    /\ \E n \in Nat : gs = [k \in 1..n |-> gs[k]]
    /\ \A k \in DOMAIN gs : \E c : Group(gs[k], c)
    /\ \A k, l \in DOMAIN gs : k # l => Apart(gs[k], gs[l])

Shape(p) ==
    /\ Fields(p)
    /\ p.window \in Seq(Entry) /\ p.rest \in Seq(Entry) /\ p.deferred \in Seq(Entry)
    /\ GoodGroups(p.groups)
GroupsInv == Shape(pull) /\ head \in Nat

LEMMA NoGroups == GoodGroups(<< >>)
<1>1. << >> = [k \in 1..0 |-> << >>[k]] /\ DOMAIN << >> = {}
  OBVIOUS
<1> QED
  BY <1>1 DEF GoodGroups

\* The groups but the first.
LEMMA TailGood ==
    ASSUME NEW gs, GoodGroups(gs), gs # << >>
    PROVE  GoodGroups(Tail(gs))
<1>1. PICK n \in Nat : gs = [k \in 1..n |-> gs[k]]
  BY DEF GoodGroups
<1>2. n # 0
  <2>1. n = 0 => gs = << >>
    BY <1>1
  <2> QED
    BY <2>1
<1> DEFINE S == {gs[k] : k \in 1..n}
<1>3. gs \in Seq(S) /\ Len(gs) = n
  BY <1>1
<1> HIDE DEF S
<1> DEFINE t == Tail(gs)
<1>4. /\ n - 1 \in Nat /\ Len(t) = n - 1 /\ DOMAIN t = 1..(n - 1) /\ t = [k \in 1..(n - 1) |-> t[k]]
      /\ \A k \in 1..(n - 1) : t[k] = gs[k + 1]
  <2>1. t \in Seq(S) /\ Len(t) = n - 1 /\ \A k \in 1..Len(t) : t[k] = gs[k + 1]
    BY <1>3, HeadTailProperties
  <2> HIDE DEF t
  <2>2. DOMAIN t = 1..Len(t) /\ t = [k \in DOMAIN t |-> t[k]]
    BY <2>1, LenProperties
  <2>3. n - 1 \in Nat
    BY <1>2
  <2> QED
    BY <2>1, <2>2, <2>3
<1>5. \A k \in 1..(n - 1) : k + 1 \in 1..n /\ t[k] = gs[k + 1]
  <2>1. \A k \in 1..(n - 1) : k + 1 \in 1..n
    OBVIOUS
  <2> QED
    BY <1>4, <2>1
<1>6. DOMAIN t = 1..(n - 1) /\ t = [k \in 1..(n - 1) |-> t[k]] /\ DOMAIN gs = 1..n
  BY <1>1, <1>4
<1> HIDE DEF t
<1>7. \A k, l \in 1..(n - 1) : k # l => k + 1 # l + 1
  OBVIOUS
<1>8. \A k \in DOMAIN t : \E c : Group(t[k], c)
  BY <1>5, <1>6 DEF GoodGroups
<1>9. ASSUME NEW k \in DOMAIN t, NEW l \in DOMAIN t, k # l
      PROVE  Apart(t[k], t[l])
  <2>1. \A i, j \in DOMAIN gs : i # j => Apart(gs[i], gs[j])
    BY DEF GoodGroups
  <2>2. k + 1 \in DOMAIN gs /\ l + 1 \in DOMAIN gs /\ k + 1 # l + 1
    BY <1>5, <1>6, <1>7, <1>9
  <2>3. t[k] = gs[k + 1] /\ t[l] = gs[l + 1]
    BY <1>5, <1>6
  <2> QED
    BY <2>1, <2>2, <2>3
<1>10. GoodGroups(t)
  BY <1>4, <1>6, <1>8, <1>9 DEF GoodGroups
<1> QED
  BY <1>10 DEF t

\* A group that is prepared is where it was.
LEMMA PreparedStays ==
    ASSUME NEW g, NEW c, Group(g, c), NEW h \in Prepared(g)
    PROVE  /\ \E d : Group(h, d)
           /\ h.plans = g.plans /\ h.superseded = g.superseded /\ h.remove = g.remove
<1>1. CASE h = g
  BY <1>1
<1>2. CASE h # g
  <2>1. PICK d : h = [g EXCEPT !.conflicts = d]
    BY <1>2 DEF Prepared
  <2>2. g = [plans |-> g.plans, superseded |-> g.superseded, remove |-> g.remove, conflicts |-> c]
    BY DEF Group
  <2>3. h = [plans |-> g.plans, superseded |-> g.superseded, remove |-> g.remove, conflicts |-> d]
    BY <2>1, <2>2
  <2>4. h.plans = g.plans /\ h.superseded = g.superseded /\ h.remove = g.remove
    BY <2>3
  <2>5. Group(h, d)
    BY <2>3, <2>4 DEF Group
  <2> QED
    BY <2>4, <2>5
<1> QED
  BY <1>1, <1>2

\* The groups that were prepared at one time are as good.
LEMMA PreparedGood ==
    ASSUME NEW gs, GoodGroups(gs), NEW hs, DOMAIN hs = DOMAIN gs, hs = [k \in DOMAIN hs |-> hs[k]],
           \A k \in DOMAIN hs : hs[k] \in Prepared(gs[k])
    PROVE  GoodGroups(hs)
<1>1. ASSUME NEW k \in DOMAIN gs
      PROVE  /\ \E d : Group(hs[k], d)
             /\ Places(hs[k]) = Places(gs[k]) /\ Touched(hs[k]) = Touched(gs[k])
  <2>1. PICK c : Group(gs[k], c)
    BY DEF GoodGroups
  <2>2. hs[k] \in Prepared(gs[k])
    OBVIOUS
  <2>3. /\ \E d : Group(hs[k], d)
        /\ hs[k].plans = gs[k].plans /\ hs[k].superseded = gs[k].superseded /\ hs[k].remove = gs[k].remove
    BY <2>1, <2>2, PreparedStays
  <2> QED
    BY <2>3 DEF Places, Touched
<1>2. \E n \in Nat : hs = [k \in 1..n |-> hs[k]]
  <2>1. PICK n \in Nat : gs = [k \in 1..n |-> gs[k]]
    BY DEF GoodGroups
  <2>2. DOMAIN gs = 1..n
    BY <2>1
  <2> QED
    BY <2>2
<1>3. ASSUME NEW k \in DOMAIN hs, NEW l \in DOMAIN hs, k # l
      PROVE  Apart(hs[k], hs[l])
  <2>1. Apart(gs[k], gs[l])
    BY <1>3 DEF GoodGroups
  <2> QED
    BY <1>1, <2>1 DEF Apart
<1> QED
  BY <1>1, <1>2, <1>3 DEF GoodGroups

\* The pull when there is none, or when it has ended so.
LEMMA StoppedShape ==
    ASSUME NEW p, Fields(p), p.window = << >>, p.rest = << >>, p.deferred = << >>, p.groups = << >>
    PROVE  Shape(p)
<1>1. << >> \in Seq(Entry)
  OBVIOUS
<1> QED
  BY <1>1, NoGroups DEF Shape

LEMMA NoPullFields ==
    /\ Fields(NoPull) /\ NoPull.window = << >> /\ NoPull.rest = << >>
    /\ NoPull.deferred = << >> /\ NoPull.groups = << >>
BY DEF NoPull, Fields

LEMMA NoPullShape == Shape(NoPull)
BY NoPullFields, StoppedShape

LEMMA EndedShape ==
    ASSUME NEW o, NEW p, p = [NoPull EXCEPT !.outcome = o]
    PROVE  Shape(p)
<1>1. p = [phase |-> "idle", window |-> << >>, rest |-> << >>, deferred |-> << >>,
           groups |-> << >>, group |-> None, todo |-> << >>, saved |-> None,
           named |-> {}, outcome |-> o]
  BY DEF NoPull
<1>2. Fields(p)
  BY <1>1 DEF Fields
<1>3. p.window = << >> /\ p.rest = << >> /\ p.deferred = << >> /\ p.groups = << >>
  BY <1>1
<1> QED
  BY <1>2, <1>3, StoppedShape

\* The entries that are listed, in the order of the server.
LEMMA InOrderOf ==
    ASSUME head \in Nat, NEW S, NEW r, r = InOrder(S)
    PROVE  r \in Seq(S)
<1> DEFINE seqs == Ascending({server[e].seq : e \in S}, head)
<1>1. seqs \in Seq(1..head) /\ \A k \in 1..Len(seqs) : seqs[k] \in {server[e].seq : e \in S}
  BY AscendingOf
<1>2. r = [k \in 1..Len(seqs) |-> CHOOSE e \in S : server[e].seq = seqs[k]]
  BY DEF InOrder
<1>3. Len(seqs) \in Nat
  BY <1>1
<1> HIDE DEF seqs
<1>4. ASSUME NEW k \in 1..Len(seqs)
      PROVE  r[k] \in S
  <2> DEFINE n == seqs[k]
             d == CHOOSE e \in S : server[e].seq = n
  <2>1. r[k] = d
    BY <1>2
  <2>2. \E e \in S : server[e].seq = n
    BY <1>1
  <2> HIDE DEF n
  <2>3. d \in S
    BY <2>2
  <2> QED
    BY <2>1, <2>3
<1>5. r \in [1..Len(seqs) -> S]
  BY <1>2, <1>4
<1> QED
  BY <1>3, <1>5, SeqDef

LEMMA AppliesShape ==
    ASSUME GroupsInv, NEW window \in Seq(Entry), NEW rest \in Seq(Entry), Applies(window, rest)
    PROVE  GroupsInv'
<1> DEFINE planned == Planned(window, rest = << >>)
           named == Given({plan.final : plan \in ToSet(planned.plans)})
           gs == Groups(planned)
<1>1. head' \in Nat
  BY DEF GroupsInv, Applies
<1>2. CASE pull' = [NoPull EXCEPT !.outcome = "raised"]
  BY <1>1, <1>2, EndedShape DEF GroupsInv
<1>3. CASE pull' = [NoPull EXCEPT !.phase = "apply", !.window = window, !.rest = rest,
                     !.deferred = planned.deferred, !.groups = gs, !.named = named]
  <2>1. pull' = [NoPull EXCEPT !.phase = "apply", !.window = window, !.rest = rest,
                     !.deferred = planned.deferred, !.groups = gs, !.named = named]
    BY <1>3
  <2>2. Len(planned.plans) \in Nat /\ planned.deferred \in Seq(Entry) /\ planned.superseded \in Seq(Entry)
    BY PlannedShape
  <2>3. GoodGroups(gs)
    <3>1. Len(planned.superseded) \in Nat
      BY <2>2
    <3> HIDE DEF planned
    <3>2. /\ \E n \in Nat : gs = [k \in 1..n |-> gs[k]]
          /\ \A k \in DOMAIN gs : Group(gs[k], None)
          /\ \A k, l \in DOMAIN gs : k # l => Apart(gs[k], gs[l])
      BY <2>2, <3>1, GroupsApart
    <3> HIDE DEF gs
    <3> QED
      BY <3>2 DEF GoodGroups
  <2> HIDE DEF planned, gs, named
  <2>4. pull' = [phase |-> "apply", window |-> window, rest |-> rest, deferred |-> planned.deferred,
           groups |-> gs, group |-> None, todo |-> << >>, saved |-> None,
           named |-> named, outcome |-> "none"]
    BY <2>1 DEF NoPull
  <2>5. pull'.window = window /\ pull'.rest = rest /\ pull'.deferred = planned.deferred /\ pull'.groups = gs
    BY <2>4
  <2>6. Fields(pull')
    BY <2>4 DEF Fields
  <2>7. Shape(pull')
    BY <2>2, <2>3, <2>5, <2>6 DEF Shape
  <2> QED
    BY <1>1, <2>7 DEF GroupsInv
<1> QED
  BY <1>2, <1>3 DEF Applies, Raises, Stops

\* An EXCEPT that leaves the groups alone.
LEMMA SameGroups ==
    ASSUME NEW p, Shape(p), NEW q, Fields(q), q.window = p.window, q.rest = p.rest,
           q.deferred = p.deferred, q.groups = p.groups
    PROVE  Shape(q)
BY DEF Shape

-----------------------------------------------------------------------------
(* Each action. *)

LEMMA InitGroups == PullInit => GroupsInv
<1> SUFFICES ASSUME PullInit PROVE GroupsInv
  OBVIOUS
<1>1. pull = NoPull /\ head = 0
  BY DEF PullInit
<1> QED
  BY <1>1, NoPullShape DEF GroupsInv

\* The windows of a pull, whatever the entries are that it lists.
Listed == {e \in Entry : server[e].seq > cursor}

LEMMA StartFrom ==
    ASSUME head \in Nat, PullStart
    PROVE  \E window, rest \in Seq(Listed) : window # << >> /\ Applies(window, rest)
<1> DEFINE listed == InOrder(Listed)
<1>1. listed \in Seq(Listed)
  BY InOrderOf
<1>2. PICK k \in 1..Len(listed) : Applies(SubSeq(listed, 1, k), SubSeq(listed, k + 1, Len(listed)))
  BY DEF PullStart, Listed
<1> HIDE DEF listed
<1>3. /\ SubSeq(listed, 1, k) \in Seq(Listed) /\ SubSeq(listed, k + 1, Len(listed)) \in Seq(Listed)
      /\ SubSeq(listed, 1, k) # << >>
  <2>1. Len(listed) \in Nat /\ k \in Int /\ k + 1 \in Int /\ \A i \in 1..Len(listed) : listed[i] \in Listed
    BY <1>1, LenProperties, ElementOfSeq
  <2>2. \A i \in 1..k : i \in 1..Len(listed)
    BY <2>1
  <2>3. \A i \in (k + 1)..Len(listed) : i \in 1..Len(listed)
    BY <2>1
  <2>4. SubSeq(listed, 1, k) \in Seq(Listed) /\ Len(SubSeq(listed, 1, k)) = IF 1 <= k THEN k - 1 + 1 ELSE 0
    BY <2>1, <2>2, SubSeqProperties
  <2>5. SubSeq(listed, k + 1, Len(listed)) \in Seq(Listed)
    BY <2>1, <2>3, SubSeqProperties
  <2>6. Len(<< >>) = 0 /\ 1 <= k /\ k - 1 + 1 # 0
    BY <2>1
  <2> QED
    BY <2>4, <2>5, <2>6
<1> QED
  BY <1>2, <1>3

LEMMA StartApplies ==
    ASSUME GroupsInv, PullStart
    PROVE  \E window, rest \in Seq(Entry) : Applies(window, rest)
<1>1. Listed \subseteq Entry
  BY DEF Listed
<1>2. Seq(Listed) \subseteq Seq(Entry)
  BY <1>1, SeqMonotonic
<1> QED
  BY <1>2, StartFrom DEF GroupsInv

LEMMA StartKeepsGroups == GroupsInv /\ PullStart => GroupsInv'
BY StartApplies, AppliesShape

LEMMA PlanKeepsGroups == GroupsInv /\ PlanWindow => GroupsInv'
BY AppliesShape DEF GroupsInv, Shape, PlanWindow

LEMMA PrepareKeepsGroups == GroupsInv /\ PrepareAhead => GroupsInv'
<1> SUFFICES ASSUME GroupsInv, PrepareAhead PROVE GroupsInv'
  OBVIOUS
<1>1. PICK gs \in [DOMAIN pull.groups -> UNION {Prepared(g) : g \in ToSet(pull.groups)}] :
         /\ \A i \in DOMAIN gs : gs[i] \in Prepared(pull.groups[i])
         /\ pull' = [pull EXCEPT !.groups = gs]
  BY DEF PrepareAhead
<1>2. DOMAIN gs = DOMAIN pull.groups /\ gs = [k \in DOMAIN gs |-> gs[k]]
  OBVIOUS
<1>3. GoodGroups(gs)
  BY <1>1, <1>2, PreparedGood DEF GroupsInv, Shape
<1>4. /\ Fields(pull') /\ pull'.window = pull.window /\ pull'.rest = pull.rest
      /\ pull'.deferred = pull.deferred /\ pull'.groups = gs
  BY <1>1 DEF GroupsInv, Shape, Fields
<1>5. head' \in Nat
  BY DEF GroupsInv, PrepareAhead
<1> QED
  BY <1>3, <1>4, <1>5 DEF GroupsInv, Shape

LEMMA SettleKeepsGroups == GroupsInv /\ Settle => GroupsInv'
<1> SUFFICES ASSUME GroupsInv, Settle PROVE GroupsInv'
  OBVIOUS
<1>1. PICK g, s : pull' = [pull EXCEPT !.phase = "move", !.groups = Tail(@), !.group = g, !.saved = s]
  BY DEF Settle
<1>2. pull.groups # << >> /\ head' = head
  BY DEF Settle
<1>3. GoodGroups(Tail(pull.groups))
  BY <1>2, TailGood DEF GroupsInv, Shape
<1>4. /\ Fields(pull') /\ pull'.window = pull.window /\ pull'.rest = pull.rest
      /\ pull'.deferred = pull.deferred /\ pull'.groups = Tail(pull.groups)
  BY <1>1 DEF GroupsInv, Shape, Fields
<1> QED
  BY <1>2, <1>3, <1>4 DEF GroupsInv, Shape

\* A step in which nothing of the window, of its rest or of the groups changes.
LEMMA StepKeepsGroups ==
    ASSUME GroupsInv, head' \in Nat, Fields(pull'), pull'.window = pull.window, pull'.rest = pull.rest,
           pull'.deferred = pull.deferred, pull'.groups = pull.groups
    PROVE  GroupsInv'
BY SameGroups DEF GroupsInv

\* A step that ends the pull.
LEMMA StopKeepsGroups ==
    ASSUME NEW o, pull' = [NoPull EXCEPT !.outcome = o], head' \in Nat
    PROVE  GroupsInv'
BY EndedShape DEF GroupsInv

LEMMA GroupStepsKeepGroups ==
    GroupsInv /\ (MovePaths \/ WriteFile \/ WriteRows \/ ApplyMerges) => GroupsInv'
<1> SUFFICES ASSUME GroupsInv, MovePaths \/ WriteFile \/ WriteRows \/ ApplyMerges PROVE GroupsInv'
  OBVIOUS
<1>1. head' \in Nat
  BY DEF GroupsInv, MovePaths, WriteFile, WriteRows, ApplyMerges
<1>2. CASE \E o : pull' = [NoPull EXCEPT !.outcome = o]
  BY <1>1, <1>2, StopKeepsGroups
<1>3. CASE ~\E o : pull' = [NoPull EXCEPT !.outcome = o]
  <2>1. \/ \E t : pull' = [pull EXCEPT !.phase = "write", !.todo = t]
        \/ \E t : pull' = [pull EXCEPT !.todo = t]
        \/ pull' = GroupEnds
        \/ pull' = [pull EXCEPT !.phase = "merge"]
    <3>1. ASSUME MovePaths PROVE \E t : pull' = [pull EXCEPT !.phase = "write", !.todo = t]
      BY <1>3, <3>1 DEF MovePaths, Stops
    <3>2. ASSUME WriteFile PROVE \E t : pull' = [pull EXCEPT !.todo = t]
      BY <3>2 DEF WriteFile
    <3>3. ASSUME WriteRows PROVE pull' = GroupEnds \/ pull' = [pull EXCEPT !.phase = "merge"]
      BY <1>3, <3>3 DEF WriteRows, Raises, Stops
    <3>4. ASSUME ApplyMerges PROVE pull' = GroupEnds
      BY <1>3, <3>4 DEF ApplyMerges, Raises, Stops
    <3> QED
      BY <3>1, <3>2, <3>3, <3>4
  <2>2. Fields(pull)
    BY DEF GroupsInv, Shape
  <2>3. /\ Fields(pull') /\ pull'.window = pull.window /\ pull'.rest = pull.rest
        /\ pull'.deferred = pull.deferred /\ pull'.groups = pull.groups
    BY <2>1, <2>2 DEF Fields, GroupEnds
  <2> QED
    BY <1>1, <2>3, StepKeepsGroups
<1> QED
  BY <1>2, <1>3

LEMMA EndKeepsGroups == GroupsInv /\ EndWindow => GroupsInv'
<1> SUFFICES ASSUME GroupsInv, EndWindow PROVE GroupsInv'
  OBVIOUS
<1>1. head' \in Nat
  BY DEF GroupsInv, EndWindow
<1>2. CASE pull.rest = << >>
  <2>1. pull' = [NoPull EXCEPT !.outcome = "ok"]
    BY <1>2 DEF EndWindow, Stops
  <2> QED
    BY <1>1, <2>1, StopKeepsGroups
<1>3. CASE pull.rest # << >>
  <2> DEFINE w == pull.deferred \o pull.rest
  <2>1. w \in Seq(Entry)
    BY ConcatProperties DEF GroupsInv, Shape
  <2>2. pull' = [NoPull EXCEPT !.phase = "plan", !.window = w]
    BY <1>3 DEF EndWindow
  <2> HIDE DEF w
  <2>3. /\ Fields(pull') /\ pull'.window = w /\ pull'.rest = << >>
        /\ pull'.deferred = << >> /\ pull'.groups = << >>
    BY <2>2 DEF Fields, NoPull
  <2>4. << >> \in Seq(Entry)
    OBVIOUS
  <2> QED
    BY <1>1, <2>1, <2>3, <2>4, NoGroups DEF GroupsInv, Shape
<1> QED
  BY <1>2, <1>3

LEMMA OutsideKeepsGroups ==
    GroupsInv /\ (UserActs \/ OthersWrite \/ OthersDelete \/ PullFails \/ Crash) => GroupsInv'
<1> SUFFICES ASSUME GroupsInv, UserActs \/ OthersWrite \/ OthersDelete \/ PullFails \/ Crash PROVE GroupsInv'
  OBVIOUS
<1>1. head' \in Nat
  <2>1. head' = head \/ head' = head + 1
    BY DEF UserActs, OthersWrite, OthersDelete, PullFails, Crash
  <2> QED
    BY <2>1 DEF GroupsInv
<1>2. CASE pull' = NoPull
  BY <1>1, <1>2, NoPullShape DEF GroupsInv
<1>3. CASE PullFails \/ Crash
  <2>1. \E o : pull' = [NoPull EXCEPT !.outcome = o]
    BY <1>3 DEF PullFails, Crash, Stops
  <2> QED
    BY <1>1, <2>1, StopKeepsGroups
<1> QED
  BY <1>2, <1>3 DEF UserActs, OthersWrite, OthersDelete

LEMMA IdleKeepsGroups == GroupsInv /\ UNCHANGED pullVars => GroupsInv'
BY DEF GroupsInv, pullVars

(***************************************************************************)
(* Groups are apart, whatever the plans of a window are: the group that is *)
(* applied now takes no file and no row from one that is still to come     *)
(* (pull-application-groups.ts), in whatever order and however often the   *)
(* groups are prepared.                                                    *)
(***************************************************************************)
THEOREM GroupsStayApart == Spec => []GroupsAreApart
<1>1. PullInit => GroupsInv
  BY InitGroups
<1>2. GroupsInv /\ [PullNext]_pullVars => GroupsInv'
  <2> SUFFICES ASSUME GroupsInv, [PullNext]_pullVars PROVE GroupsInv'
    OBVIOUS
  <2>1. CASE UserActs \/ OthersWrite \/ OthersDelete \/ PullFails \/ Crash
    BY <2>1, OutsideKeepsGroups
  <2>2. CASE PullStart
    BY <2>2, StartKeepsGroups
  <2>3. CASE PlanWindow
    BY <2>3, PlanKeepsGroups
  <2>4. CASE PrepareAhead
    BY <2>4, PrepareKeepsGroups
  <2>5. CASE Settle
    BY <2>5, SettleKeepsGroups
  <2>6. CASE MovePaths \/ WriteFile \/ WriteRows \/ ApplyMerges
    BY <2>6, GroupStepsKeepGroups
  <2>7. CASE EndWindow
    BY <2>7, EndKeepsGroups
  <2>8. CASE UNCHANGED pullVars
    BY <2>8, IdleKeepsGroups
  <2> QED
    BY <2>1, <2>2, <2>3, <2>4, <2>5, <2>6, <2>7, <2>8 DEF PullNext
<1>3. GroupsInv => GroupsAreApart
  BY DEF GroupsInv, Shape, GoodGroups, GroupsAreApart
<1> QED
  BY <1>1, <1>2, <1>3, PTL DEF Spec

-----------------------------------------------------------------------------
(* Loops over the rows, over the files and over the conflicts. *)

\* The steps of the loops, named: what is said of Do is said of each of them.
Do(k, c, t, x) ==
    CASE k = "skip" -> SetRemote(t, x, State(x))
      [] k = "base" -> Upsert(t, x, At(c[x]), 1, {<<"base", c[x]>>}, FALSE)
      [] k = "supersede" -> Supersede(t, x, c)
      [] k = "clean" -> Clean(t, x.of)
      [] k = "drop" -> Drop(t, x)
      [] k = "release" -> ReleasePath(t, x)
      [] k = "write" -> Written(t, x)
      [] k = "clear" -> ClearLocal(ClearRemote(t, x), x)
      [] k = "back" -> Back(t, x, RowOf(c, x))
      [] k = "requeue" -> Requeued(t, x, RowOf(c, x))
      [] k = "rebase" -> Rebased(t, x)
      [] k = "copy" -> With(t, x.copy, x.text)
      [] k = "rename" -> Renamed(t, x)
      [] k = "merge" -> With(t, x.place, x.text)
      [] k = "conflict" ->
            LET found == IF x.match THEN {} ELSE PendingFor(x) \ {y.of : y \in t}
            IN t \cup {Conflict(x, d, c) : d \in found}

Loop(f, k, c, rs, s, n) == f = [i \in 0..n |-> IF i = 0 THEN rs ELSE Do(k, c, f[i - 1], s[i])]
Turns(f, k, c, rs, s, n) == f[0] = rs /\ \A i \in 1..n : f[i] = Do(k, c, f[i - 1], s[i])

LEMMA LoopExists ==
    ASSUME NEW k, NEW c, NEW rs, NEW s, NEW n \in Nat
    PROVE  \E f : Loop(f, k, c, rs, s, n)
<1> DEFINE Bad == {j \in 0..n : ~\E f : Loop(f, k, c, rs, s, j)}
<1> SUFFICES ASSUME Bad # {} PROVE FALSE
  OBVIOUS
<1>1. PICK m \in Bad : \A j \in Bad : m <= j
  <2>1. Bad \in SUBSET Nat
    OBVIOUS
  <2> HIDE DEF Bad
  <2> QED
    BY <2>1, LeastIndex
<1>2. CASE m = 0
  <2> DEFINE g == [i \in 0..0 |-> rs]
  <2>1. Loop(g, k, c, rs, s, 0)
    BY DEF Loop
  <2> QED
    BY <1>2, <2>1
<1>3. CASE m # 0
  <2>1. m \in Nat /\ m - 1 \in 0..n /\ ~(m <= m - 1)
    BY <1>3
  <2>2. PICK f : Loop(f, k, c, rs, s, m - 1)
    BY <1>1, <2>1
  <2> DEFINE v == Do(k, c, f[m - 1], s[m])
             g == [i \in 0..m |-> IF i = m THEN v ELSE f[i]]
  <2>3. 0..m = 0..(m - 1) \cup {m} /\ \A i \in 0..(m - 1) : i # m
    BY <2>1
  <2>4. \A i \in 0..(m - 1) : g[i] = f[i]
    BY <2>3
  <2>5. \A i \in 0..(m - 1) : i # 0 => i - 1 \in 0..(m - 1)
    BY <2>1
  <2>6. \A i \in 0..(m - 1) : f[i] = IF i = 0 THEN rs ELSE Do(k, c, f[i - 1], s[i])
    BY <2>2 DEF Loop
  <2>7. g[m] = v /\ g[m - 1] = f[m - 1] /\ m # 0
    BY <1>3, <2>1, <2>4
  <2>8. g = [i \in 0..m |-> g[i]]
    OBVIOUS
  <2> HIDE DEF g, v
  <2>9. ASSUME NEW i \in 0..m
        PROVE  g[i] = IF i = 0 THEN rs ELSE Do(k, c, g[i - 1], s[i])
    <3>1. CASE i = m
      BY <2>7, <3>1 DEF v
    <3>2. CASE i # m
      BY <2>3, <2>4, <2>5, <2>6, <3>2
    <3> QED
      BY <3>1, <3>2
  <2>10. Loop(g, k, c, rs, s, m)
    BY <2>8, <2>9 DEF Loop
  <2> QED
    BY <2>10
<1> QED
  BY <1>2, <1>3

LEMMA LoopTurns ==
    ASSUME NEW k, NEW c, NEW rs, NEW s, NEW n \in Nat, NEW f, Loop(f, k, c, rs, s, n)
    PROVE  Turns(f, k, c, rs, s, n)
<1>1. \A i \in 0..n : f[i] = IF i = 0 THEN rs ELSE Do(k, c, f[i - 1], s[i])
  BY DEF Loop
<1> QED
  BY <1>1 DEF Turns

\* The order in which a loop takes the members of a set: all of them.
LEMMA OrderOf ==
    ASSUME NEW S, IsFiniteSet(S), NEW s, s = SetToSeq(S)
    PROVE  /\ Len(s) \in Nat /\ \A i \in 1..Len(s) : s[i] \in S
           /\ \A x \in S : \E i \in 1..Len(s) : s[i] = x
<1> DEFINE n == Cardinality(S)
<1>1. n \in Nat /\ ExistsBijection(1..n, S)
  BY FS_CardinalityType
<1>2. PICK b : b \in Bijection(1..n, S)
  BY <1>1 DEF ExistsBijection
<1>3. b \in [1..n -> S] /\ IsInjective(b)
  BY <1>2 DEF Bijection, Injection, IsInjective
<1>4. s \in [1..n -> S] /\ IsInjective(s)
  BY <1>3 DEF SetToSeq
<1>5. Len(s) = n
  BY <1>1, <1>4
<1>6. \A x \in S : \E i \in 1..n : s[i] = x
  <2>1. s \in Injection(1..n, S)
    BY <1>4 DEF Injection, IsInjective
  <2>2. Cardinality(1..n) = n
    <3> HIDE DEF n
    <3>1. Cardinality(1..n) = IF 1 > n THEN 0 ELSE n - 1 + 1
      BY <1>1, FS_Interval
    <3> QED
      BY <1>1, <3>1
  <2>3. s \in Surjection(1..n, S)
    BY <2>1, <2>2, FS_Injection
  <2> QED
    BY <2>3 DEF Surjection
<1> HIDE DEF n
<1> QED
  BY <1>1, <1>4, <1>5, <1>6

\* The loops of the model, each with its step: what InTurn is, and that it takes such turns.
SkipAll(rs, s) ==
    (CHOOSE f : f = [i \in 0..Len(s) |-> IF i = 0 THEN rs ELSE SetRemote(f[i - 1], s[i], State(s[i]))])[Len(s)]
LEMMA SkipTurns ==
    ASSUME NEW rs, NEW s, Len(s) \in Nat
    PROVE  \E f : Turns(f, "skip", None, rs, s, Len(s)) /\ SkipAll(rs, s) = f[Len(s)]
<1> DEFINE step(t, x) == SetRemote(t, x, State(x))
           h == CHOOSE f : f = [i \in 0..Len(s) |-> IF i = 0 THEN rs ELSE step(f[i - 1], s[i])]
<1>1. SkipAll(rs, s) = h[Len(s)]
  BY DEF SkipAll
<1>2. \A t, x : Do("skip", None, t, x) = step(t, x)
  BY DEF Do
<1> HIDE DEF step
<1>3. PICK f : Loop(f, "skip", None, rs, s, Len(s))
  BY LoopExists
<1>4. f = [i \in 0..Len(s) |-> IF i = 0 THEN rs ELSE step(f[i - 1], s[i])]
  BY <1>2, <1>3 DEF Loop
<1>5. h = [i \in 0..Len(s) |-> IF i = 0 THEN rs ELSE step(h[i - 1], s[i])]
  BY <1>4
<1> HIDE DEF h
<1>6. Loop(h, "skip", None, rs, s, Len(s))
  BY <1>2, <1>5 DEF Loop
<1>7. Turns(h, "skip", None, rs, s, Len(s))
  BY <1>6, LoopTurns
<1> QED
  BY <1>1, <1>7

BaseAll(rs, s, c) ==
    (CHOOSE f : f = [i \in 0..Len(s) |-> IF i = 0 THEN rs ELSE Upsert(f[i - 1], s[i], At(c[s[i]]), 1, {<<"base", c[s[i]]>>}, FALSE)])[Len(s)]
LEMMA BaseTurns ==
    ASSUME NEW rs, NEW s, Len(s) \in Nat, NEW c
    PROVE  \E f : Turns(f, "base", c, rs, s, Len(s)) /\ BaseAll(rs, s, c) = f[Len(s)]
<1> DEFINE step(t, x) == Upsert(t, x, At(c[x]), 1, {<<"base", c[x]>>}, FALSE)
           h == CHOOSE f : f = [i \in 0..Len(s) |-> IF i = 0 THEN rs ELSE step(f[i - 1], s[i])]
<1>1. BaseAll(rs, s, c) = h[Len(s)]
  BY DEF BaseAll
<1>2. \A t, x : Do("base", c, t, x) = step(t, x)
  BY DEF Do
<1> HIDE DEF step
<1>3. PICK f : Loop(f, "base", c, rs, s, Len(s))
  BY LoopExists
<1>4. f = [i \in 0..Len(s) |-> IF i = 0 THEN rs ELSE step(f[i - 1], s[i])]
  BY <1>2, <1>3 DEF Loop
<1>5. h = [i \in 0..Len(s) |-> IF i = 0 THEN rs ELSE step(h[i - 1], s[i])]
  BY <1>4
<1> HIDE DEF h
<1>6. Loop(h, "base", c, rs, s, Len(s))
  BY <1>2, <1>5 DEF Loop
<1>7. Turns(h, "base", c, rs, s, Len(s))
  BY <1>6, LoopTurns
<1> QED
  BY <1>1, <1>7

SupersedeAll(rs, s, c) ==
    (CHOOSE f : f = [i \in 0..Len(s) |-> IF i = 0 THEN rs ELSE Supersede(f[i - 1], s[i], c)])[Len(s)]
LEMMA SupersedeTurns ==
    ASSUME NEW rs, NEW s, Len(s) \in Nat, NEW c
    PROVE  \E f : Turns(f, "supersede", c, rs, s, Len(s)) /\ SupersedeAll(rs, s, c) = f[Len(s)]
<1> DEFINE step(t, x) == Supersede(t, x, c)
           h == CHOOSE f : f = [i \in 0..Len(s) |-> IF i = 0 THEN rs ELSE step(f[i - 1], s[i])]
<1>1. SupersedeAll(rs, s, c) = h[Len(s)]
  BY DEF SupersedeAll
<1>2. \A t, x : Do("supersede", c, t, x) = step(t, x)
  BY DEF Do
<1> HIDE DEF step
<1>3. PICK f : Loop(f, "supersede", c, rs, s, Len(s))
  BY LoopExists
<1>4. f = [i \in 0..Len(s) |-> IF i = 0 THEN rs ELSE step(f[i - 1], s[i])]
  BY <1>2, <1>3 DEF Loop
<1>5. h = [i \in 0..Len(s) |-> IF i = 0 THEN rs ELSE step(h[i - 1], s[i])]
  BY <1>4
<1> HIDE DEF h
<1>6. Loop(h, "supersede", c, rs, s, Len(s))
  BY <1>2, <1>5 DEF Loop
<1>7. Turns(h, "supersede", c, rs, s, Len(s))
  BY <1>6, LoopTurns
<1> QED
  BY <1>1, <1>7

CleanAll(rs, s) ==
    (CHOOSE f : f = [i \in 0..Len(s) |-> IF i = 0 THEN rs ELSE Clean(f[i - 1], s[i].of)])[Len(s)]
LEMMA CleanTurns ==
    ASSUME NEW rs, NEW s, Len(s) \in Nat
    PROVE  \E f : Turns(f, "clean", None, rs, s, Len(s)) /\ CleanAll(rs, s) = f[Len(s)]
<1> DEFINE step(t, x) == Clean(t, x.of)
           h == CHOOSE f : f = [i \in 0..Len(s) |-> IF i = 0 THEN rs ELSE step(f[i - 1], s[i])]
<1>1. CleanAll(rs, s) = h[Len(s)]
  BY DEF CleanAll
<1>2. \A t, x : Do("clean", None, t, x) = step(t, x)
  BY DEF Do
<1> HIDE DEF step
<1>3. PICK f : Loop(f, "clean", None, rs, s, Len(s))
  BY LoopExists
<1>4. f = [i \in 0..Len(s) |-> IF i = 0 THEN rs ELSE step(f[i - 1], s[i])]
  BY <1>2, <1>3 DEF Loop
<1>5. h = [i \in 0..Len(s) |-> IF i = 0 THEN rs ELSE step(h[i - 1], s[i])]
  BY <1>4
<1> HIDE DEF h
<1>6. Loop(h, "clean", None, rs, s, Len(s))
  BY <1>2, <1>5 DEF Loop
<1>7. Turns(h, "clean", None, rs, s, Len(s))
  BY <1>6, LoopTurns
<1> QED
  BY <1>1, <1>7

DropAll(rs, s) ==
    (CHOOSE f : f = [i \in 0..Len(s) |-> IF i = 0 THEN rs ELSE Drop(f[i - 1], s[i])])[Len(s)]
LEMMA DropTurns ==
    ASSUME NEW rs, NEW s, Len(s) \in Nat
    PROVE  \E f : Turns(f, "drop", None, rs, s, Len(s)) /\ DropAll(rs, s) = f[Len(s)]
<1> DEFINE step(t, x) == Drop(t, x)
           h == CHOOSE f : f = [i \in 0..Len(s) |-> IF i = 0 THEN rs ELSE step(f[i - 1], s[i])]
<1>1. DropAll(rs, s) = h[Len(s)]
  BY DEF DropAll
<1>2. \A t, x : Do("drop", None, t, x) = step(t, x)
  BY DEF Do
<1> HIDE DEF step
<1>3. PICK f : Loop(f, "drop", None, rs, s, Len(s))
  BY LoopExists
<1>4. f = [i \in 0..Len(s) |-> IF i = 0 THEN rs ELSE step(f[i - 1], s[i])]
  BY <1>2, <1>3 DEF Loop
<1>5. h = [i \in 0..Len(s) |-> IF i = 0 THEN rs ELSE step(h[i - 1], s[i])]
  BY <1>4
<1> HIDE DEF h
<1>6. Loop(h, "drop", None, rs, s, Len(s))
  BY <1>2, <1>5 DEF Loop
<1>7. Turns(h, "drop", None, rs, s, Len(s))
  BY <1>6, LoopTurns
<1> QED
  BY <1>1, <1>7

ReleaseAll(rs, s) ==
    (CHOOSE f : f = [i \in 0..Len(s) |-> IF i = 0 THEN rs ELSE ReleasePath(f[i - 1], s[i])])[Len(s)]
LEMMA ReleaseTurns ==
    ASSUME NEW rs, NEW s, Len(s) \in Nat
    PROVE  \E f : Turns(f, "release", None, rs, s, Len(s)) /\ ReleaseAll(rs, s) = f[Len(s)]
<1> DEFINE step(t, x) == ReleasePath(t, x)
           h == CHOOSE f : f = [i \in 0..Len(s) |-> IF i = 0 THEN rs ELSE step(f[i - 1], s[i])]
<1>1. ReleaseAll(rs, s) = h[Len(s)]
  BY DEF ReleaseAll
<1>2. \A t, x : Do("release", None, t, x) = step(t, x)
  BY DEF Do
<1> HIDE DEF step
<1>3. PICK f : Loop(f, "release", None, rs, s, Len(s))
  BY LoopExists
<1>4. f = [i \in 0..Len(s) |-> IF i = 0 THEN rs ELSE step(f[i - 1], s[i])]
  BY <1>2, <1>3 DEF Loop
<1>5. h = [i \in 0..Len(s) |-> IF i = 0 THEN rs ELSE step(h[i - 1], s[i])]
  BY <1>4
<1> HIDE DEF h
<1>6. Loop(h, "release", None, rs, s, Len(s))
  BY <1>2, <1>5 DEF Loop
<1>7. Turns(h, "release", None, rs, s, Len(s))
  BY <1>6, LoopTurns
<1> QED
  BY <1>1, <1>7

WriteAll(rs, s) ==
    (CHOOSE f : f = [i \in 0..Len(s) |-> IF i = 0 THEN rs ELSE Written(f[i - 1], s[i])])[Len(s)]
LEMMA WriteTurns ==
    ASSUME NEW rs, NEW s, Len(s) \in Nat
    PROVE  \E f : Turns(f, "write", None, rs, s, Len(s)) /\ WriteAll(rs, s) = f[Len(s)]
<1> DEFINE step(t, x) == Written(t, x)
           h == CHOOSE f : f = [i \in 0..Len(s) |-> IF i = 0 THEN rs ELSE step(f[i - 1], s[i])]
<1>1. WriteAll(rs, s) = h[Len(s)]
  BY DEF WriteAll
<1>2. \A t, x : Do("write", None, t, x) = step(t, x)
  BY DEF Do
<1> HIDE DEF step
<1>3. PICK f : Loop(f, "write", None, rs, s, Len(s))
  BY LoopExists
<1>4. f = [i \in 0..Len(s) |-> IF i = 0 THEN rs ELSE step(f[i - 1], s[i])]
  BY <1>2, <1>3 DEF Loop
<1>5. h = [i \in 0..Len(s) |-> IF i = 0 THEN rs ELSE step(h[i - 1], s[i])]
  BY <1>4
<1> HIDE DEF h
<1>6. Loop(h, "write", None, rs, s, Len(s))
  BY <1>2, <1>5 DEF Loop
<1>7. Turns(h, "write", None, rs, s, Len(s))
  BY <1>6, LoopTurns
<1> QED
  BY <1>1, <1>7

ClearAll(rs, s) ==
    (CHOOSE f : f = [i \in 0..Len(s) |-> IF i = 0 THEN rs ELSE ClearLocal(ClearRemote(f[i - 1], s[i]), s[i])])[Len(s)]
LEMMA ClearTurns ==
    ASSUME NEW rs, NEW s, Len(s) \in Nat
    PROVE  \E f : Turns(f, "clear", None, rs, s, Len(s)) /\ ClearAll(rs, s) = f[Len(s)]
<1> DEFINE step(t, x) == ClearLocal(ClearRemote(t, x), x)
           h == CHOOSE f : f = [i \in 0..Len(s) |-> IF i = 0 THEN rs ELSE step(f[i - 1], s[i])]
<1>1. ClearAll(rs, s) = h[Len(s)]
  BY DEF ClearAll
<1>2. \A t, x : Do("clear", None, t, x) = step(t, x)
  BY DEF Do
<1> HIDE DEF step
<1>3. PICK f : Loop(f, "clear", None, rs, s, Len(s))
  BY LoopExists
<1>4. f = [i \in 0..Len(s) |-> IF i = 0 THEN rs ELSE step(f[i - 1], s[i])]
  BY <1>2, <1>3 DEF Loop
<1>5. h = [i \in 0..Len(s) |-> IF i = 0 THEN rs ELSE step(h[i - 1], s[i])]
  BY <1>4
<1> HIDE DEF h
<1>6. Loop(h, "clear", None, rs, s, Len(s))
  BY <1>2, <1>5 DEF Loop
<1>7. Turns(h, "clear", None, rs, s, Len(s))
  BY <1>6, LoopTurns
<1> QED
  BY <1>1, <1>7

BackAll(rs, s, c) ==
    (CHOOSE f : f = [i \in 0..Len(s) |-> IF i = 0 THEN rs ELSE Back(f[i - 1], s[i], RowOf(c, s[i]))])[Len(s)]
LEMMA BackTurns ==
    ASSUME NEW rs, NEW s, Len(s) \in Nat, NEW c
    PROVE  \E f : Turns(f, "back", c, rs, s, Len(s)) /\ BackAll(rs, s, c) = f[Len(s)]
<1> DEFINE step(t, x) == Back(t, x, RowOf(c, x))
           h == CHOOSE f : f = [i \in 0..Len(s) |-> IF i = 0 THEN rs ELSE step(f[i - 1], s[i])]
<1>1. BackAll(rs, s, c) = h[Len(s)]
  BY DEF BackAll
<1>2. \A t, x : Do("back", c, t, x) = step(t, x)
  BY DEF Do
<1> HIDE DEF step
<1>3. PICK f : Loop(f, "back", c, rs, s, Len(s))
  BY LoopExists
<1>4. f = [i \in 0..Len(s) |-> IF i = 0 THEN rs ELSE step(f[i - 1], s[i])]
  BY <1>2, <1>3 DEF Loop
<1>5. h = [i \in 0..Len(s) |-> IF i = 0 THEN rs ELSE step(h[i - 1], s[i])]
  BY <1>4
<1> HIDE DEF h
<1>6. Loop(h, "back", c, rs, s, Len(s))
  BY <1>2, <1>5 DEF Loop
<1>7. Turns(h, "back", c, rs, s, Len(s))
  BY <1>6, LoopTurns
<1> QED
  BY <1>1, <1>7

RequeueAll(rs, s, c) ==
    (CHOOSE f : f = [i \in 0..Len(s) |-> IF i = 0 THEN rs ELSE Requeued(f[i - 1], s[i], RowOf(c, s[i]))])[Len(s)]
LEMMA RequeueTurns ==
    ASSUME NEW rs, NEW s, Len(s) \in Nat, NEW c
    PROVE  \E f : Turns(f, "requeue", c, rs, s, Len(s)) /\ RequeueAll(rs, s, c) = f[Len(s)]
<1> DEFINE step(t, x) == Requeued(t, x, RowOf(c, x))
           h == CHOOSE f : f = [i \in 0..Len(s) |-> IF i = 0 THEN rs ELSE step(f[i - 1], s[i])]
<1>1. RequeueAll(rs, s, c) = h[Len(s)]
  BY DEF RequeueAll
<1>2. \A t, x : Do("requeue", c, t, x) = step(t, x)
  BY DEF Do
<1> HIDE DEF step
<1>3. PICK f : Loop(f, "requeue", c, rs, s, Len(s))
  BY LoopExists
<1>4. f = [i \in 0..Len(s) |-> IF i = 0 THEN rs ELSE step(f[i - 1], s[i])]
  BY <1>2, <1>3 DEF Loop
<1>5. h = [i \in 0..Len(s) |-> IF i = 0 THEN rs ELSE step(h[i - 1], s[i])]
  BY <1>4
<1> HIDE DEF h
<1>6. Loop(h, "requeue", c, rs, s, Len(s))
  BY <1>2, <1>5 DEF Loop
<1>7. Turns(h, "requeue", c, rs, s, Len(s))
  BY <1>6, LoopTurns
<1> QED
  BY <1>1, <1>7

RebaseAll(rs, s) ==
    (CHOOSE f : f = [i \in 0..Len(s) |-> IF i = 0 THEN rs ELSE Rebased(f[i - 1], s[i])])[Len(s)]
LEMMA RebaseTurns ==
    ASSUME NEW rs, NEW s, Len(s) \in Nat
    PROVE  \E f : Turns(f, "rebase", None, rs, s, Len(s)) /\ RebaseAll(rs, s) = f[Len(s)]
<1> DEFINE step(t, x) == Rebased(t, x)
           h == CHOOSE f : f = [i \in 0..Len(s) |-> IF i = 0 THEN rs ELSE step(f[i - 1], s[i])]
<1>1. RebaseAll(rs, s) = h[Len(s)]
  BY DEF RebaseAll
<1>2. \A t, x : Do("rebase", None, t, x) = step(t, x)
  BY DEF Do
<1> HIDE DEF step
<1>3. PICK f : Loop(f, "rebase", None, rs, s, Len(s))
  BY LoopExists
<1>4. f = [i \in 0..Len(s) |-> IF i = 0 THEN rs ELSE step(f[i - 1], s[i])]
  BY <1>2, <1>3 DEF Loop
<1>5. h = [i \in 0..Len(s) |-> IF i = 0 THEN rs ELSE step(h[i - 1], s[i])]
  BY <1>4
<1> HIDE DEF h
<1>6. Loop(h, "rebase", None, rs, s, Len(s))
  BY <1>2, <1>5 DEF Loop
<1>7. Turns(h, "rebase", None, rs, s, Len(s))
  BY <1>6, LoopTurns
<1> QED
  BY <1>1, <1>7

-----------------------------------------------------------------------------
(* Rows and tables. *)

NoRemote == [known |-> FALSE, path |-> None, rev |-> 0, hash |-> None, deleted |-> TRUE]
NoLocal == [known |-> FALSE, path |-> None, hash |-> None, deleted |-> TRUE]
NoRow == [remote |-> NoRemote, base |-> [path |-> None, rev |-> 0, hash |-> None, deleted |-> TRUE],
          local |-> NoLocal, dirty |-> FALSE, pending |-> None, remoteKey |-> None, localKey |-> None]

IsRemote(r) ==
    /\ r = [known |-> r.known, path |-> r.path, rev |-> r.rev, hash |-> r.hash, deleted |-> r.deleted]
    /\ r.known \in BOOLEAN /\ (~r.known => r = NoRemote)
IsLocal(l) ==
    /\ l = [known |-> l.known, path |-> l.path, hash |-> l.hash, deleted |-> l.deleted]
    /\ l.known \in BOOLEAN /\ (~l.known => l = NoLocal)
IsRow(w) ==
    /\ w = [remote |-> w.remote, base |-> w.base, local |-> w.local, dirty |-> w.dirty,
            pending |-> w.pending, remoteKey |-> w.remoteKey, localKey |-> w.localKey]
    /\ IsRemote(w.remote) /\ IsLocal(w.local) /\ w.dirty \in BOOLEAN
Keyed(w) == w.remoteKey = Key(w.remote) /\ w.localKey = Key(w.local)

Table(rs) ==
    /\ rs = [e \in DOMAIN rs |-> rs[e]] /\ DOMAIN rs \subseteq Entry
    /\ \A e \in DOMAIN rs : IsRow(rs[e]) /\ Keyed(rs[e])
    /\ \A d, e \in DOMAIN rs : d # e => ~Collides(rs[d], rs[e])
Kept(rs) == \A e \in DOMAIN rs : rs[e].remote.known \/ rs[e].local.known

\* Nothing but the row of e has changed.
Beside(rs, e, t) ==
    \A d \in Entry \ {e} : (d \in DOMAIN t <=> d \in DOMAIN rs) /\ (d \in DOMAIN rs => t[d] = rs[d])

LEMMA RowOfIs ==
    ASSUME NEW rs, NEW e
    PROVE  RowOf(rs, e) = IF e \in DOMAIN rs THEN rs[e] ELSE NoRow
BY DEF RowOf, NoRow, NoRemote, NoLocal

LEMMA NoRowIs == IsRow(NoRow) /\ Keyed(NoRow)
BY DEF IsRow, Keyed, NoRow, NoRemote, NoLocal, IsRemote, IsLocal, Key

LEMMA TableIsNotRaised == ASSUME NEW rs, Table(rs) PROVE rs # Raised
<1>1. DOMAIN Raised = {None}
  BY DEF Raised
<1>2. None \notin Entry
  BY PullApplyAssumption
<1> QED
  BY <1>1, <1>2 DEF Table

LEMMA RowType == ASSUME NEW rs, Table(rs), NEW e PROVE IsRow(RowOf(rs, e)) /\ Keyed(RowOf(rs, e))
BY RowOfIs, NoRowIs DEF Table

\* What becomes of a row: each of the row's operations.
LEMMA NormalizedOf ==
    ASSUME NEW w, IsRow(w), NEW n, n = Normalized(w)
    PROVE  /\ IsRow(n) /\ Keyed(n)
           /\ n.remote = w.remote /\ n.local = w.local /\ (n.dirty <=> w.dirty) /\ n.pending = w.pending
           /\ n.remoteKey = Key(w.remote) /\ n.localKey = Key(w.local)
<1> DEFINE rk == Key(w.remote)
           lk == Key(w.local)
<1>1. n = [w EXCEPT !.remoteKey = rk, !.localKey = lk]
  BY DEF Normalized
<1> HIDE DEF rk, lk
<1>2. n = [remote |-> w.remote, base |-> w.base, local |-> w.local, dirty |-> w.dirty,
           pending |-> w.pending, remoteKey |-> rk, localKey |-> lk]
  BY <1>1 DEF IsRow
<1>3. /\ n.remote = w.remote /\ n.local = w.local /\ n.dirty = w.dirty /\ n.pending = w.pending
      /\ n.base = w.base /\ n.remoteKey = rk /\ n.localKey = lk
  BY <1>2
<1>4. IsRow(n)
  BY <1>2, <1>3 DEF IsRow
<1>5. Keyed(n)
  BY <1>3 DEF Keyed, rk, lk
<1> QED
  BY <1>3, <1>4, <1>5 DEF rk, lk

LEMMA ToDirtyOf ==
    ASSUME NEW w, IsRow(w), NEW m, NEW n, n = ToDirty(w, m)
    PROVE  IsRow(n) /\ n.remote = w.remote /\ n.local = w.local /\ n.dirty /\ n.pending = m
<1>1. PICK b : n = [w EXCEPT !.dirty = TRUE, !.pending = m, !.base = b]
  BY DEF ToDirty
<1>2. n = [remote |-> w.remote, base |-> b, local |-> w.local, dirty |-> TRUE,
           pending |-> m, remoteKey |-> w.remoteKey, localKey |-> w.localKey]
  BY <1>1 DEF IsRow
<1>3. /\ n.remote = w.remote /\ n.local = w.local /\ n.dirty = TRUE /\ n.pending = m
      /\ n.base = b /\ n.remoteKey = w.remoteKey /\ n.localKey = w.localKey
  BY <1>2
<1> QED
  BY <1>2, <1>3 DEF IsRow

LEMMA ClearPendingOf ==
    ASSUME NEW w, IsRow(w), NEW n, n = ClearPending(w)
    PROVE  IsRow(n) /\ n.remote = w.remote /\ n.local = w.local /\ ~n.dirty /\ n.pending = None
<1>1. n = [remote |-> w.remote, base |-> w.base, local |-> w.local, dirty |-> FALSE,
           pending |-> None, remoteKey |-> w.remoteKey, localKey |-> w.localKey]
  BY DEF IsRow, ClearPending
<1>2. /\ n.remote = w.remote /\ n.local = w.local /\ n.dirty = FALSE /\ n.pending = None
      /\ n.base = w.base /\ n.remoteKey = w.remoteKey /\ n.localKey = w.localKey
  BY <1>1
<1> QED
  BY <1>1, <1>2 DEF IsRow

LEMMA CopyOfRemote ==
    ASSUME NEW w, IsRow(w), NEW n, n = CopyRemoteToBase(w)
    PROVE  IsRow(n) /\ n.remote = w.remote /\ n.local = w.local /\ (n.dirty <=> w.dirty) /\ n.pending = w.pending
<1>1. PICK b : n = [w EXCEPT !.base = b]
  BY DEF CopyRemoteToBase
<1>2. n = [remote |-> w.remote, base |-> b, local |-> w.local, dirty |-> w.dirty,
           pending |-> w.pending, remoteKey |-> w.remoteKey, localKey |-> w.localKey]
  BY <1>1 DEF IsRow
<1>3. /\ n.remote = w.remote /\ n.local = w.local /\ n.dirty = w.dirty /\ n.pending = w.pending
      /\ n.base = b /\ n.remoteKey = w.remoteKey /\ n.localKey = w.localKey
  BY <1>2
<1> QED
  BY <1>2, <1>3 DEF IsRow

LEMMA WithRemote ==
    ASSUME NEW w, IsRow(w), NEW r, IsRemote(r), NEW n, n = [w EXCEPT !.remote = r]
    PROVE  IsRow(n) /\ n.remote = r /\ n.local = w.local /\ (n.dirty <=> w.dirty) /\ n.pending = w.pending
<1>1. n = [remote |-> r, base |-> w.base, local |-> w.local, dirty |-> w.dirty,
           pending |-> w.pending, remoteKey |-> w.remoteKey, localKey |-> w.localKey]
  BY DEF IsRow
<1>2. /\ n.remote = r /\ n.local = w.local /\ n.dirty = w.dirty /\ n.pending = w.pending
      /\ n.base = w.base /\ n.remoteKey = w.remoteKey /\ n.localKey = w.localKey
  BY <1>1
<1> QED
  BY <1>1, <1>2 DEF IsRow

LEMMA WithLocal ==
    ASSUME NEW w, IsRow(w), NEW l, IsLocal(l), NEW n, n = [w EXCEPT !.local = l]
    PROVE  IsRow(n) /\ n.remote = w.remote /\ n.local = l /\ (n.dirty <=> w.dirty) /\ n.pending = w.pending
<1>1. n = [remote |-> w.remote, base |-> w.base, local |-> l, dirty |-> w.dirty,
           pending |-> w.pending, remoteKey |-> w.remoteKey, localKey |-> w.localKey]
  BY DEF IsRow
<1>2. /\ n.remote = w.remote /\ n.local = l /\ n.dirty = w.dirty /\ n.pending = w.pending
      /\ n.base = w.base /\ n.remoteKey = w.remoteKey /\ n.localKey = w.localKey
  BY <1>1
<1> QED
  BY <1>1, <1>2 DEF IsRow

LEMMA KnownIs ==
    ASSUME NEW r
    PROVE  /\ IsRemote(Known(r)) /\ Known(r).known /\ IsLocal(KnownLocal(r)) /\ KnownLocal(r).known
           /\ IsRemote(r) /\ r.known => Known(r) = r
BY DEF Known, KnownLocal, IsRemote, IsLocal

-----------------------------------------------------------------------------
(* What the store's calls make of a table. *)

Sets(rs, e, t, w) == Table(t) /\ Beside(rs, e, t) /\ e \in DOMAIN t /\ t[e] = Normalized(w)
Drops(rs, e, t) == Table(t) /\ Beside(rs, e, t) /\ e \notin DOMAIN t
Fits(rs, e, w) == \A d \in DOMAIN rs \ {e} : ~Collides(Normalized(w), rs[d])

LEMMA CollidesBack == ASSUME NEW v, NEW w PROVE Collides(v, w) <=> Collides(w, v)
BY DEF Collides

LEMMA PutOf ==
    ASSUME NEW rs, Table(rs), NEW e \in Entry, NEW w, IsRow(w), NEW t, t = Put(rs, e, w)
    PROVE  /\ Fits(rs, e, w) => Sets(rs, e, t, w)
           /\ ~Fits(rs, e, w) => t = Raised
<1>1. rs # Raised
  BY TableIsNotRaised
<1>2. ~Fits(rs, e, w) => t = Raised
  BY <1>1 DEF Fits, Put
<1>3. ASSUME Fits(rs, e, w)
      PROVE  Sets(rs, e, t, w)
  <2> DEFINE n == Normalized(w)
  <2>1. t = [f \in DOMAIN rs \cup {e} |-> IF f = e THEN n ELSE rs[f]]
    BY <1>1, <1>3 DEF Fits, Put
  <2>2. IsRow(n) /\ Keyed(n)
    BY NormalizedOf
  <2>3. \A d \in DOMAIN rs \ {e} : ~Collides(n, rs[d]) /\ ~Collides(rs[d], n)
    BY <1>3, CollidesBack DEF Fits
  <2> HIDE DEF n
  <2>4. DOMAIN t = DOMAIN rs \cup {e} /\ t[e] = n /\ \A d \in DOMAIN rs \ {e} : t[d] = rs[d]
    BY <2>1
  <2>5. DOMAIN t \subseteq Entry /\ t = [f \in DOMAIN t |-> t[f]]
    BY <2>1, <2>4 DEF Table
  <2>6. \A d \in DOMAIN t : IsRow(t[d]) /\ Keyed(t[d])
    BY <2>2, <2>4 DEF Table
  <2>7. ASSUME NEW c \in DOMAIN t, NEW d \in DOMAIN t, c # d
        PROVE  ~Collides(t[c], t[d])
    <3>1. CASE c = e
      BY <2>3, <2>4, <2>7, <3>1
    <3>2. CASE d = e
      BY <2>3, <2>4, <2>7, <3>2
    <3>3. CASE c # e /\ d # e
      BY <2>4, <2>7, <3>3 DEF Table
    <3> QED
      BY <3>1, <3>2, <3>3
  <2>8. Table(t)
    BY <2>5, <2>6, <2>7 DEF Table
  <2>9. Beside(rs, e, t)
    BY <2>4 DEF Beside
  <2> QED
    BY <2>4, <2>8, <2>9 DEF Sets, n
<1> QED
  BY <1>2, <1>3

LEMMA DropOf ==
    ASSUME NEW rs, Table(rs), NEW e, NEW t, t = Drop(rs, e)
    PROVE  Drops(rs, e, t)
<1>1. t = [f \in DOMAIN rs \ {e} |-> rs[f]]
  BY TableIsNotRaised DEF Drop
<1>2. DOMAIN t = DOMAIN rs \ {e} /\ \A d \in DOMAIN t : t[d] = rs[d]
  BY <1>1
<1> QED
  BY <1>1, <1>2 DEF Drops, Table, Beside

LEMMA RaisedStays ==
    ASSUME NEW e \in Entry, NEW w
    PROVE  Put(Raised, e, w) = Raised /\ Drop(Raised, e) = Raised /\ e \notin DOMAIN Raised
<1>1. DOMAIN Raised = {None}
  BY DEF Raised
<1> QED
  BY <1>1, PullApplyAssumption DEF Put, Drop

\* The keys of a row are its own, or none: no other row has them.
LEMMA OwnKeysFit ==
    ASSUME NEW rs, Table(rs), NEW e, NEW w, IsRow(w),
           Key(w.remote) \in {None, RowOf(rs, e).remoteKey}, Key(w.local) \in {None, RowOf(rs, e).localKey}
    PROVE  Fits(rs, e, w)
<1> DEFINE n == Normalized(w)
<1>1. n.remoteKey = Key(w.remote) /\ n.localKey = Key(w.local)
  BY NormalizedOf
<1> HIDE DEF n
<1>2. ASSUME NEW d \in DOMAIN rs \ {e} PROVE ~Collides(n, rs[d])
  <2>1. CASE e \in DOMAIN rs
    <3>1. ~Collides(rs[e], rs[d]) /\ RowOf(rs, e) = rs[e]
      BY <2>1, RowOfIs DEF Table
    <3> QED
      BY <1>1, <3>1 DEF Collides
  <2>2. CASE e \notin DOMAIN rs
    <3>1. RowOf(rs, e) = NoRow /\ NoRow.remoteKey = None /\ NoRow.localKey = None
      BY <2>2, RowOfIs DEF NoRow
    <3> QED
      BY <1>1, <3>1 DEF Collides
  <2> QED
    BY <2>1, <2>2
<1> QED
  BY <1>2 DEF Fits, n

\* The row that e has now.
Holds(rs, e, t, r, l, d) ==
    /\ Table(t) /\ Beside(rs, e, t) /\ e \in DOMAIN t
    /\ t[e].remote = r /\ t[e].local = l /\ (t[e].dirty <=> d)

LEMMA PutHolds ==
    ASSUME NEW rs, Table(rs), NEW e \in Entry, NEW w, IsRow(w), NEW t, t = Put(rs, e, w)
    PROVE  /\ Fits(rs, e, w) => Holds(rs, e, t, w.remote, w.local, w.dirty) /\ t[e].pending = w.pending
           /\ ~Fits(rs, e, w) => t = Raised
<1>1. Fits(rs, e, w) => Sets(rs, e, t, w)
  BY PutOf
<1>2. ~Fits(rs, e, w) => t = Raised
  BY PutOf
<1> DEFINE n == Normalized(w)
<1>3. n.remote = w.remote /\ n.local = w.local /\ (n.dirty <=> w.dirty) /\ n.pending = w.pending
  BY NormalizedOf
<1> QED
  BY <1>1, <1>2, <1>3 DEF Sets, Holds

LEMMA SetRemoteIs ==
    ASSUME NEW rs, Table(rs), NEW e \in Entry, NEW r, NEW t, t = SetRemote(rs, e, r), NEW o, o = RowOf(rs, e)
    PROVE  \E w : /\ IsRow(w) /\ t = Put(rs, e, w)
                  /\ w.remote = Known(r) /\ w.local = o.local /\ (w.dirty <=> o.dirty) /\ w.pending = o.pending
<1> DEFINE u == [o EXCEPT !.remote = Known(r)]
           v == CopyRemoteToBase(u)
<1>1. t = Put(rs, e, IF u.dirty THEN u ELSE v)
  BY DEF SetRemote
<1>2. IsRow(u) /\ u.remote = Known(r) /\ u.local = o.local /\ (u.dirty <=> o.dirty) /\ u.pending = o.pending
  <2>1. IsRow(o) /\ IsRemote(Known(r))
    BY RowType, KnownIs
  <2> QED
    BY <2>1, WithRemote
<1> HIDE DEF u
<1>3. IsRow(v) /\ v.remote = u.remote /\ v.local = u.local /\ (v.dirty <=> u.dirty) /\ v.pending = u.pending
  BY <1>2, CopyOfRemote
<1> HIDE DEF v
<1> QED
  BY <1>1, <1>2, <1>3

LEMMA ClearRemoteIs ==
    ASSUME NEW rs, Table(rs), NEW e \in Entry, NEW t, t = ClearRemote(rs, e)
    PROVE  /\ e \notin DOMAIN rs => t = rs
           /\ e \in DOMAIN rs /\ ~rs[e].local.known /\ ~rs[e].dirty => Drops(rs, e, t)
           /\ e \in DOMAIN rs /\ (rs[e].local.known \/ rs[e].dirty)
              => Holds(rs, e, t, NoRemote, rs[e].local, rs[e].dirty) /\ t[e].pending = rs[e].pending
<1>1. e \notin DOMAIN rs => t = rs
  BY DEF ClearRemote
<1>2. CASE e \in DOMAIN rs
  <2> DEFINE u == [rs[e] EXCEPT !.remote = NoRemote]
  <2>1. t = IF ~u.local.known /\ ~u.dirty THEN Drop(rs, e) ELSE Put(rs, e, u)
    <3>1. RowOf(<< >>, e).remote = NoRemote /\ RowOf(rs, e) = rs[e]
      BY <1>2, RowOfIs DEF NoRow
    <3> QED
      BY <1>2, <3>1 DEF ClearRemote
  <2>2. IsRow(u) /\ u.remote = NoRemote /\ u.local = rs[e].local /\ (u.dirty <=> rs[e].dirty)
        /\ u.pending = rs[e].pending
    <3>1. IsRow(rs[e]) /\ IsRemote(NoRemote)
      BY <1>2 DEF Table, IsRemote, NoRemote
    <3> QED
      BY <3>1, WithRemote
  <2> HIDE DEF u
  <2>3. Fits(rs, e, u)
    <3>1. Key(NoRemote) = None
      BY DEF Key, NoRemote
    <3>2. RowOf(rs, e) = rs[e] /\ rs[e].localKey = Key(rs[e].local)
      BY <1>2, RowOfIs DEF Table, Keyed
    <3> QED
      BY <2>2, <3>1, <3>2, OwnKeysFit
  <2>4. t = Put(rs, e, u) => Holds(rs, e, t, u.remote, u.local, u.dirty) /\ t[e].pending = u.pending
    BY <2>2, <2>3, PutHolds
  <2>5. t = Drop(rs, e) => Drops(rs, e, t)
    BY DropOf
  <2>6. t = Put(rs, e, u) => Holds(rs, e, t, NoRemote, rs[e].local, rs[e].dirty) /\ t[e].pending = rs[e].pending
    BY <2>2, <2>4 DEF Holds
  <2> QED
    BY <1>2, <2>1, <2>2, <2>5, <2>6
<1> QED
  BY <1>1, <1>2

LEMMA ClearLocalIs ==
    ASSUME NEW rs, Table(rs), NEW e \in Entry, NEW t, t = ClearLocal(rs, e)
    PROVE  /\ e \notin DOMAIN rs => t = rs
           /\ e \in DOMAIN rs /\ ~rs[e].remote.known /\ ~rs[e].dirty => Drops(rs, e, t)
           /\ e \in DOMAIN rs /\ (rs[e].remote.known \/ rs[e].dirty)
              => Holds(rs, e, t, rs[e].remote, NoLocal, rs[e].dirty) /\ t[e].pending = rs[e].pending
<1>1. e \notin DOMAIN rs => t = rs
  BY DEF ClearLocal
<1>2. CASE e \in DOMAIN rs
  <2> DEFINE u == [rs[e] EXCEPT !.local = NoLocal]
  <2>1. t = IF ~u.remote.known /\ ~u.dirty THEN Drop(rs, e) ELSE Put(rs, e, u)
    <3>1. RowOf(<< >>, e).local = NoLocal /\ RowOf(rs, e) = rs[e]
      BY <1>2, RowOfIs DEF NoRow
    <3> QED
      BY <1>2, <3>1 DEF ClearLocal
  <2>2. IsRow(u) /\ u.remote = rs[e].remote /\ u.local = NoLocal /\ (u.dirty <=> rs[e].dirty)
        /\ u.pending = rs[e].pending
    <3>1. IsRow(rs[e]) /\ IsLocal(NoLocal)
      BY <1>2 DEF Table, IsLocal, NoLocal
    <3> QED
      BY <3>1, WithLocal
  <2> HIDE DEF u
  <2>3. Fits(rs, e, u)
    <3>1. Key(NoLocal) = None
      BY DEF Key, NoLocal
    <3>2. RowOf(rs, e) = rs[e] /\ rs[e].remoteKey = Key(rs[e].remote)
      BY <1>2, RowOfIs DEF Table, Keyed
    <3> QED
      BY <2>2, <3>1, <3>2, OwnKeysFit
  <2>4. t = Put(rs, e, u) => Holds(rs, e, t, u.remote, u.local, u.dirty) /\ t[e].pending = u.pending
    BY <2>2, <2>3, PutHolds
  <2>5. t = Drop(rs, e) => Drops(rs, e, t)
    BY DropOf
  <2>6. t = Put(rs, e, u) => Holds(rs, e, t, rs[e].remote, NoLocal, rs[e].dirty) /\ t[e].pending = rs[e].pending
    BY <2>2, <2>4 DEF Holds
  <2> QED
    BY <1>2, <2>1, <2>2, <2>5, <2>6
<1> QED
  BY <1>1, <1>2

LEMMA CleanIs ==
    ASSUME NEW rs, Table(rs), NEW e \in Entry, NEW t, t = Clean(rs, e)
    PROVE  /\ e \notin DOMAIN rs => t = rs
           /\ e \in DOMAIN rs => Holds(rs, e, t, rs[e].remote, rs[e].local, FALSE)
<1>1. e \notin DOMAIN rs => t = rs
  BY DEF Clean
<1>2. CASE e \in DOMAIN rs
  <2> DEFINE u == ClearPending(rs[e])
  <2>1. t = Put(rs, e, u)
    BY <1>2 DEF Clean
  <2>2. IsRow(u) /\ u.remote = rs[e].remote /\ u.local = rs[e].local /\ ~u.dirty
    BY <1>2, ClearPendingOf DEF Table
  <2> HIDE DEF u
  <2>3. Fits(rs, e, u)
    <3>1. RowOf(rs, e) = rs[e] /\ rs[e].localKey = Key(rs[e].local) /\ rs[e].remoteKey = Key(rs[e].remote)
      BY <1>2, RowOfIs DEF Table, Keyed
    <3> QED
      BY <2>2, <3>1, OwnKeysFit
  <2>4. Holds(rs, e, t, u.remote, u.local, u.dirty)
    BY <2>1, <2>2, <2>3, PutHolds
  <2>5. ~t[e].dirty
    BY <2>2, <2>4 DEF Holds
  <2>6. Holds(rs, e, t, rs[e].remote, rs[e].local, FALSE)
    BY <2>2, <2>4, <2>5 DEF Holds
  <2> QED
    BY <1>2, <2>6
<1> QED
  BY <1>1, <1>2

LEMMA SetLocalIs ==
    ASSUME NEW rs, Table(rs), NEW e \in Entry, NEW place, NEW text, NEW deleted,
           NEW t, t = SetLocal(rs, e, place, text, deleted), NEW o, o = RowOf(rs, e)
    PROVE  \E w : /\ IsRow(w) /\ t = Put(rs, e, w) /\ w.remote = o.remote
                  /\ w.local = [known |-> TRUE, path |-> place, hash |-> text, deleted |-> deleted]
                  /\ (w.dirty <=> o.dirty) /\ w.pending = o.pending
<1> DEFINE l == [known |-> TRUE, path |-> place, hash |-> text, deleted |-> deleted]
           u == [o EXCEPT !.local = l]
<1>1. t = Put(rs, e, u)
  BY DEF SetLocal
<1>2. IsRow(u) /\ u.remote = o.remote /\ u.local = l /\ (u.dirty <=> o.dirty) /\ u.pending = o.pending
  <2>1. IsRow(o) /\ IsLocal(l)
    BY RowType DEF IsLocal
  <2> HIDE DEF l
  <2> QED
    BY <2>1, WithLocal
<1> HIDE DEF u
<1> QED
  BY <1>1, <1>2

LEMMA UpsertIs ==
    ASSUME NEW rs, NEW e, NEW path, NEW rev, NEW text, NEW deleted,
           NEW t, t = Upsert(rs, e, path, rev, text, deleted)
    PROVE  \E w : /\ IsRow(w) /\ t = Put(rs, e, w)
                  /\ w.remote = [known |-> TRUE, path |-> path, rev |-> rev, hash |-> text, deleted |-> deleted]
                  /\ w.local = [known |-> TRUE, path |-> path, hash |-> text, deleted |-> deleted]
                  /\ ~w.dirty /\ w.pending = None
<1> DEFINE r == [path |-> path, rev |-> rev, hash |-> text, deleted |-> deleted]
           v == [RowOf(<< >>, e) EXCEPT !.remote = Known(r), !.local = KnownLocal(r)]
           u == [NoRow EXCEPT !.remote = Known(r)]
           w == CopyRemoteToBase(v)
<1>1. t = Put(rs, e, w)
  BY DEF Upsert
<1>2. IsRemote(Known(r)) /\ IsLocal(KnownLocal(r)) /\ IsRow(NoRow)
  BY KnownIs, NoRowIs
<1>3. /\ Known(r) = [known |-> TRUE, path |-> path, rev |-> rev, hash |-> text, deleted |-> deleted]
      /\ KnownLocal(r) = [known |-> TRUE, path |-> path, hash |-> text, deleted |-> deleted]
  BY DEF Known, KnownLocal
<1>4. v = [u EXCEPT !.local = KnownLocal(r)]
  <2>1. RowOf(<< >>, e) = NoRow
    BY RowOfIs
  <2> QED
    BY <2>1 DEF NoRow
<1> HIDE DEF r
<1>5. IsRow(u) /\ u.remote = Known(r) /\ ~u.dirty /\ u.pending = None
  <2>1. ~NoRow.dirty /\ NoRow.pending = None
    BY DEF NoRow
  <2> QED
    BY <1>2, <2>1, WithRemote
<1> HIDE DEF u
<1> HIDE DEF v
<1>6. IsRow(v) /\ v.remote = u.remote /\ v.local = KnownLocal(r) /\ (v.dirty <=> u.dirty) /\ v.pending = u.pending
  BY <1>2, <1>4, <1>5, WithLocal
<1>7. IsRow(w) /\ w.remote = v.remote /\ w.local = v.local /\ (w.dirty <=> v.dirty) /\ w.pending = v.pending
  BY <1>6, CopyOfRemote
<1> HIDE DEF w
<1> QED
  BY <1>1, <1>3, <1>5, <1>6, <1>7

LEMMA QueueIs ==
    ASSUME NEW rs, Table(rs), NEW e \in Entry, NEW m, NEW t, t = Put(rs, e, ToDirty(RowOf(rs, e), m)),
           NEW o, o = RowOf(rs, e)
    PROVE  Holds(rs, e, t, o.remote, o.local, TRUE)
<1> DEFINE w == ToDirty(o, m)
<1>0. IsRow(o) /\ Keyed(o)
  BY RowType
<1>1. IsRow(w) /\ w.remote = o.remote /\ w.local = o.local /\ w.dirty
  BY <1>0, ToDirtyOf
<1>2. t = Put(rs, e, w)
  BY DEF w
<1> HIDE DEF w
<1>3. Fits(rs, e, w)
  <2>1. o.remoteKey = Key(o.remote) /\ o.localKey = Key(o.local)
    BY <1>0 DEF Keyed
  <2> QED
    BY <1>1, <2>1, OwnKeysFit
<1>4. Holds(rs, e, t, w.remote, w.local, w.dirty)
  <2>1. IsRow(w)
    BY <1>1
  <2> QED
    BY <1>2, <1>3, <2>1, PutHolds
<1>5. t[e].dirty
  BY <1>1, <1>4 DEF Holds
<1> QED
  BY <1>1, <1>4, <1>5 DEF Holds

LEMMA QueuePending ==
    ASSUME NEW rs, Table(rs), NEW e \in Entry, NEW m, NEW t, t = Put(rs, e, ToDirty(RowOf(rs, e), m))
    PROVE  t[e].pending = m
<1> DEFINE o == RowOf(rs, e)
           w == ToDirty(o, m)
<1>0. IsRow(o) /\ Keyed(o)
  BY RowType
<1>1. IsRow(w) /\ w.remote = o.remote /\ w.local = o.local /\ w.pending = m
  BY <1>0, ToDirtyOf
<1>2. t = Put(rs, e, w)
  OBVIOUS
<1> HIDE DEF w
<1>3. Key(w.remote) = o.remoteKey /\ Key(w.local) = o.localKey
  BY <1>0, <1>1 DEF Keyed
<1>4. Fits(rs, e, w)
  BY <1>1, <1>3, OwnKeysFit
<1>5. t[e].pending = w.pending
  BY <1>1, <1>2, <1>4, PutHolds
<1> QED
  BY <1>1, <1>5

-----------------------------------------------------------------------------
(* Tables in which every row has a side that is known. *)

Sound(rs) == Table(rs) /\ Kept(rs)
Standing(rs) == rs = Raised \/ Sound(rs)

\* A step of a group: no other row changes, and none gets a pending mutation.
Calm(rs, e, t) ==
    /\ Sound(t) /\ Beside(rs, e, t)
    /\ e \in DOMAIN t /\ t[e].dirty => e \in DOMAIN rs /\ rs[e].dirty

LEMMA KeptBeside ==
    ASSUME NEW rs, Sound(rs), NEW e, NEW t, Table(t), Beside(rs, e, t),
           e \in DOMAIN t => t[e].remote.known \/ t[e].local.known
    PROVE  Sound(t)
<1>1. ASSUME NEW d \in DOMAIN t PROVE t[d].remote.known \/ t[d].local.known
  <2>1. CASE d = e
    BY <2>1
  <2>2. CASE d # e
    <3>1. d \in Entry \ {e}
      BY <2>2 DEF Table
    <3>2. d \in DOMAIN rs /\ t[d] = rs[d]
      BY <3>1 DEF Beside
    <3> QED
      BY <3>2 DEF Sound, Kept
  <2> QED
    BY <2>1, <2>2
<1> QED
  BY <1>1 DEF Sound, Kept

LEMMA BesideItself == ASSUME NEW rs, NEW e PROVE Beside(rs, e, rs)
BY DEF Beside

LEMMA BesideTwice ==
    ASSUME NEW rs, NEW e, NEW t, NEW u, Beside(rs, e, t), Beside(t, e, u)
    PROVE  Beside(rs, e, u)
BY DEF Beside

LEMMA PutSound ==
    ASSUME NEW rs, Sound(rs), NEW e \in Entry, NEW w, IsRow(w), w.remote.known \/ w.local.known,
           NEW t, t = Put(rs, e, w)
    PROVE  /\ Standing(t)
           /\ t # Raised => Holds(rs, e, t, w.remote, w.local, w.dirty) /\ t[e].pending = w.pending
<1>1. Table(rs)
  BY DEF Sound
<1>2. CASE Fits(rs, e, w)
  <2>1. Holds(rs, e, t, w.remote, w.local, w.dirty) /\ t[e].pending = w.pending
    BY <1>1, <1>2, PutHolds
  <2>2. Sound(t)
    <3>1. Table(t) /\ Beside(rs, e, t) /\ (t[e].remote.known \/ t[e].local.known)
      BY <2>1 DEF Holds
    <3> QED
      BY <3>1, KeptBeside
  <2> QED
    BY <2>1, <2>2 DEF Standing
<1>3. CASE ~Fits(rs, e, w)
  BY <1>1, <1>3, PutHolds DEF Standing
<1> QED
  BY <1>2, <1>3

LEMMA SetRemoteSound ==
    ASSUME NEW rs, Standing(rs), NEW e \in Entry, NEW r
    PROVE  Standing(SetRemote(rs, e, r))
<1> DEFINE t == SetRemote(rs, e, r)
<1>1. CASE rs = Raised
  <2>1. t = Raised
    <3>1. \E w : t = Put(rs, e, w)
      BY DEF SetRemote
    <3> QED
      BY <1>1, <3>1, RaisedStays
  <2> QED
    BY <2>1 DEF Standing
<1>2. CASE Sound(rs)
  <2>1. PICK w : IsRow(w) /\ t = Put(rs, e, w) /\ w.remote = Known(r)
    BY <1>2, SetRemoteIs DEF Sound
  <2>2. w.remote.known
    BY <2>1, KnownIs
  <2> HIDE DEF t
  <2>3. Standing(t)
    BY <1>2, <2>1, <2>2, PutSound
  <2> QED
    BY <2>3 DEF t
<1> QED
  BY <1>1, <1>2 DEF Standing

LEMMA UpsertSound ==
    ASSUME NEW rs, Standing(rs), NEW e \in Entry, NEW path, NEW rev, NEW text, NEW deleted,
           NEW t, t = Upsert(rs, e, path, rev, text, deleted)
    PROVE  /\ Standing(t)
           /\ t # Raised => rs # Raised /\ Calm(rs, e, t)
           /\ rs # Raised /\ (path = None \/ deleted) => t # Raised
<1> DEFINE r == [known |-> TRUE, path |-> path, rev |-> rev, hash |-> text, deleted |-> deleted]
           l == [known |-> TRUE, path |-> path, hash |-> text, deleted |-> deleted]
<1>1. PICK w : IsRow(w) /\ t = Put(rs, e, w) /\ w.remote = r /\ w.local = l /\ ~w.dirty
  BY UpsertIs
<1>2. r.known /\ (path = None \/ deleted => Key(r) = None /\ Key(l) = None)
  BY DEF Key
<1> HIDE DEF r, l
<1>3. CASE rs = Raised
  <2>1. t = Raised
    BY <1>1, <1>3, RaisedStays
  <2> QED
    BY <1>3, <2>1 DEF Standing
<1>4. CASE Sound(rs)
  <2>1. /\ Standing(t)
        /\ t # Raised => Holds(rs, e, t, w.remote, w.local, w.dirty) /\ t[e].pending = w.pending
    BY <1>1, <1>2, <1>4, PutSound
  <2>2. ASSUME t # Raised PROVE Calm(rs, e, t)
    <3>1. Holds(rs, e, t, w.remote, w.local, w.dirty) /\ Sound(t)
      BY <2>1, <2>2 DEF Standing
    <3> QED
      BY <1>1, <3>1 DEF Holds, Calm
  <2>3. ASSUME path = None \/ deleted PROVE t # Raised
    <3>1. Key(w.remote) = None /\ Key(w.local) = None
      BY <1>1, <1>2, <2>3
    <3>2. Fits(rs, e, w)
      BY <1>1, <1>4, <3>1, OwnKeysFit DEF Sound
    <3>3. Table(t)
      BY <1>1, <1>4, <3>2, PutOf DEF Sound, Sets
    <3> QED
      BY <3>3, TableIsNotRaised
  <2>4. rs # Raised
    BY <1>4, TableIsNotRaised DEF Sound
  <2> QED
    BY <2>1, <2>2, <2>3, <2>4
<1> QED
  BY <1>3, <1>4 DEF Standing

LEMMA CleanCalm ==
    ASSUME NEW rs, Sound(rs), NEW e \in Entry, NEW t, t = Clean(rs, e)
    PROVE  /\ Calm(rs, e, t)
           /\ e \in DOMAIN t <=> e \in DOMAIN rs
           /\ e \in DOMAIN rs => t[e].remote = rs[e].remote /\ t[e].local = rs[e].local /\ ~t[e].dirty
<1>1. CASE e \notin DOMAIN rs
  <2>1. t = rs
    BY <1>1, CleanIs DEF Sound
  <2> QED
    BY <1>1, <2>1, BesideItself DEF Calm
<1>2. CASE e \in DOMAIN rs
  <2>1. Holds(rs, e, t, rs[e].remote, rs[e].local, FALSE)
    BY <1>2, CleanIs DEF Sound
  <2>2. /\ Table(t) /\ Beside(rs, e, t) /\ e \in DOMAIN t
        /\ t[e].remote = rs[e].remote /\ t[e].local = rs[e].local /\ ~t[e].dirty
    BY <2>1 DEF Holds
  <2>3. Sound(t)
    BY <1>2, <2>2, KeptBeside DEF Sound, Kept
  <2> QED
    BY <1>2, <2>2, <2>3 DEF Calm
<1> QED
  BY <1>1, <1>2

LEMMA DropCalm ==
    ASSUME NEW rs, Sound(rs), NEW e \in Entry, NEW t, t = Drop(rs, e)
    PROVE  Calm(rs, e, t)
<1>1. Drops(rs, e, t)
  BY DropOf DEF Sound
<1> QED
  BY <1>1, KeptBeside DEF Drops, Calm

LEMMA ReleaseCalm ==
    ASSUME NEW rs, Sound(rs), NEW plan, plan.entry \in Entry, NEW t, t = ReleasePath(rs, plan)
    PROVE  Calm(rs, plan.entry, t)
<1> DEFINE old == plan.existing
           e == plan.entry
<1>1. CASE t = rs
  BY <1>1, BesideItself DEF Calm
<1>2. CASE t # rs
  <2>1. t = Upsert(rs, e, None, old.rev, old.hash, old.deleted)
    BY <1>2 DEF ReleasePath
  <2>2. rs # Raised /\ Standing(rs)
    BY TableIsNotRaised DEF Sound, Standing
  <2> HIDE DEF old, e
  <2>3. e \in Entry
    BY DEF e
  <2>4. Calm(rs, e, t)
    BY <2>1, <2>2, <2>3, UpsertSound
  <2> QED
    BY <2>4 DEF e
<1> QED
  BY <1>1, <1>2

LEMMA SupersedeCalm ==
    ASSUME NEW rs, Sound(rs), NEW e \in Entry, NEW c, NEW t, t = Supersede(rs, e, c)
    PROVE  Calm(rs, e, t)
<1> DEFINE cleaned == Clean(rs, e)
           bare == ClearLocal(cleaned, e)
           r == RemoteOf(bare, e)
           s == IF e \in c THEN [State(e) EXCEPT !.path = IF server[e].deleted THEN @ ELSE None]
                ELSE [r EXCEPT !.path = IF r.deleted THEN @ ELSE None]
<1>1. t = IF e \in c \/ r.known THEN SetRemote(bare, e, s) ELSE bare
  BY DEF Supersede
<1>2. /\ Calm(rs, e, cleaned) /\ (e \in DOMAIN cleaned <=> e \in DOMAIN rs)
      /\ e \in DOMAIN rs => ~cleaned[e].dirty
  BY CleanCalm
<1> HIDE DEF cleaned
<1>3. /\ Table(bare) /\ Beside(cleaned, e, bare)
      /\ e \in DOMAIN bare => ~bare[e].dirty /\ bare[e].local = NoLocal /\ bare[e].remote.known
  <2>1. Table(cleaned)
    BY <1>2 DEF Calm, Sound
  <2>2. CASE e \notin DOMAIN cleaned
    <3>1. bare = cleaned
      BY <2>1, <2>2, ClearLocalIs
    <3> QED
      BY <2>1, <2>2, <3>1, BesideItself
  <2>3. CASE e \in DOMAIN cleaned /\ ~cleaned[e].remote.known
    <3>1. Drops(cleaned, e, bare)
      BY <1>2, <2>1, <2>3, ClearLocalIs
    <3> QED
      BY <3>1 DEF Drops
  <2>4. CASE e \in DOMAIN cleaned /\ cleaned[e].remote.known
    <3>1. Holds(cleaned, e, bare, cleaned[e].remote, NoLocal, cleaned[e].dirty)
      BY <2>1, <2>4, ClearLocalIs
    <3> QED
      BY <1>2, <2>4, <3>1 DEF Holds
  <2> QED
    BY <2>2, <2>3, <2>4
<1>4. Beside(rs, e, bare)
  BY <1>2, <1>3, BesideTwice DEF Calm
<1>5. Sound(bare)
  BY <1>3, <1>4, KeptBeside
<1>6. RowOf(bare, e) = IF e \in DOMAIN bare THEN bare[e] ELSE NoRow
  BY RowOfIs
<1> HIDE DEF bare
<1>7. CASE ~(e \in c \/ r.known)
  <2>1. t = bare
    BY <1>1, <1>7
  <2> QED
    BY <1>3, <1>4, <1>5, <2>1 DEF Calm
<1>8. CASE e \in c \/ r.known
  <2> DEFINE o == RowOf(bare, e)
  <2>1. ~o.dirty /\ o.local = NoLocal
    BY <1>3, <1>6 DEF NoRow
  <2>2. Key(Known(s)) = None
    <3>1. CASE e \in c
      <4>1. s = [State(e) EXCEPT !.path = IF server[e].deleted THEN @ ELSE None]
        BY <3>1
      <4>2. s.deleted = server[e].deleted /\ (~server[e].deleted => s.path = None)
        BY <4>1 DEF State
      <4> QED
        BY <4>2 DEF Key, Known
    <3>2. CASE e \notin c
      <4>1. s = [r EXCEPT !.path = IF r.deleted THEN @ ELSE None]
        BY <3>2
      <4>2. IsRemote(r)
        BY <1>3, RowType DEF RemoteOf, IsRow
      <4> HIDE DEF r
      <4>3. s.deleted = r.deleted /\ (~r.deleted => s.path = None)
        BY <4>1, <4>2 DEF IsRemote
      <4> QED
        BY <4>3 DEF Key, Known
    <3> QED
      BY <3>1, <3>2
  <2>3. t = SetRemote(bare, e, s)
    BY <1>1, <1>8
  <2> HIDE DEF s, r
  <2>4. PICK w : /\ IsRow(w) /\ t = Put(bare, e, w)
                 /\ w.remote = Known(s) /\ w.local = o.local /\ (w.dirty <=> o.dirty) /\ w.pending = o.pending
    BY <1>3, <2>3, SetRemoteIs
  <2> HIDE DEF o
  <2>5. Fits(bare, e, w)
    <3>1. Key(NoLocal) = None
      BY DEF Key, NoLocal
    <3> QED
      BY <1>3, <2>1, <2>2, <2>4, <3>1, OwnKeysFit
  <2>6. Holds(bare, e, t, w.remote, w.local, w.dirty)
    BY <1>3, <2>4, <2>5, PutHolds
  <2>7. Table(t) /\ Beside(bare, e, t) /\ e \in DOMAIN t /\ t[e].remote.known /\ ~t[e].dirty
    <3>1. Known(s).known
      BY KnownIs
    <3> QED
      BY <2>1, <2>4, <2>6, <3>1 DEF Holds
  <2>8. Beside(rs, e, t)
    BY <1>4, <2>7, BesideTwice
  <2> QED
    BY <2>7, <2>8, KeptBeside DEF Calm
<1> QED
  BY <1>7, <1>8

-----------------------------------------------------------------------------
(* What a group has made of the rows that were saved before it. *)

LEMMA UpTo ==
    ASSUME NEW n \in Nat, NEW P, 0 \in P, \A i \in 1..n : i - 1 \in P => i \in P
    PROVE  n \in P
<1> DEFINE Bad == {i \in 0..n : i \notin P}
<1> SUFFICES ASSUME Bad # {} PROVE FALSE
  OBVIOUS
<1>1. PICK m \in Bad : \A i \in Bad : m <= i
  <2>1. Bad \in SUBSET Nat
    OBVIOUS
  <2> HIDE DEF Bad
  <2> QED
    BY <2>1, LeastIndex
<1>2. m \in 1..n /\ m - 1 \in 0..n /\ ~(m <= m - 1)
  OBVIOUS
<1>3. m - 1 \in P
  BY <1>1, <1>2
<1> QED
  BY <1>2, <1>3

Same(t, old, d) ==
    /\ d \in DOMAIN t <=> d \in DOMAIN old
    /\ d \in DOMAIN old => t[d].remote = old[d].remote /\ t[d].local = old[d].local
NoNewPending(t, old) ==
    \A d \in Entry : d \in DOMAIN t /\ t[d].dirty => d \in DOMAIN old /\ old[d].dirty
Untouched(t, old, Q) ==
    \A d \in Entry \ Q : (d \in DOMAIN t <=> d \in DOMAIN old) /\ (d \in DOMAIN old => t[d] = old[d])

\* E: the entries whose rows the group writes, Q: those whose mutations it takes.
Behind(t, old, E, Q) ==
    /\ Sound(t)
    /\ \A d \in Entry \ E : Same(t, old, d)
    /\ NoNewPending(t, old) /\ Untouched(t, old, Q)

LEMMA BehindItself == ASSUME NEW old, Sound(old), NEW E, NEW Q PROVE Behind(old, old, E, Q)
BY DEF Behind, Same, NoNewPending, Untouched

LEMMA SameBeside ==
    ASSUME NEW rs, NEW e, NEW t, Beside(rs, e, t), NEW old, NEW d \in Entry, d # e, Same(rs, old, d)
    PROVE  Same(t, old, d)
BY DEF Beside, Same

LEMMA PendingBeside ==
    ASSUME NEW rs, NEW e \in Entry, NEW t, Beside(rs, e, t), NEW old, NoNewPending(rs, old),
           e \in DOMAIN t /\ t[e].dirty => e \in DOMAIN rs /\ rs[e].dirty
    PROVE  NoNewPending(t, old)
<1> SUFFICES ASSUME NEW d \in Entry, d \in DOMAIN t, t[d].dirty
             PROVE  d \in DOMAIN old /\ old[d].dirty
  BY DEF NoNewPending
<1>1. d \in DOMAIN rs /\ rs[d].dirty
  <2>1. CASE d = e
    BY <2>1
  <2>2. CASE d # e
    BY <2>2 DEF Beside
  <2> QED
    BY <2>1, <2>2
<1> QED
  BY <1>1 DEF NoNewPending

LEMMA UntouchedBeside ==
    ASSUME NEW rs, NEW Q, NEW e \in Q, NEW t, Beside(rs, e, t), NEW old, Untouched(rs, old, Q)
    PROVE  Untouched(t, old, Q)
<1> SUFFICES ASSUME NEW d \in Entry \ Q
             PROVE  (d \in DOMAIN t <=> d \in DOMAIN old) /\ (d \in DOMAIN old => t[d] = old[d])
  BY DEF Untouched
<1>1. d \in Entry \ {e}
  OBVIOUS
<1>2. (d \in DOMAIN t <=> d \in DOMAIN rs) /\ (d \in DOMAIN rs => t[d] = rs[d])
  BY <1>1 DEF Beside
<1>3. (d \in DOMAIN rs <=> d \in DOMAIN old) /\ (d \in DOMAIN old => rs[d] = old[d])
  BY DEF Untouched
<1> QED
  BY <1>2, <1>3

LEMMA BehindCalm ==
    ASSUME NEW rs, NEW old, NEW Q \in SUBSET Entry, NEW E \in SUBSET Q, Behind(rs, old, E, Q),
           NEW e \in E, NEW t, Calm(rs, e, t)
    PROVE  Behind(t, old, E, Q)
<1>1. Beside(rs, e, t) /\ Sound(t) /\ e \in Entry /\ e \in Q
  BY DEF Calm
<1>2. \A d \in Entry \ E : Same(t, old, d)
  BY <1>1, SameBeside DEF Behind
<1>3. NoNewPending(t, old)
  BY <1>1, PendingBeside DEF Behind, Calm
<1>4. Untouched(t, old, Q)
  BY <1>1, UntouchedBeside DEF Behind
<1> QED
  BY <1>1, <1>2, <1>3, <1>4 DEF Behind

LEMMA BehindClean ==
    ASSUME NEW rs, NEW old, NEW Q \in SUBSET Entry, NEW E \in SUBSET Q, Behind(rs, old, E, Q),
           NEW e \in Q, NEW t, t = Clean(rs, e)
    PROVE  Behind(t, old, E, Q)
<1>1. /\ Calm(rs, e, t) /\ (e \in DOMAIN t <=> e \in DOMAIN rs) /\ e \in Entry
      /\ e \in DOMAIN rs => t[e].remote = rs[e].remote /\ t[e].local = rs[e].local
  BY CleanCalm DEF Behind
<1>2. Beside(rs, e, t) /\ Sound(t)
  BY <1>1 DEF Calm
<1>3. ASSUME NEW d \in Entry \ E PROVE Same(t, old, d)
  <2>1. Same(rs, old, d)
    BY DEF Behind
  <2>2. CASE d = e
    BY <1>1, <2>1, <2>2 DEF Same
  <2>3. CASE d # e
    BY <1>2, <2>1, <2>3, SameBeside
  <2> QED
    BY <2>2, <2>3
<1>4. NoNewPending(t, old)
  BY <1>1, <1>2, PendingBeside DEF Behind, Calm
<1>5. Untouched(t, old, Q)
  BY <1>2, UntouchedBeside DEF Behind
<1> QED
  BY <1>2, <1>3, <1>4, <1>5 DEF Behind

\* The loops of a group that the store cannot refuse.
Within(k, x, E, Q) ==
    \/ k \in {"supersede", "drop"} /\ x \in E
    \/ k = "clean" /\ x.of \in Q
    \/ k = "release" /\ x.entry \in E

LEMMA BehindStep ==
    ASSUME NEW rs, NEW old, NEW Q \in SUBSET Entry, NEW E \in SUBSET Q, Behind(rs, old, E, Q),
           NEW k, NEW c, NEW x, Within(k, x, E, Q), NEW t, t = Do(k, c, rs, x)
    PROVE  Behind(t, old, E, Q)
<1>0. Sound(rs)
  BY DEF Behind
<1>1. CASE k = "supersede"
  <2>1. t = Supersede(rs, x, c) /\ x \in E
    BY <1>1 DEF Do, Within
  <2> QED
    BY <1>0, <2>1, SupersedeCalm, BehindCalm
<1>2. CASE k = "drop"
  <2>1. t = Drop(rs, x) /\ x \in E
    BY <1>2 DEF Do, Within
  <2> QED
    BY <1>0, <2>1, DropCalm, BehindCalm
<1>3. CASE k = "clean"
  <2>1. t = Clean(rs, x.of) /\ x.of \in Q
    BY <1>3 DEF Do, Within
  <2> QED
    BY <2>1, BehindClean
<1>4. CASE k = "release"
  <2>1. t = ReleasePath(rs, x) /\ x.entry \in E
    BY <1>4 DEF Do, Within
  <2>2. Calm(rs, x.entry, t)
    BY <1>0, <2>1, ReleaseCalm
  <2> QED
    BY <2>1, <2>2, BehindCalm
<1> QED
  BY <1>1, <1>2, <1>3, <1>4 DEF Within

LEMMA BehindTurns ==
    ASSUME NEW rs, NEW old, NEW Q \in SUBSET Entry, NEW E \in SUBSET Q, Behind(rs, old, E, Q),
           NEW f, NEW k, NEW c, NEW s, NEW n \in Nat, Turns(f, k, c, rs, s, n),
           \A i \in 1..n : Within(k, s[i], E, Q)
    PROVE  Behind(f[n], old, E, Q)
<1> DEFINE P == {i \in 0..n : Behind(f[i], old, E, Q)}
<1>1. 0 \in P
  BY DEF Turns
<1>2. ASSUME NEW i \in 1..n, i - 1 \in P PROVE i \in P
  <2>1. f[i] = Do(k, c, f[i - 1], s[i]) /\ Within(k, s[i], E, Q) /\ Behind(f[i - 1], old, E, Q)
    BY <1>2 DEF Turns
  <2>2. Behind(f[i], old, E, Q)
    BY <2>1, BehindStep
  <2> QED
    BY <2>2
<1> HIDE DEF P
<1>3. n \in P
  BY <1>1, <1>2, UpTo
<1> QED
  BY <1>3 DEF P

\* The rows of a group are written, or the store refuses one of them.
LEMMA BehindWritten ==
    ASSUME NEW rs, NEW old, NEW Q \in SUBSET Entry, NEW E \in SUBSET Q, Behind(rs, old, E, Q),
           NEW f, NEW c, NEW s, NEW n \in Nat, Turns(f, "write", c, rs, s, n),
           \A i \in 1..n : s[i].entry \in E
    PROVE  f[n] = Raised \/ Behind(f[n], old, E, Q)
<1> DEFINE P == {i \in 0..n : f[i] = Raised \/ Behind(f[i], old, E, Q)}
<1>1. 0 \in P
  BY DEF Turns
<1>2. ASSUME NEW i \in 1..n, i - 1 \in P PROVE i \in P
  <2> DEFINE a == f[i - 1]
             b == f[i]
             e == s[i].entry
  <2>1. b = Written(a, s[i])
    <3>1. b = Do("write", c, a, s[i])
      BY DEF Turns
    <3> QED
      BY <3>1 DEF Do
  <2>2. \E path, rev, text, deleted : b = Upsert(a, e, path, rev, text, deleted)
    BY <2>1 DEF Written
  <2>3. a = Raised \/ Behind(a, old, E, Q)
    BY <1>2
  <2>4. e \in E /\ e \in Entry
    OBVIOUS
  <2> HIDE DEF a, b, e
  <2>5. Standing(a)
    BY <2>3 DEF Standing, Behind
  <2>6. Standing(b) /\ (b # Raised => a # Raised /\ Calm(a, e, b))
    BY <2>2, <2>4, <2>5, UpsertSound
  <2>7. b = Raised \/ Behind(b, old, E, Q)
    BY <2>3, <2>4, <2>6, BehindCalm
  <2> QED
    BY <2>7 DEF b
<1> HIDE DEF P
<1>3. n \in P
  BY <1>1, <1>2, UpTo
<1> QED
  BY <1>3 DEF P

-----------------------------------------------------------------------------
(* The rows are put back. *)

\* All the paths are taken away, then each entry gets its own, then its mutation.
Blank(t, d) == d \in DOMAIN t => t[d].remote = NoRemote /\ t[d].local = NoLocal /\ t[d].dirty
Loose(t, old, Q) == Table(t) /\ NoNewPending(t, old) /\ Untouched(t, old, Q)

LEMMA LooseBeside ==
    ASSUME NEW rs, NEW old, NEW Q \in SUBSET Entry, Loose(rs, old, Q), NEW e \in Q, NEW t, Table(t),
           Beside(rs, e, t), e \in DOMAIN t /\ t[e].dirty => e \in DOMAIN old /\ old[e].dirty
    PROVE  Loose(t, old, Q)
<1>1. NoNewPending(t, old)
  <2> SUFFICES ASSUME NEW d \in Entry, d \in DOMAIN t, t[d].dirty
               PROVE  d \in DOMAIN old /\ old[d].dirty
    BY DEF NoNewPending
  <2>1. CASE d # e
    <3>1. d \in DOMAIN rs /\ rs[d].dirty
      BY <2>1 DEF Beside
    <3> QED
      BY <3>1 DEF Loose, NoNewPending
  <2> QED
    BY <2>1
<1>2. Untouched(t, old, Q)
  BY UntouchedBeside DEF Loose
<1> QED
  BY <1>1, <1>2 DEF Loose

LEMMA ClearIs ==
    ASSUME NEW rs, Table(rs), NEW e \in Entry, NEW t, t = ClearLocal(ClearRemote(rs, e), e)
    PROVE  /\ Table(t) /\ Beside(rs, e, t) /\ Blank(t, e)
           /\ e \in DOMAIN t /\ t[e].dirty => e \in DOMAIN rs /\ rs[e].dirty
<1> DEFINE m == ClearRemote(rs, e)
<1>1. CASE e \notin DOMAIN rs
  <2>1. m = rs
    BY <1>1, ClearRemoteIs
  <2>2. t = rs
    BY <1>1, <2>1, ClearLocalIs
  <2> QED
    BY <1>1, <2>2, BesideItself DEF Blank
<1>2. CASE e \in DOMAIN rs /\ ~rs[e].local.known /\ ~rs[e].dirty
  <2>1. Drops(rs, e, m)
    BY <1>2, ClearRemoteIs
  <2> HIDE DEF m
  <2>2. t = m
    <3>1. t = ClearLocal(m, e)
      BY DEF m
    <3> QED
      BY <2>1, <3>1, ClearLocalIs DEF Drops
  <2> QED
    BY <2>1, <2>2 DEF Drops, Blank
<1>3. CASE e \in DOMAIN rs /\ (rs[e].local.known \/ rs[e].dirty)
  <2>1. Holds(rs, e, m, NoRemote, rs[e].local, rs[e].dirty)
    BY <1>3, ClearRemoteIs
  <2>2. t = ClearLocal(m, e)
    OBVIOUS
  <2> HIDE DEF m
  <2>3. /\ Table(m) /\ Beside(rs, e, m) /\ e \in DOMAIN m
        /\ m[e].remote = NoRemote /\ (m[e].dirty <=> rs[e].dirty) /\ ~NoRemote.known
    BY <2>1 DEF Holds, NoRemote
  <2>4. CASE ~m[e].dirty
    <3>1. Drops(m, e, t)
      BY <2>2, <2>3, <2>4, ClearLocalIs
    <3>2. Beside(rs, e, t)
      BY <2>3, <3>1, BesideTwice DEF Drops
    <3> QED
      BY <3>1, <3>2 DEF Drops, Blank
  <2>5. CASE m[e].dirty
    <3>1. Holds(m, e, t, m[e].remote, NoLocal, m[e].dirty)
      BY <2>2, <2>3, <2>5, ClearLocalIs
    <3>2. Table(t) /\ Beside(m, e, t) /\ t[e].remote = NoRemote /\ t[e].local = NoLocal /\ t[e].dirty
      BY <2>3, <2>5, <3>1 DEF Holds
    <3>3. Beside(rs, e, t)
      BY <2>3, <3>2, BesideTwice
    <3> QED
      BY <1>3, <2>3, <2>5, <3>2, <3>3 DEF Blank
  <2> QED
    BY <2>4, <2>5
<1> QED
  BY <1>1, <1>2, <1>3

LEMMA BlankBeside ==
    ASSUME NEW rs, NEW e, NEW t, Beside(rs, e, t), NEW d \in Entry, d # e, Blank(rs, d)
    PROVE  Blank(t, d)
BY DEF Beside, Blank

\* A loop takes all the members of a set.
Covers(s, n, E) == (\A i \in 1..n : s[i] \in E) /\ \A x \in E : \E i \in 1..n : s[i] = x
Cleared(t, old, E, Q) ==
    /\ Loose(t, old, Q)
    /\ \A d \in Entry \ E : Same(t, old, d)
    /\ \A d \in E : Blank(t, d)

LEMMA ClearedRows ==
    ASSUME NEW rs, NEW old, NEW Q \in SUBSET Entry, NEW E \in SUBSET Q, Behind(rs, old, E, Q),
           NEW f, NEW c, NEW s, NEW n \in Nat, Turns(f, "clear", c, rs, s, n), Covers(s, n, E)
    PROVE  Cleared(f[n], old, E, Q)
<1> USE DEF Covers, Cleared
<1> DEFINE P == {i \in 0..n : /\ Loose(f[i], old, Q)
                              /\ \A d \in Entry \ E : Same(f[i], old, d)
                              /\ \A j \in 1..i : Blank(f[i], s[j])}
<1>1. 0 \in P
  BY DEF Turns, Behind, Loose, Sound
<1>2. ASSUME NEW i \in 1..n, i - 1 \in P PROVE i \in P
  <2> DEFINE a == f[i - 1]
             b == f[i]
             e == s[i]
  <2>1. b = ClearLocal(ClearRemote(a, e), e)
    <3>1. b = Do("clear", c, a, e)
      BY DEF Turns
    <3> QED
      BY <3>1 DEF Do
  <2>2. /\ Loose(a, old, Q) /\ \A d \in Entry \ E : Same(a, old, d)
        /\ \A j \in 1..(i - 1) : Blank(a, s[j])
    BY <1>2
  <2>3. e \in E /\ e \in Q /\ e \in Entry
    OBVIOUS
  <2>4. \A j \in 1..i : j = i \/ j \in 1..(i - 1)
    OBVIOUS
  <2>5. \A j \in 1..i : s[j] \in Entry
    OBVIOUS
  <2> HIDE DEF a, b
  <2>6. /\ Table(b) /\ Beside(a, e, b) /\ Blank(b, e)
        /\ e \in DOMAIN b /\ b[e].dirty => e \in DOMAIN a /\ a[e].dirty
    BY <2>1, <2>2, <2>3, ClearIs DEF Loose
  <2>7. e \in DOMAIN b /\ b[e].dirty => e \in DOMAIN old /\ old[e].dirty
    BY <2>2, <2>3, <2>6 DEF Loose, NoNewPending
  <2>8. Loose(b, old, Q)
    BY <2>2, <2>3, <2>6, <2>7, LooseBeside
  <2>9. \A d \in Entry \ E : Same(b, old, d)
    BY <2>2, <2>3, <2>6, SameBeside
  <2>10. ASSUME NEW j \in 1..i PROVE Blank(b, s[j])
    <3>1. CASE s[j] = e
      BY <2>6, <3>1
    <3>2. CASE s[j] # e
      <4>1. Blank(a, s[j])
        BY <2>2, <2>4, <3>2
      <4> QED
        BY <2>5, <2>6, <3>2, <4>1, BlankBeside
    <3> QED
      BY <3>1, <3>2
  <2> QED
    BY <2>8, <2>9, <2>10 DEF b
<1> HIDE DEF P
<1>3. n \in P
  BY <1>1, <1>2, UpTo
<1> QED
  BY <1>3 DEF P

\* The paths that the entry had are free.
LEMMA OldKeysFit ==
    ASSUME NEW old, Table(old), NEW rs, Table(rs), NEW e \in Entry,
           \A d \in Entry \ {e} : Same(rs, old, d) \/ Blank(rs, d),
           NEW w, IsRow(w), Key(w.remote) \in {None, RowOf(old, e).remoteKey},
           Key(w.local) \in {None, RowOf(old, e).localKey}
    PROVE  Fits(rs, e, w)
<1> DEFINE n == Normalized(w)
<1>1. Fits(old, e, w)
  BY OwnKeysFit
<1>2. Key(NoRemote) = None /\ Key(NoLocal) = None
  BY DEF Key, NoRemote, NoLocal
<1>3. ASSUME NEW d \in DOMAIN rs \ {e} PROVE ~Collides(n, rs[d])
  <2>1. d \in Entry \ {e} /\ Keyed(rs[d])
    BY DEF Table
  <2>2. CASE Blank(rs, d)
    <3>1. rs[d].remoteKey = None /\ rs[d].localKey = None
      BY <1>2, <2>1, <2>2 DEF Blank, Keyed
    <3> HIDE DEF n
    <3> QED
      BY <3>1 DEF Collides
  <2>3. CASE Same(rs, old, d)
    <3>1. d \in DOMAIN old /\ Keyed(old[d]) /\ rs[d].remote = old[d].remote /\ rs[d].local = old[d].local
      BY <2>3 DEF Same, Table
    <3>2. rs[d].remoteKey = old[d].remoteKey /\ rs[d].localKey = old[d].localKey
      BY <2>1, <3>1 DEF Keyed
    <3>3. ~Collides(n, old[d])
      BY <1>1, <3>1 DEF Fits
    <3> HIDE DEF n
    <3> QED
      BY <3>2, <3>3 DEF Collides
  <2> QED
    BY <2>1, <2>2, <2>3
<1> QED
  BY <1>3 DEF Fits

\* What is put back of an entry: the side that the server holds, then the local one.
LEMMA RemoteIsBack ==
    ASSUME NEW old, Sound(old), NEW e \in DOMAIN old, NEW rs, Table(rs),
           \A d \in Entry : Same(rs, old, d) \/ Blank(rs, d),
           NEW t, t = IF old[e].remote.known THEN SetRemote(rs, e, old[e].remote) ELSE ClearRemote(rs, e)
    PROVE  /\ Table(t) /\ Beside(rs, e, t) /\ RowOf(t, e).remote = old[e].remote
           /\ e \in DOMAIN t /\ t[e].dirty => e \in DOMAIN rs /\ rs[e].dirty
<1> DEFINE o == old[e]
           now == RowOf(rs, e)
<1>1. e \in Entry /\ IsRow(o) /\ Keyed(o) /\ RowOf(old, e) = o /\ Table(old)
  BY RowOfIs DEF Sound, Table
<1>2. CASE o.remote.known
  <2>1. t = SetRemote(rs, e, o.remote)
    BY <1>2
  <2>2. Known(o.remote) = o.remote
    BY <1>1, <1>2, KnownIs DEF IsRow
  <2>3. PICK w : /\ IsRow(w) /\ t = Put(rs, e, w)
                 /\ w.remote = o.remote /\ w.local = now.local /\ (w.dirty <=> now.dirty)
    BY <1>1, <2>1, <2>2, SetRemoteIs
  <2>4. now.local \in {NoLocal, o.local} /\ (now.dirty => e \in DOMAIN rs /\ rs[e].dirty)
    <3>1. now = IF e \in DOMAIN rs THEN rs[e] ELSE NoRow
      BY RowOfIs
    <3>2. NoRow.local = NoLocal /\ ~NoRow.dirty
      BY DEF NoRow
    <3>3. e \in DOMAIN rs => rs[e].local \in {NoLocal, o.local}
      BY <1>1 DEF Same, Blank
    <3> QED
      BY <3>1, <3>2, <3>3
  <2> HIDE DEF now
  <2>5. Key(NoLocal) = None
    BY DEF Key, NoLocal
  <2>6. Key(w.remote) = o.remoteKey /\ Key(w.local) \in {None, o.localKey}
    BY <1>1, <2>3, <2>4, <2>5 DEF Keyed
  <2> HIDE DEF o
  <2>7. Fits(rs, e, w)
    BY <1>1, <2>3, <2>6, OldKeysFit
  <2>8. Holds(rs, e, t, w.remote, w.local, w.dirty)
    BY <1>1, <2>3, <2>7, PutHolds
  <2>9. Table(t) /\ Beside(rs, e, t) /\ e \in DOMAIN t /\ t[e].remote = o.remote /\ (t[e].dirty <=> now.dirty)
    BY <2>3, <2>8 DEF Holds
  <2>10. RowOf(t, e) = t[e]
    BY <2>9, RowOfIs
  <2> QED
    BY <2>4, <2>9, <2>10 DEF o
<1>3. CASE ~o.remote.known
  <2>1. t = ClearRemote(rs, e) /\ o.remote = NoRemote
    BY <1>1, <1>3 DEF IsRow, IsRemote
  <2>2. RowOf(t, e) = IF e \in DOMAIN t THEN t[e] ELSE NoRow
    BY RowOfIs
  <2>3. NoRow.remote = NoRemote
    BY DEF NoRow
  <2>4. CASE e \notin DOMAIN rs
    <3>1. t = rs
      BY <1>1, <2>1, <2>4, ClearRemoteIs
    <3> QED
      BY <2>1, <2>2, <2>3, <2>4, <3>1, BesideItself
  <2>5. CASE e \in DOMAIN rs /\ ~rs[e].local.known /\ ~rs[e].dirty
    <3>1. Drops(rs, e, t)
      BY <1>1, <2>1, <2>5, ClearRemoteIs
    <3> QED
      BY <2>1, <2>2, <2>3, <3>1 DEF Drops
  <2>6. CASE e \in DOMAIN rs /\ (rs[e].local.known \/ rs[e].dirty)
    <3>1. Holds(rs, e, t, NoRemote, rs[e].local, rs[e].dirty)
      BY <1>1, <2>1, <2>6, ClearRemoteIs
    <3> QED
      BY <2>1, <2>2, <2>6, <3>1 DEF Holds
  <2> QED
    BY <2>4, <2>5, <2>6
<1> QED
  BY <1>2, <1>3

LEMMA LocalIsBack ==
    ASSUME NEW old, Sound(old), NEW e \in DOMAIN old, NEW rs, Table(rs),
           \A d \in Entry \ {e} : Same(rs, old, d) \/ Blank(rs, d), RowOf(rs, e).remote = old[e].remote,
           NEW t, t = IF old[e].local.known
                      THEN SetLocal(rs, e, old[e].local.path, old[e].local.hash, old[e].local.deleted)
                      ELSE ClearLocal(rs, e)
    PROVE  Holds(rs, e, t, old[e].remote, old[e].local, RowOf(rs, e).dirty)
<1> DEFINE o == old[e]
           now == RowOf(rs, e)
<1>1. e \in Entry /\ IsRow(o) /\ Keyed(o) /\ RowOf(old, e) = o /\ Table(old)
  BY RowOfIs DEF Sound, Table
<1>2. CASE o.local.known
  <2>1. t = SetLocal(rs, e, o.local.path, o.local.hash, o.local.deleted)
    BY <1>2
  <2>2. o.local = [known |-> TRUE, path |-> o.local.path, hash |-> o.local.hash, deleted |-> o.local.deleted]
    <3>1. /\ o.local.known \in BOOLEAN
          /\ o.local = [known |-> o.local.known, path |-> o.local.path, hash |-> o.local.hash,
                        deleted |-> o.local.deleted]
      BY <1>1 DEF IsRow, IsLocal
    <3>2. o.local.known = TRUE
      BY <1>2, <3>1
    <3> QED
      BY <3>1, <3>2
  <2>3. PICK w : /\ IsRow(w) /\ t = Put(rs, e, w) /\ w.remote = now.remote
                 /\ w.local = [known |-> TRUE, path |-> o.local.path, hash |-> o.local.hash, deleted |-> o.local.deleted]
                 /\ (w.dirty <=> now.dirty)
    BY <1>1, <2>1, SetLocalIs
  <2>4. w.remote = o.remote /\ w.local = o.local
    BY <2>2, <2>3
  <2> HIDE DEF now
  <2>5. Key(w.remote) = o.remoteKey /\ Key(w.local) = o.localKey
    BY <1>1, <2>4 DEF Keyed
  <2> HIDE DEF o
  <2>6. Fits(rs, e, w)
    BY <1>1, <2>3, <2>5, OldKeysFit
  <2>7. Holds(rs, e, t, w.remote, w.local, w.dirty)
    BY <1>1, <2>3, <2>6, PutHolds
  <2> QED
    BY <2>3, <2>4, <2>7 DEF Holds, o, now
<1>3. CASE ~o.local.known
  <2>1. t = ClearLocal(rs, e) /\ o.local = NoLocal /\ o.remote.known
    BY <1>1, <1>3 DEF IsRow, IsLocal, Sound, Kept
  <2>2. now = IF e \in DOMAIN rs THEN rs[e] ELSE NoRow
    BY RowOfIs
  <2>3. ~NoRow.remote.known
    BY DEF NoRow, NoRemote
  <2>4. e \in DOMAIN rs /\ now = rs[e] /\ rs[e].remote = o.remote
    BY <2>1, <2>2, <2>3
  <2>5. Holds(rs, e, t, rs[e].remote, NoLocal, rs[e].dirty)
    BY <1>1, <2>1, <2>4, ClearLocalIs
  <2> HIDE DEF o, now
  <2>6. Holds(rs, e, t, o.remote, o.local, now.dirty)
    BY <2>1, <2>4, <2>5
  <2> QED
    BY <2>6 DEF o, now
<1> QED
  BY <1>2, <1>3

LEMMA BackIs ==
    ASSUME NEW old, Sound(old), NEW Q, NEW rs, Loose(rs, old, Q),
           \A d \in Entry : Same(rs, old, d) \/ Blank(rs, d),
           NEW e \in Entry, NEW t, t = Back(rs, e, RowOf(old, e))
    PROVE  /\ Table(t) /\ Beside(rs, e, t) /\ Same(t, old, e)
           /\ e \in DOMAIN t /\ t[e].dirty => e \in DOMAIN rs /\ rs[e].dirty
<1> DEFINE o == RowOf(old, e)
           r == IF o.remote.known THEN SetRemote(rs, e, o.remote) ELSE ClearRemote(rs, e)
           l == IF o.local.known THEN SetLocal(r, e, o.local.path, o.local.hash, o.local.deleted)
                ELSE ClearLocal(r, e)
<1>0. t = IF ~o.remote.known /\ ~o.local.known /\ ~RowOf(l, e).dirty THEN Drop(l, e) ELSE l
  BY DEF Back
<1>1. Table(rs) /\ Table(old)
  BY DEF Loose, Sound
<1>2. CASE e \in DOMAIN old
  <2>1. o = old[e] /\ (o.remote.known \/ o.local.known)
    BY <1>2, RowOfIs DEF Sound, Kept
  <2>2. /\ Table(r) /\ Beside(rs, e, r) /\ RowOf(r, e).remote = old[e].remote
        /\ e \in DOMAIN r /\ r[e].dirty => e \in DOMAIN rs /\ rs[e].dirty
    BY <1>1, <1>2, <2>1, RemoteIsBack
  <2>3. l = IF old[e].local.known
            THEN SetLocal(r, e, old[e].local.path, old[e].local.hash, old[e].local.deleted)
            ELSE ClearLocal(r, e)
    BY <2>1
  <2>4. t = l
    BY <1>0, <2>1
  <2> HIDE DEF r, l
  <2>5. \A d \in Entry \ {e} : Same(r, old, d) \/ Blank(r, d)
    BY <2>2, SameBeside, BlankBeside
  <2>6. Holds(r, e, l, old[e].remote, old[e].local, RowOf(r, e).dirty)
    BY <1>2, <2>2, <2>3, <2>5, LocalIsBack
  <2>7. RowOf(r, e).dirty => e \in DOMAIN r /\ r[e].dirty
    <3>1. ~NoRow.dirty
      BY DEF NoRow
    <3> QED
      BY <3>1, RowOfIs
  <2>8. /\ Table(l) /\ Beside(r, e, l) /\ e \in DOMAIN l
        /\ l[e].remote = old[e].remote /\ l[e].local = old[e].local /\ (l[e].dirty <=> RowOf(r, e).dirty)
    BY <2>6 DEF Holds
  <2>9. Beside(rs, e, l)
    BY <2>2, <2>8, BesideTwice
  <2> QED
    BY <1>2, <2>2, <2>4, <2>7, <2>8, <2>9 DEF Same
<1>3. CASE e \notin DOMAIN old
  <2>1. o = NoRow
    BY <1>3, RowOfIs
  <2>2. ~o.remote.known /\ ~o.local.known /\ ~NoRow.dirty
    BY <2>1 DEF NoRow, NoRemote, NoLocal
  <2>3. e \notin DOMAIN rs
    BY <1>3 DEF Loose, NoNewPending, Same, Blank
  <2>4. r = rs
    BY <1>1, <2>2, <2>3, ClearRemoteIs
  <2>5. l = rs
    BY <1>1, <2>2, <2>3, <2>4, ClearLocalIs
  <2>6. RowOf(rs, e) = NoRow
    BY <2>3, RowOfIs
  <2>7. t = Drop(rs, e)
    BY <1>0, <2>2, <2>5, <2>6
  <2>8. Drops(rs, e, t)
    BY <1>1, <2>7, DropOf
  <2> QED
    BY <1>3, <2>8 DEF Drops, Same
<1> QED
  BY <1>2, <1>3

AllSame(t, old) == \A d \in Entry : Same(t, old, d)

LEMMA RowsBack ==
    ASSUME NEW old, Sound(old), NEW Q \in SUBSET Entry, NEW E \in SUBSET Q,
           NEW rs, Cleared(rs, old, E, Q),
           NEW f, NEW s, NEW n \in Nat, Turns(f, "back", old, rs, s, n), Covers(s, n, E)
    PROVE  Loose(f[n], old, Q) /\ AllSame(f[n], old)
<1> USE DEF Covers, Cleared
<1> DEFINE P == {i \in 0..n : /\ Loose(f[i], old, Q)
                              /\ \A d \in Entry : Same(f[i], old, d) \/ Blank(f[i], d)
                              /\ \A d \in Entry \ E : Same(f[i], old, d)
                              /\ \A j \in 1..i : Same(f[i], old, s[j])}
<1>1. 0 \in P
  <2>1. f[0] = rs
    BY DEF Turns
  <2> QED
    BY <2>1
<1>2. ASSUME NEW i \in 1..n, i - 1 \in P PROVE i \in P
  <2> DEFINE a == f[i - 1]
             b == f[i]
             e == s[i]
  <2>1. b = Back(a, e, RowOf(old, e))
    <3>1. b = Do("back", old, a, e)
      BY DEF Turns
    <3> QED
      BY <3>1 DEF Do
  <2>2. /\ Loose(a, old, Q) /\ \A d \in Entry \ E : Same(a, old, d)
        /\ \A d \in Entry : Same(a, old, d) \/ Blank(a, d)
        /\ \A j \in 1..(i - 1) : Same(a, old, s[j])
    BY <1>2
  <2>3. e \in E /\ e \in Q /\ e \in Entry
    OBVIOUS
  <2>4. \A j \in 1..i : (j = i \/ j \in 1..(i - 1)) /\ s[j] \in Entry
    OBVIOUS
  <2> HIDE DEF a, b
  <2>5. /\ Table(b) /\ Beside(a, e, b) /\ Same(b, old, e)
        /\ e \in DOMAIN b /\ b[e].dirty => e \in DOMAIN a /\ a[e].dirty
    BY <2>1, <2>2, <2>3, BackIs
  <2>6. e \in DOMAIN b /\ b[e].dirty => e \in DOMAIN old /\ old[e].dirty
    BY <2>2, <2>3, <2>5 DEF Loose, NoNewPending
  <2>7. Loose(b, old, Q)
    BY <2>2, <2>3, <2>5, <2>6, LooseBeside
  <2>8. ASSUME NEW d \in Entry, Same(a, old, d) PROVE Same(b, old, d)
    <3>1. CASE d = e
      BY <2>5, <3>1
    <3>2. CASE d # e
      BY <2>5, <2>8, <3>2, SameBeside
    <3> QED
      BY <3>1, <3>2
  <2>9. ASSUME NEW d \in Entry PROVE Same(b, old, d) \/ Blank(b, d)
    <3>1. CASE d = e
      BY <2>5, <3>1
    <3>2. CASE d # e
      BY <2>2, <2>5, <2>8, <3>2, BlankBeside
    <3> QED
      BY <3>1, <3>2
  <2>10. \A j \in 1..i : Same(b, old, s[j])
    BY <2>2, <2>4, <2>5, <2>8
  <2> QED
    BY <2>2, <2>7, <2>8, <2>9, <2>10 DEF b
<1> HIDE DEF P
<1>3. n \in P
  BY <1>1, <1>2, UpTo
<1> QED
  BY <1>3 DEF P, AllSame

\* The mutation of an entry is queued again, or is not there again.
Waits(t, old, d) == d \in DOMAIN t => Pending(t[d]) = Pending(old[d])
AllWait(t, old, Q) == \A d \in Q : Waits(t, old, d)

LEMMA RequeueIs ==
    ASSUME NEW old, NEW rs, Table(rs), NEW e \in Entry, Same(rs, old, e),
           NEW t, t = Requeued(rs, e, RowOf(old, e))
    PROVE  /\ Table(t) /\ Beside(rs, e, t) /\ Same(t, old, e) /\ Waits(t, old, e)
           /\ e \in DOMAIN t /\ t[e].dirty => e \in DOMAIN old /\ old[e].dirty
<1> DEFINE o == RowOf(old, e)
           clean == Clean(rs, e)
<1>1. t = IF o.dirty THEN Put(clean, e, ToDirty(RowOf(clean, e), o.pending)) ELSE clean
  BY DEF Requeued
<1>2. CASE e \notin DOMAIN rs
  <2>1. e \notin DOMAIN old
    BY <1>2 DEF Same
  <2>2. ~o.dirty
    <3>1. ~NoRow.dirty
      BY DEF NoRow
    <3> QED
      BY <2>1, <3>1, RowOfIs
  <2>3. clean = rs
    BY <1>2, CleanIs
  <2>4. t = rs
    BY <1>1, <2>2, <2>3
  <2> QED
    BY <1>2, <2>1, <2>4, BesideItself DEF Same, Waits
<1>3. CASE e \in DOMAIN rs
  <2>1. e \in DOMAIN old /\ o = old[e] /\ rs[e].remote = old[e].remote /\ rs[e].local = old[e].local
    BY <1>3, RowOfIs DEF Same
  <2>2. Holds(rs, e, clean, rs[e].remote, rs[e].local, FALSE)
    BY <1>3, CleanIs
  <2> HIDE DEF clean
  <2>3. /\ Table(clean) /\ Beside(rs, e, clean) /\ e \in DOMAIN clean
        /\ clean[e].remote = old[e].remote /\ clean[e].local = old[e].local /\ ~clean[e].dirty
    BY <2>1, <2>2 DEF Holds
  <2>4. CASE ~o.dirty
    <3>1. t = clean /\ ~old[e].dirty
      BY <1>1, <2>1, <2>4
    <3>2. Pending(clean[e]) = None /\ Pending(old[e]) = None
      BY <2>3, <3>1 DEF Pending
    <3> QED
      BY <2>1, <2>3, <3>1, <3>2 DEF Same, Waits
  <2>5. CASE o.dirty
    <3> DEFINE now == RowOf(clean, e)
               m == o.pending
    <3>1. t = Put(clean, e, ToDirty(now, m))
      BY <1>1, <2>5
    <3>2. now = clean[e]
      BY <2>3, RowOfIs
    <3>3. m = old[e].pending /\ old[e].dirty
      BY <2>1, <2>5
    <3> HIDE DEF m
    <3>4. Holds(clean, e, t, now.remote, now.local, TRUE) /\ t[e].pending = m
      <4>1. Table(clean) /\ now = RowOf(clean, e) /\ t = Put(clean, e, ToDirty(RowOf(clean, e), m))
        BY <2>3, <3>1
      <4> HIDE DEF now
      <4>2. Holds(clean, e, t, now.remote, now.local, TRUE)
        BY <4>1, QueueIs
      <4>3. t[e].pending = m
        BY <4>1, QueuePending
      <4> QED
        BY <4>2, <4>3
    <3>5. /\ Table(t) /\ Beside(clean, e, t) /\ e \in DOMAIN t /\ t[e].dirty
          /\ t[e].remote = old[e].remote /\ t[e].local = old[e].local
      BY <2>3, <3>2, <3>4 DEF Holds
    <3>6. Pending(t[e]) = t[e].pending /\ Pending(old[e]) = old[e].pending
      BY <3>3, <3>5 DEF Pending
    <3>7. Beside(rs, e, t)
      BY <2>3, <3>5, BesideTwice
    <3> QED
      BY <2>1, <3>3, <3>4, <3>5, <3>6, <3>7 DEF Same, Waits
  <2> QED
    BY <2>4, <2>5
<1> QED
  BY <1>2, <1>3

LEMMA RowsRequeued ==
    ASSUME NEW old, NEW Q \in SUBSET Entry, NEW rs, Loose(rs, old, Q), AllSame(rs, old),
           NEW f, NEW s, NEW n \in Nat, Turns(f, "requeue", old, rs, s, n), Covers(s, n, Q)
    PROVE  Loose(f[n], old, Q) /\ AllSame(f[n], old) /\ AllWait(f[n], old, Q)
<1> USE DEF Covers, AllSame, AllWait
<1> DEFINE P == {i \in 0..n : /\ Loose(f[i], old, Q)
                              /\ \A d \in Entry : Same(f[i], old, d)
                              /\ \A j \in 1..i : Waits(f[i], old, s[j])}
<1>1. 0 \in P
  <2>1. f[0] = rs
    BY DEF Turns
  <2> QED
    BY <2>1
<1>2. ASSUME NEW i \in 1..n, i - 1 \in P PROVE i \in P
  <2> DEFINE a == f[i - 1]
             b == f[i]
             e == s[i]
  <2>1. b = Requeued(a, e, RowOf(old, e))
    <3>1. b = Do("requeue", old, a, e)
      BY DEF Turns
    <3> QED
      BY <3>1 DEF Do
  <2>2. /\ Loose(a, old, Q) /\ \A d \in Entry : Same(a, old, d)
        /\ \A j \in 1..(i - 1) : Waits(a, old, s[j])
    BY <1>2
  <2>3. e \in Q /\ e \in Entry
    OBVIOUS
  <2>4. \A j \in 1..i : (j = i \/ j \in 1..(i - 1)) /\ s[j] \in Entry
    OBVIOUS
  <2> HIDE DEF a, b
  <2>5. /\ Table(b) /\ Beside(a, e, b) /\ Same(b, old, e) /\ Waits(b, old, e)
        /\ e \in DOMAIN b /\ b[e].dirty => e \in DOMAIN old /\ old[e].dirty
    <3>1. Table(a) /\ Same(a, old, e)
      BY <2>2, <2>3 DEF Loose
    <3> HIDE DEF e
    <3> QED
      BY <2>1, <2>3, <3>1, RequeueIs
  <2>6. Loose(b, old, Q)
    BY <2>2, <2>3, <2>5, LooseBeside
  <2>7. ASSUME NEW d \in Entry PROVE Same(b, old, d)
    <3>1. CASE d = e
      BY <2>5, <3>1
    <3>2. CASE d # e
      BY <2>2, <2>5, <3>2, SameBeside
    <3> QED
      BY <3>1, <3>2
  <2>8. ASSUME NEW j \in 1..i PROVE Waits(b, old, s[j])
    <3>1. CASE s[j] = e
      BY <2>5, <3>1
    <3>2. CASE s[j] # e
      <4>1. Waits(a, old, s[j]) /\ s[j] \in Entry \ {e}
        BY <2>2, <2>4, <3>2
      <4> QED
        BY <2>5, <4>1 DEF Waits, Beside
    <3> QED
      BY <3>1, <3>2
  <2> QED
    BY <2>6, <2>7, <2>8 DEF b
<1> HIDE DEF P
<1>3. n \in P
  BY <1>1, <1>2, UpTo
<1> QED
  BY <1>3 DEF P

\* A snapshot, and what may have become of it.
Snapshot(saved) ==
    Sound(saved.rows) /\ saved.queued \in SUBSET Entry /\ saved.entries \in SUBSET saved.queued
BehindOf(rs, saved) == Behind(rs, saved.rows, saved.entries, saved.queued)

LEMMA RestoredIs ==
    ASSUME NEW saved, Snapshot(saved), NEW rs, BehindOf(rs, saved), NEW t, t = Restored(rs, saved)
    PROVE  /\ Sound(t) /\ DOMAIN t = DOMAIN saved.rows
           /\ \A e \in DOMAIN t : Sides(t[e]) = Sides(saved.rows[e])
<1> DEFINE old == saved.rows
           E == saved.entries
           Q == saved.queued
           s == SetToSeq(E)
           q == SetToSeq(Q)
           cleared == ClearAll(rs, s)
           back == BackAll(cleared, s, old)
           again == RequeueAll(back, q, old)
<1>1. t = again
  BY DEF Restored, Each, InTurn, ClearAll, BackAll, RequeueAll
<1>2. Sound(old) /\ Q \in SUBSET Entry /\ E \in SUBSET Q /\ Behind(rs, old, E, Q)
  BY DEF Snapshot, BehindOf
<1>3. IsFiniteSet(E) /\ IsFiniteSet(Q)
  <2>1. IsFiniteSet(Entry)
    BY PullApplyAssumption
  <2> QED
    BY <1>2, <2>1, FS_Subset
<1> HIDE DEF old, E, Q
<1>4. Len(s) \in Nat /\ Covers(s, Len(s), E) /\ Len(q) \in Nat /\ Covers(q, Len(q), Q)
  BY <1>3, OrderOf DEF Covers
<1> HIDE DEF s, q
<1>6. \E f : Turns(f, "clear", None, rs, s, Len(s)) /\ cleared = f[Len(s)]
  BY <1>4, ClearTurns
<1>7. \E f : Turns(f, "back", old, cleared, s, Len(s)) /\ back = f[Len(s)]
  BY <1>4, BackTurns
<1>8. \E f : Turns(f, "requeue", old, back, q, Len(q)) /\ again = f[Len(q)]
  BY <1>4, RequeueTurns
<1> HIDE DEF cleared, back, again
<1>9. Cleared(cleared, old, E, Q)
  <2>1. PICK f : Turns(f, "clear", None, rs, s, Len(s)) /\ cleared = f[Len(s)]
    BY <1>6
  <2>2. Cleared(f[Len(s)], old, E, Q)
    BY <1>2, <1>4, <2>1, ClearedRows
  <2> QED
    BY <2>1, <2>2
<1>10. Loose(back, old, Q) /\ AllSame(back, old)
  <2>1. PICK f : Turns(f, "back", old, cleared, s, Len(s)) /\ back = f[Len(s)]
    BY <1>7
  <2>2. Loose(f[Len(s)], old, Q) /\ AllSame(f[Len(s)], old)
    BY <1>2, <1>4, <1>9, <2>1, RowsBack
  <2> QED
    BY <2>1, <2>2
<1>11. /\ Loose(again, old, Q) /\ \A d \in Entry : Same(again, old, d)
       /\ \A d \in Q : Waits(again, old, d)
  <2>1. PICK f : Turns(f, "requeue", old, back, q, Len(q)) /\ again = f[Len(q)]
    BY <1>8
  <2>2. Loose(f[Len(q)], old, Q) /\ AllSame(f[Len(q)], old) /\ AllWait(f[Len(q)], old, Q)
    BY <1>2, <1>4, <1>10, <2>1, RowsRequeued
  <2> QED
    BY <2>1, <2>2 DEF AllSame, AllWait
<1>12. Table(again) /\ Table(old)
  BY <1>2, <1>11 DEF Loose, Sound
<1>13. DOMAIN again = DOMAIN old
  BY <1>11, <1>12 DEF Table, Same
<1>14. ASSUME NEW e \in DOMAIN again PROVE Sides(again[e]) = Sides(old[e])
  <2>1. e \in Entry /\ e \in DOMAIN old
    BY <1>12, <1>13 DEF Table
  <2>2. again[e].remote = old[e].remote /\ again[e].local = old[e].local
    BY <1>11, <2>1 DEF Same
  <2>3. Pending(again[e]) = Pending(old[e])
    <3>1. CASE e \in Q
      BY <1>11, <3>1 DEF Waits
    <3>2. CASE e \notin Q
      <4>1. again[e] = old[e]
        BY <1>11, <2>1, <3>2 DEF Loose, Untouched
      <4> QED
        BY <4>1
    <3> QED
      BY <3>1, <3>2
  <2> QED
    BY <2>2, <2>3 DEF Sides
<1>15. Sound(again)
  <2>1. ASSUME NEW e \in DOMAIN again PROVE again[e].remote.known \/ again[e].local.known
    <3>1. again[e].remote = old[e].remote /\ again[e].local = old[e].local /\ e \in DOMAIN old
      BY <1>11, <1>12, <1>13 DEF Table, Same
    <3> QED
      BY <1>2, <3>1 DEF Sound, Kept
  <2> QED
    BY <1>12, <2>1 DEF Sound, Kept
<1> QED
  BY <1>1, <1>13, <1>14, <1>15 DEF old

-----------------------------------------------------------------------------
(* The groups of a window write rows of entries. *)

LEMMA PlanRooted ==
    ASSUME Sound(rows), NEW e \in Entry, NEW reserved, NEW moving, NEW p, p = Plan(e, reserved, moving)
    PROVE  p.entry = e /\ EntriesOf(p) \subseteq Entry
<1> DEFINE owners == Owner(e)
           adopted == {d \in owners : Adoptable(e, d)}
<1>1. owners \subseteq DOMAIN rows /\ DOMAIN rows \subseteq Entry
  BY DEF Owner, OwnersOf, Sound, Table
<1>2. p.entry = e /\ p.adopted \in {{}, adopted} /\ p.loser \in {{}, owners}
  <2>1. CASE server[e].deleted
    BY <2>1 DEF Plan
  <2>2. CASE ~server[e].deleted
    BY <2>2 DEF Plan
  <2> QED
    BY <2>1, <2>2
<1> HIDE DEF adopted, owners
<1>3. adopted \subseteq owners
  BY DEF adopted, owners
<1>4. p.adopted \subseteq Entry /\ p.loser \subseteq Entry
  BY <1>1, <1>2, <1>3
<1> QED
  BY <1>2, <1>4 DEF EntriesOf

\* What a group holds: entries, and conflicts of entries once it is prepared.
Pends(C) == IsFiniteSet(C) /\ \A c \in C : c.of \in Entry
Rooted(g) == Touched(g) \subseteq Entry
Ready(g) == Rooted(g) /\ (g.conflicts = None \/ Pends(g.conflicts))

LEMMA FromRooted ==
    ASSUME Sound(rows), NEW planned, planned.superseded \in Seq(Entry),
           \A i \in 1..Len(planned.plans) : \E e \in Entry : \E reserved, moving : planned.plans[i] = Plan(e, reserved, moving),
           NEW g, From(g, planned)
    PROVE  Rooted(g)
<1>1. ASSUME NEW p \in ToSet(g.plans) PROVE EntriesOf(p) \subseteq Entry
  <2>1. PICK i \in 1..Len(planned.plans) : p = planned.plans[i]
    BY DEF From
  <2>2. PICK e \in Entry : \E reserved, moving : p = Plan(e, reserved, moving)
    BY <2>1
  <2> QED
    BY <2>2, PlanRooted
<1>2. g.superseded \subseteq Entry
  <2>1. \A i \in 1..Len(planned.superseded) : planned.superseded[i] \in Entry
    BY ElementOfSeq
  <2> QED
    BY <2>1 DEF From
<1> QED
  BY <1>1, <1>2 DEF Rooted, Touched

LEMMA ConflictOf ==
    ASSUME NEW plan, NEW d, NEW clean
    PROVE  Conflict(plan, d, clean).of = d
<1> DEFINE c == [plan |-> plan.entry, of |-> d, kind |-> "remote", copy |-> None, place |-> None, text |-> {}]
<1>1. \E kind, copy, place, text : Conflict(plan, d, clean) =
         [plan |-> plan.entry, of |-> d, kind |-> kind, copy |-> copy, place |-> place, text |-> text]
  <2>1. \/ Conflict(plan, d, clean) = c
        \/ \E place, text : Conflict(plan, d, clean) = [c EXCEPT !.kind = "local", !.place = place, !.text = text]
        \/ \E text, copy : Conflict(plan, d, clean) = [c EXCEPT !.kind = "copy", !.text = text, !.copy = copy]
        \/ Conflict(plan, d, clean) = [c EXCEPT !.kind = "drop"]
    BY DEF Conflict
  <2> QED
    BY <2>1
<1> QED
  BY <1>1

\* The mutations that a plan meets.
Found(plan, acc) == IF plan.match THEN {} ELSE PendingFor(plan) \ {c.of : c \in acc}
Met(acc, plan, clean) == acc \cup {Conflict(plan, d, clean) : d \in Found(plan, acc)}

LEMMA PendsFound ==
    ASSUME Sound(rows), NEW acc, Pends(acc), NEW plan, plan.entry \in Entry, NEW clean,
           NEW t, t = Met(acc, plan, clean)
    PROVE  Pends(t)
<1> DEFINE found == Found(plan, acc)
           f == [d \in found |-> Conflict(plan, d, clean)]
           new == {f[d] : d \in found}
<1>1. found \subseteq Entry
  <2>1. PendingFor(plan) \subseteq {plan.entry} \cup DOMAIN rows
    BY DEF PendingFor
  <2>2. DOMAIN rows \subseteq Entry
    BY DEF Sound, Table
  <2> QED
    BY <2>1, <2>2 DEF Found
<1>2. IsFiniteSet(found)
  BY <1>1, FS_Subset, PullApplyAssumption
<1>3. t = acc \cup new
  BY DEF Met
<1>4. \A c \in new : \E d \in found : c.of = d
  BY ConflictOf
<1>5. DOMAIN f = found
  OBVIOUS
<1> HIDE DEF found, f
<1>6. IsFiniteSet(new)
  BY <1>2, <1>5, ImageFinite
<1> HIDE DEF new
<1>7. IsFiniteSet(t)
  BY <1>3, <1>6, FS_Union DEF Pends
<1> QED
  BY <1>1, <1>3, <1>4, <1>7 DEF Pends

ConflictAll(s, c) ==
    (CHOOSE f : f = [i \in 0..Len(s) |-> IF i = 0 THEN {}
                        ELSE f[i - 1] \cup {Conflict(s[i], d, c) : d \in Found(s[i], f[i - 1])}])[Len(s)]
LEMMA ConflictTurns ==
    ASSUME NEW s, Len(s) \in Nat, NEW c
    PROVE  \E f : Turns(f, "conflict", c, {}, s, Len(s)) /\ ConflictAll(s, c) = f[Len(s)]
<1> DEFINE step(t, x) == t \cup {Conflict(x, d, c) : d \in Found(x, t)}
           h == CHOOSE f : f = [i \in 0..Len(s) |-> IF i = 0 THEN {} ELSE step(f[i - 1], s[i])]
<1>1. ConflictAll(s, c) = h[Len(s)]
  BY DEF ConflictAll
<1>2. \A t, x : Do("conflict", c, t, x) = step(t, x)
  BY DEF Do, Found
<1> HIDE DEF step
<1>3. PICK f : Loop(f, "conflict", c, {}, s, Len(s))
  BY LoopExists
<1>4. f = [i \in 0..Len(s) |-> IF i = 0 THEN {} ELSE step(f[i - 1], s[i])]
  BY <1>2, <1>3 DEF Loop
<1>5. h = [i \in 0..Len(s) |-> IF i = 0 THEN {} ELSE step(h[i - 1], s[i])]
  BY <1>4
<1> HIDE DEF h
<1>6. Loop(h, "conflict", c, {}, s, Len(s))
  BY <1>2, <1>5 DEF Loop
<1>7. Turns(h, "conflict", c, {}, s, Len(s))
  BY <1>6, LoopTurns
<1> QED
  BY <1>1, <1>7

LEMMA ConflictsPend ==
    ASSUME Sound(rows), NEW g, Rooted(g), Len(g.plans) \in Nat,
           \A i \in 1..Len(g.plans) : g.plans[i].entry \in Entry, NEW clean
    PROVE  Pends(Conflicts(g, clean))
<1> DEFINE s == g.plans
           n == Len(s)
<1>1. Conflicts(g, clean) = ConflictAll(s, clean)
  BY DEF Conflicts, InTurn, ConflictAll, Found
<1> HIDE DEF s
<1>2. PICK f : Turns(f, "conflict", clean, {}, s, n) /\ ConflictAll(s, clean) = f[n]
  BY ConflictTurns DEF s
<1> DEFINE P == {i \in 0..n : Pends(f[i])}
<1>3. 0 \in P
  <2>1. f[0] = {} /\ 0 \in 0..n
    BY <1>2 DEF Turns, s
  <2> QED
    BY <2>1, FS_EmptySet DEF Pends
<1>4. ASSUME NEW i \in 1..n, i - 1 \in P PROVE i \in P
  <2> DEFINE a == f[i - 1]
             b == f[i]
             x == s[i]
  <2>1. b = Do("conflict", clean, a, x)
    BY <1>2 DEF Turns
  <2>2. Pends(a) /\ x.entry \in Entry /\ i \in 0..n
    BY <1>4 DEF s
  <2> HIDE DEF a, b, x
  <2>3. b = Met(a, x, clean)
    BY <2>1 DEF Do, Found, Met
  <2>4. Pends(b)
    BY <2>2, <2>3, PendsFound
  <2> QED
    BY <2>2, <2>4 DEF b
<1>5. n \in Nat
  BY DEF s
<1> HIDE DEF P, n
<1>6. n \in P
  BY <1>3, <1>4, <1>5, UpTo
<1> QED
  BY <1>1, <1>2, <1>6 DEF P

LEMMA GroupEntries ==
    ASSUME NEW g, NEW c, Group(g, c)
    PROVE  Len(g.plans) \in Nat /\ \A i \in 1..Len(g.plans) : g.plans[i].entry \in Touched(g)
<1>1. PICK S : g.plans \in Seq(S)
  BY DEF Group
<1>2. Len(g.plans) \in Nat /\ DOMAIN g.plans = 1..Len(g.plans)
  BY <1>1, LenProperties
<1>3. \A i \in DOMAIN g.plans : g.plans[i].entry \in EntriesOf(g.plans[i]) /\ g.plans[i] \in ToSet(g.plans)
  BY DEF EntriesOf, ToSet
<1> QED
  BY <1>2, <1>3 DEF Touched

LEMMA PreparedReady ==
    ASSUME Sound(rows), NEW g, NEW c, Group(g, c), Ready(g), NEW h \in Prepared(g)
    PROVE  Rooted(h) /\ Pends(h.conflicts) /\ \E d : Group(h, d)
<1>1. (\E d : Group(h, d)) /\ Touched(h) = Touched(g)
  BY PreparedStays DEF Touched
<1>2. Rooted(h)
  BY <1>1 DEF Rooted, Ready
<1>3. CASE g.conflicts # None
  <2>1. h = g
    BY <1>3 DEF Prepared
  <2> QED
    BY <1>1, <1>2, <1>3, <2>1 DEF Ready
<1>4. CASE g.conflicts = None
  <2>1. PICK clean : h = [g EXCEPT !.conflicts = Conflicts(g, clean)]
    BY <1>4 DEF Prepared
  <2> DEFINE C == Conflicts(g, clean)
  <2>2. Pends(C)
    <3>1. Len(g.plans) \in Nat /\ \A i \in 1..Len(g.plans) : g.plans[i].entry \in Entry
      BY GroupEntries DEF Ready, Rooted
    <3> QED
      BY <3>1, ConflictsPend DEF Ready
  <2>3. h = [g EXCEPT !.conflicts = C]
    BY <2>1
  <2> HIDE DEF C
  <2>4. h.conflicts = C
    BY <2>3 DEF Group
  <2> QED
    BY <1>1, <1>2, <2>2, <2>4
<1> QED
  BY <1>3, <1>4

-----------------------------------------------------------------------------
(* What else is put into the table. *)

LEMMA DirtyLocal ==
    ASSUME NEW rs, Standing(rs), NEW e \in Entry, NEW m, NEW place, NEW text, NEW deleted,
           NEW t, t = SetLocal(Put(rs, e, ToDirty(RowOf(rs, e), m)), e, place, text, deleted)
    PROVE  Standing(t)
<1> DEFINE mid == Put(rs, e, ToDirty(RowOf(rs, e), m))
<1>1. CASE rs = Raised
  <2>1. mid = Raised
    BY <1>1, RaisedStays
  <2>2. \E w : t = Put(mid, e, w)
    BY DEF SetLocal
  <2> QED
    BY <2>1, <2>2, RaisedStays DEF Standing
<1>2. CASE Sound(rs)
  <2>1. Holds(rs, e, mid, RowOf(rs, e).remote, RowOf(rs, e).local, TRUE)
    BY <1>2, QueueIs DEF Sound
  <2>2. Table(mid) /\ Beside(rs, e, mid)
    BY <2>1 DEF Holds
  <2>3. t = SetLocal(mid, e, place, text, deleted)
    OBVIOUS
  <2> HIDE DEF mid
  <2> DEFINE l == [known |-> TRUE, path |-> place, hash |-> text, deleted |-> deleted]
  <2>4. PICK w : IsRow(w) /\ t = Put(mid, e, w) /\ w.local = l
    BY <2>2, <2>3, SetLocalIs
  <2>5. l.known
    OBVIOUS
  <2> HIDE DEF l
  <2>6. CASE Fits(mid, e, w)
    <3>1. Holds(mid, e, t, w.remote, w.local, w.dirty)
      BY <2>2, <2>4, <2>6, PutHolds
    <3>2. Table(t) /\ Beside(mid, e, t) /\ t[e].local.known
      BY <2>4, <2>5, <3>1 DEF Holds
    <3>3. Beside(rs, e, t)
      BY <2>2, <3>2, BesideTwice
    <3> QED
      BY <1>2, <3>2, <3>3, KeptBeside DEF Standing
  <2>7. CASE ~Fits(mid, e, w)
    BY <2>2, <2>4, <2>7, PutHolds DEF Standing
  <2> QED
    BY <2>6, <2>7
<1> QED
  BY <1>1, <1>2 DEF Standing

LEMMA CleanStanding ==
    ASSUME NEW rs, Standing(rs), NEW e \in Entry
    PROVE  Standing(Clean(rs, e))
<1>1. CASE rs = Raised
  <2>1. Clean(rs, e) = rs
    BY <1>1, RaisedStays DEF Clean
  <2> QED
    BY <2>1
<1>2. CASE Sound(rs)
  BY <1>2, CleanCalm DEF Calm, Standing
<1> QED
  BY <1>1, <1>2 DEF Standing

LEMMA SkipStands ==
    ASSUME NEW rs, Standing(rs), NEW s \in Seq(Entry)
    PROVE  Standing(SkipAll(rs, s))
<1> DEFINE n == Len(s)
           t == SkipAll(rs, s)
<1>1. n \in Nat /\ \A i \in 1..n : s[i] \in Entry
  OBVIOUS
<1> HIDE DEF t
<1>2. PICK f : Turns(f, "skip", None, rs, s, n) /\ t = f[n]
  BY <1>1, SkipTurns DEF t
<1> DEFINE P == {i \in 0..n : Standing(f[i])}
<1>3. 0 \in P
  BY <1>1, <1>2 DEF Turns
<1>4. ASSUME NEW i \in 1..n, i - 1 \in P PROVE i \in P
  <2> DEFINE a == f[i - 1]
             b == f[i]
             x == s[i]
  <2>1. b = Do("skip", None, a, x)
    BY <1>2 DEF Turns
  <2>2. Standing(a) /\ x \in Entry /\ i \in 0..n
    BY <1>1, <1>4
  <2> HIDE DEF a, b, x
  <2>3. b = SetRemote(a, x, State(x))
    BY <2>1 DEF Do
  <2>4. Standing(b)
    BY <2>2, <2>3, SetRemoteSound
  <2> QED
    BY <2>2, <2>4 DEF b
<1> HIDE DEF P, n
<1>5. n \in P
  BY <1>1, <1>3, <1>4, UpTo
<1> QED
  BY <1>2, <1>5 DEF P, t

LEMMA RebaseStands ==
    ASSUME NEW rs, Standing(rs), NEW S, IsFiniteSet(S), \A c \in S : c.of \in Entry
    PROVE  Standing(RebaseAll(rs, SetToSeq(S)))
<1> DEFINE s == SetToSeq(S)
           n == Len(s)
           t == RebaseAll(rs, s)
<1>1. n \in Nat /\ \A i \in 1..n : s[i].of \in Entry
  BY OrderOf
<1> HIDE DEF s, t
<1>2. PICK f : Turns(f, "rebase", None, rs, s, n) /\ t = f[n]
  BY <1>1, RebaseTurns DEF t
<1> DEFINE P == {i \in 0..n : Standing(f[i])}
<1>3. 0 \in P
  BY <1>1, <1>2 DEF Turns
<1>4. ASSUME NEW i \in 1..n, i - 1 \in P PROVE i \in P
  <2> DEFINE a == f[i - 1]
             b == f[i]
             x == s[i]
  <2>1. b = Do("rebase", None, a, x)
    BY <1>2 DEF Turns
  <2>2. Standing(a) /\ x.of \in Entry /\ i \in 0..n
    BY <1>1, <1>4
  <2> HIDE DEF a, b, x
  <2>3. b = Rebased(a, x)
    BY <2>1 DEF Do
  <2>4. CASE x.kind = "remote"
    <3>1. b = Clean(a, x.of)
      BY <2>3, <2>4 DEF Rebased
    <3> QED
      BY <2>2, <3>1, CleanStanding DEF b
  <2>5. CASE x.kind # "remote"
    <3>1. \E m : b = SetLocal(Put(a, x.of, ToDirty(RowOf(a, x.of), m)), x.of, x.place, x.text, FALSE)
      BY <2>3, <2>5 DEF Rebased
    <3>2. Standing(b)
      BY <2>2, <3>1, DirtyLocal
    <3> QED
      BY <2>2, <3>2 DEF b
  <2> QED
    BY <2>4, <2>5
<1> HIDE DEF P, n
<1>5. n \in P
  BY <1>1, <1>3, <1>4, UpTo
<1> QED
  BY <1>2, <1>5 DEF P, s, t

LEMMA RecordedSound ==
    ASSUME Sound(rows), NEW e \in Entry, NEW place, NEW text, NEW t, t = Recorded(rows, e, place, text), t # Raised
    PROVE  Sound(t)
<1>1. \E m : t = SetLocal(Put(rows, e, ToDirty(RowOf(rows, e), m)), e, place, text, FALSE)
  BY DEF Recorded, Queue
<1>2. Standing(t)
  BY <1>1, DirtyLocal DEF Standing
<1> QED
  BY <1>2 DEF Standing

LEMMA RecordUpsertSound ==
    ASSUME Sound(rows), NEW place, NEW text, RecordUpsert(place, text), rows' # Raised
    PROVE  Sound(rows')
<1>1. \E e \in Entry : rows' = Recorded(rows, e, place, text)
  <2>1. /\ LocalAt(rows, place) \subseteq DOMAIN rows /\ DeletePending(rows, place) \subseteq DOMAIN rows
        /\ OwnersOf(rows, place) \subseteq DOMAIN rows /\ Unused \subseteq Entry
    BY DEF LocalAt, DeletePending, OwnersOf, Unused
  <2>2. DOMAIN rows \subseteq Entry
    BY DEF Sound, Table
  <2> QED
    BY <2>1, <2>2 DEF RecordUpsert
<1> QED
  BY <1>1, RecordedSound

LEMMA RecordRenameSound ==
    ASSUME Sound(rows), NEW from, NEW to, NEW text, RecordRename(from, to, text), rows' # Raised
    PROVE  Sound(rows')
<1>1. CASE LocalAt(rows, from) = {}
  BY <1>1, RecordUpsertSound DEF RecordRename
<1>2. CASE LocalAt(rows, from) # {}
  <2>1. PICK e \in LocalAt(rows, from) : rows' = Recorded(rows, e, to, text)
    BY <1>2 DEF RecordRename
  <2>2. e \in Entry
    BY DEF LocalAt, Sound, Table
  <2> QED
    BY <2>1, <2>2, RecordedSound
<1> QED
  BY <1>1, <1>2

LEMMA RecordDeleteSound ==
    ASSUME Sound(rows), NEW place, RecordDelete(place), rows' # Raised
    PROVE  Sound(rows')
<1>1. CASE rows' = rows
  BY <1>1
<1>2. CASE rows' # rows
  <2>1. PICK e \in DOMAIN rows :
           LET clean == Put(rows, e, ClearPending(rows[e])) IN
           rows' = IF RemoteOf(rows, e).rev = 0 THEN Drop(clean, e)
                   ELSE Queue(SetLocal(clean, e, None, None, TRUE), e, "delete", place, None)
    BY <1>2 DEF RecordDelete, LocalAt
  <2> DEFINE clean == Clean(rows, e)
             mid == SetLocal(clean, e, None, None, TRUE)
  <2>2. e \in Entry
    BY DEF Sound, Table
  <2>3. Sound(clean)
    BY <2>2, CleanCalm DEF Calm
  <2>4. \/ rows' = Drop(clean, e)
        \/ \E m : rows' = Put(mid, e, ToDirty(RowOf(mid, e), m))
    BY <2>1 DEF Clean, Queue
  <2> HIDE DEF clean
  <2>5. CASE rows' = Drop(clean, e)
    BY <2>2, <2>3, <2>5, DropCalm DEF Calm
  <2>6. CASE \E m : rows' = Put(mid, e, ToDirty(RowOf(mid, e), m))
    <3> DEFINE gone == TRUE
               l == [known |-> TRUE, path |-> None, hash |-> None, deleted |-> gone]
    <3>0. mid = SetLocal(clean, e, None, None, gone) /\ l.known /\ Table(clean)
      BY <2>3 DEF Sound
    <3> HIDE DEF mid, gone
    <3>1. PICK w : IsRow(w) /\ mid = Put(clean, e, w) /\ w.local = l
      BY <2>2, <3>0, SetLocalIs
    <3> HIDE DEF l
    <3>2. w.local.known
      BY <3>0, <3>1
    <3>3. mid # Raised
      BY <2>2, <2>6, RaisedStays
    <3>4. Sound(mid) /\ e \in DOMAIN mid
      BY <2>2, <2>3, <3>1, <3>2, <3>3, PutSound DEF Standing, Holds
    <3>5. Holds(mid, e, rows', RowOf(mid, e).remote, RowOf(mid, e).local, TRUE)
      BY <2>2, <2>6, <3>4, QueueIs DEF Sound
    <3>6. RowOf(mid, e) = mid[e] /\ (mid[e].remote.known \/ mid[e].local.known)
      BY <3>4, RowOfIs DEF Sound, Kept
    <3>7. Table(rows') /\ Beside(mid, e, rows') /\ (rows'[e].remote.known \/ rows'[e].local.known)
      BY <3>5, <3>6 DEF Holds
    <3> QED
      BY <3>4, <3>7, KeptBeside
  <2> QED
    BY <2>4, <2>5, <2>6
<1> QED
  BY <1>1, <1>2

LEMMA UserKeepsRows == Sound(rows) /\ UserActs => Sound(rows')
<1> SUFFICES ASSUME Sound(rows), UserActs PROVE Sound(rows')
  OBVIOUS
<1>1. rows' # Raised
  BY DEF UserActs
<1>2. \/ \E place, text : RecordUpsert(place, text)
      \/ \E from, to, text : RecordRename(from, to, text)
      \/ \E place : RecordDelete(place)
  BY DEF UserActs
<1> QED
  BY <1>1, <1>2, RecordUpsertSound, RecordRenameSound, RecordDeleteSound

LEMMA FreshUpsert ==
    ASSUME NEW rs, Sound(rs), NEW e \in Entry, NEW place, NEW rev, NEW text, NEW deleted, ~deleted,
           \A d \in DOMAIN rs \ {e} : rs[d].remoteKey # place /\ rs[d].localKey # place,
           NEW t, t = Upsert(rs, e, place, rev, text, deleted)
    PROVE  Sound(t) /\ Beside(rs, e, t) /\ t[e].remoteKey = place /\ t[e].localKey = place
<1> DEFINE r == [known |-> TRUE, path |-> place, rev |-> rev, hash |-> text, deleted |-> deleted]
           l == [known |-> TRUE, path |-> place, hash |-> text, deleted |-> deleted]
<1>1. PICK w : IsRow(w) /\ t = Put(rs, e, w) /\ w.remote = r /\ w.local = l
  BY UpsertIs
<1>2. r.known /\ Key(r) = place /\ Key(l) = place
  BY DEF Key
<1> HIDE DEF r, l
<1> DEFINE n == Normalized(w)
<1>3. n.remoteKey = place /\ n.localKey = place /\ n.remote = r
  BY <1>1, <1>2, NormalizedOf
<1>4. Fits(rs, e, w)
  <2> HIDE DEF n
  <2>1. \A d \in DOMAIN rs \ {e} : ~Collides(n, rs[d])
    BY <1>3 DEF Collides
  <2> QED
    BY <2>1 DEF Fits, n
<1>5. Table(t) /\ Beside(rs, e, t) /\ t[e] = n
  BY <1>1, <1>4, PutOf DEF Sound, Sets
<1> HIDE DEF n
<1>6. Sound(t)
  BY <1>2, <1>3, <1>5, KeptBeside
<1> QED
  BY <1>3, <1>5, <1>6

LEMMA BaseSound ==
    ASSUME NEW S \in SUBSET Entry, NEW T, NEW path \in [S -> T], IsInjective(path)
    PROVE  Sound(BaseAll(<< >>, SetToSeq(S), path))
<1> DEFINE s == SetToSeq(S)
           n == Len(s)
           rs == << >>
           t == BaseAll(rs, s, path)
           Placed(u) == \A d \in DOMAIN u : d \in S /\ u[d].remoteKey = At(path[d]) /\ u[d].localKey = At(path[d])
<1>1. n \in Nat /\ \A i \in 1..n : s[i] \in S
  <2>1. IsFiniteSet(S)
    BY FS_Subset, PullApplyAssumption
  <2> QED
    BY <2>1, OrderOf
<1>2. Sound(rs) /\ Placed(rs)
  <2>1. DOMAIN rs = {} /\ rs = [e \in DOMAIN rs |-> rs[e]]
    OBVIOUS
  <2> HIDE DEF rs
  <2> QED
    BY <2>1 DEF Sound, Table, Kept
<1> HIDE DEF s, rs, t
<1>3. PICK f : Turns(f, "base", path, rs, s, n) /\ t = f[n]
  BY <1>1, BaseTurns DEF t
<1> DEFINE P == {i \in 0..n : Sound(f[i]) /\ Placed(f[i])}
<1>4. 0 \in P
  <2>1. f[0] = rs /\ 0 \in 0..n
    BY <1>1, <1>3 DEF Turns
  <2> HIDE DEF Placed
  <2> QED
    BY <1>2, <2>1
<1>5. ASSUME NEW i \in 1..n, i - 1 \in P PROVE i \in P
  <2> DEFINE a == f[i - 1]
             b == f[i]
             x == s[i]
             place == At(path[x])
             text == {<<"base", path[x]>>}
             gone == FALSE
  <2>1. b = Do("base", path, a, x)
    BY <1>3 DEF Turns
  <2>2. Sound(a) /\ Placed(a) /\ x \in S /\ i \in 0..n
    BY <1>1, <1>5
  <2> HIDE DEF a, b, x
  <2>3. b = Upsert(a, x, place, 1, text, gone)
    BY <2>1 DEF Do
  <2>4. \A d \in S : d # x => At(path[d]) # place
    <3>1. \A d \in S : d # x => path[d] # path[x]
      BY <2>2 DEF IsInjective
    <3>2. \A p : At(p).path = p
      BY DEF At
    <3> QED
      BY <3>1, <3>2
  <2>5. \A d \in DOMAIN a \ {x} : a[d].remoteKey # place /\ a[d].localKey # place
    BY <2>2, <2>4
  <2> HIDE DEF text, gone, place
  <2>6. ~gone
    BY DEF gone
  <2>7. Sound(b) /\ Beside(a, x, b) /\ b[x].remoteKey = place /\ b[x].localKey = place
    BY <2>2, <2>3, <2>5, <2>6, FreshUpsert
  <2>8. Placed(b)
    <3> SUFFICES ASSUME NEW d \in DOMAIN b
                 PROVE  d \in S /\ b[d].remoteKey = At(path[d]) /\ b[d].localKey = At(path[d])
      OBVIOUS
    <3>1. CASE d = x
      BY <2>2, <2>7, <3>1 DEF place
    <3>2. CASE d # x
      <4>1. d \in Entry
        BY <2>7 DEF Sound, Table
      <4>2. d \in DOMAIN a /\ b[d] = a[d]
        BY <2>7, <3>2, <4>1 DEF Beside
      <4> QED
        BY <2>2, <4>2
    <3> QED
      BY <3>1, <3>2
  <2> HIDE DEF Placed
  <2> QED
    BY <2>2, <2>7, <2>8 DEF b
<1> HIDE DEF P, n, Placed
<1>6. n \in P
  BY <1>1, <1>4, <1>5, UpTo
<1> QED
  BY <1>3, <1>6 DEF P, s, t, rs

-----------------------------------------------------------------------------
(* The invariant: while a group is applied, the rows are those that were   *)
(* saved but for what the group may write.                                 *)

Applying == {"move", "write", "merge"}

HoldsGroup(p) ==
    /\ Snapshot(p.saved) /\ Len(p.group.plans) \in Nat /\ Pends(p.group.conflicts)
    /\ \A i \in 1..Len(p.group.plans) : p.group.plans[i].entry \in p.saved.entries

Stage(p) ==
    /\ p.phase \in {"idle", "plan", "apply"} \cup Applying
    /\ p.phase \in {"idle", "plan", "apply"} => p.group = None
    /\ p.phase # "idle" => p.outcome = "none"
    /\ p.phase \in Applying => HoldsGroup(p)

AllReady(gs) == \A k \in DOMAIN gs : Ready(gs[k])

RowsInv ==
    /\ Sound(rows) /\ Stage(pull) /\ AllReady(pull.groups)
    /\ pull.phase \in Applying => BehindOf(rows, pull.saved)

LEMMA StopKeepsRows ==
    ASSUME Sound(rows'), NEW o, pull' = [NoPull EXCEPT !.outcome = o]
    PROVE  RowsInv'
<1>1. pull'.phase = "idle" /\ pull'.group = None /\ pull'.groups = << >>
  BY DEF NoPull
<1>2. DOMAIN << >> = {} /\ "idle" \notin Applying
  BY DEF Applying
<1> QED
  BY <1>1, <1>2 DEF RowsInv, Stage, AllReady

LEMMA NoPullKeepsRows ==
    ASSUME Sound(rows'), pull' = NoPull
    PROVE  RowsInv'
<1>1. pull' = [NoPull EXCEPT !.outcome = "none"]
  BY DEF NoPull
<1> QED
  BY <1>1, StopKeepsRows

LEMMA InitRows == PullInit => RowsInv
<1> SUFFICES ASSUME PullInit PROVE RowsInv
  OBVIOUS
<1>1. Sound(rows)
  <2> DEFINE T == IF rules THEN Path ELSE Path \ Config
  <2>1. PICK S \in SUBSET Entry : \E path \in [S -> T] :
           IsInjective(path) /\ rows = BaseAll(<< >>, SetToSeq(S), path)
    BY DEF PullInit, Each, InTurn, BaseAll
  <2> HIDE DEF T
  <2> QED
    BY <2>1, BaseSound
<1>2. pull.phase = "idle" /\ pull.group = None /\ pull.groups = << >>
  BY DEF PullInit, NoPull
<1>3. DOMAIN << >> = {} /\ "idle" \notin Applying
  BY DEF Applying
<1> QED
  BY <1>1, <1>2, <1>3 DEF RowsInv, Stage, AllReady

\* What is skipped, as far as the store took it.
LEMMA AppliesSkips ==
    ASSUME NEW window, NEW rest, Applies(window, rest),
           NEW T, Planned(window, rest = << >>).skipped \in Seq(T)
    PROVE  \E s \in Seq(T) : rows' = SkipAll(rows, s) /\ rows' # Raised
<1> DEFINE skipped == Planned(window, rest = << >>).skipped
<1>1. \A s : Skip(rows, s) = SkipAll(rows, s)
  BY DEF Skip, InTurn, SkipAll
<1>2. rows' # Raised /\ (rows' = Skip(rows, skipped)
         \/ \E k \in 1..Len(skipped) : rows' = Skip(rows, SubSeq(skipped, 1, k - 1)))
  BY DEF Applies
<1>3. skipped \in Seq(T)
  OBVIOUS
<1> HIDE DEF skipped
<1>4. ASSUME NEW k \in 1..Len(skipped) PROVE SubSeq(skipped, 1, k - 1) \in Seq(T)
  <2>1. \A i \in 1..(k - 1) : skipped[i] \in T
    BY <1>3
  <2> QED
    BY <1>3, <2>1
<1> QED
  BY <1>1, <1>2, <1>3, <1>4

LEMMA AppliesRows ==
    ASSUME Sound(rows), NEW window \in Seq(Entry), NEW rest \in Seq(Entry), Applies(window, rest)
    PROVE  RowsInv'
<1> DEFINE planned == Planned(window, rest = << >>)
           named == Given({plan.final : plan \in ToSet(planned.plans)})
           gs == Groups(planned)
           applied == [NoPull EXCEPT !.phase = "apply", !.window = window, !.rest = rest,
                     !.deferred = planned.deferred, !.groups = gs, !.named = named]
<1>1. pull' = applied \/ pull' = [NoPull EXCEPT !.outcome = "raised"]
  BY DEF Applies, Raises, Stops
<1>2. /\ Len(planned.plans) \in Nat /\ planned.superseded \in Seq(Entry) /\ planned.skipped \in Seq(Entry)
      /\ \A i \in 1..Len(planned.plans) : \E e \in Entry : \E reserved, moving : planned.plans[i] = Plan(e, reserved, moving)
  BY PlannedShape
<1>5. Sound(rows')
  <2>1. PICK s \in Seq(Entry) : rows' = SkipAll(rows, s) /\ rows' # Raised
    BY <1>2, AppliesSkips
  <2>2. Standing(rows)
    BY DEF Standing
  <2> QED
    BY <2>1, <2>2, SkipStands DEF Standing
<1> HIDE DEF planned
<1>3. CASE pull' = [NoPull EXCEPT !.outcome = "raised"]
  BY <1>3, <1>5, StopKeepsRows
<1>4. CASE pull' = applied
  <2>2. ASSUME NEW k \in DOMAIN gs PROVE Ready(gs[k])
    <3>1. Len(planned.superseded) \in Nat
      BY <1>2
    <3>2. \A j \in DOMAIN gs : Group(gs[j], None) /\ From(gs[j], planned)
      BY <1>2, <3>1, GroupsApart
    <3> HIDE DEF gs
    <3>3. gs[k].conflicts = None
      BY <3>2 DEF Group
    <3>4. Rooted(gs[k])
      BY <1>2, <3>2, FromRooted
    <3> QED
      BY <3>3, <3>4 DEF Ready
  <2> HIDE DEF gs, named
  <2>3. pull' = [phase |-> "apply", window |-> window, rest |-> rest, deferred |-> planned.deferred,
           groups |-> gs, group |-> None, todo |-> << >>, saved |-> None,
           named |-> named, outcome |-> "none"]
    BY <1>4 DEF NoPull
  <2>4. pull'.phase = "apply" /\ pull'.group = None /\ pull'.groups = gs /\ pull'.outcome = "none"
    BY <2>3
  <2>5. "apply" \notin Applying
    BY DEF Applying
  <2> QED
    BY <1>5, <2>2, <2>4, <2>5 DEF RowsInv, Stage, AllReady
<1> QED
  BY <1>1, <1>3, <1>4

LEMMA PlansKeepRows == GroupsInv /\ RowsInv /\ (PullStart \/ PlanWindow) => RowsInv'
<1> SUFFICES ASSUME GroupsInv, RowsInv, PullStart \/ PlanWindow PROVE RowsInv'
  OBVIOUS
<1>1. \E window, rest \in Seq(Entry) : Applies(window, rest)
  BY StartApplies DEF GroupsInv, Shape, PlanWindow
<1> QED
  BY <1>1, AppliesRows DEF RowsInv

LEMMA PrepareKeepsRows == GroupsInv /\ RowsInv /\ PrepareAhead => RowsInv'
<1> SUFFICES ASSUME GroupsInv, RowsInv, PrepareAhead PROVE RowsInv'
  OBVIOUS
<1>1. PICK gs \in [DOMAIN pull.groups -> UNION {Prepared(g) : g \in ToSet(pull.groups)}] :
         /\ \A i \in DOMAIN gs : gs[i] \in Prepared(pull.groups[i])
         /\ pull' = [pull EXCEPT !.groups = gs]
  BY DEF PrepareAhead
<1>2. ASSUME NEW k \in DOMAIN gs PROVE Ready(gs[k])
  <2>1. k \in DOMAIN pull.groups /\ gs[k] \in Prepared(pull.groups[k])
    BY <1>1
  <2>2. PICK c : Group(pull.groups[k], c)
    BY <2>1 DEF GroupsInv, Shape, GoodGroups
  <2>3. Ready(pull.groups[k]) /\ Sound(rows)
    BY <2>1 DEF RowsInv, AllReady
  <2>4. Rooted(gs[k]) /\ Pends(gs[k].conflicts)
    BY <2>1, <2>2, <2>3, PreparedReady
  <2> QED
    BY <2>4 DEF Ready
<1>3. /\ pull'.groups = gs /\ pull'.phase = "apply" /\ pull'.group = pull.group
      /\ pull'.outcome = pull.outcome /\ rows' = rows /\ pull.phase = "apply"
  BY <1>1 DEF PrepareAhead, GroupsInv, Shape, Fields
<1>4. "apply" \notin Applying
  BY DEF Applying
<1> QED
  BY <1>2, <1>3, <1>4 DEF RowsInv, Stage, AllReady

\* A group begins.
SettledRows(g) ==
    ReleaseAll(
        DropAll(
            CleanAll(
                SupersedeAll(rows, SetToSeq(g.superseded \cup UNION {plan.loser : plan \in ToSet(g.plans)}), g.superseded),
                SetToSeq({c \in g.conflicts : c.kind \in {"copy", "drop"}})),
            SetToSeq(UNION {plan.adopted : plan \in ToSet(g.plans)})),
        g.plans)

LEMMA SettledBehind ==
    ASSUME Sound(rows), NEW g, NEW c, Group(g, c), Rooted(g), Pends(g.conflicts)
    PROVE  BehindOf(SettledRows(g), Saved(g)) /\ Snapshot(Saved(g))
<1> DEFINE E == Touched(g)
           Q == E \cup {x.of : x \in g.conflicts}
           S1 == g.superseded \cup UNION {plan.loser : plan \in ToSet(g.plans)}
           S2 == {x \in g.conflicts : x.kind \in {"copy", "drop"}}
           S3 == UNION {plan.adopted : plan \in ToSet(g.plans)}
           s1 == SetToSeq(S1)
           s2 == SetToSeq(S2)
           s3 == SetToSeq(S3)
           r1 == SupersedeAll(rows, s1, g.superseded)
           r2 == CleanAll(r1, s2)
           r3 == DropAll(r2, s3)
           r4 == ReleaseAll(r3, g.plans)
<1>1. Q \in SUBSET Entry /\ E \in SUBSET Q
  BY DEF Rooted, Pends
<1>2. S1 \subseteq E /\ S3 \subseteq E /\ \A x \in S2 : x.of \in Q
  BY DEF Touched, EntriesOf
<1>3. IsFiniteSet(S1) /\ IsFiniteSet(S2) /\ IsFiniteSet(S3)
  <2>1. S1 \in SUBSET Entry /\ S3 \in SUBSET Entry
    BY <1>1, <1>2
  <2>2. S2 \in SUBSET g.conflicts /\ IsFiniteSet(g.conflicts)
    BY DEF Pends
  <2> QED
    BY <2>1, <2>2, FS_Subset, PullApplyAssumption
<1>4. Len(g.plans) \in Nat /\ \A i \in 1..Len(g.plans) : g.plans[i].entry \in E
  BY GroupEntries
<1>5. SettledRows(g) = r4
  BY DEF SettledRows
<1>6. Saved(g).rows = rows /\ Saved(g).entries = E /\ Saved(g).queued = Q
  BY DEF Saved
<1> HIDE DEF E, Q, S1, S2, S3
<1>7. /\ Len(s1) \in Nat /\ \A i \in 1..Len(s1) : Within("supersede", s1[i], E, Q)
      /\ Len(s2) \in Nat /\ \A i \in 1..Len(s2) : Within("clean", s2[i], E, Q)
      /\ Len(s3) \in Nat /\ \A i \in 1..Len(s3) : Within("drop", s3[i], E, Q)
  BY <1>2, <1>3, OrderOf DEF Within
<1> HIDE DEF s1, s2, s3
<1>8. PICK f1 : Turns(f1, "supersede", g.superseded, rows, s1, Len(s1)) /\ r1 = f1[Len(s1)]
  BY <1>7, SupersedeTurns
<1>9. Behind(r1, rows, E, Q)
  <2>1. Behind(rows, rows, E, Q)
    BY BehindItself
  <2> HIDE DEF r1
  <2> QED
    BY <1>1, <1>7, <1>8, <2>1, BehindTurns
<1> HIDE DEF r1
<1>10. PICK f2 : Turns(f2, "clean", None, r1, s2, Len(s2)) /\ r2 = f2[Len(s2)]
  BY <1>7, CleanTurns
<1> HIDE DEF r2
<1>11. Behind(r2, rows, E, Q)
  BY <1>1, <1>7, <1>9, <1>10, BehindTurns
<1>12. PICK f3 : Turns(f3, "drop", None, r2, s3, Len(s3)) /\ r3 = f3[Len(s3)]
  BY <1>7, DropTurns
<1> HIDE DEF r3
<1>13. Behind(r3, rows, E, Q)
  BY <1>1, <1>7, <1>11, <1>12, BehindTurns
<1> DEFINE s4 == g.plans
<1>14. Len(s4) \in Nat /\ \A i \in 1..Len(s4) : Within("release", s4[i], E, Q)
  BY <1>4 DEF Within
<1>15. PICK f4 : Turns(f4, "release", None, r3, s4, Len(s4)) /\ r4 = f4[Len(s4)]
  BY <1>14, ReleaseTurns
<1> HIDE DEF r4, s4
<1>16. Behind(r4, rows, E, Q)
  BY <1>1, <1>13, <1>14, <1>15, BehindTurns
<1> QED
  BY <1>1, <1>5, <1>6, <1>16 DEF BehindOf, Snapshot

LEMMA SettleKeepsRows == GroupsInv /\ RowsInv /\ Settle => RowsInv'
<1> SUFFICES ASSUME GroupsInv, RowsInv, Settle PROVE RowsInv'
  OBVIOUS
<1> DEFINE gs == pull.groups
           h == Head(gs)
<1>1. PICK g \in Prepared(h) :
         /\ rows' = SettledRows(g)
         /\ pull' = [pull EXCEPT !.phase = "move", !.groups = Tail(@), !.group = g, !.saved = Saved(g)]
  BY DEF Settle, SettledRows, Each, InTurn, SupersedeAll, CleanAll, DropAll, ReleaseAll
<1>2. gs # << >> /\ Sound(rows) /\ AllReady(gs) /\ GoodGroups(gs) /\ pull.phase = "apply"
  BY DEF Settle, RowsInv, GroupsInv, Shape
<1>3. pull.outcome = "none"
  BY <1>2 DEF RowsInv, Stage
<1>4. /\ pull'.phase = "move" /\ pull'.groups = Tail(gs) /\ pull'.group = g /\ pull'.saved = Saved(g)
      /\ pull'.outcome = "none"
  BY <1>1, <1>3 DEF GroupsInv, Shape, Fields
<1> HIDE DEF gs, h
<1>5. PICK n \in Nat : gs = [k \in 1..n |-> gs[k]]
  BY <1>2 DEF GoodGroups
<1> DEFINE S == {gs[k] : k \in 1..n}
<1>6. gs \in Seq(S) /\ Len(gs) = n /\ DOMAIN gs = 1..n
  <2>1. gs \in [1..n -> S] /\ DOMAIN gs = 1..n
    BY <1>5
  <2> HIDE DEF S
  <2>2. gs \in Seq(S)
    BY <1>5, <2>1, SeqDef
  <2>3. Len(gs) = n
    BY <1>5, <2>1, <2>2, LenProperties
  <2> QED
    BY <2>1, <2>2, <2>3
<1> HIDE DEF S
<1>7. /\ h = gs[1] /\ 1 \in DOMAIN gs
      /\ Len(Tail(gs)) = n - 1 /\ Tail(gs) \in Seq(S) /\ \A k \in 1..Len(Tail(gs)) : Tail(gs)[k] = gs[k + 1]
  <2>1. n # 0
    BY <1>2, <1>5
  <2>2. 1 \in DOMAIN gs
    BY <1>6, <2>1
  <2> QED
    BY <1>2, <1>6, <2>2, HeadTailProperties DEF h
<1>8. AllReady(Tail(gs))
  <2>1. DOMAIN Tail(gs) = 1..(n - 1)
    BY <1>7, LenProperties
  <2>2. \A k \in 1..(n - 1) : k + 1 \in 1..n
    OBVIOUS
  <2> QED
    BY <1>2, <1>6, <1>7, <2>1, <2>2 DEF AllReady
<1>9. PICK c : Group(h, c)
  BY <1>2, <1>7 DEF GoodGroups
<1>10. Ready(h)
  BY <1>2, <1>7 DEF AllReady
<1>11. Rooted(g) /\ Pends(g.conflicts) /\ \E d : Group(g, d)
  BY <1>2, <1>9, <1>10, PreparedReady
<1>12. BehindOf(SettledRows(g), Saved(g)) /\ Snapshot(Saved(g))
  BY <1>2, <1>11, SettledBehind
<1>13. Len(g.plans) \in Nat /\ \A i \in 1..Len(g.plans) : g.plans[i].entry \in Saved(g).entries
  BY <1>11, GroupEntries DEF Saved
<1>14. Sound(SettledRows(g))
  BY <1>12 DEF BehindOf, Behind
<1>15. HoldsGroup(pull')
  BY <1>4, <1>11, <1>12, <1>13 DEF HoldsGroup
<1>16. "move" \in Applying /\ Applying \cap {"idle", "plan", "apply"} = {}
  BY DEF Applying
<1> QED
  BY <1>1, <1>4, <1>8, <1>12, <1>14, <1>15, <1>16 DEF RowsInv, Stage

\* A step within a group that leaves the rows as its snapshot allows.
LEMMA GroupKeepsRows ==
    ASSUME RowsInv, pull.phase \in Applying, pull'.phase \in Applying, pull'.group = pull.group,
           pull'.saved = pull.saved, pull'.outcome = pull.outcome, pull'.groups = pull.groups,
           BehindOf(rows', pull.saved)
    PROVE  RowsInv'
<1>1. Sound(rows')
  BY DEF BehindOf, Behind
<1>2. Applying \cap {"idle", "plan", "apply"} = {}
  BY DEF Applying
<1>3. Stage(pull')
  BY <1>2 DEF RowsInv, Stage, HoldsGroup
<1> QED
  BY <1>1, <1>3 DEF RowsInv

LEMMA FilesKeepRows ==
    ASSUME GroupsInv, RowsInv, UNCHANGED rows,
           \/ pull.phase = "move" /\ \E t : pull' = [pull EXCEPT !.phase = "write", !.todo = t]
           \/ pull.phase = "write" /\ \E t : pull' = [pull EXCEPT !.todo = t]
    PROVE  RowsInv' /\ pull'.outcome = "none"
<1>1. /\ pull.phase \in Applying /\ pull'.phase \in Applying /\ pull'.group = pull.group
      /\ pull'.saved = pull.saved /\ pull'.outcome = pull.outcome /\ pull'.groups = pull.groups
  <2>1. Fields(pull)
    BY DEF GroupsInv, Shape
  <2> QED
    BY <2>1 DEF Fields, Applying
<1>2. BehindOf(rows', pull.saved)
  BY <1>1 DEF RowsInv
<1>3. pull.outcome = "none"
  BY DEF RowsInv, Stage
<1> QED
  BY <1>1, <1>2, <1>3, GroupKeepsRows

\* A group ends.
LEMMA GroupEndsRows ==
    ASSUME GroupsInv, RowsInv, pull.phase \in Applying, pull' = GroupEnds, Sound(rows')
    PROVE  RowsInv'
<1>1. pull.phase # "idle" /\ "apply" \notin Applying
  BY DEF Applying
<1>2. pull'.phase = "apply" /\ pull'.group = None /\ pull'.outcome = "none" /\ pull'.groups = pull.groups
  BY <1>1 DEF GroupEnds, GroupsInv, Shape, Fields, RowsInv, Stage
<1> QED
  BY <1>1, <1>2 DEF RowsInv, Stage

\* What a failure puts back.
PutBack ==
    /\ DOMAIN rows' = DOMAIN pull.saved.rows
    /\ \A e \in DOMAIN rows' : Sides(rows'[e]) = Sides(pull.saved.rows[e])

LEMMA PutsBack ==
    ASSUME RowsInv, pull.phase \in Applying, rows' = Restored(rows, pull.saved)
    PROVE  PutBack /\ Sound(rows')
<1>1. Snapshot(pull.saved) /\ BehindOf(rows, pull.saved)
  BY DEF RowsInv, Stage, HoldsGroup
<1> QED
  BY <1>1, RestoredIs DEF PutBack

\* A rename whose source is gone fails the group.
LEMMA MovesKeepRows ==
    GroupsInv /\ RowsInv /\ (MovePaths \/ WriteFile) => RowsInv' /\ (pull'.outcome = "none" \/ PutBack)
<1> SUFFICES ASSUME GroupsInv, RowsInv, MovePaths \/ WriteFile
             PROVE  RowsInv' /\ (pull'.outcome = "none" \/ PutBack)
  OBVIOUS
<1>1. \/ /\ rows' = rows
         /\ \/ pull.phase = "move" /\ \E t : pull' = [pull EXCEPT !.phase = "write", !.todo = t]
            \/ pull.phase = "write" /\ \E t : pull' = [pull EXCEPT !.todo = t]
      \/ pull.phase = "move" /\ rows' = Restored(rows, pull.saved) /\ Stops("failed")
  BY DEF MovePaths, WriteFile
<1>2. CASE pull.phase = "move" /\ rows' = Restored(rows, pull.saved) /\ Stops("failed")
  <2>1. pull.phase \in Applying
    BY <1>2 DEF Applying
  <2>2. PutBack /\ Sound(rows')
    BY <1>2, <2>1, PutsBack
  <2> QED
    BY <1>2, <2>2, StopKeepsRows DEF Stops
<1> QED
  BY <1>1, <1>2, FilesKeepRows

LEMMA WritesBehind ==
    ASSUME RowsInv, pull.phase \in Applying, NEW rs, rs = InTurn(rows, Written, pull.group.plans)
    PROVE  rs = Raised \/ BehindOf(rs, pull.saved)
<1> DEFINE s == pull.group.plans
           n == Len(s)
           E == pull.saved.entries
           Q == pull.saved.queued
           old == pull.saved.rows
<1>1. rs = WriteAll(rows, s)
  BY DEF InTurn, WriteAll
<1>2. n \in Nat /\ (\A i \in 1..n : s[i].entry \in E) /\ Q \in SUBSET Entry /\ E \in SUBSET Q
  BY DEF RowsInv, Stage, HoldsGroup, Snapshot
<1>3. Behind(rows, old, E, Q)
  BY DEF RowsInv, BehindOf
<1> HIDE DEF s, E, Q, old
<1>4. PICK f : Turns(f, "write", None, rows, s, n) /\ WriteAll(rows, s) = f[n]
  BY <1>2, WriteTurns
<1> HIDE DEF n
<1>5. f[n] = Raised \/ Behind(f[n], old, E, Q)
  BY <1>2, <1>3, <1>4, BehindWritten
<1> QED
  BY <1>1, <1>4, <1>5 DEF BehindOf, E, Q, old

LEMMA WriteKeepsRows == GroupsInv /\ RowsInv /\ WriteRows => RowsInv' /\ (pull'.outcome = "none" \/ PutBack)
<1> SUFFICES ASSUME GroupsInv, RowsInv, WriteRows PROVE RowsInv' /\ (pull'.outcome = "none" \/ PutBack)
  OBVIOUS
<1> DEFINE rs == InTurn(rows, Written, pull.group.plans)
<1>1. pull.phase \in Applying /\ pull.phase = "write" /\ pull.outcome = "none"
  <2>1. pull.phase = "write"
    BY DEF WriteRows
  <2> QED
    BY <2>1 DEF Applying, RowsInv, Stage
<1>2. \/ rs = Raised /\ rows' = Restored(rows, pull.saved) /\ Raises
      \/ rs # Raised /\ rows' = rs /\ pull' = GroupEnds
      \/ rs # Raised /\ rows' = rs /\ pull' = [pull EXCEPT !.phase = "merge"]
  BY DEF WriteRows
<1>3. rs = Raised \/ BehindOf(rs, pull.saved)
  BY <1>1, WritesBehind
<1> HIDE DEF rs
<1>4. CASE rows' = Restored(rows, pull.saved) /\ Raises
  <2>1. PutBack /\ Sound(rows')
    BY <1>1, <1>4, PutsBack
  <2> QED
    BY <1>4, <2>1, StopKeepsRows DEF Raises, Stops
<1>5. CASE rs # Raised /\ rows' = rs /\ pull' = GroupEnds
  <2>1. Sound(rows')
    BY <1>3, <1>5 DEF BehindOf, Behind
  <2>2. RowsInv'
    BY <1>1, <1>5, <2>1, GroupEndsRows
  <2>3. pull'.outcome = "none"
    BY <1>1, <1>5 DEF GroupEnds, GroupsInv, Shape, Fields
  <2> QED
    BY <2>2, <2>3
<1>6. CASE rs # Raised /\ rows' = rs /\ pull' = [pull EXCEPT !.phase = "merge"]
  <2>1. /\ pull'.phase = "merge" /\ pull'.group = pull.group /\ pull'.saved = pull.saved
        /\ pull'.outcome = pull.outcome /\ pull'.groups = pull.groups
    BY <1>6 DEF GroupsInv, Shape, Fields
  <2>2. pull'.phase \in Applying
    BY <2>1 DEF Applying
  <2>3. BehindOf(rows', pull.saved)
    BY <1>3, <1>6
  <2>4. RowsInv'
    BY <1>1, <2>1, <2>2, <2>3, GroupKeepsRows
  <2> QED
    BY <1>1, <2>1, <2>4
<1> QED
  BY <1>2, <1>4, <1>5, <1>6

LEMMA MergesKeepRows == GroupsInv /\ RowsInv /\ ApplyMerges => RowsInv' /\ (pull'.outcome = "none" \/ PutBack)
<1> SUFFICES ASSUME GroupsInv, RowsInv, ApplyMerges PROVE RowsInv' /\ (pull'.outcome = "none" \/ PutBack)
  OBVIOUS
<1> DEFINE rs == RebaseAll(rows, SetToSeq(Merged))
<1>1. pull.phase \in Applying /\ pull.outcome = "none"
  <2>1. pull.phase = "merge"
    BY DEF ApplyMerges
  <2> QED
    BY <2>1 DEF Applying, RowsInv, Stage
<1>2. \/ rs = Raised /\ rows' = Restored(rows, pull.saved) /\ Raises
      \/ rs # Raised /\ rows' = rs /\ pull' = GroupEnds
  BY DEF ApplyMerges, Each, InTurn, RebaseAll
<1>3. Standing(rs)
  <2>1. Pends(pull.group.conflicts) /\ Merged \in SUBSET pull.group.conflicts
    BY <1>1 DEF RowsInv, Stage, HoldsGroup, Merged
  <2>2. IsFiniteSet(Merged) /\ \A c \in Merged : c.of \in Entry
    BY <2>1, FS_Subset DEF Pends
  <2>3. Standing(rows)
    BY DEF RowsInv, Standing
  <2> QED
    BY <2>2, <2>3, RebaseStands
<1> HIDE DEF rs
<1>4. CASE rows' = Restored(rows, pull.saved) /\ Raises
  <2>1. PutBack /\ Sound(rows')
    BY <1>1, <1>4, PutsBack
  <2> QED
    BY <1>4, <2>1, StopKeepsRows DEF Raises, Stops
<1>5. CASE rs # Raised /\ rows' = rs /\ pull' = GroupEnds
  <2>1. Sound(rows')
    BY <1>3, <1>5 DEF Standing
  <2>2. RowsInv'
    BY <1>1, <1>5, <2>1, GroupEndsRows
  <2>3. pull'.outcome = "none"
    BY <1>1, <1>5 DEF GroupEnds, GroupsInv, Shape, Fields
  <2> QED
    BY <2>2, <2>3
<1> QED
  BY <1>2, <1>4, <1>5

LEMMA EndKeepsRows == GroupsInv /\ RowsInv /\ EndWindow => RowsInv'
<1> SUFFICES ASSUME GroupsInv, RowsInv, EndWindow PROVE RowsInv'
  OBVIOUS
<1>1. Sound(rows')
  BY DEF EndWindow, RowsInv
<1>2. CASE pull.rest = << >>
  BY <1>1, <1>2, StopKeepsRows DEF EndWindow, Stops
<1>3. CASE pull.rest # << >>
  <2> DEFINE w == pull.deferred \o pull.rest
  <2>1. pull' = [NoPull EXCEPT !.phase = "plan", !.window = w]
    BY <1>3 DEF EndWindow
  <2> HIDE DEF w
  <2>2. pull'.phase = "plan" /\ pull'.group = None /\ pull'.groups = << >> /\ pull'.outcome = "none"
    BY <2>1 DEF NoPull
  <2>3. DOMAIN << >> = {} /\ "plan" \notin Applying
    BY DEF Applying
  <2> QED
    BY <1>1, <2>2, <2>3 DEF RowsInv, Stage, AllReady
<1> QED
  BY <1>2, <1>3

LEMMA FailKeepsRows == RowsInv /\ PullFails => RowsInv' /\ (pull.group = None \/ PutBack)
<1> SUFFICES ASSUME RowsInv, PullFails PROVE RowsInv' /\ (pull.group = None \/ PutBack)
  OBVIOUS
<1>1. rows' = (IF pull.group = None THEN rows ELSE Restored(rows, pull.saved)) /\ Stops("failed")
  BY DEF PullFails
<1>2. CASE pull.group = None
  BY <1>1, <1>2, StopKeepsRows DEF RowsInv, Stops
<1>3. CASE pull.group # None
  <2>1. pull.phase \in Applying
    BY <1>3 DEF RowsInv, Stage
  <2>2. PutBack /\ Sound(rows')
    BY <1>1, <1>3, <2>1, PutsBack
  <2> QED
    BY <1>1, <2>2, StopKeepsRows DEF Stops
<1> QED
  BY <1>2, <1>3

LEMMA OutsideKeepsRows == RowsInv /\ (UserActs \/ OthersWrite \/ OthersDelete \/ Crash) => RowsInv'
<1> SUFFICES ASSUME RowsInv, UserActs \/ OthersWrite \/ OthersDelete \/ Crash PROVE RowsInv'
  OBVIOUS
<1>1. Sound(rows')
  BY UserKeepsRows DEF RowsInv, OthersWrite, OthersDelete, Crash
<1>2. pull' = NoPull \/ \E o : pull' = [NoPull EXCEPT !.outcome = o]
  BY DEF UserActs, OthersWrite, OthersDelete, Crash, Stops
<1> QED
  BY <1>1, <1>2, NoPullKeepsRows, StopKeepsRows

LEMMA IdleKeepsRows == RowsInv /\ UNCHANGED pullVars => RowsInv'
BY DEF RowsInv, pullVars

LEMMA StepKeepsRows ==
    GroupsInv /\ RowsInv /\ [PullNext]_pullVars => GroupsInv' /\ RowsInv'
<1> SUFFICES ASSUME GroupsInv, RowsInv, [PullNext]_pullVars PROVE GroupsInv' /\ RowsInv'
  OBVIOUS
<1>1. CASE UserActs \/ OthersWrite \/ OthersDelete \/ Crash
  BY <1>1, OutsideKeepsGroups, OutsideKeepsRows
<1>2. CASE PullStart \/ PlanWindow
  BY <1>2, StartKeepsGroups, PlanKeepsGroups, PlansKeepRows
<1>3. CASE PrepareAhead
  BY <1>3, PrepareKeepsGroups, PrepareKeepsRows
<1>4. CASE Settle
  BY <1>4, SettleKeepsGroups, SettleKeepsRows
<1>5. CASE MovePaths \/ WriteFile
  BY <1>5, GroupStepsKeepGroups, MovesKeepRows
<1>6. CASE WriteRows
  BY <1>6, GroupStepsKeepGroups, WriteKeepsRows
<1>7. CASE ApplyMerges
  BY <1>7, GroupStepsKeepGroups, MergesKeepRows
<1>8. CASE EndWindow
  BY <1>8, EndKeepsGroups, EndKeepsRows
<1>9. CASE PullFails
  BY <1>9, OutsideKeepsGroups, FailKeepsRows
<1>10. CASE UNCHANGED pullVars
  BY <1>10, IdleKeepsGroups, IdleKeepsRows
<1> QED
  BY <1>1, <1>2, <1>3, <1>4, <1>5, <1>6, <1>7, <1>8, <1>9, <1>10 DEF PullNext

(***************************************************************************)
(* The store's table stays a table whatever the pulls and the user do: no  *)
(* two rows have one key, every row has the keys of its sides and is known *)
(* to one of them (sqlite-store/schema.ts, the unique indexes; putEntry).  *)
(***************************************************************************)
THEOREM RowsStaySound == Spec => []Sound(rows)
<1>1. PullInit => GroupsInv /\ RowsInv
  BY InitGroups, InitRows
<1>2. GroupsInv /\ RowsInv => Sound(rows)
  BY DEF RowsInv
<1> QED
  BY <1>1, <1>2, StepKeepsRows, PTL DEF Spec

\* A step that is taken while a group is applied, and ends the pull as it failed.
Restores ==
    pull.group # None /\ pull'.outcome \in {"failed", "raised"} => PutBack

(***************************************************************************)
(* A group that fails leaves every row as it was before: whatever the      *)
(* group is, at whatever step it fails, and though entries may have come   *)
(* to share the paths that are put back meanwhile                          *)
(* (pull-entry-state-applier.ts, applyPreparedManifest).                   *)
(***************************************************************************)
THEOREM FailureRestoresRows == Spec => FailureRestores
<1>1. PullInit => GroupsInv /\ RowsInv
  BY InitGroups, InitRows
<1>2. GroupsInv /\ RowsInv /\ [PullNext]_pullVars => GroupsInv' /\ RowsInv'
  BY StepKeepsRows
<1>3. GroupsInv /\ RowsInv /\ [PullNext]_pullVars => [Restores]_pullVars
  <2> SUFFICES ASSUME GroupsInv, RowsInv, PullNext, pull.group # None, pull'.outcome \in {"failed", "raised"}
               PROVE  PutBack
    BY DEF Restores
  <2>1. pull.phase \in Applying /\ pull.outcome = "none"
    BY DEF RowsInv, Stage, Applying
  <2>2. CASE UserActs \/ OthersWrite \/ OthersDelete \/ PullStart \/ PlanWindow \/ PrepareAhead \/ Settle \/ EndWindow
    <3>1. pull.phase \in {"idle", "plan", "apply"} /\ Applying \cap {"idle", "plan", "apply"} = {}
      BY <2>2 DEF UserActs, OthersWrite, OthersDelete, PullStart, PlanWindow, PrepareAhead, Settle, EndWindow,
                  Idle, Applying
    <3> QED
      BY <2>1, <3>1
  <2>3. CASE MovePaths \/ WriteFile
    BY <2>3, MovesKeepRows
  <2>4. CASE WriteRows
    BY <2>4, WriteKeepsRows
  <2>5. CASE ApplyMerges
    BY <2>5, MergesKeepRows
  <2>6. CASE PullFails
    BY <2>6, FailKeepsRows
  <2>7. CASE Crash
    <3>1. pull'.outcome = "crashed"
      BY <2>7 DEF Crash, Stops, NoPull
    <3> QED
      BY <3>1
  <2> QED
    BY <2>2, <2>3, <2>4, <2>5, <2>6, <2>7 DEF PullNext
<1>4. [][Restores]_pullVars => FailureRestores
  <2>1. [Restores]_pullVars => [ (pull.group # None /\ pull'.outcome \in {"failed", "raised"})
        => /\ DOMAIN rows' = DOMAIN pull.saved.rows
           /\ \A e \in DOMAIN rows' : Sides(rows'[e]) = Sides(pull.saved.rows[e]) ]_pullVars
    BY DEF Restores, PutBack
  <2> QED
    BY <2>1, PTL DEF FailureRestores
<1> QED
  BY <1>1, <1>2, <1>3, <1>4, PTL DEF Spec

-----------------------------------------------------------------------------
(* Types: the rows. *)

RowTyped(w) ==
    IF w.dirty THEN w.pending.op \in {"upsert", "delete"} /\ w.pending.path \in Place ELSE w.pending = None
RowsTyped(rs) == \A e \in DOMAIN rs : RowTyped(rs[e])
Firm(t) == t = Raised \/ (Table(t) /\ RowsTyped(t))

LEMMA FirmBeside ==
    ASSUME NEW rs, RowsTyped(rs), NEW e, NEW t, Table(t), Beside(rs, e, t), e \in DOMAIN t => RowTyped(t[e])
    PROVE  Firm(t)
<1>1. ASSUME NEW d \in DOMAIN t PROVE RowTyped(t[d])
  <2>1. CASE d = e
    BY <2>1
  <2>2. CASE d # e
    <3>1. d \in Entry \ {e}
      BY <2>2 DEF Table
    <3>2. d \in DOMAIN rs /\ t[d] = rs[d]
      BY <3>1 DEF Beside
    <3> QED
      BY <3>2 DEF RowsTyped
  <2> QED
    BY <2>1, <2>2
<1> QED
  BY <1>1 DEF Firm, RowsTyped

LEMMA RowOfTyped ==
    ASSUME NEW rs, Firm(rs), NEW e \in Entry
    PROVE  LET o == RowOf(rs, e) IN IsRow(o) /\ Keyed(o) /\ RowTyped(o)
<1>1. RowTyped(NoRow)
  BY DEF RowTyped, NoRow
<1>2. CASE rs = Raised
  BY <1>1, <1>2, RaisedStays, RowOfIs, NoRowIs
<1>3. CASE Table(rs) /\ RowsTyped(rs)
  <2>1. RowOf(rs, e) = IF e \in DOMAIN rs THEN rs[e] ELSE NoRow
    BY RowOfIs
  <2>2. IsRow(RowOf(rs, e)) /\ Keyed(RowOf(rs, e))
    BY <1>3, RowType
  <2> QED
    BY <1>1, <1>3, <2>1, <2>2 DEF RowsTyped
<1> QED
  BY <1>2, <1>3 DEF Firm

LEMMA PutFirm ==
    ASSUME NEW rs, Firm(rs), NEW e \in Entry, NEW w, IsRow(w), RowTyped(w)
    PROVE  Firm(Put(rs, e, w))
<1> DEFINE t == Put(rs, e, w)
           d == w.dirty
<1>1. CASE rs = Raised
  BY <1>1, RaisedStays DEF Firm
<1>2. CASE Table(rs) /\ RowsTyped(rs)
  <2>1. /\ Fits(rs, e, w) => Holds(rs, e, t, w.remote, w.local, d) /\ t[e].pending = w.pending
        /\ ~Fits(rs, e, w) => t = Raised
    BY <1>2, PutHolds
  <2>2. CASE Fits(rs, e, w)
    <3>1. Table(t) /\ Beside(rs, e, t) /\ (t[e].dirty <=> d) /\ t[e].pending = w.pending
      BY <2>1, <2>2 DEF Holds
    <3>2. RowTyped(t[e])
      BY <3>1 DEF RowTyped
    <3> HIDE DEF t
    <3>3. Firm(t)
      BY <1>2, <3>1, <3>2, FirmBeside
    <3> QED
      BY <3>3 DEF t
  <2>3. CASE ~Fits(rs, e, w)
    BY <2>1, <2>3 DEF Firm
  <2> QED
    BY <2>2, <2>3
<1> QED
  BY <1>1, <1>2 DEF Firm

LEMMA DropFirm ==
    ASSUME NEW rs, Firm(rs), NEW e \in Entry
    PROVE  Firm(Drop(rs, e))
<1> DEFINE t == Drop(rs, e)
<1>1. CASE rs = Raised
  BY <1>1, RaisedStays DEF Firm
<1>2. CASE Table(rs) /\ RowsTyped(rs)
  <2>1. Drops(rs, e, t)
    BY <1>2, DropOf
  <2> HIDE DEF t
  <2>2. Firm(t)
    BY <1>2, <2>1, FirmBeside DEF Drops
  <2> QED
    BY <2>2 DEF t
<1> QED
  BY <1>1, <1>2 DEF Firm

LEMMA CleanFirm ==
    ASSUME NEW rs, Firm(rs), NEW e \in Entry
    PROVE  Firm(Clean(rs, e))
<1>1. CASE e \notin DOMAIN rs
  BY <1>1 DEF Clean
<1>2. CASE e \in DOMAIN rs
  <2> DEFINE w == ClearPending(rs[e])
  <2>1. IsRow(rs[e])
    BY <1>2, RaisedStays DEF Firm, Table
  <2>2. IsRow(w) /\ ~w.dirty /\ w.pending = None
    BY <2>1, ClearPendingOf
  <2>3. Clean(rs, e) = Put(rs, e, w)
    BY <1>2 DEF Clean
  <2> HIDE DEF w
  <2> QED
    BY <2>2, <2>3, PutFirm DEF RowTyped
<1> QED
  BY <1>1, <1>2

\* The calls that leave the pending mutation of a row alone.
LEMMA SetRemoteFirm ==
    ASSUME NEW rs, Firm(rs), NEW e \in Entry, NEW r
    PROVE  Firm(SetRemote(rs, e, r))
<1> DEFINE o == RowOf(rs, e)
           t == SetRemote(rs, e, r)
<1>1. CASE rs = Raised
  <2>1. \E w : t = Put(rs, e, w)
    BY DEF SetRemote
  <2> QED
    BY <1>1, <2>1, RaisedStays DEF Firm
<1>2. CASE Table(rs)
  <2>1. PICK w : IsRow(w) /\ t = Put(rs, e, w) /\ (w.dirty <=> o.dirty) /\ w.pending = o.pending
    BY <1>2, SetRemoteIs
  <2>2. RowTyped(o)
    BY RowOfTyped
  <2> HIDE DEF o, t
  <2>3. RowTyped(w)
    BY <2>1, <2>2 DEF RowTyped
  <2>4. Firm(t)
    BY <2>1, <2>3, PutFirm
  <2> QED
    BY <2>4 DEF t
<1> QED
  BY <1>1, <1>2 DEF Firm

LEMMA SetLocalFirm ==
    ASSUME NEW rs, Firm(rs), NEW e \in Entry, NEW place, NEW text, NEW deleted
    PROVE  Firm(SetLocal(rs, e, place, text, deleted))
<1> DEFINE o == RowOf(rs, e)
           t == SetLocal(rs, e, place, text, deleted)
<1>1. CASE rs = Raised
  <2>1. \E w : t = Put(rs, e, w)
    BY DEF SetLocal
  <2> QED
    BY <1>1, <2>1, RaisedStays DEF Firm
<1>2. CASE Table(rs)
  <2>0. t = SetLocal(rs, e, place, text, deleted) /\ o = RowOf(rs, e)
    OBVIOUS
  <2>2. RowTyped(o)
    BY RowOfTyped
  <2> HIDE DEF o, t
  <2>1. PICK w : /\ IsRow(w) /\ t = Put(rs, e, w) /\ (w.dirty <=> o.dirty) /\ w.pending = o.pending
                 /\ w.local = [known |-> TRUE, path |-> place, hash |-> text, deleted |-> deleted]
    BY <1>2, <2>0, SetLocalIs
  <2>3. RowTyped(w)
    BY <2>1, <2>2 DEF RowTyped
  <2>4. Firm(t)
    BY <2>1, <2>3, PutFirm
  <2> QED
    BY <2>4 DEF t
<1> QED
  BY <1>1, <1>2 DEF Firm

LEMMA ClearRemoteFirm ==
    ASSUME NEW rs, Firm(rs), NEW e \in Entry
    PROVE  Firm(ClearRemote(rs, e))
<1> DEFINE t == ClearRemote(rs, e)
<1>1. CASE e \notin DOMAIN rs
  BY <1>1 DEF ClearRemote
<1>2. CASE e \in DOMAIN rs
  <2>1. Table(rs) /\ RowsTyped(rs)
    BY <1>2, RaisedStays DEF Firm
  <2> DEFINE l == rs[e].local
             d == rs[e].dirty
  <2>2. Drops(rs, e, t) \/ (Holds(rs, e, t, NoRemote, l, d) /\ t[e].pending = rs[e].pending)
    BY <1>2, <2>1, ClearRemoteIs
  <2> HIDE DEF t
  <2>3. CASE Drops(rs, e, t)
    BY <2>1, <2>3, FirmBeside DEF Drops, t
  <2>4. CASE Holds(rs, e, t, NoRemote, l, d) /\ t[e].pending = rs[e].pending
    <3>1. Table(t) /\ Beside(rs, e, t) /\ (t[e].dirty <=> d)
      BY <2>4 DEF Holds
    <3>2. RowTyped(t[e])
      BY <1>2, <2>1, <2>4, <3>1 DEF RowsTyped, RowTyped
    <3> QED
      BY <2>1, <3>1, <3>2, FirmBeside DEF t
  <2> QED
    BY <2>2, <2>3, <2>4
<1> QED
  BY <1>1, <1>2

LEMMA ClearLocalFirm ==
    ASSUME NEW rs, Firm(rs), NEW e \in Entry
    PROVE  Firm(ClearLocal(rs, e))
<1> DEFINE t == ClearLocal(rs, e)
<1>1. CASE e \notin DOMAIN rs
  BY <1>1 DEF ClearLocal
<1>2. CASE e \in DOMAIN rs
  <2>1. Table(rs) /\ RowsTyped(rs)
    BY <1>2, RaisedStays DEF Firm
  <2> DEFINE r == rs[e].remote
             d == rs[e].dirty
  <2>2. Drops(rs, e, t) \/ (Holds(rs, e, t, r, NoLocal, d) /\ t[e].pending = rs[e].pending)
    BY <1>2, <2>1, ClearLocalIs
  <2> HIDE DEF t
  <2>3. CASE Drops(rs, e, t)
    BY <2>1, <2>3, FirmBeside DEF Drops, t
  <2>4. CASE Holds(rs, e, t, r, NoLocal, d) /\ t[e].pending = rs[e].pending
    <3>1. Table(t) /\ Beside(rs, e, t) /\ (t[e].dirty <=> d)
      BY <2>4 DEF Holds
    <3>2. RowTyped(t[e])
      BY <1>2, <2>1, <2>4, <3>1 DEF RowsTyped, RowTyped
    <3> QED
      BY <2>1, <3>1, <3>2, FirmBeside DEF t
  <2> QED
    BY <2>2, <2>3, <2>4
<1> QED
  BY <1>1, <1>2

LEMMA UpsertFirm ==
    ASSUME NEW rs, Firm(rs), NEW e \in Entry, NEW path, NEW rev, NEW text, NEW deleted
    PROVE  Firm(Upsert(rs, e, path, rev, text, deleted))
<1> DEFINE t == Upsert(rs, e, path, rev, text, deleted)
<1>0. t = Upsert(rs, e, path, rev, text, deleted)
  OBVIOUS
<1> HIDE DEF t
<1>1. PICK w : /\ IsRow(w) /\ t = Put(rs, e, w) /\ ~w.dirty /\ w.pending = None
               /\ w.remote = [known |-> TRUE, path |-> path, rev |-> rev, hash |-> text, deleted |-> deleted]
               /\ w.local = [known |-> TRUE, path |-> path, hash |-> text, deleted |-> deleted]
  BY <1>0, UpsertIs
<1>2. Firm(t)
  BY <1>1, PutFirm DEF RowTyped
<1> QED
  BY <1>2 DEF t

LEMMA QueueFirm ==
    ASSUME NEW rs, Firm(rs), NEW e \in Entry, NEW m, m.op \in {"upsert", "delete"}, m.path \in Place
    PROVE  Firm(Put(rs, e, ToDirty(RowOf(rs, e), m)))
<1> DEFINE o == RowOf(rs, e)
           w == ToDirty(o, m)
<1>1. IsRow(o)
  BY RowOfTyped
<1>2. IsRow(w) /\ w.dirty /\ w.pending = m
  BY <1>1, ToDirtyOf
<1> HIDE DEF w
<1>3. RowTyped(w)
  BY <1>2 DEF RowTyped
<1>4. Firm(Put(rs, e, w))
  BY <1>2, <1>3, PutFirm
<1> QED
  BY <1>4 DEF w

\* What a step of a loop needs, for the rows to keep their types.
Sane(k, c, x) ==
    CASE k \in {"skip", "base", "supersede", "drop", "clear", "back"} -> x \in Entry
      [] k = "clean" -> x.of \in Entry
      [] k \in {"release", "write"} -> x.entry \in Entry
      [] k = "requeue" -> x \in Entry /\ Table(c) /\ RowsTyped(c)
      [] k = "rebase" -> x.of \in Entry /\ (x.kind # "remote" => x.place \in Place)

LEMMA SupersedeFirm ==
    ASSUME NEW t, Firm(t), NEW x \in Entry, NEW c
    PROVE  Firm(Supersede(t, x, c))
<1> DEFINE cleaned == Clean(t, x)
           bare == ClearLocal(cleaned, x)
           u == Supersede(t, x, c)
<1>1. (\E r : u = SetRemote(bare, x, r)) \/ u = bare
  BY DEF Supersede
<1>2. Firm(cleaned)
  BY CleanFirm
<1> HIDE DEF cleaned
<1>3. Firm(bare)
  BY <1>2, ClearLocalFirm
<1> HIDE DEF bare, u
<1>4. Firm(u)
  BY <1>1, <1>3, SetRemoteFirm
<1> QED
  BY <1>4 DEF u

LEMMA BackFirm ==
    ASSUME NEW t, Firm(t), NEW x \in Entry, NEW old
    PROVE  Firm(Back(t, x, old))
<1> DEFINE r == IF old.remote.known THEN SetRemote(t, x, old.remote) ELSE ClearRemote(t, x)
           l == IF old.local.known
                THEN SetLocal(r, x, old.local.path, old.local.hash, old.local.deleted) ELSE ClearLocal(r, x)
           u == Back(t, x, old)
<1>1. u \in {Drop(l, x), l}
  BY DEF Back
<1>2. Firm(r)
  BY SetRemoteFirm, ClearRemoteFirm
<1> HIDE DEF r
<1>3. Firm(l)
  <2>1. CASE old.local.known
    <3> DEFINE path == old.local.path
               hash == old.local.hash
               deleted == old.local.deleted
    <3>1. l = SetLocal(r, x, path, hash, deleted)
      BY <2>1
    <3> HIDE DEF path, hash, deleted, l
    <3> QED
      BY <1>2, <3>1, SetLocalFirm
  <2>2. CASE ~old.local.known
    BY <1>2, <2>2, ClearLocalFirm
  <2> QED
    BY <2>1, <2>2
<1> HIDE DEF l, u
<1>4. Firm(u)
  BY <1>1, <1>3, DropFirm
<1> QED
  BY <1>4 DEF u

LEMMA RequeueFirm ==
    ASSUME NEW t, Firm(t), NEW x \in Entry, NEW old, RowTyped(old)
    PROVE  Firm(Requeued(t, x, old))
<1> DEFINE clean == Clean(t, x)
           m == old.pending
<1>1. Requeued(t, x, old) = IF old.dirty THEN Put(clean, x, ToDirty(RowOf(clean, x), m)) ELSE clean
  BY DEF Requeued
<1>2. Firm(clean)
  BY CleanFirm
<1> HIDE DEF clean
<1>3. CASE old.dirty
  <2>1. m.op \in {"upsert", "delete"} /\ m.path \in Place
    BY <1>3 DEF RowTyped
  <2> HIDE DEF m
  <2> QED
    BY <1>1, <1>2, <1>3, <2>1, QueueFirm
<1> QED
  BY <1>1, <1>2, <1>3

LEMMA DirtyLocalFirm ==
    ASSUME NEW t, Firm(t), NEW x \in Entry, NEW m, m.op \in {"upsert", "delete"}, m.path \in Place,
           NEW place, NEW text, NEW deleted
    PROVE  Firm(SetLocal(Put(t, x, ToDirty(RowOf(t, x), m)), x, place, text, deleted))
<1> DEFINE mid == Put(t, x, ToDirty(RowOf(t, x), m))
<1>1. Firm(mid)
  BY QueueFirm
<1> HIDE DEF mid
<1>2. Firm(SetLocal(mid, x, place, text, deleted))
  BY <1>1, SetLocalFirm
<1> QED
  BY <1>2 DEF mid

LEMMA RebaseFirm ==
    ASSUME NEW t, Firm(t), NEW x, x.of \in Entry, x.kind # "remote" => x.place \in Place
    PROVE  Firm(Rebased(t, x))
<1> DEFINE d == x.of
           u == Rebased(t, x)
<1>1. CASE x.kind = "remote"
  <2>1. u = Clean(t, d)
    BY <1>1 DEF Rebased
  <2> HIDE DEF d, u
  <2>2. d \in Entry
    BY DEF d
  <2>3. Firm(u)
    BY <2>1, <2>2, CleanFirm
  <2> QED
    BY <2>3 DEF u
<1>2. CASE x.kind # "remote"
  <2> DEFINE m == [op |-> "upsert", path |-> x.place, hash |-> x.text, rev |-> server[x.plan].rev,
                   baseHash |-> server[x.plan].text, at |-> locals]
             place == x.place
             text == x.text
             gone == FALSE
  <2>1. u = SetLocal(Put(t, d, ToDirty(RowOf(t, d), m)), d, place, text, gone)
    BY <1>2 DEF Rebased
  <2>2. m.op \in {"upsert", "delete"} /\ m.path \in Place /\ d \in Entry
    BY <1>2
  <2> HIDE DEF m, place, text, gone, d, u
  <2>3. Firm(u)
    BY <2>1, <2>2, DirtyLocalFirm
  <2> QED
    BY <2>3 DEF u
<1> QED
  BY <1>1, <1>2

RowSteps == {"skip", "base", "supersede", "clean", "drop", "release", "write", "clear", "back", "requeue", "rebase"}
LEMMA DoFirm ==
    ASSUME NEW t, Firm(t), NEW k \in RowSteps, NEW c, NEW x, Sane(k, c, x)
    PROVE  Firm(Do(k, c, t, x))
<1> DEFINE u == Do(k, c, t, x)
<1>1. CASE k = "skip"
  BY <1>1, SetRemoteFirm DEF Sane, Do
<1>2. CASE k = "base"
  <2> DEFINE place == At(c[x])
             text == {<<"base", c[x]>>}
             gone == FALSE
  <2>1. u = Upsert(t, x, place, 1, text, gone) /\ x \in Entry
    BY <1>2 DEF Sane, Do
  <2> HIDE DEF place, text, gone, u
  <2>2. Firm(u)
    BY <2>1, UpsertFirm
  <2> QED
    BY <2>2 DEF u
<1>3. CASE k = "supersede"
  BY <1>3, SupersedeFirm DEF Sane, Do
<1>4. CASE k = "clean"
  BY <1>4, CleanFirm DEF Sane, Do
<1>5. CASE k = "drop"
  BY <1>5, DropFirm DEF Sane, Do
<1>6. CASE k = "release"
  <2> DEFINE old == x.existing
             rev == old.rev
             hash == old.hash
             deleted == old.deleted
             e == x.entry
  <2>1. u = ReleasePath(t, x) /\ e \in Entry
    BY <1>6 DEF Sane, Do
  <2>2. u = t \/ u = Upsert(t, e, None, rev, hash, deleted)
    BY <2>1 DEF ReleasePath
  <2>3. e \in Entry
    BY <2>1
  <2> HIDE DEF old, rev, hash, deleted, e, u
  <2>4. Firm(u)
    BY <2>2, <2>3, UpsertFirm
  <2> QED
    BY <2>4 DEF u
<1>7. CASE k = "write"
  <2> DEFINE e == x.entry
             place == IF server[e].deleted THEN server[e].path ELSE x.final
             rev == server[e].rev
             hash == State(e).hash
             deleted == server[e].deleted
  <2>1. u = Upsert(t, e, place, rev, hash, deleted) /\ e \in Entry
    BY <1>7 DEF Sane, Do, Written
  <2> HIDE DEF e, place, rev, hash, deleted, u
  <2>2. Firm(u)
    BY <2>1, UpsertFirm
  <2> QED
    BY <2>2 DEF u
<1>8. CASE k = "clear"
  <2> DEFINE v == ClearRemote(t, x)
  <2>1. u = ClearLocal(v, x) /\ x \in Entry
    BY <1>8 DEF Sane, Do
  <2>2. Firm(v)
    BY <2>1, ClearRemoteFirm
  <2> HIDE DEF v, u
  <2>3. Firm(u)
    BY <2>1, <2>2, ClearLocalFirm
  <2> QED
    BY <2>3 DEF u
<1>9. CASE k = "back"
  BY <1>9, BackFirm DEF Sane, Do
<1>10. CASE k = "requeue"
  <2>1. u = Requeued(t, x, RowOf(c, x)) /\ x \in Entry /\ Table(c) /\ RowsTyped(c)
    BY <1>10 DEF Sane, Do
  <2>2. RowTyped(RowOf(c, x))
    BY <2>1, RowOfTyped DEF Firm
  <2> QED
    BY <2>1, <2>2, RequeueFirm
<1>11. CASE k = "rebase"
  BY <1>11, RebaseFirm DEF Sane, Do
<1> QED
  BY <1>1, <1>2, <1>3, <1>4, <1>5, <1>6, <1>7, <1>8, <1>9, <1>10, <1>11 DEF RowSteps

LEMMA FirmTurns ==
    ASSUME NEW k \in RowSteps, NEW c, NEW rs, Firm(rs), NEW s, NEW n \in Nat, NEW f, Turns(f, k, c, rs, s, n),
           \A i \in 1..n : Sane(k, c, s[i])
    PROVE  Firm(f[n])
<1> DEFINE P == {i \in 0..n : Firm(f[i])}
<1>1. 0 \in P
  BY DEF Turns
<1>2. ASSUME NEW i \in 1..n, i - 1 \in P PROVE i \in P
  <2>1. f[i] = Do(k, c, f[i - 1], s[i])
    BY DEF Turns
  <2>2. Firm(f[i - 1]) /\ Sane(k, c, s[i]) /\ i \in 0..n
    BY <1>2
  <2> QED
    BY <2>1, <2>2, DoFirm
<1> HIDE DEF P
<1>3. n \in P
  BY <1>1, <1>2, UpTo
<1> QED
  BY <1>3 DEF P

LEMMA OrderedEntries ==
    ASSUME NEW S \in SUBSET Entry, NEW s, s = SetToSeq(S)
    PROVE  Len(s) \in Nat /\ \A i \in 1..Len(s) : s[i] \in Entry
<1>1. IsFiniteSet(S)
  BY FS_Subset, PullApplyAssumption
<1> QED
  BY <1>1, OrderOf

LEMMA SkipFirm ==
    ASSUME NEW rs, Firm(rs), NEW s \in Seq(Entry)
    PROVE  Firm(SkipAll(rs, s))
<1> DEFINE n == Len(s)
<1>1. n \in Nat /\ \A i \in 1..n : s[i] \in Entry
  OBVIOUS
<1>2. PICK f : Turns(f, "skip", None, rs, s, n) /\ SkipAll(rs, s) = f[n]
  BY <1>1, SkipTurns
<1>3. \A i \in 1..n : Sane("skip", None, s[i])
  BY <1>1 DEF Sane
<1> HIDE DEF n
<1>4. Firm(f[n])
  BY <1>1, <1>2, <1>3, FirmTurns DEF RowSteps
<1> QED
  BY <1>2, <1>4 DEF n

LEMMA BaseFirm ==
    ASSUME NEW S \in SUBSET Entry, NEW path
    PROVE  Firm(BaseAll(<< >>, SetToSeq(S), path))
<1> DEFINE s == SetToSeq(S)
           n == Len(s)
           rs == << >>
<1>1. n \in Nat /\ \A i \in 1..n : s[i] \in Entry
  BY OrderedEntries
<1>0. Firm(rs)
  <2>1. DOMAIN rs = {} /\ rs = [e \in DOMAIN rs |-> rs[e]]
    OBVIOUS
  <2> HIDE DEF rs
  <2> QED
    BY <2>1 DEF Firm, Table, RowsTyped
<1> HIDE DEF s, rs
<1>2. PICK f : Turns(f, "base", path, rs, s, n) /\ BaseAll(rs, s, path) = f[n]
  BY <1>1, BaseTurns
<1>3. \A i \in 1..n : Sane("base", path, s[i])
  BY <1>1 DEF Sane
<1> HIDE DEF n
<1>4. Firm(f[n])
  BY <1>0, <1>1, <1>2, <1>3, FirmTurns DEF RowSteps
<1> QED
  BY <1>2, <1>4 DEF s, n, rs

LEMMA WritesFirm ==
    ASSUME NEW rs, Firm(rs), NEW s, Len(s) \in Nat, \A i \in 1..Len(s) : s[i].entry \in Entry
    PROVE  Firm(WriteAll(rs, s))
<1> DEFINE n == Len(s)
<1>2. PICK f : Turns(f, "write", None, rs, s, n) /\ WriteAll(rs, s) = f[n]
  BY WriteTurns
<1>3. n \in Nat /\ \A i \in 1..n : Sane("write", None, s[i])
  BY DEF Sane
<1> HIDE DEF n
<1>4. Firm(f[n])
  BY <1>2, <1>3, FirmTurns DEF RowSteps
<1> QED
  BY <1>2, <1>4 DEF n

LEMMA RebasesFirm ==
    ASSUME NEW rs, Firm(rs), NEW S, IsFiniteSet(S),
           \A x \in S : x.of \in Entry /\ (x.kind # "remote" => x.place \in Place)
    PROVE  Firm(RebaseAll(rs, SetToSeq(S)))
<1> DEFINE s == SetToSeq(S)
           n == Len(s)
<1>1. n \in Nat /\ \A i \in 1..n : s[i] \in S
  BY OrderOf
<1> HIDE DEF s
<1>2. PICK f : Turns(f, "rebase", None, rs, s, n) /\ RebaseAll(rs, s) = f[n]
  BY <1>1, RebaseTurns
<1>3. \A i \in 1..n : Sane("rebase", None, s[i])
  BY <1>1 DEF Sane
<1> HIDE DEF n
<1>4. Firm(f[n])
  BY <1>1, <1>2, <1>3, FirmTurns DEF RowSteps
<1> QED
  BY <1>2, <1>4 DEF s, n

LEMMA RestoredFirm ==
    ASSUME NEW saved, Snapshot(saved), RowsTyped(saved.rows), NEW rs, Firm(rs)
    PROVE  Firm(Restored(rs, saved))
<1> DEFINE old == saved.rows
           E == saved.entries
           Q == saved.queued
           s == SetToSeq(E)
           q == SetToSeq(Q)
           cleared == ClearAll(rs, s)
           back == BackAll(cleared, s, old)
           again == RequeueAll(back, q, old)
<1>1. Restored(rs, saved) = again
  BY DEF Restored, Each, InTurn, ClearAll, BackAll, RequeueAll
<1>2. E \in SUBSET Entry /\ Q \in SUBSET Entry /\ Table(old) /\ RowsTyped(old)
  BY DEF Snapshot, Sound
<1> HIDE DEF old, E, Q
<1>3. /\ Len(s) \in Nat /\ \A i \in 1..Len(s) : s[i] \in Entry
      /\ Len(q) \in Nat /\ \A i \in 1..Len(q) : q[i] \in Entry
  BY <1>2, OrderedEntries
<1> HIDE DEF s, q
<1> DEFINE n == Len(s)
           m == Len(q)
<1>4. /\ \A i \in 1..n : Sane("clear", None, s[i]) /\ Sane("back", old, s[i])
      /\ \A i \in 1..m : Sane("requeue", old, q[i])
  BY <1>2, <1>3 DEF Sane
<1>5. PICK f : Turns(f, "clear", None, rs, s, n) /\ cleared = f[n]
  BY <1>3, ClearTurns
<1> HIDE DEF cleared
<1>6. PICK g : Turns(g, "back", old, cleared, s, n) /\ back = g[n]
  BY <1>3, BackTurns
<1> HIDE DEF back
<1>7. PICK h : Turns(h, "requeue", old, back, q, m) /\ again = h[m]
  BY <1>3, RequeueTurns
<1> HIDE DEF again
<1>0. n \in Nat /\ m \in Nat
  BY <1>3
<1> HIDE DEF n, m
<1>8. Firm(cleared)
  BY <1>0, <1>4, <1>5, FirmTurns DEF RowSteps
<1>9. Firm(back)
  BY <1>0, <1>4, <1>6, <1>8, FirmTurns DEF RowSteps
<1>10. Firm(again)
  BY <1>0, <1>4, <1>7, <1>9, FirmTurns DEF RowSteps
<1> QED
  BY <1>1, <1>10

LEMMA SettledFirm ==
    ASSUME Firm(rows), NEW g, NEW c, Group(g, c), Rooted(g), Pends(g.conflicts)
    PROVE  Firm(SettledRows(g))
<1> DEFINE S1 == g.superseded \cup UNION {plan.loser : plan \in ToSet(g.plans)}
           S2 == {x \in g.conflicts : x.kind \in {"copy", "drop"}}
           S3 == UNION {plan.adopted : plan \in ToSet(g.plans)}
           s1 == SetToSeq(S1)
           s2 == SetToSeq(S2)
           s3 == SetToSeq(S3)
           s4 == g.plans
           r1 == SupersedeAll(rows, s1, g.superseded)
           r2 == CleanAll(r1, s2)
           r3 == DropAll(r2, s3)
           r4 == ReleaseAll(r3, s4)
<1>1. S1 \in SUBSET Entry /\ S3 \in SUBSET Entry
  BY DEF Rooted, Touched, EntriesOf
<1>2. IsFiniteSet(S2) /\ \A x \in S2 : x.of \in Entry
  <2>1. S2 \in SUBSET g.conflicts /\ IsFiniteSet(g.conflicts)
    BY DEF Pends
  <2> QED
    BY <2>1, FS_Subset DEF Pends
<1>3. Len(s4) \in Nat /\ \A i \in 1..Len(s4) : s4[i].entry \in Entry
  BY GroupEntries DEF Rooted
<1>4. SettledRows(g) = r4
  BY DEF SettledRows
<1> HIDE DEF S1, S2, S3
<1>5. /\ Len(s1) \in Nat /\ \A i \in 1..Len(s1) : Sane("supersede", g.superseded, s1[i])
      /\ Len(s3) \in Nat /\ \A i \in 1..Len(s3) : Sane("drop", None, s3[i])
  BY <1>1, OrderedEntries DEF Sane
<1>6. Len(s2) \in Nat /\ \A i \in 1..Len(s2) : Sane("clean", None, s2[i])
  BY <1>2, OrderOf DEF Sane
<1>7. \A i \in 1..Len(s4) : Sane("release", None, s4[i])
  BY <1>3 DEF Sane
<1> HIDE DEF s1, s2, s3, s4
<1>8. PICK f1 : Turns(f1, "supersede", g.superseded, rows, s1, Len(s1)) /\ r1 = f1[Len(s1)]
  BY <1>5, SupersedeTurns
<1> HIDE DEF r1
<1>9. Firm(r1)
  BY <1>5, <1>8, FirmTurns DEF RowSteps
<1>10. PICK f2 : Turns(f2, "clean", None, r1, s2, Len(s2)) /\ r2 = f2[Len(s2)]
  BY <1>6, CleanTurns
<1> HIDE DEF r2
<1>11. Firm(r2)
  BY <1>6, <1>9, <1>10, FirmTurns DEF RowSteps
<1>12. PICK f3 : Turns(f3, "drop", None, r2, s3, Len(s3)) /\ r3 = f3[Len(s3)]
  BY <1>5, DropTurns
<1> HIDE DEF r3
<1>13. Firm(r3)
  BY <1>5, <1>11, <1>12, FirmTurns DEF RowSteps
<1>14. PICK f4 : Turns(f4, "release", None, r3, s4, Len(s4)) /\ r4 = f4[Len(s4)]
  BY <1>3, ReleaseTurns
<1> HIDE DEF r4
<1>15. Firm(r4)
  BY <1>3, <1>7, <1>13, <1>14, FirmTurns DEF RowSteps
<1> QED
  BY <1>4, <1>15

\* What the recorder makes of the rows.
LEMMA RecordedFirm ==
    ASSUME Firm(rows), NEW e \in Entry, NEW place \in Place, NEW text
    PROVE  Firm(Recorded(rows, e, place, text))
<1> DEFINE m == Mutation(rows, e, "upsert", place, text)
           gone == FALSE
<1>1. Recorded(rows, e, place, text) = SetLocal(Put(rows, e, ToDirty(RowOf(rows, e), m)), e, place, text, gone)
  BY DEF Recorded, Queue
<1>2. m.op \in {"upsert", "delete"} /\ m.path \in Place
  BY DEF Mutation
<1> HIDE DEF m, gone
<1> QED
  BY <1>1, <1>2, DirtyLocalFirm

LEMMA RecordUpsertFirm ==
    ASSUME Sound(rows), Firm(rows), NEW place \in Place, NEW text, RecordUpsert(place, text)
    PROVE  Firm(rows')
<1>1. \E e \in Entry : rows' = Recorded(rows, e, place, text)
  <2>1. /\ LocalAt(rows, place) \subseteq DOMAIN rows /\ DeletePending(rows, place) \subseteq DOMAIN rows
        /\ OwnersOf(rows, place) \subseteq DOMAIN rows /\ Unused \subseteq Entry
    BY DEF LocalAt, DeletePending, OwnersOf, Unused
  <2>2. DOMAIN rows \subseteq Entry
    BY DEF Sound, Table
  <2> QED
    BY <2>1, <2>2 DEF RecordUpsert
<1> QED
  BY <1>1, RecordedFirm

LEMMA RecordRenameFirm ==
    ASSUME Sound(rows), Firm(rows), NEW from, NEW to \in Place, NEW text, RecordRename(from, to, text)
    PROVE  Firm(rows')
<1>1. CASE LocalAt(rows, from) = {}
  BY <1>1, RecordUpsertFirm DEF RecordRename
<1>2. CASE LocalAt(rows, from) # {}
  <2>1. PICK e \in LocalAt(rows, from) : rows' = Recorded(rows, e, to, text)
    BY <1>2 DEF RecordRename
  <2>2. e \in Entry
    BY DEF LocalAt, Sound, Table
  <2> QED
    BY <2>1, <2>2, RecordedFirm
<1> QED
  BY <1>1, <1>2

LEMMA RecordDeleteFirm ==
    ASSUME Sound(rows), Firm(rows), NEW place \in Place, RecordDelete(place)
    PROVE  Firm(rows')
<1>1. CASE rows' = rows
  BY <1>1
<1>2. CASE rows' # rows
  <2>1. PICK e \in DOMAIN rows :
           LET clean == Put(rows, e, ClearPending(rows[e])) IN
           rows' = IF RemoteOf(rows, e).rev = 0 THEN Drop(clean, e)
                   ELSE Queue(SetLocal(clean, e, None, None, TRUE), e, "delete", place, None)
    BY <1>2 DEF RecordDelete, LocalAt
  <2> DEFINE clean == Clean(rows, e)
             gone == TRUE
             mid == SetLocal(clean, e, None, None, gone)
             m == Mutation(mid, e, "delete", place, None)
  <2>2. e \in Entry
    BY DEF Sound, Table
  <2>3. Firm(clean)
    BY <2>2, CleanFirm
  <2>4. \/ rows' = Drop(clean, e)
        \/ rows' = Put(mid, e, ToDirty(RowOf(mid, e), m))
    BY <2>1 DEF Clean, Queue
  <2>5. m.op \in {"upsert", "delete"} /\ m.path \in Place
    BY DEF Mutation
  <2> HIDE DEF clean, gone, m
  <2>6. Firm(mid)
    BY <2>2, <2>3, SetLocalFirm
  <2> HIDE DEF mid
  <2> QED
    BY <2>2, <2>3, <2>4, <2>5, <2>6, DropFirm, QueueFirm
<1> QED
  BY <1>1, <1>2

-----------------------------------------------------------------------------
(* Types: texts, files, plans and conflicts.  The user's edits are numbered *)
(* below n.                                                                *)

Edits(n) == ({"here"} \X (0..n)) \cup ({"there"} \X Nat) \cup ({"base"} \X Path)
IsText(text, n) == text # {} /\ text \subseteq Edits(n)
Spot == Place \cup {None}
VaultTyped(v, n) == IsFiniteSet(DOMAIN v) /\ \A f \in DOMAIN v : f \in Place /\ IsText(v[f], n)

\* A copy of a file has a place of its own: one of the first that is free.
LEMMA CopyIs ==
    ASSUME NEW place \in Place, NEW taken, IsFiniteSet(taken)
    PROVE  CopyOf(place, taken) \in Place \ taken
<1> DEFINE m == Cardinality(taken)
           at(n) == [place EXCEPT !.copy = n]
           Free == {n \in 1..(m + 1) : at(n) \notin taken}
           Fits1(n) == at(n) \notin taken /\ \A k \in 1..(n - 1) : at(k) \in taken
           c == CHOOSE n \in 1..(m + 1) : Fits1(n)
<1>1. m \in Nat
  BY FS_CardinalityType
<1>2. \A n \in Nat : at(n) \in Place /\ at(n).copy = n
  BY DEF Place
<1>3. CopyOf(place, taken) = at(c)
  BY DEF CopyOf
<1> HIDE DEF at
<1>4. Free # {}
  <2> SUFFICES ASSUME Free = {} PROVE FALSE
    OBVIOUS
  <2> DEFINE S == 1..(m + 1)
             f == [n \in S |-> at(n)]
  <2>1. \A n \in S : n \in Nat /\ at(n) \in taken
    BY <1>1
  <2>2. f \in Injection(S, taken)
    <3>1. f \in [S -> taken]
      BY <2>1
    <3>2. \A k, j \in S : f[k] = f[j] => k = j
      <4> TAKE k \in S, j \in S
      <4> HAVE f[k] = f[j]
      <4>1. at(k) = at(j)
        OBVIOUS
      <4>2. at(k).copy = k /\ at(j).copy = j
        BY <1>2, <2>1
      <4> QED
        BY <4>1, <4>2
    <3> HIDE DEF f, S
    <3> QED
      BY <3>1, <3>2 DEF Injection, IsInjective
  <2> HIDE DEF f
  <2>3. Cardinality(S) <= m
    BY <2>2, FS_Injection DEF m
  <2>4. Cardinality(S) = m + 1
    <3> HIDE DEF m
    <3> DEFINE b == m + 1
    <3>1. 1 \in Int /\ b \in Int /\ ~(1 > b) /\ b - 1 + 1 = m + 1
      BY <1>1
    <3>2. S = 1..b
      OBVIOUS
    <3> HIDE DEF b, S
    <3>3. Cardinality(1..b) = IF 1 > b THEN 0 ELSE b - 1 + 1
      BY <3>1, FS_Interval
    <3> QED
      BY <3>1, <3>2, <3>3
  <2> HIDE DEF m, S
  <2> QED
    BY <1>1, <2>3, <2>4
<1>5. PICK b \in Free : \A n \in Free : b <= n
  <2>1. Free \in SUBSET Nat
    BY <1>1
  <2> HIDE DEF Free
  <2> QED
    BY <1>4, <2>1, LeastIndex
<1>6. b \in 1..(m + 1) /\ Fits1(b)
  <2>1. b \in 1..(m + 1) /\ at(b) \notin taken
    OBVIOUS
  <2>2. ASSUME NEW k \in 1..(b - 1) PROVE at(k) \in taken
    <3>1. k \in 1..(m + 1) /\ ~(b <= k)
      BY <1>1, <2>1
    <3>2. k \notin Free
      BY <1>5, <3>1
    <3> QED
      BY <3>1, <3>2
  <2> QED
    BY <2>1, <2>2
<1>7. c \in 1..(m + 1) /\ Fits1(c)
  <2> HIDE DEF Fits1, m
  <2> QED
    BY <1>6
<1>8. c \in Nat /\ at(c) \notin taken
  BY <1>1, <1>7
<1> QED
  BY <1>2, <1>3, <1>8

LEMMA WithTyped ==
    ASSUME NEW n, NEW v, VaultTyped(v, n), NEW place \in Place, NEW text, IsText(text, n)
    PROVE  VaultTyped(With(v, place, text), n)
<1> DEFINE D == DOMAIN v \cup {place}
           w == With(v, place, text)
<1>1. w = [f \in D |-> IF f = place THEN text ELSE v[f]]
  BY DEF With
<1>2. IsFiniteSet(D)
  BY FS_AddElement DEF VaultTyped
<1> HIDE DEF w
<1>3. DOMAIN w = D /\ \A f \in D : w[f] = IF f = place THEN text ELSE v[f]
  BY <1>1
<1>4. VaultTyped(w, n)
  BY <1>2, <1>3 DEF VaultTyped
<1> QED
  BY <1>4 DEF w

LEMMA WithoutTyped ==
    ASSUME NEW n, NEW v, VaultTyped(v, n), NEW places
    PROVE  VaultTyped(Without(v, places), n)
<1> DEFINE D == DOMAIN v \ places
<1>1. IsFiniteSet(D)
  BY FS_Subset DEF VaultTyped
<1>2. Without(v, places) = [f \in D |-> v[f]]
  BY DEF Without
<1> QED
  BY <1>1, <1>2 DEF VaultTyped

\* The steps of the loops over the files.
FileSteps == {"copy", "rename", "merge"}
Fine(k, n, x) ==
    CASE k = "copy" -> x.copy \in Place /\ IsText(x.text, n)
      [] k = "rename" -> x.move = None \/ x.move.to \in Place
      [] k = "merge" -> x.place \in Place /\ IsText(x.text, n)

LEMMA FileStepTyped ==
    ASSUME NEW n, NEW v, VaultTyped(v, n), NEW k \in FileSteps, NEW c, NEW x, Fine(k, n, x)
    PROVE  VaultTyped(Do(k, c, v, x), n)
<1>1. CASE k = "copy"
  <2>1. Do(k, c, v, x) = With(v, x.copy, x.text) /\ x.copy \in Place /\ IsText(x.text, n)
    BY <1>1 DEF Do, Fine
  <2> QED
    BY <2>1, WithTyped
<1>2. CASE k = "merge"
  <2>1. Do(k, c, v, x) = With(v, x.place, x.text) /\ x.place \in Place /\ IsText(x.text, n)
    BY <1>2 DEF Do, Fine
  <2> QED
    BY <2>1, WithTyped
<1>3. CASE k = "rename"
  <2> DEFINE w == Without(v, {x.move.from})
             text == v[x.move.from]
             to == x.move.to
  <2>1. Do(k, c, v, x) = Renamed(v, x)
    BY <1>3 DEF Do
  <2>2. CASE Renames(v, x)
    <3>1. Do(k, c, v, x) = With(w, to, text)
      BY <2>1, <2>2 DEF Renamed
    <3>2. to \in Place /\ IsText(text, n)
      BY <1>3, <2>2 DEF Fine, Renames, VaultTyped
    <3>3. VaultTyped(w, n)
      BY WithoutTyped
    <3> HIDE DEF w, text, to
    <3> QED
      BY <3>1, <3>2, <3>3, WithTyped
  <2>3. CASE ~Renames(v, x)
    BY <2>1, <2>3 DEF Renamed
  <2> QED
    BY <2>2, <2>3
<1> QED
  BY <1>1, <1>2, <1>3 DEF FileSteps

LEMMA FileTurns ==
    ASSUME NEW n, NEW k \in FileSteps, NEW c, NEW v, VaultTyped(v, n), NEW s, NEW m \in Nat, NEW f,
           Turns(f, k, c, v, s, m), \A i \in 1..m : Fine(k, n, s[i])
    PROVE  VaultTyped(f[m], n)
<1> DEFINE P == {i \in 0..m : VaultTyped(f[i], n)}
<1>1. 0 \in P
  BY DEF Turns
<1>2. ASSUME NEW i \in 1..m, i - 1 \in P PROVE i \in P
  <2>1. f[i] = Do(k, c, f[i - 1], s[i])
    BY DEF Turns
  <2>2. VaultTyped(f[i - 1], n) /\ Fine(k, n, s[i]) /\ i \in 0..m
    BY <1>2
  <2> QED
    BY <2>1, <2>2, FileStepTyped
<1> HIDE DEF P
<1>3. m \in P
  BY <1>1, <1>2, UpTo
<1> QED
  BY <1>3 DEF P
CopyAll(rs, s) ==
    (CHOOSE f : f = [i \in 0..Len(s) |-> IF i = 0 THEN rs ELSE With(f[i - 1], s[i].copy, s[i].text)])[Len(s)]
LEMMA CopyTurns ==
    ASSUME NEW rs, NEW s, Len(s) \in Nat
    PROVE  \E f : Turns(f, "copy", None, rs, s, Len(s)) /\ CopyAll(rs, s) = f[Len(s)]
<1> DEFINE step(t, x) == With(t, x.copy, x.text)
           h == CHOOSE f : f = [i \in 0..Len(s) |-> IF i = 0 THEN rs ELSE step(f[i - 1], s[i])]
<1>1. CopyAll(rs, s) = h[Len(s)]
  BY DEF CopyAll
<1>2. \A t, x : Do("copy", None, t, x) = step(t, x)
  BY DEF Do
<1> HIDE DEF step
<1>3. PICK f : Loop(f, "copy", None, rs, s, Len(s))
  BY LoopExists
<1>4. f = [i \in 0..Len(s) |-> IF i = 0 THEN rs ELSE step(f[i - 1], s[i])]
  BY <1>2, <1>3 DEF Loop
<1>5. h = [i \in 0..Len(s) |-> IF i = 0 THEN rs ELSE step(h[i - 1], s[i])]
  BY <1>4
<1> HIDE DEF h
<1>6. Loop(h, "copy", None, rs, s, Len(s))
  BY <1>2, <1>5 DEF Loop
<1>7. Turns(h, "copy", None, rs, s, Len(s))
  BY <1>6, LoopTurns
<1> QED
  BY <1>1, <1>7

RenameAll(rs, s) ==
    (CHOOSE f : f = [i \in 0..Len(s) |-> IF i = 0 THEN rs ELSE Renamed(f[i - 1], s[i])])[Len(s)]
LEMMA RenameTurns ==
    ASSUME NEW rs, NEW s, Len(s) \in Nat
    PROVE  \E f : Turns(f, "rename", None, rs, s, Len(s)) /\ RenameAll(rs, s) = f[Len(s)]
<1> DEFINE step(t, x) == Renamed(t, x)
           h == CHOOSE f : f = [i \in 0..Len(s) |-> IF i = 0 THEN rs ELSE step(f[i - 1], s[i])]
<1>1. RenameAll(rs, s) = h[Len(s)]
  BY DEF RenameAll
<1>2. \A t, x : Do("rename", None, t, x) = step(t, x)
  BY DEF Do
<1> HIDE DEF step
<1>3. PICK f : Loop(f, "rename", None, rs, s, Len(s))
  BY LoopExists
<1>4. f = [i \in 0..Len(s) |-> IF i = 0 THEN rs ELSE step(f[i - 1], s[i])]
  BY <1>2, <1>3 DEF Loop
<1>5. h = [i \in 0..Len(s) |-> IF i = 0 THEN rs ELSE step(h[i - 1], s[i])]
  BY <1>4
<1> HIDE DEF h
<1>6. Loop(h, "rename", None, rs, s, Len(s))
  BY <1>2, <1>5 DEF Loop
<1>7. Turns(h, "rename", None, rs, s, Len(s))
  BY <1>6, LoopTurns
<1> QED
  BY <1>1, <1>7

MergeAll(rs, s) ==
    (CHOOSE f : f = [i \in 0..Len(s) |-> IF i = 0 THEN rs ELSE With(f[i - 1], s[i].place, s[i].text)])[Len(s)]
LEMMA MergeTurns ==
    ASSUME NEW rs, NEW s, Len(s) \in Nat
    PROVE  \E f : Turns(f, "merge", None, rs, s, Len(s)) /\ MergeAll(rs, s) = f[Len(s)]
<1> DEFINE step(t, x) == With(t, x.place, x.text)
           h == CHOOSE f : f = [i \in 0..Len(s) |-> IF i = 0 THEN rs ELSE step(f[i - 1], s[i])]
<1>1. MergeAll(rs, s) = h[Len(s)]
  BY DEF MergeAll
<1>2. \A t, x : Do("merge", None, t, x) = step(t, x)
  BY DEF Do
<1> HIDE DEF step
<1>3. PICK f : Loop(f, "merge", None, rs, s, Len(s))
  BY LoopExists
<1>4. f = [i \in 0..Len(s) |-> IF i = 0 THEN rs ELSE step(f[i - 1], s[i])]
  BY <1>2, <1>3 DEF Loop
<1>5. h = [i \in 0..Len(s) |-> IF i = 0 THEN rs ELSE step(h[i - 1], s[i])]
  BY <1>4
<1> HIDE DEF h
<1>6. Loop(h, "merge", None, rs, s, Len(s))
  BY <1>2, <1>5 DEF Loop
<1>7. Turns(h, "merge", None, rs, s, Len(s))
  BY <1>6, LoopTurns
<1> QED
  BY <1>1, <1>7

-----------------------------------------------------------------------------
(* Types: what the server holds, plans, conflicts and groups. *)

ServerTyped(sv, h, n) ==
    /\ sv \in [Entry -> [path : Spot, rev : Nat, text : SUBSET Edits(n), deleted : BOOLEAN, seq : 0..h]]
    /\ \A e \in Entry : IF sv[e].rev = 0 THEN sv[e].seq = 0 ELSE sv[e].path \in Place /\ sv[e].text # {}
Numbered == {e \in Entry : server[e].rev # 0}

PlanTyped(p, N) == p.entry \in N /\ p.final \in Spot /\ (p.move = None \/ p.move.to \in Place)
ConflictTyped(c, n) ==
    /\ c.kind = "copy" => c.copy \in Place /\ IsText(c.text, n)
    /\ c.kind = "local" => c.place \in Place /\ IsText(c.text, n)
GroupTyped(g, N, n) ==
    /\ \A p \in ToSet(g.plans) : PlanTyped(p, N)
    /\ g.conflicts = None \/ \A c \in g.conflicts : ConflictTyped(c, n)

LEMMA PlanTypes ==
    ASSUME ServerTyped(server, head, locals), VaultTyped(vault, locals), NEW e \in Numbered,
           NEW moving, NEW p, PlanFor(p, e, moving)
    PROVE  PlanTyped(p, Numbered)
<1> DEFINE path == server[e].path
<1>1. PICK reserved : IsFiniteSet(reserved) /\ p = Plan(e, reserved, moving)
  BY DEF PlanFor
<1>2. path \in Place
  BY DEF Numbered, ServerTyped
<1> DEFINE copied == (path \in reserved \/ HeldByOther(e, moving)) /\ ~LatestWins(path)
           copy == CopyOf(path, Files \cup reserved)
           final == IF copied THEN copy ELSE path
<1>3. final \in Place
  <2>1. IsFiniteSet(Files \cup reserved)
    BY <1>1, FS_Union DEF VaultTyped, Files
  <2> HIDE DEF path
  <2>2. copy \in Place
    BY <1>2, <2>1, CopyIs
  <2> HIDE DEF copy, copied
  <2> QED
    BY <1>2, <2>2
<1>4. CASE server[e].deleted
  <2>1. p = [entry |-> e, final |-> None, adopted |-> {}, match |-> FALSE, move |-> None,
             skip |-> FALSE, loser |-> {}, existing |-> Combined(RowOf(rows, e))]
    BY <1>1, <1>4 DEF Plan
  <2>2. p.entry = e /\ p.final = None /\ p.move = None
    BY <2>1
  <2> QED
    BY <2>2 DEF PlanTyped, Spot
<1>5. CASE ~server[e].deleted
  <2>1. \E adopted, match, plain, skip, loser :
           p = [entry |-> e, final |-> final, adopted |-> adopted, match |-> match,
                move |-> Move(e, final, plain), skip |-> skip, loser |-> loser,
                existing |-> Combined(RowOf(rows, e))]
    BY <1>1, <1>5 DEF Plan
  <2> HIDE DEF final
  <2>2. p.entry = e /\ p.final = final /\ \E plain : p.move = Move(e, final, plain)
    BY <2>1
  <2>3. PICK plain : p.move = Move(e, final, plain)
    BY <2>2
  <2>4. p.move = None \/ \E from : p.move = [from |-> from, to |-> final]
    BY <2>3 DEF Move
  <2>5. p.move = None \/ p.move.to = final
    <3>1. ASSUME NEW mv, NEW from, NEW to, mv = [from |-> from, to |-> to] PROVE mv.to = to
      BY <3>1
    <3> QED
      BY <2>4, <3>1
  <2> QED
    BY <1>3, <2>2, <2>5 DEF PlanTyped, Spot
<1> QED
  BY <1>4, <1>5

\* A group whose plans are those of a window.
LEMMA FromTyped ==
    ASSUME NEW N, NEW n, NEW planned, \A i \in 1..Len(planned.plans) : PlanTyped(planned.plans[i], N),
           NEW g, From(g, planned), Group(g, None)
    PROVE  GroupTyped(g, N, n)
<1>1. g.conflicts = None
  BY DEF Group
<1>2. \A p \in ToSet(g.plans) : PlanTyped(p, N)
  BY DEF From
<1> QED
  BY <1>1, <1>2 DEF GroupTyped

LEMMA ConflictTypes ==
    ASSUME ServerTyped(server, head, locals), VaultTyped(vault, locals), IsFiniteSet(pull.named),
           NEW p, p.entry \in Numbered, NEW d, NEW clean, NEW x, x = Conflict(p, d, clean)
    PROVE  ConflictTyped(x, locals)
<1> DEFINE m == rows[d].pending
           c == [plan |-> p.entry, of |-> d, kind |-> "remote", copy |-> None, place |-> None, text |-> {}]
           theirs == server[p.entry].text
           both == vault[p.final] \cup theirs
           taken == Files \cup IF SameSecond THEN {} ELSE pull.named
           copy == CopyOf(m.path, taken)
           ours == vault[m.path]
<1>1. \/ x = c
      \/ x = [c EXCEPT !.kind = "drop"]
      \/ MayMerge(p, d) /\ x = [c EXCEPT !.kind = "local", !.place = p.final, !.text = both]
      \/ m.path \in Files /\ x = [c EXCEPT !.kind = "copy", !.text = ours, !.copy = copy]
  BY DEF Conflict
<1>2. theirs \subseteq Edits(locals)
  BY DEF Numbered, ServerTyped
<1>3. CASE x = c \/ x = [c EXCEPT !.kind = "drop"]
  <2>1. x.kind \notin {"copy", "local"}
    BY <1>3
  <2> QED
    BY <2>1 DEF ConflictTyped
<1>4. CASE MayMerge(p, d) /\ x = [c EXCEPT !.kind = "local", !.place = p.final, !.text = both]
  <2>1. p.final \in Files
    BY <1>4 DEF MayMerge
  <2>2. p.final \in Place /\ IsText(vault[p.final], locals)
    BY <2>1 DEF VaultTyped, Files
  <2>3. IsText(both, locals)
    BY <1>2, <2>2 DEF IsText
  <2> HIDE DEF both
  <2>4. x.kind = "local" /\ x.place = p.final /\ x.text = both
    BY <1>4
  <2> QED
    BY <2>2, <2>3, <2>4 DEF ConflictTyped
<1>5. CASE m.path \in Files /\ x = [c EXCEPT !.kind = "copy", !.text = ours, !.copy = copy]
  <2>1. m.path \in Place /\ IsText(ours, locals)
    BY <1>5 DEF VaultTyped, Files
  <2>2. IsFiniteSet(taken)
    <3>1. IsFiniteSet(Files)
      BY DEF VaultTyped, Files
    <3>2. IsFiniteSet(IF SameSecond THEN {} ELSE pull.named)
      BY FS_EmptySet
    <3> QED
      BY <3>1, <3>2, FS_Union
  <2> HIDE DEF taken, m, ours
  <2>3. copy \in Place
    BY <2>1, <2>2, CopyIs
  <2> HIDE DEF copy
  <2>4. x.kind = "copy" /\ x.copy = copy /\ x.text = ours
    BY <1>5
  <2> QED
    BY <2>1, <2>3, <2>4 DEF ConflictTyped
<1> QED
  BY <1>1, <1>3, <1>4, <1>5

LEMMA ConflictsTyped ==
    ASSUME ServerTyped(server, head, locals), VaultTyped(vault, locals), IsFiniteSet(pull.named),
           NEW g, Len(g.plans) \in Nat, \A i \in 1..Len(g.plans) : g.plans[i].entry \in Numbered, NEW clean
    PROVE  \A x \in Conflicts(g, clean) : ConflictTyped(x, locals)
<1> DEFINE s == g.plans
           n == Len(s)
<1>1. Conflicts(g, clean) = ConflictAll(s, clean)
  BY DEF Conflicts, InTurn, ConflictAll, Found
<1> HIDE DEF s
<1>2. PICK f : Turns(f, "conflict", clean, {}, s, n) /\ ConflictAll(s, clean) = f[n]
  BY ConflictTurns DEF s
<1> DEFINE P == {i \in 0..n : \A x \in f[i] : ConflictTyped(x, locals)}
<1>3. 0 \in P
  BY <1>2 DEF Turns, s
<1>4. ASSUME NEW i \in 1..n, i - 1 \in P PROVE i \in P
  <2> DEFINE a == f[i - 1]
             b == f[i]
             p == s[i]
  <2>1. b = Do("conflict", clean, a, p)
    BY <1>2 DEF Turns
  <2>2. (\A x \in a : ConflictTyped(x, locals)) /\ p.entry \in Numbered /\ i \in 0..n
    BY <1>4 DEF s
  <2> HIDE DEF a, b, p
  <2>3. b = Met(a, p, clean)
    BY <2>1 DEF Do, Found, Met
  <2>4. ASSUME NEW x \in b PROVE ConflictTyped(x, locals)
    <3>1. CASE x \in a
      BY <2>2, <3>1
    <3>2. CASE \E d \in Found(p, a) : x = Conflict(p, d, clean)
      BY <2>2, <3>2, ConflictTypes
    <3> QED
      BY <2>3, <3>1, <3>2 DEF Met
  <2> QED
    BY <2>2, <2>4 DEF b
<1>5. n \in Nat
  BY DEF s
<1> HIDE DEF P, n
<1>6. n \in P
  BY <1>3, <1>4, <1>5, UpTo
<1> QED
  BY <1>1, <1>2, <1>6 DEF P

LEMMA PreparedTyped ==
    ASSUME ServerTyped(server, head, locals), VaultTyped(vault, locals), IsFiniteSet(pull.named),
           NEW g, NEW c, Group(g, c), GroupTyped(g, Numbered, locals), NEW h \in Prepared(g)
    PROVE  GroupTyped(h, Numbered, locals) /\ \A x \in h.conflicts : ConflictTyped(x, locals)
<1>1. CASE g.conflicts # None
  <2>1. h = g
    BY <1>1 DEF Prepared
  <2> QED
    BY <1>1, <2>1 DEF GroupTyped
<1>2. CASE g.conflicts = None
  <2>1. PICK clean : h = [g EXCEPT !.conflicts = Conflicts(g, clean)]
    BY <1>2 DEF Prepared
  <2> DEFINE C == Conflicts(g, clean)
  <2>2. \A x \in C : ConflictTyped(x, locals)
    <3>1. Len(g.plans) \in Nat /\ \A i \in 1..Len(g.plans) : g.plans[i] \in ToSet(g.plans)
      <4>1. PICK S : g.plans \in Seq(S)
        BY DEF Group
      <4>2. Len(g.plans) \in Nat /\ DOMAIN g.plans = 1..Len(g.plans)
        BY <4>1, LenProperties
      <4> QED
        BY <4>2 DEF ToSet
    <3>2. \A i \in 1..Len(g.plans) : g.plans[i].entry \in Numbered
      BY <3>1 DEF GroupTyped, PlanTyped
    <3> QED
      BY <3>1, <3>2, ConflictsTyped
  <2>3. h = [g EXCEPT !.conflicts = C]
    BY <2>1
  <2> HIDE DEF C
  <2>4. h.conflicts = C /\ h.plans = g.plans
    BY <2>3 DEF Group
  <2> QED
    BY <2>2, <2>4 DEF GroupTyped
<1> QED
  BY <1>1, <1>2

-----------------------------------------------------------------------------
(* Types: the invariant. *)

Mine(n) == {<<"here", k>> : k \in 0..n}
GroupHeld(p, N, n) ==
    /\ GroupTyped(p.group, N, n) /\ \A c \in p.group.conflicts : ConflictTyped(c, n)
    /\ \E c : Group(p.group, c)
    /\ p.phase = "write" => p.todo \in Seq({plan \in ToSet(p.group.plans) : plan.final # None})
    /\ RowsTyped(p.saved.rows)
    /\ p.saved.entries = Touched(p.group) /\ Touched(p.group) \subseteq p.saved.queued
PullTyped(p, N, n) ==
    /\ p.window \in Seq(N) /\ p.rest \in Seq(N) /\ p.deferred \in Seq(N)
    /\ p.rest # << >> => p.window # << >>
    /\ IsFiniteSet(p.named)
    /\ \A k \in DOMAIN p.groups : GroupTyped(p.groups[k], N, n)
    /\ IF p.phase \in Applying THEN GroupHeld(p, N, n) ELSE p.group = None /\ p.saved = None

TypeInv ==
    /\ head \in 0..MaxRemote /\ cursor \in 0..head /\ locals \in Nat
    /\ ServerTyped(server, head, locals) /\ VaultTyped(vault, locals) /\ RowsTyped(rows)
    /\ PullTyped(pull, Numbered, locals) /\ work \cup unguarded \subseteq Mine(locals)

LEMMA FirmRows == ASSUME NEW t, Sound(t), Firm(t) PROVE RowsTyped(t)
BY TableIsNotRaised DEF Sound, Firm

LEMMA RowsAreFirm == RowsInv /\ TypeInv => Firm(rows) /\ Sound(rows)
BY DEF RowsInv, TypeInv, Firm, Sound

LEMMA OwnIsMine ==
    ASSUME NEW n \in Nat, NEW text, text \subseteq Edits(n), NEW x \in text, Own(x)
    PROVE  x \in Mine(n)
<1>1. x[1] = "here" /\ x \in Edits(n)
  BY DEF Own
<1>2. x \notin {"there"} \X Nat /\ x \notin {"base"} \X Path
  BY <1>1
<1> QED
  BY <1>1, <1>2 DEF Edits, Mine

LEMMA KeptIsMine ==
    ASSUME NEW n \in Nat, NEW v, VaultTyped(v, n)
    PROVE  KeptWork(v) \subseteq Mine(n)
<1> SUFFICES ASSUME NEW x \in KeptWork(v) PROVE x \in Mine(n)
  OBVIOUS
<1>1. Own(x) /\ \E f \in DOMAIN v : x \in v[f]
  BY DEF KeptWork
<1> QED
  BY <1>1, OwnIsMine DEF VaultTyped, IsText

\* The user's next edit.
LEMMA MoreEdits ==
    ASSUME NEW n \in Nat
    PROVE  Edits(n) \subseteq Edits(n + 1) /\ Mine(n) \subseteq Mine(n + 1) /\ <<"here", n>> \in Edits(n + 1)
<1>1. 0..n \subseteq 0..(n + 1) /\ n \in 0..(n + 1)
  OBVIOUS
<1> QED
  BY <1>1 DEF Edits, Mine

LEMMA IdleTyped ==
    ASSUME NEW p, p = NoPull \/ (\E o : p = [NoPull EXCEPT !.outcome = o]), NEW N, NEW n
    PROVE  PullTyped(p, N, n)
<1>1. /\ p.phase = "idle" /\ p.window = << >> /\ p.rest = << >> /\ p.deferred = << >> /\ p.groups = << >>
      /\ p.group = None /\ p.saved = None /\ p.named = {}
  BY DEF NoPull
<1>2. << >> \in Seq(N) /\ DOMAIN << >> = {} /\ "idle" \notin Applying
  BY DEF Applying
<1> QED
  BY <1>1, <1>2, FS_EmptySet DEF PullTyped

LEMMA InitTyped == PullInit => TypeInv
<1> SUFFICES ASSUME PullInit PROVE TypeInv
  OBVIOUS
<1> DEFINE T == IF rules THEN Path ELSE Path \ Config
<1>1. PICK S \in SUBSET Entry : \E path \in [S -> T] :
         /\ server = [e \in Entry |-> IF e \notin S THEN Absent
                ELSE [path |-> At(path[e]), rev |-> 1, text |-> {<<"base", path[e]>>},
                      deleted |-> FALSE, seq |-> 0]]
         /\ vault = [f \in {At(path[e]) : e \in S} |-> {<<"base", f.path>>}]
         /\ rows = BaseAll(<< >>, SetToSeq(S), path)
  BY DEF PullInit, Each, InTurn, BaseAll
<1>2. PICK path \in [S -> T] :
         /\ server = [e \in Entry |-> IF e \notin S THEN Absent
                ELSE [path |-> At(path[e]), rev |-> 1, text |-> {<<"base", path[e]>>},
                      deleted |-> FALSE, seq |-> 0]]
         /\ vault = [f \in {At(path[e]) : e \in S} |-> {<<"base", f.path>>}]
         /\ rows = BaseAll(<< >>, SetToSeq(S), path)
  BY <1>1
<1>3. head = 0 /\ cursor = 0 /\ locals = 0 /\ work = {} /\ unguarded = {} /\ pull = NoPull
  BY DEF PullInit
<1>4. \A e \in S : path[e] \in Path
  BY DEF T
<1> HIDE DEF T
<1>5. \A q \in Path : At(q) \in Place /\ At(q).path = q /\ IsText({<<"base", q>>}, 0)
  BY DEF At, Place, IsText, Edits
<1>6. ServerTyped(server, head, locals)
  <2>1. ASSUME NEW e \in Entry
        PROVE  /\ server[e] \in [path : Spot, rev : Nat, text : SUBSET Edits(0), deleted : BOOLEAN, seq : 0..0]
               /\ IF server[e].rev = 0 THEN server[e].seq = 0 ELSE server[e].path \in Place /\ server[e].text # {}
    <3>1. CASE e \notin S
      <4>1. server[e] = [path |-> None, rev |-> 0, text |-> {}, deleted |-> TRUE, seq |-> 0]
        BY <1>2, <3>1 DEF Absent
      <4> QED
        BY <4>1 DEF Spot
    <3>2. CASE e \in S
      <4>1. server[e] = [path |-> At(path[e]), rev |-> 1, text |-> {<<"base", path[e]>>},
                      deleted |-> FALSE, seq |-> 0]
        BY <1>2, <3>2
      <4>2. At(path[e]) \in Place /\ {<<"base", path[e]>>} \subseteq Edits(0)
        BY <1>4, <1>5, <3>2 DEF IsText
      <4> QED
        BY <4>1, <4>2 DEF Spot
    <3> QED
      BY <3>1, <3>2
  <2>2. server = [e \in Entry |-> server[e]]
    BY <1>2
  <2> QED
    BY <1>3, <2>1, <2>2 DEF ServerTyped
<1>7. VaultTyped(vault, locals)
  <2> DEFINE f == [e \in S |-> At(path[e])]
             D == {At(path[e]) : e \in S}
  <2>1. IsFiniteSet(D)
    <3>1. IsFiniteSet(S)
      BY FS_Subset, PullApplyAssumption
    <3>2. DOMAIN f = S /\ D = {f[e] : e \in S}
      OBVIOUS
    <3> HIDE DEF f, D
    <3> QED
      BY <3>1, <3>2, ImageFinite
  <2>2. ASSUME NEW g \in D PROVE g \in Place /\ IsText({<<"base", g.path>>}, 0)
    <3>1. PICK e \in S : g = At(path[e])
      OBVIOUS
    <3> QED
      BY <1>4, <1>5, <3>1
  <2> HIDE DEF D
  <2>3. DOMAIN vault = D /\ \A g \in D : vault[g] = {<<"base", g.path>>}
    BY <1>2 DEF D
  <2> QED
    BY <1>3, <2>1, <2>2, <2>3 DEF VaultTyped
<1>8. RowsTyped(rows)
  <2>1. Firm(rows)
    BY <1>2, BaseFirm
  <2>2. Sound(rows)
    BY InitRows DEF RowsInv
  <2> QED
    BY <2>1, <2>2, FirmRows
<1>9. PullTyped(pull, Numbered, locals)
  BY <1>3, IdleTyped
<1>10. head \in 0..MaxRemote /\ cursor \in 0..head /\ locals \in Nat
  BY <1>3, PullApplyAssumption
<1> QED
  BY <1>3, <1>6, <1>7, <1>8, <1>9, <1>10 DEF TypeInv

LEMMA UserTyped == RowsInv /\ TypeInv /\ UserActs => TypeInv'
<1> SUFFICES ASSUME RowsInv, TypeInv, UserActs PROVE TypeInv'
  OBVIOUS
<1> DEFINE n == locals
           mine == {<<"here", n>>}
<1>1. /\ locals' = n + 1 /\ n \in Nat /\ n + 1 \in Nat
      /\ server' = server /\ head' = head /\ cursor' = cursor /\ unguarded' = unguarded
      /\ work' = KeptWork(vault') /\ pull' = NoPull
  BY DEF UserActs, TypeInv
<1>2. Edits(n) \subseteq Edits(n + 1) /\ Mine(n) \subseteq Mine(n + 1) /\ <<"here", n>> \in Edits(n + 1)
  BY <1>1, MoreEdits
<1>3. \A text : IsText(text, n) => IsText(text, n + 1)
  BY <1>2 DEF IsText
<1>4. \A v : VaultTyped(v, n) => VaultTyped(v, n + 1)
  BY <1>3 DEF VaultTyped
<1>5. VaultTyped(vault, n) /\ ServerTyped(server, head, n)
  BY DEF TypeInv
<1>6. ServerTyped(server, head, n + 1)
  <2>1. ASSUME NEW e \in Entry
        PROVE  server[e] \in [path : Spot, rev : Nat, text : SUBSET Edits(n + 1), deleted : BOOLEAN, seq : 0..head]
    <3>1. server[e] \in [path : Spot, rev : Nat, text : SUBSET Edits(n), deleted : BOOLEAN, seq : 0..head]
      BY <1>5 DEF ServerTyped
    <3>2. SUBSET Edits(n) \subseteq SUBSET Edits(n + 1)
      BY <1>2
    <3> QED
      BY <3>1, <3>2
  <2> QED
    BY <1>5, <2>1 DEF ServerTyped
<1>7. VaultTyped(vault, n + 1) /\ \A f \in Files : f \in Place /\ IsText(vault[f], n + 1) /\ IsText(vault[f] \cup mine, n + 1)
  BY <1>2, <1>3, <1>4, <1>5 DEF VaultTyped, Files, IsText
<1>8. IsText(mine, n + 1)
  BY <1>2 DEF IsText
<1>9. \A e \in Entry : Live(e) => IsText(server[e].text, n + 1)
  BY <1>6 DEF ServerTyped, Live, IsText
<1>10. Sound(rows) /\ Firm(rows)
  BY RowsAreFirm
<1>11. VaultTyped(vault', n + 1) /\ Firm(rows')
  <2>1. CASE \E f \in Files : vault' = With(vault, f, vault[f] \cup mine) /\ RecordUpsert(f, vault[f] \cup mine)
    BY <1>7, <1>10, <2>1, WithTyped, RecordUpsertFirm
  <2>2. CASE \E f \in Place : \E text : /\ IsText(text, n + 1)
                                        /\ vault' = With(vault, f, text) /\ RecordUpsert(f, text)
    BY <1>7, <1>10, <2>2, WithTyped, RecordUpsertFirm
  <2>3. CASE \E f \in Files, g \in Place :
                vault' = With(Without(vault, {f}), g, vault[f]) /\ RecordRename(f, g, vault[f])
    <3>1. PICK f \in Files, g \in Place :
                vault' = With(Without(vault, {f}), g, vault[f]) /\ RecordRename(f, g, vault[f])
      BY <2>3
    <3>2. VaultTyped(Without(vault, {f}), n + 1)
      BY <1>7, WithoutTyped
    <3>3. VaultTyped(vault', n + 1)
      BY <1>7, <3>1, <3>2, WithTyped
    <3> QED
      BY <1>10, <3>1, <3>3, RecordRenameFirm
  <2>4. CASE \E f \in Files : vault' = Without(vault, {f}) /\ RecordDelete(f)
    BY <1>7, <1>10, <2>4, WithoutTyped, RecordDeleteFirm
  <2>5. \A q \in Path : At(q) \in Place
    BY DEF At, Place
  <2> DEFINE seen == {f \in Files : ~IsCopy(f) /\ ~(f.path \in Config /\ ~rules)}
             free == {At(p) : p \in IF rules THEN Path ELSE Path \ Config} \ Files
  <2>6. seen \subseteq Files /\ free \subseteq Place
    BY <2>5
  <2>7. \/ \E f \in seen : vault' = With(vault, f, vault[f] \cup mine) /\ RecordUpsert(f, vault[f] \cup mine)
        \/ \E f \in free : \E text \in {mine} \cup {server[e].text : e \in {d \in Entry : Live(d) /\ server[d].path = f}} :
              vault' = With(vault, f, text) /\ RecordUpsert(f, text)
        \/ \E f \in seen, g \in free :
              vault' = With(Without(vault, {f}), g, vault[f]) /\ RecordRename(f, g, vault[f])
        \/ \E f \in seen : vault' = Without(vault, {f}) /\ RecordDelete(f)
    BY DEF UserActs
  <2> HIDE DEF seen, free
  <2>8. ASSUME NEW f \in free,
               NEW text \in {mine} \cup {server[e].text : e \in {d \in Entry : Live(d) /\ server[d].path = f}}
        PROVE  f \in Place /\ IsText(text, n + 1)
    BY <1>8, <1>9, <2>6
  <2> HIDE DEF mine, n
  <2> QED
    BY <2>1, <2>2, <2>3, <2>4, <2>6, <2>7, <2>8
<1>12. RowsTyped(rows')
  <2>1. Sound(rows')
    BY <1>10, UserKeepsRows
  <2> QED
    BY <1>11, <2>1, FirmRows
<1>13. KeptWork(vault') \subseteq Mine(n + 1)
  BY <1>1, <1>11, KeptIsMine
<1>14. PullTyped(pull', Numbered', locals')
  BY <1>1, IdleTyped
<1>15. unguarded \subseteq Mine(n) /\ head \in 0..MaxRemote /\ cursor \in 0..head
  BY DEF TypeInv
<1> HIDE DEF n
<1>16. ServerTyped(server', head', locals') /\ VaultTyped(vault', locals') /\ locals' \in Nat
  BY <1>1, <1>6, <1>11
<1>17. work' \cup unguarded' \subseteq Mine(locals')
  BY <1>1, <1>2, <1>13, <1>15
<1>18. head' \in 0..MaxRemote /\ cursor' \in 0..head'
  BY <1>1, <1>15
<1> QED
  BY <1>12, <1>14, <1>16, <1>17, <1>18 DEF TypeInv

\* Another device has changed an entry.
LEMMA ServerStepTyped ==
    ASSUME TypeInv, head < MaxRemote, head' = head + 1, NEW e \in Entry, NEW r,
           r \in [path : Place, rev : Nat \ {0}, text : SUBSET Edits(locals), deleted : BOOLEAN, seq : {head'}],
           r.text # {}, server' = [server EXCEPT ![e] = r],
           pull' = NoPull, UNCHANGED <<vault, rows, cursor, locals, work, unguarded>>
    PROVE  TypeInv'
<1>1. head \in Nat /\ cursor \in 0..head /\ locals \in Nat /\ ServerTyped(server, head, locals)
  BY DEF TypeInv
<1>2. head' \in 0..MaxRemote /\ cursor' \in 0..head' /\ 0..head \subseteq 0..head' /\ head' \in 0..head'
  BY <1>1, PullApplyAssumption
<1>3. ASSUME NEW d \in Entry
      PROVE  /\ server'[d] \in [path : Spot, rev : Nat, text : SUBSET Edits(locals), deleted : BOOLEAN, seq : 0..head']
             /\ IF server'[d].rev = 0 THEN server'[d].seq = 0 ELSE server'[d].path \in Place /\ server'[d].text # {}
  <2>1. CASE d = e
    <3>1. server'[d] = r
      BY <1>1, <2>1 DEF ServerTyped
    <3> QED
      BY <1>2, <3>1 DEF Spot
  <2>2. CASE d # e
    <3>1. server'[d] = server[d]
      BY <1>1, <2>2 DEF ServerTyped
    <3>2. /\ server[d] \in [path : Spot, rev : Nat, text : SUBSET Edits(locals), deleted : BOOLEAN, seq : 0..head]
          /\ IF server[d].rev = 0 THEN server[d].seq = 0 ELSE server[d].path \in Place /\ server[d].text # {}
      BY <1>1 DEF ServerTyped
    <3> QED
      BY <1>2, <3>1, <3>2
  <2> QED
    BY <2>1, <2>2
<1>4. server' = [d \in Entry |-> server'[d]]
  BY <1>1 DEF ServerTyped
<1>5. ServerTyped(server', head', locals')
  BY <1>3, <1>4 DEF ServerTyped
<1>6. PullTyped(pull', Numbered', locals')
  BY IdleTyped
<1> QED
  BY <1>2, <1>5, <1>6 DEF TypeInv

LEMMA OthersTyped == TypeInv /\ (OthersWrite \/ OthersDelete) => TypeInv'
<1> SUFFICES ASSUME TypeInv, OthersWrite \/ OthersDelete PROVE TypeInv'
  OBVIOUS
<1>1. head < MaxRemote /\ head' = head + 1 /\ pull' = NoPull /\ UNCHANGED <<vault, rows, cursor, locals, work, unguarded>>
  BY DEF OthersWrite, OthersDelete
<1>2. head \in Nat /\ ServerTyped(server, head, locals)
  BY DEF TypeInv
<1>3. CASE OthersWrite
  <2>1. PICK e \in Entry, p \in Path, edited \in BOOLEAN :
          /\ server[e].rev = 0 => edited
          /\ server' = [server EXCEPT ![e] =
                [path |-> At(p), rev |-> @.rev + 1, deleted |-> FALSE, seq |-> head',
                 text |-> IF edited THEN @.text \cup {<<"there", head>>} ELSE @.text]]
    BY <1>3 DEF OthersWrite
  <2> DEFINE text == IF edited THEN server[e].text \cup {<<"there", head>>} ELSE server[e].text
             rev == server[e].rev + 1
             r == [path |-> At(p), rev |-> rev, deleted |-> FALSE, seq |-> head', text |-> text]
  <2>2. server' = [server EXCEPT ![e] = r]
    BY <1>2, <2>1 DEF ServerTyped
  <2>3. text \subseteq Edits(locals) /\ text # {}
    <3>1. server[e].text \subseteq Edits(locals) /\ (server[e].rev # 0 => server[e].text # {})
      BY <1>2 DEF ServerTyped
    <3>2. <<"there", head>> \in Edits(locals)
      BY <1>2 DEF Edits
    <3> QED
      BY <2>1, <3>1, <3>2
  <2>4. rev \in Nat \ {0} /\ At(p) \in Place
    <3>1. server[e].rev \in Nat
      BY <1>2 DEF ServerTyped
    <3> QED
      BY <3>1 DEF At, Place
  <2> HIDE DEF text, rev
  <2>5. /\ r \in [path : Place, rev : Nat \ {0}, text : SUBSET Edits(locals), deleted : BOOLEAN, seq : {head'}]
        /\ r.text # {}
    BY <2>3, <2>4
  <2> HIDE DEF r
  <2> QED
    BY <1>1, <2>2, <2>5, ServerStepTyped
<1>4. CASE OthersDelete
  <2>1. PICK e \in Entry : Live(e) /\
          server' = [server EXCEPT ![e] =
                [path |-> @.path, rev |-> @.rev + 1, deleted |-> TRUE, seq |-> head', text |-> @.text]]
    BY <1>4 DEF OthersDelete
  <2> DEFINE s == server[e]
             r == [path |-> s.path, rev |-> s.rev + 1, deleted |-> TRUE, seq |-> head', text |-> s.text]
  <2>2. server' = [server EXCEPT ![e] = r]
    BY <2>1
  <2>3. /\ s \in [path : Spot, rev : Nat, text : SUBSET Edits(locals), deleted : BOOLEAN, seq : 0..head]
        /\ s.path \in Place /\ s.text # {}
    BY <1>2, <2>1 DEF ServerTyped, Live
  <2>4. s.rev + 1 \in Nat \ {0}
    BY <2>3
  <2> HIDE DEF s
  <2>6. /\ r \in [path : Place, rev : Nat \ {0}, text : SUBSET Edits(locals), deleted : BOOLEAN, seq : {head'}]
        /\ r.text # {}
    BY <2>3, <2>4
  <2> HIDE DEF r
  <2> QED
    BY <1>1, <2>2, <2>6, ServerStepTyped
<1> QED
  BY <1>3, <1>4

-----------------------------------------------------------------------------
(* Types: a pull plans its windows, prepares and settles its groups. *)

\* A step of a pull: the user and the other devices do nothing.
LEMMA PullStepTyped ==
    ASSUME TypeInv, UNCHANGED <<server, head, cursor, locals, work>>, VaultTyped(vault', locals),
           Sound(rows'), Firm(rows'), PullTyped(pull', Numbered, locals), unguarded' \subseteq Mine(locals)
    PROVE  TypeInv'
<1>1. Numbered' = Numbered
  BY DEF Numbered
<1>2. RowsTyped(rows')
  BY FirmRows
<1>3. head \in 0..MaxRemote /\ cursor \in 0..head /\ locals \in Nat /\ ServerTyped(server, head, locals)
  BY DEF TypeInv
<1>4. work \subseteq Mine(locals)
  BY DEF TypeInv
<1>5. work' \cup unguarded' \subseteq Mine(locals')
  BY <1>4
<1>6. PullTyped(pull', Numbered', locals')
  BY <1>1
<1> QED
  BY <1>2, <1>3, <1>5, <1>6 DEF TypeInv

LEMMA AppliesTyped ==
    ASSUME RowsInv, TypeInv, NEW window \in Seq(Numbered), NEW rest \in Seq(Numbered),
           rest # << >> => window # << >>, Applies(window, rest)
    PROVE  TypeInv'
<1> DEFINE planned == Planned(window, rest = << >>)
           named == Given({plan.final : plan \in ToSet(planned.plans)})
           gs == Groups(planned)
           applied == [NoPull EXCEPT !.phase = "apply", !.window = window, !.rest = rest,
                     !.deferred = planned.deferred, !.groups = gs, !.named = named]
<1>1. pull' = applied \/ pull' = [NoPull EXCEPT !.outcome = "raised"]
  BY DEF Applies, Raises, Stops
<1>2. UNCHANGED <<server, head, cursor, locals, work, unguarded>> /\ vault' = vault
  BY DEF Applies
<1>3. /\ Len(planned.plans) \in Nat
      /\ planned.deferred \in Seq(Numbered) /\ planned.superseded \in Seq(Numbered)
      /\ planned.skipped \in Seq(Numbered)
      /\ IsFiniteSet(ToSet(planned.plans))
      /\ \A i \in 1..Len(planned.plans) : \E e \in Numbered : \E moving : PlanFor(planned.plans[i], e, moving)
  BY PlannedFrom
<1>4. Sound(rows') /\ Firm(rows')
  <2>1. Sound(rows) /\ Firm(rows) /\ Standing(rows)
    BY RowsAreFirm DEF Standing
  <2>2. PICK s \in Seq(Numbered) : rows' = SkipAll(rows, s) /\ rows' # Raised
    BY <1>3, AppliesSkips
  <2>3. s \in Seq(Entry)
    BY SeqMonotonic DEF Numbered
  <2> QED
    BY <2>1, <2>2, <2>3, SkipStands, SkipFirm DEF Standing
<1> HIDE DEF planned
<1>5. VaultTyped(vault', locals) /\ unguarded' \subseteq Mine(locals)
  BY <1>2 DEF TypeInv
<1>6. PullTyped(pull', Numbered, locals)
  <2>1. CASE pull' = [NoPull EXCEPT !.outcome = "raised"]
    BY <2>1, IdleTyped
  <2>2. CASE pull' = applied
    <3>1. \A i \in 1..Len(planned.plans) : PlanTyped(planned.plans[i], Numbered)
      BY <1>3, PlanTypes DEF TypeInv
    <3>2. ASSUME NEW k \in DOMAIN gs PROVE GroupTyped(gs[k], Numbered, locals)
      <4>1. Len(planned.superseded) \in Nat
        BY <1>3
      <4>2. \A j \in DOMAIN gs : Group(gs[j], None) /\ From(gs[j], planned)
        BY <1>3, <4>1, GroupsApart
      <4> HIDE DEF gs
      <4> QED
        BY <3>1, <4>2, FromTyped
    <3>3. IsFiniteSet(named)
      <4>1. IsFiniteSet({plan.final : plan \in ToSet(planned.plans)})
        BY <1>3, FinalsFinite
      <4> QED
        BY <4>1, FS_Subset DEF Given
    <3> HIDE DEF gs, named
    <3>4. pull' = [phase |-> "apply", window |-> window, rest |-> rest, deferred |-> planned.deferred,
             groups |-> gs, group |-> None, todo |-> << >>, saved |-> None,
             named |-> named, outcome |-> "none"]
      BY <2>2 DEF NoPull
    <3>5. /\ pull'.phase = "apply" /\ pull'.window = window /\ pull'.rest = rest
          /\ pull'.deferred = planned.deferred /\ pull'.groups = gs
          /\ pull'.group = None /\ pull'.saved = None /\ pull'.named = named
      BY <3>4
    <3>6. "apply" \notin Applying
      BY DEF Applying
    <3> QED
      BY <1>3, <3>2, <3>3, <3>5, <3>6 DEF PullTyped
  <2> QED
    BY <1>1, <2>1, <2>2
<1> QED
  BY <1>2, <1>4, <1>5, <1>6, PullStepTyped

LEMMA PlansTyped == GroupsInv /\ RowsInv /\ TypeInv /\ (PullStart \/ PlanWindow) => TypeInv'
<1> SUFFICES ASSUME GroupsInv, RowsInv, TypeInv, PullStart \/ PlanWindow PROVE TypeInv'
  OBVIOUS
<1>1. CASE PullStart
  <2>1. Listed \subseteq Numbered
    <3> SUFFICES ASSUME NEW e \in Listed PROVE e \in Numbered
      OBVIOUS
    <3>1. e \in Entry /\ server[e].seq > cursor /\ cursor \in 0..head
      BY DEF Listed, TypeInv
    <3>2. server[e].rev = 0 => server[e].seq = 0
      BY <3>1 DEF TypeInv, ServerTyped
    <3>3. ~(0 > cursor)
      BY <3>1
    <3> QED
      BY <3>1, <3>2, <3>3 DEF Numbered
  <2>2. Seq(Listed) \subseteq Seq(Numbered)
    BY <2>1, SeqMonotonic
  <2>3. PICK window, rest \in Seq(Listed) : window # << >> /\ Applies(window, rest)
    BY <1>1, StartFrom DEF GroupsInv
  <2> QED
    BY <2>2, <2>3, AppliesTyped
<1>2. CASE PlanWindow
  <2>1. Applies(pull.window, pull.rest)
    BY <1>2 DEF PlanWindow
  <2>2. pull.window \in Seq(Numbered) /\ pull.rest \in Seq(Numbered) /\ (pull.rest # << >> => pull.window # << >>)
    BY DEF TypeInv, PullTyped
  <2> QED
    BY <2>1, <2>2, AppliesTyped
<1> QED
  BY <1>1, <1>2

LEMMA PreparesTyped == GroupsInv /\ RowsInv /\ TypeInv /\ PrepareAhead => TypeInv'
<1> SUFFICES ASSUME GroupsInv, RowsInv, TypeInv, PrepareAhead PROVE TypeInv'
  OBVIOUS
<1>1. PICK gs \in [DOMAIN pull.groups -> UNION {Prepared(g) : g \in ToSet(pull.groups)}] :
         /\ \A i \in DOMAIN gs : gs[i] \in Prepared(pull.groups[i])
         /\ pull' = [pull EXCEPT !.groups = gs]
  BY DEF PrepareAhead
<1>2. ASSUME NEW k \in DOMAIN gs PROVE GroupTyped(gs[k], Numbered, locals)
  <2>1. k \in DOMAIN pull.groups /\ gs[k] \in Prepared(pull.groups[k])
    BY <1>1
  <2>2. PICK c : Group(pull.groups[k], c)
    BY <2>1 DEF GroupsInv, Shape, GoodGroups
  <2>3. GroupTyped(pull.groups[k], Numbered, locals) /\ IsFiniteSet(pull.named)
    BY <2>1 DEF TypeInv, PullTyped
  <2> QED
    BY <2>1, <2>2, <2>3, PreparedTyped DEF TypeInv
<1>3. /\ pull'.groups = gs /\ pull'.phase = "apply" /\ pull'.group = pull.group /\ pull'.saved = pull.saved
      /\ pull'.window = pull.window /\ pull'.rest = pull.rest /\ pull'.deferred = pull.deferred
      /\ pull'.named = pull.named /\ pull.phase = "apply"
  BY <1>1 DEF PrepareAhead, GroupsInv, Shape, Fields
<1>4. "apply" \notin Applying
  BY DEF Applying
<1>5. PullTyped(pull', Numbered, locals)
  BY <1>2, <1>3, <1>4 DEF TypeInv, PullTyped
<1>6. UNCHANGED <<server, head, cursor, locals, work>> /\ vault' = vault /\ rows' = rows /\ unguarded' = unguarded
  BY DEF PrepareAhead
<1>7. Firm(rows') /\ Sound(rows') /\ VaultTyped(vault', locals) /\ unguarded' \subseteq Mine(locals)
  BY <1>6, RowsAreFirm DEF TypeInv
<1> QED
  BY <1>5, <1>6, <1>7, PullStepTyped

\* The copies of a group, one after the other.
LEMMA CopiesTyped ==
    ASSUME NEW n, NEW v, VaultTyped(v, n), NEW S, IsFiniteSet(S),
           \A c \in S : c.copy \in Place /\ IsText(c.text, n)
    PROVE  VaultTyped(CopyAll(v, SetToSeq(S)), n)
<1> DEFINE s == SetToSeq(S)
           m == Len(s)
<1>1. m \in Nat /\ \A i \in 1..m : s[i] \in S
  BY OrderOf
<1> HIDE DEF s
<1>2. PICK f : Turns(f, "copy", None, v, s, m) /\ CopyAll(v, s) = f[m]
  BY <1>1, CopyTurns
<1>3. \A i \in 1..m : Fine("copy", n, s[i])
  BY <1>1 DEF Fine
<1>4. "copy" \in FileSteps
  BY DEF FileSteps
<1> HIDE DEF m
<1>5. VaultTyped(f[m], n)
  BY <1>1, <1>2, <1>3, <1>4, FileTurns
<1> QED
  BY <1>2, <1>5 DEF s

LEMMA MergedTyped ==
    ASSUME NEW n, NEW v, VaultTyped(v, n), NEW S, IsFiniteSet(S),
           \A c \in S : c.place \in Place /\ IsText(c.text, n)
    PROVE  VaultTyped(MergeAll(v, SetToSeq(S)), n)
<1> DEFINE s == SetToSeq(S)
           m == Len(s)
<1>1. m \in Nat /\ \A i \in 1..m : s[i] \in S
  BY OrderOf
<1> HIDE DEF s
<1>2. PICK f : Turns(f, "merge", None, v, s, m) /\ MergeAll(v, s) = f[m]
  BY <1>1, MergeTurns
<1>3. \A i \in 1..m : Fine("merge", n, s[i])
  BY <1>1 DEF Fine
<1>4. "merge" \in FileSteps
  BY DEF FileSteps
<1> HIDE DEF m
<1>5. VaultTyped(f[m], n)
  BY <1>1, <1>2, <1>3, <1>4, FileTurns
<1> QED
  BY <1>2, <1>5 DEF s

LEMMA RenamedTyped ==
    ASSUME NEW n, NEW v, VaultTyped(v, n), NEW s, Len(s) \in Nat,
           \A i \in 1..Len(s) : s[i].move = None \/ s[i].move.to \in Place
    PROVE  VaultTyped(RenameAll(v, s), n)
<1> DEFINE m == Len(s)
<1>1. PICK f : Turns(f, "rename", None, v, s, m) /\ RenameAll(v, s) = f[m]
  BY RenameTurns
<1>2. \A i \in 1..m : Fine("rename", n, s[i])
  BY DEF Fine
<1>3. "rename" \in FileSteps /\ m \in Nat
  BY DEF FileSteps
<1> HIDE DEF m
<1>4. VaultTyped(f[m], n)
  BY <1>1, <1>2, <1>3, FileTurns
<1> QED
  BY <1>1, <1>4

LEMMA SettleTyped == GroupsInv /\ RowsInv /\ TypeInv /\ Settle => TypeInv'
<1> SUFFICES ASSUME GroupsInv, RowsInv, TypeInv, Settle PROVE TypeInv'
  OBVIOUS
<1> DEFINE gs == pull.groups
           h == Head(gs)
           n == locals
<1>1. PICK g \in Prepared(h) :
         LET copies == {c \in g.conflicts : c.kind = "copy"} IN
         /\ rows' = SettledRows(g)
         /\ vault' = CopyAll(Without(vault, g.remove), SetToSeq(copies))
         /\ pull' = [pull EXCEPT !.phase = "move", !.groups = Tail(@), !.group = g, !.saved = Saved(g)]
         /\ unguarded' = unguarded \cup ((UNION {Overlooked(plan) : plan \in ToSet(g.plans)})
                                           \ UNION {c.text : c \in copies})
  BY DEF Settle, SettledRows, Each, InTurn, SupersedeAll, CleanAll, DropAll, ReleaseAll, CopyAll
<1>2. gs # << >> /\ Sound(rows) /\ Firm(rows) /\ AllReady(gs) /\ GoodGroups(gs)
      /\ UNCHANGED <<server, head, cursor, locals, work>>
  BY RowsAreFirm DEF Settle, RowsInv, GroupsInv, Shape
<1>3. VaultTyped(vault, n) /\ ServerTyped(server, head, n) /\ IsFiniteSet(pull.named) /\ n \in Nat
  BY DEF TypeInv, PullTyped
<1>4. Fields(pull)
  BY DEF GroupsInv, Shape
<1>5. \A k \in DOMAIN gs : GroupTyped(gs[k], Numbered, n)
  BY DEF TypeInv, PullTyped
<1> HIDE DEF gs, h
<1>6. PICK m \in Nat : gs = [k \in 1..m |-> gs[k]]
  BY <1>2 DEF GoodGroups
<1> DEFINE S == {gs[k] : k \in 1..m}
<1>7. gs \in Seq(S) /\ Len(gs) = m /\ DOMAIN gs = 1..m
  <2>1. gs \in [1..m -> S] /\ DOMAIN gs = 1..m
    BY <1>6
  <2> HIDE DEF S
  <2>2. gs \in Seq(S)
    BY <1>6, <2>1, SeqDef
  <2>3. Len(gs) = m
    BY <1>6, <2>1, <2>2, LenProperties
  <2> QED
    BY <2>1, <2>2, <2>3
<1> HIDE DEF S
<1>8. /\ h = gs[1] /\ 1 \in DOMAIN gs
      /\ Len(Tail(gs)) = m - 1 /\ Tail(gs) \in Seq(S) /\ \A k \in 1..Len(Tail(gs)) : Tail(gs)[k] = gs[k + 1]
  <2>1. m # 0
    BY <1>2, <1>6
  <2>2. 1 \in DOMAIN gs
    BY <1>7, <2>1
  <2> QED
    BY <1>2, <1>7, <2>2, HeadTailProperties DEF h
<1>9. \A k \in DOMAIN Tail(gs) : GroupTyped(Tail(gs)[k], Numbered, n)
  <2>1. DOMAIN Tail(gs) = 1..(m - 1)
    BY <1>8, LenProperties
  <2>2. \A k \in 1..(m - 1) : k + 1 \in 1..m
    OBVIOUS
  <2> QED
    BY <1>5, <1>7, <1>8, <2>1, <2>2
<1>10. PICK c : Group(h, c)
  BY <1>2, <1>8 DEF GoodGroups
<1>11. Ready(h) /\ GroupTyped(h, Numbered, n)
  BY <1>2, <1>5, <1>8 DEF AllReady
<1>12. Rooted(g) /\ Pends(g.conflicts) /\ \E d : Group(g, d)
  BY <1>2, <1>10, <1>11, PreparedReady
<1>13. GroupTyped(g, Numbered, n) /\ \A x \in g.conflicts : ConflictTyped(x, n)
  BY <1>3, <1>10, <1>11, PreparedTyped
<1>14. Firm(rows') /\ Sound(rows')
  <2>1. Firm(SettledRows(g))
    BY <1>2, <1>12, SettledFirm
  <2>2. BehindOf(SettledRows(g), Saved(g))
    BY <1>2, <1>12, SettledBehind
  <2> QED
    BY <1>1, <2>1, <2>2 DEF BehindOf, Behind
<1> DEFINE copies == {x \in g.conflicts : x.kind = "copy"}
<1>15. VaultTyped(vault', n)
  <2>1. VaultTyped(Without(vault, g.remove), n)
    BY <1>3, WithoutTyped
  <2>2. IsFiniteSet(copies)
    BY <1>12, FS_Subset DEF Pends
  <2>3. \A x \in copies : x.copy \in Place /\ IsText(x.text, n)
    BY <1>13 DEF ConflictTyped
  <2> HIDE DEF copies
  <2>4. VaultTyped(CopyAll(Without(vault, g.remove), SetToSeq(copies)), n)
    BY <2>1, <2>2, <2>3, CopiesTyped
  <2> QED
    BY <1>1, <2>4 DEF copies
<1>16. unguarded' \subseteq Mine(n)
  <2>1. ASSUME NEW plan PROVE Overlooked(plan) \subseteq Mine(n)
    <3> SUFFICES ASSUME NEW x \in Overlooked(plan) PROVE x \in Mine(n)
      OBVIOUS
    <3>1. Own(x) /\ \E f \in Files : x \in vault[f]
      BY DEF Overlooked
    <3> QED
      BY <1>3, <3>1, OwnIsMine DEF VaultTyped, IsText, Files
  <2>2. unguarded \subseteq Mine(n)
    BY DEF TypeInv
  <2>3. unguarded' \subseteq unguarded \cup UNION {Overlooked(plan) : plan \in ToSet(g.plans)}
    BY <1>1
  <2> QED
    BY <2>1, <2>2, <2>3
<1>17. /\ pull'.phase = "move" /\ pull'.groups = Tail(gs) /\ pull'.group = g /\ pull'.saved = Saved(g)
       /\ pull'.window = pull.window /\ pull'.rest = pull.rest /\ pull'.deferred = pull.deferred
       /\ pull'.named = pull.named
  BY <1>1, <1>4 DEF Fields, gs
<1>18. PullTyped(pull', Numbered, n)
  <2>1. /\ Saved(g).rows = rows /\ Saved(g).entries = Touched(g)
        /\ Touched(g) \subseteq Saved(g).queued
    BY DEF Saved
  <2>2. "move" \in Applying /\ "move" # "write" /\ RowsTyped(rows)
    BY DEF Applying, TypeInv
  <2>3. GroupHeld(pull', Numbered, n)
    BY <1>12, <1>13, <1>17, <2>1, <2>2 DEF GroupHeld
  <2> QED
    BY <1>9, <1>17, <2>2, <2>3 DEF TypeInv, PullTyped
<1> HIDE DEF n
<1> QED
  BY <1>2, <1>14, <1>15, <1>16, <1>18, PullStepTyped DEF n

-----------------------------------------------------------------------------
(* Types: a group is applied, or fails. *)

\* What a step within a group starts from.
LEMMA HeldIs ==
    ASSUME RowsInv, TypeInv, pull.phase \in Applying
    PROVE  /\ GroupHeld(pull, Numbered, locals) /\ HoldsGroup(pull)
           /\ \A x \in pull.group.conflicts : ConflictTyped(x, locals) /\ x.of \in Entry
           /\ \A i \in 1..Len(pull.group.plans) :
                 pull.group.plans[i] \in ToSet(pull.group.plans) /\ PlanTyped(pull.group.plans[i], Numbered)
           /\ pull.group.plans \in Seq(ToSet(pull.group.plans)) /\ Len(pull.group.plans) \in Nat
           /\ DOMAIN pull.group.plans = 1..Len(pull.group.plans)
<1>1. GroupHeld(pull, Numbered, locals) /\ HoldsGroup(pull)
  BY DEF TypeInv, PullTyped, RowsInv, Stage
<1>2. \A x \in pull.group.conflicts : ConflictTyped(x, locals) /\ x.of \in Entry
  BY <1>1 DEF GroupHeld, HoldsGroup, Pends
<1> DEFINE s == pull.group.plans
<1>3. PICK S : s \in Seq(S)
  BY <1>1 DEF GroupHeld, Group
<1>4. \A p \in ToSet(s) : PlanTyped(p, Numbered)
  BY <1>1 DEF GroupHeld, GroupTyped
<1> HIDE DEF s
<1>5. Len(s) \in Nat /\ DOMAIN s = 1..Len(s) /\ s = [i \in 1..Len(s) |-> s[i]]
  BY <1>3, LenProperties
<1>6. \A i \in 1..Len(s) : s[i] \in ToSet(s)
  BY <1>5 DEF ToSet
<1>7. s \in [1..Len(s) -> ToSet(s)]
  BY <1>5, <1>6
<1>8. s \in Seq(ToSet(s))
  BY <1>5, <1>7, SeqDef
<1> QED
  BY <1>1, <1>2, <1>4, <1>5, <1>6, <1>8 DEF s

LEMMA InMemoryIsMine ==
    ASSUME RowsInv, TypeInv
    PROVE  unguarded \cup InMemory \subseteq Mine(locals)
<1>1. unguarded \subseteq Mine(locals) /\ locals \in Nat
  BY DEF TypeInv
<1>2. ASSUME NEW x \in InMemory PROVE x \in Mine(locals)
  <2>1. pull.group # None
    BY <1>2 DEF InMemory
  <2>2. pull.phase \in Applying
    BY <2>1 DEF TypeInv, PullTyped
  <2>3. PICK c \in Merges : x \in c.text /\ Own(x)
    BY <2>1 DEF InMemory
  <2>4. c \in pull.group.conflicts /\ c.kind = "local"
    BY <2>3 DEF Merges, Merged
  <2>5. c.text \subseteq Edits(locals)
    BY <2>2, <2>4, HeldIs DEF ConflictTyped, IsText
  <2> QED
    BY <1>1, <2>3, <2>5, OwnIsMine
<1> QED
  BY <1>1, <1>2

\* The rows are put back and the pull stops.
LEMMA PutsBackFirm ==
    ASSUME RowsInv, TypeInv, pull.phase \in Applying, rows' = Restored(rows, pull.saved)
    PROVE  Firm(rows') /\ Sound(rows')
<1>1. Sound(rows')
  BY PutsBack
<1>2. Snapshot(pull.saved) /\ RowsTyped(pull.saved.rows)
  BY HeldIs DEF GroupHeld, HoldsGroup
<1>3. Firm(rows)
  BY RowsAreFirm
<1> QED
  BY <1>1, <1>2, <1>3, RestoredFirm

\* What the renames of a group make of the files, up to one of them.
LEMMA AfterTyped ==
    ASSUME RowsInv, TypeInv, pull.phase \in Applying, NEW i \in 0..Len(pull.group.plans)
    PROVE  VaultTyped(RenameAll(vault, SubSeq(pull.group.plans, 1, i)), locals)
<1> DEFINE s == pull.group.plans
           r == SubSeq(s, 1, i)
           T == {p \in ToSet(s) : PlanTyped(p, Numbered)}
<1>1. Len(s) \in Nat /\ \A k \in 1..Len(s) : s[k] \in T
  BY HeldIs
<1>2. i \in Nat /\ 1 \in Int /\ \A k \in 1..i : k \in 1..Len(s)
  BY <1>1
<1>3. VaultTyped(vault, locals)
  BY DEF TypeInv
<1>4. \A p \in T : p.move = None \/ p.move.to \in Place
  BY DEF PlanTyped
<1> HIDE DEF s, T
<1>5. \A k \in 1..i : s[k] \in T
  BY <1>1, <1>2
<1>6. r \in Seq(T)
  BY <1>2, <1>5, SubSeqProperties
<1> HIDE DEF r
<1>7. Len(r) \in Nat /\ \A k \in 1..Len(r) : r[k] \in T
  BY <1>6, LenProperties, ElementOfSeq
<1>8. \A k \in 1..Len(r) : r[k].move = None \/ r[k].move.to \in Place
  BY <1>4, <1>7
<1>9. VaultTyped(RenameAll(vault, r), locals)
  BY <1>3, <1>7, <1>8, RenamedTyped
<1> QED
  BY <1>9 DEF r, s

LEMMA MovesTyped == GroupsInv /\ RowsInv /\ TypeInv /\ MovePaths => TypeInv'
<1> SUFFICES ASSUME GroupsInv, RowsInv, TypeInv, MovePaths PROVE TypeInv'
  OBVIOUS
<1> DEFINE plans == pull.group.plans
           after(i) == RenameAll(vault, SubSeq(plans, 1, i))
           gone == {i \in DOMAIN plans : plans[i].move # None /\ ~Renames(after(i - 1), plans[i])}
           removed == UNION {Removes(plan) : plan \in ToSet(plans)}
           left == {plan \in ToSet(plans) : plan.final # None /\ ~plan.skip}
           todo == Those(plans, left)
<1>1. pull.phase = "move" /\ pull.phase \in Applying /\ UNCHANGED <<server, head, cursor, locals, work>>
  BY DEF MovePaths, Applying
<1>2. \/ /\ gone # {} /\ vault' = after(Min(gone) - 1) /\ rows' = Restored(rows, pull.saved)
         /\ Stops("failed") /\ unguarded' = unguarded \cup InMemory
      \/ /\ vault' = Without(after(Len(plans)), removed)
         /\ pull' = [pull EXCEPT !.phase = "write", !.todo = todo]
         /\ rows' = rows /\ unguarded' = unguarded
  BY DEF MovePaths, InTurn, RenameAll
<1>3. /\ Len(plans) \in Nat /\ DOMAIN plans = 1..Len(plans) /\ plans \in Seq(ToSet(plans))
      /\ GroupHeld(pull, Numbered, locals)
  BY <1>1, HeldIs
<1>4. \A i \in 0..Len(plans) : VaultTyped(after(i), locals)
  BY <1>1, AfterTyped
<1>5. gone \subseteq 1..Len(plans)
  BY <1>3
<1>6. Fields(pull)
  BY DEF GroupsInv, Shape
<1> HIDE DEF after, gone, removed
<1>7. CASE /\ gone # {} /\ vault' = after(Min(gone) - 1) /\ rows' = Restored(rows, pull.saved)
           /\ Stops("failed") /\ unguarded' = unguarded \cup InMemory
  <2>1. Min(gone) - 1 \in 0..Len(plans)
    <3>1. gone \in SUBSET Nat
      BY <1>5
    <3>2. \E m \in gone : \A k \in gone : m <= k
      BY <1>7, <3>1, LeastIndex
    <3>3. Min(gone) \in gone
      BY <3>2 DEF Min
    <3> DEFINE m == Min(gone)
               n == Len(plans)
    <3>4. m \in 1..n /\ n \in Nat
      BY <1>3, <1>5, <3>3
    <3> HIDE DEF m, n
    <3>5. m - 1 \in 0..n
      BY <3>4
    <3> QED
      BY <3>5 DEF m, n
  <2>2. VaultTyped(vault', locals)
    BY <1>4, <1>7, <2>1
  <2>3. PullTyped(pull', Numbered, locals)
    BY <1>7, IdleTyped DEF Stops
  <2> QED
    BY <1>1, <1>7, <2>2, <2>3, PutsBackFirm, InMemoryIsMine, PullStepTyped
<1>8. CASE /\ vault' = Without(after(Len(plans)), removed)
           /\ pull' = [pull EXCEPT !.phase = "write", !.todo = todo]
           /\ rows' = rows /\ unguarded' = unguarded
  <2>1. VaultTyped(vault', locals)
    <3>1. Len(plans) \in 0..Len(plans)
      BY <1>3
    <3>2. VaultTyped(after(Len(plans)), locals)
      BY <1>4, <3>1
    <3> QED
      BY <1>8, <3>2, WithoutTyped
  <2>2. todo \in Seq({plan \in ToSet(plans) : plan.final # None})
    <3> DEFINE U == {plan \in ToSet(plans) : plan.final # None}
    <3>2. left \subseteq U
      OBVIOUS
    <3> HIDE DEF plans, left
    <3>1. todo \in Seq(ToSet(plans)) /\ \A k \in 1..Len(todo) : todo[k] \in left
      BY <1>3, ThoseOf
    <3> HIDE DEF todo, U
    <3>3. Len(todo) \in Nat /\ todo = [k \in 1..Len(todo) |-> todo[k]]
      BY <3>1, LenProperties
    <3>4. todo \in [1..Len(todo) -> U]
      BY <3>1, <3>2, <3>3
    <3>5. todo \in Seq(U)
      BY <3>3, <3>4, SeqDef
    <3> QED
      BY <3>5 DEF U
  <2> HIDE DEF todo
  <2>3. /\ pull'.phase = "write" /\ pull'.groups = pull.groups /\ pull'.group = pull.group /\ pull'.todo = todo
        /\ pull'.saved = pull.saved /\ pull'.window = pull.window /\ pull'.rest = pull.rest
        /\ pull'.deferred = pull.deferred /\ pull'.named = pull.named
    BY <1>6, <1>8 DEF Fields
  <2>4. GroupHeld(pull', Numbered, locals)
    BY <1>3, <2>2, <2>3 DEF GroupHeld
  <2>5. pull'.phase \in Applying
    BY <2>3 DEF Applying
  <2>6. PullTyped(pull', Numbered, locals)
    BY <2>3, <2>4, <2>5 DEF TypeInv, PullTyped
  <2>7. Sound(rows') /\ Firm(rows') /\ unguarded' \subseteq Mine(locals)
    BY <1>8, RowsAreFirm DEF TypeInv
  <2> QED
    BY <1>1, <2>1, <2>6, <2>7, PullStepTyped
<1> QED
  BY <1>2, <1>7, <1>8

LEMMA WriteFileTyped == GroupsInv /\ RowsInv /\ TypeInv /\ WriteFile => TypeInv'
<1> SUFFICES ASSUME GroupsInv, RowsInv, TypeInv, WriteFile PROVE TypeInv'
  OBVIOUS
<1> DEFINE todo == pull.todo
           plan == Head(todo)
           U == {p \in ToSet(pull.group.plans) : p.final # None}
<1>1. /\ pull.phase = "write" /\ pull.phase \in Applying /\ todo # << >>
      /\ vault' = With(vault, plan.final, server[plan.entry].text)
      /\ pull' = [pull EXCEPT !.todo = Tail(@)]
      /\ UNCHANGED <<server, head, cursor, locals, work>> /\ rows' = rows /\ unguarded' = unguarded
  BY DEF WriteFile, Applying
<1>2. GroupHeld(pull, Numbered, locals)
  BY <1>1, HeldIs
<1>3. todo \in Seq(U) /\ \A p \in U : PlanTyped(p, Numbered) /\ p.final # None
  BY <1>1, <1>2 DEF GroupHeld, GroupTyped
<1>4. Fields(pull)
  BY DEF GroupsInv, Shape
<1>5. pull'.todo = Tail(todo)
  BY <1>1, <1>4 DEF Fields
<1> HIDE DEF todo, U
<1>6. plan \in U /\ Tail(todo) \in Seq(U)
  BY <1>1, <1>3, HeadTailProperties
<1>7. plan.final \in Place /\ plan.entry \in Numbered
  BY <1>3, <1>6 DEF PlanTyped, Spot
<1>8. IsText(server[plan.entry].text, locals)
  BY <1>7 DEF TypeInv, ServerTyped, Numbered, IsText
<1> HIDE DEF plan
<1>9. VaultTyped(vault', locals)
  BY <1>1, <1>7, <1>8, WithTyped DEF TypeInv
<1>10. /\ pull'.phase = "write" /\ pull'.groups = pull.groups /\ pull'.group = pull.group
       /\ pull'.saved = pull.saved /\ pull'.window = pull.window /\ pull'.rest = pull.rest
       /\ pull'.deferred = pull.deferred /\ pull'.named = pull.named
  BY <1>1, <1>4 DEF Fields
<1>11. GroupHeld(pull', Numbered, locals)
  BY <1>2, <1>5, <1>6, <1>10 DEF GroupHeld, U
<1>12. PullTyped(pull', Numbered, locals)
  BY <1>1, <1>10, <1>11 DEF TypeInv, PullTyped
<1>13. Sound(rows') /\ Firm(rows') /\ unguarded' \subseteq Mine(locals)
  BY <1>1, RowsAreFirm DEF TypeInv
<1> QED
  BY <1>1, <1>9, <1>12, <1>13, PullStepTyped

\* A group ends.
LEMMA GroupEndsTyped ==
    ASSUME GroupsInv, TypeInv, pull' = GroupEnds
    PROVE  PullTyped(pull', Numbered, locals)
<1>1. /\ pull'.phase = "apply" /\ pull'.groups = pull.groups /\ pull'.group = None /\ pull'.saved = None
      /\ pull'.window = pull.window /\ pull'.rest = pull.rest /\ pull'.deferred = pull.deferred
      /\ pull'.named = pull.named
  BY DEF GroupEnds, GroupsInv, Shape, Fields
<1>2. "apply" \notin Applying
  BY DEF Applying
<1> QED
  BY <1>1, <1>2 DEF TypeInv, PullTyped

LEMMA WriteRowsTyped == GroupsInv /\ RowsInv /\ TypeInv /\ WriteRows => TypeInv'
<1> SUFFICES ASSUME GroupsInv, RowsInv, TypeInv, WriteRows PROVE TypeInv'
  OBVIOUS
<1> DEFINE rs == InTurn(rows, Written, pull.group.plans)
<1>1. /\ pull.phase = "write" /\ pull.phase \in Applying
      /\ UNCHANGED <<server, head, cursor, locals, work>> /\ vault' = vault /\ unguarded' = unguarded
  BY DEF WriteRows, Applying
<1>2. \/ rs = Raised /\ rows' = Restored(rows, pull.saved) /\ Raises
      \/ rs # Raised /\ rows' = rs /\ (pull' = GroupEnds \/ pull' = [pull EXCEPT !.phase = "merge"])
  BY DEF WriteRows
<1>3. VaultTyped(vault', locals) /\ unguarded' \subseteq Mine(locals) /\ Firm(rows)
  BY <1>1, RowsAreFirm DEF TypeInv
<1>4. Firm(rs)
  <2>1. rs = WriteAll(rows, pull.group.plans)
    BY DEF InTurn, WriteAll
  <2>2. Len(pull.group.plans) \in Nat /\ \A i \in 1..Len(pull.group.plans) : pull.group.plans[i].entry \in Entry
    BY <1>1, HeldIs DEF PlanTyped, Numbered
  <2> QED
    BY <1>3, <2>1, <2>2, WritesFirm
<1>5. Sound(rows')
  BY WriteKeepsRows DEF RowsInv
<1> HIDE DEF rs
<1>6. CASE rs = Raised /\ rows' = Restored(rows, pull.saved) /\ Raises
  <2>1. PullTyped(pull', Numbered, locals)
    BY <1>6, IdleTyped DEF Raises, Stops
  <2> QED
    BY <1>1, <1>3, <1>6, <2>1, PutsBackFirm, PullStepTyped
<1>7. CASE rs # Raised /\ rows' = rs /\ pull' = GroupEnds
  <2>1. PullTyped(pull', Numbered, locals)
    BY <1>7, GroupEndsTyped
  <2> QED
    BY <1>1, <1>3, <1>4, <1>5, <1>7, <2>1, PullStepTyped
<1>8. CASE rs # Raised /\ rows' = rs /\ pull' = [pull EXCEPT !.phase = "merge"]
  <2>1. /\ pull'.phase = "merge" /\ pull'.groups = pull.groups /\ pull'.group = pull.group
        /\ pull'.saved = pull.saved /\ pull'.window = pull.window /\ pull'.rest = pull.rest
        /\ pull'.deferred = pull.deferred /\ pull'.named = pull.named
    BY <1>8 DEF GroupsInv, Shape, Fields
  <2>2. GroupHeld(pull', Numbered, locals) /\ pull'.phase \in Applying
    BY <1>1, <2>1, HeldIs DEF GroupHeld, Applying
  <2>3. PullTyped(pull', Numbered, locals)
    BY <2>1, <2>2 DEF TypeInv, PullTyped
  <2> QED
    BY <1>1, <1>3, <1>4, <1>5, <1>8, <2>3, PullStepTyped
<1> QED
  BY <1>2, <1>6, <1>7, <1>8

LEMMA MergesTyped == GroupsInv /\ RowsInv /\ TypeInv /\ ApplyMerges => TypeInv'
<1> SUFFICES ASSUME GroupsInv, RowsInv, TypeInv, ApplyMerges PROVE TypeInv'
  OBVIOUS
<1> DEFINE rs == RebaseAll(rows, SetToSeq(Merged))
<1>1. /\ pull.phase = "merge" /\ pull.phase \in Applying
      /\ UNCHANGED <<server, head, cursor, locals, work>> /\ unguarded' = unguarded
      /\ vault' = MergeAll(vault, SetToSeq(Merges))
  BY DEF ApplyMerges, Applying, Each, InTurn, MergeAll
<1>2. \/ rs = Raised /\ rows' = Restored(rows, pull.saved) /\ Raises
      \/ rs # Raised /\ rows' = rs /\ pull' = GroupEnds
  BY DEF ApplyMerges, Each, InTurn, RebaseAll
<1>3. unguarded' \subseteq Mine(locals) /\ Firm(rows) /\ VaultTyped(vault, locals)
  BY <1>1, RowsAreFirm DEF TypeInv
<1>4. /\ Merged \subseteq pull.group.conflicts /\ Merges \subseteq Merged
      /\ (\A x \in Merged : x.kind \in {"remote", "local"}) /\ \A x \in Merges : x.kind = "local"
  BY DEF Merged, Merges
<1>5. \A x \in Merged : x.of \in Entry /\ ConflictTyped(x, locals)
  BY <1>1, <1>4, HeldIs
<1>6. IsFiniteSet(Merged) /\ IsFiniteSet(Merges)
  <2>1. IsFiniteSet(pull.group.conflicts)
    BY <1>1, HeldIs DEF HoldsGroup, Pends
  <2>2. IsFiniteSet(Merged)
    BY <1>4, <2>1, FS_Subset
  <2> QED
    BY <1>4, <2>2, FS_Subset
<1>7. Firm(rs)
  <2>1. \A x \in Merged : x.of \in Entry /\ (x.kind # "remote" => x.place \in Place)
    BY <1>4, <1>5 DEF ConflictTyped
  <2> QED
    BY <1>3, <1>6, <2>1, RebasesFirm
<1>8. VaultTyped(vault', locals)
  <2>1. \A x \in Merges : x.place \in Place /\ IsText(x.text, locals)
    BY <1>4, <1>5 DEF ConflictTyped
  <2> QED
    BY <1>1, <1>3, <1>6, <2>1, MergedTyped
<1>9. Sound(rows')
  BY MergesKeepRows DEF RowsInv
<1> HIDE DEF rs
<1>10. CASE rs = Raised /\ rows' = Restored(rows, pull.saved) /\ Raises
  <2>1. PullTyped(pull', Numbered, locals)
    BY <1>10, IdleTyped DEF Raises, Stops
  <2> QED
    BY <1>1, <1>3, <1>8, <1>10, <2>1, PutsBackFirm, PullStepTyped
<1>11. CASE rs # Raised /\ rows' = rs /\ pull' = GroupEnds
  <2>1. PullTyped(pull', Numbered, locals)
    BY <1>11, GroupEndsTyped
  <2> QED
    BY <1>1, <1>3, <1>7, <1>8, <1>9, <1>11, <2>1, PullStepTyped
<1> QED
  BY <1>2, <1>10, <1>11

\* The greatest and the least of what is numbered up to h.
LEMMA MaxWithin ==
    ASSUME NEW h \in Nat, NEW S \in SUBSET (0..h), S # {}
    PROVE  Max(S) \in 0..h
<1> DEFINE T == {n \in 0..h : h - n \in S}
<1>1. T \in SUBSET Nat /\ T # {}
  <2>1. PICK x \in S : TRUE
    OBVIOUS
  <2>2. x \in 0..h
    BY <2>1
  <2>3. h - x \in 0..h /\ h - (h - x) = x
    BY <2>2
  <2>4. h - x \in T
    BY <2>1, <2>3
  <2>5. T \subseteq 0..h
    OBVIOUS
  <2> HIDE DEF T
  <2> QED
    BY <2>4, <2>5
<1> HIDE DEF T
<1>2. PICK m \in T : \A k \in T : m <= k
  BY <1>1, LeastIndex
<1>3. h - m \in S
  BY DEF T
<1>4. \A y \in S : h - m >= y
  <2> SUFFICES ASSUME NEW y \in S PROVE h - m >= y
    OBVIOUS
  <2>1. y \in Nat /\ h - y \in 0..h /\ h - (h - y) = y /\ m \in Nat
    BY <1>1
  <2>2. h - y \in T
    BY <2>1 DEF T
  <2>3. m <= h - y
    BY <1>2, <2>2
  <2> QED
    BY <2>1, <2>3
<1>5. Max(S) \in S
  BY <1>3, <1>4 DEF Max
<1> QED
  BY <1>5

LEMMA MinWithin ==
    ASSUME NEW h \in Nat, NEW S \in SUBSET (0..h), S # {}
    PROVE  Min(S) \in 0..h
<1>1. S \in SUBSET Nat
  OBVIOUS
<1>2. PICK m \in S : \A k \in S : m <= k
  BY <1>1, LeastIndex
<1>3. Min(S) \in S
  BY <1>2 DEF Min
<1> QED
  BY <1>3

LEMMA MaxOfTwo ==
    ASSUME NEW c \in Nat, NEW m \in Int
    PROVE  Max({c, m}) = IF m <= c THEN c ELSE m
<1>1. CASE m <= c
  BY <1>1 DEF Max
<1>2. CASE ~(m <= c)
  BY <1>2 DEF Max
<1> QED
  BY <1>1, <1>2

LEMMA EndTyped == GroupsInv /\ RowsInv /\ TypeInv /\ EndWindow => TypeInv'
<1> SUFFICES ASSUME GroupsInv, RowsInv, TypeInv, EndWindow PROVE TypeInv'
  OBVIOUS
<1> DEFINE seqs(w) == {server[e].seq : e \in ToSet(w)}
<1>1. /\ UNCHANGED <<server, head, locals, work>> /\ vault' = vault /\ rows' = rows /\ unguarded' = unguarded
      /\ cursor' = IF pull.deferred # << >> THEN Max({cursor, Min(seqs(pull.deferred)) - 1})
                   ELSE IF pull.rest = << >> THEN head ELSE Max(seqs(pull.window))
      /\ IF pull.rest = << >> THEN Stops("ok")
         ELSE pull' = [NoPull EXCEPT !.phase = "plan", !.window = pull.deferred \o pull.rest]
  BY DEF EndWindow
<1>2. /\ head \in 0..MaxRemote /\ cursor \in 0..head /\ locals \in Nat /\ head \in Nat
      /\ ServerTyped(server, head, locals) /\ VaultTyped(vault, locals) /\ RowsTyped(rows)
      /\ work \cup unguarded \subseteq Mine(locals)
  BY DEF TypeInv
<1>3. /\ pull.window \in Seq(Numbered) /\ pull.rest \in Seq(Numbered) /\ pull.deferred \in Seq(Numbered)
      /\ pull.rest # << >> => pull.window # << >>
  BY DEF TypeInv, PullTyped
<1>4. ASSUME NEW w \in Seq(Numbered), w # << >>
      PROVE  seqs(w) \in SUBSET (0..head) /\ seqs(w) # {}
  <2>1. Len(w) \in Nat /\ DOMAIN w = 1..Len(w) /\ \A i \in 1..Len(w) : w[i] \in Numbered
    BY LenProperties, ElementOfSeq
  <2>2. Len(w) # 0
    BY <1>4, EmptySeq
  <2>3. w[1] \in ToSet(w)
    BY <2>1, <2>2 DEF ToSet
  <2>4. \A e \in ToSet(w) : server[e].seq \in 0..head
    BY <1>2, <2>1 DEF ToSet, Numbered, ServerTyped
  <2> QED
    BY <2>3, <2>4
<1> HIDE DEF seqs
<1>5. cursor' \in 0..head
  <2>1. CASE pull.deferred # << >>
    <3> DEFINE m == Min(seqs(pull.deferred))
    <3>1. m \in 0..head
      BY <1>2, <1>3, <1>4, <2>1, MinWithin
    <3>2. cursor' = Max({cursor, m - 1})
      BY <1>1, <2>1
    <3> HIDE DEF m
    <3>3. m - 1 \in Int /\ cursor \in Nat
      BY <1>2, <3>1
    <3>4. cursor' = IF m - 1 <= cursor THEN cursor ELSE m - 1
      BY <3>2, <3>3, MaxOfTwo
    <3> QED
      BY <1>2, <3>1, <3>4
  <2>2. CASE pull.deferred = << >> /\ pull.rest = << >>
    BY <1>1, <1>2, <2>2
  <2>3. CASE pull.deferred = << >> /\ pull.rest # << >>
    <3>1. Max(seqs(pull.window)) \in 0..head
      BY <1>2, <1>3, <1>4, <2>3, MaxWithin
    <3> QED
      BY <1>1, <2>3, <3>1
  <2> QED
    BY <2>1, <2>2, <2>3
<1>6. Numbered' = Numbered
  BY <1>1 DEF Numbered
<1>7. PullTyped(pull', Numbered, locals)
  <2>1. CASE pull.rest = << >>
    BY <1>1, <2>1, IdleTyped DEF Stops
  <2>2. CASE pull.rest # << >>
    <3> DEFINE w == pull.deferred \o pull.rest
    <3>1. w \in Seq(Numbered)
      BY <1>3, ConcatProperties
    <3>2. pull' = [NoPull EXCEPT !.phase = "plan", !.window = w]
      BY <1>1, <2>2
    <3> HIDE DEF w
    <3>3. /\ pull'.phase = "plan" /\ pull'.groups = << >> /\ pull'.group = None /\ pull'.saved = None
          /\ pull'.window = w /\ pull'.rest = << >> /\ pull'.deferred = << >> /\ pull'.named = {}
      BY <3>2 DEF NoPull
    <3>4. << >> \in Seq(Numbered) /\ DOMAIN << >> = {} /\ "plan" \notin Applying
      BY DEF Applying
    <3> QED
      BY <3>1, <3>3, <3>4, FS_EmptySet DEF PullTyped
  <2> QED
    BY <2>1, <2>2
<1>8. PullTyped(pull', Numbered', locals')
  BY <1>1, <1>6, <1>7
<1> QED
  BY <1>1, <1>2, <1>5, <1>8 DEF TypeInv

LEMMA FailTyped == GroupsInv /\ RowsInv /\ TypeInv /\ (PullFails \/ Crash) => TypeInv'
<1> SUFFICES ASSUME GroupsInv, RowsInv, TypeInv, PullFails \/ Crash PROVE TypeInv'
  OBVIOUS
<1>1. /\ UNCHANGED <<server, head, cursor, locals, work>> /\ vault' = vault
      /\ unguarded' = unguarded \cup InMemory /\ \E o : Stops(o)
  BY DEF PullFails, Crash
<1>2. Firm(rows) /\ Sound(rows) /\ VaultTyped(vault, locals)
  BY RowsAreFirm DEF TypeInv
<1>3. Firm(rows') /\ Sound(rows')
  <2>1. CASE rows' = rows
    BY <1>2, <2>1
  <2>2. CASE rows' # rows
    <3>1. pull.group # None /\ rows' = Restored(rows, pull.saved)
      BY <2>2 DEF PullFails, Crash
    <3>2. pull.phase \in Applying
      BY <3>1 DEF TypeInv, PullTyped
    <3> QED
      BY <3>1, <3>2, PutsBackFirm
  <2> QED
    BY <2>1, <2>2
<1>4. PullTyped(pull', Numbered, locals)
  BY <1>1, IdleTyped DEF Stops
<1>5. unguarded' \subseteq Mine(locals)
  BY <1>1, InMemoryIsMine
<1> QED
  BY <1>1, <1>2, <1>3, <1>4, <1>5, PullStepTyped

LEMMA StutterTyped == TypeInv /\ UNCHANGED pullVars => TypeInv'
<1> SUFFICES ASSUME TypeInv, UNCHANGED pullVars PROVE TypeInv'
  OBVIOUS
<1>1. UNCHANGED <<server, head, vault, rows, cursor, pull, locals, work, unguarded>>
  BY DEF pullVars
<1>2. Numbered' = Numbered
  BY <1>1 DEF Numbered
<1>3. PullTyped(pull', Numbered', locals')
  BY <1>1, <1>2 DEF TypeInv
<1> QED
  BY <1>1, <1>3 DEF TypeInv

LEMMA StepKeepsTypes == GroupsInv /\ RowsInv /\ TypeInv /\ [PullNext]_pullVars => TypeInv'
<1> SUFFICES ASSUME GroupsInv, RowsInv, TypeInv, [PullNext]_pullVars PROVE TypeInv'
  OBVIOUS
<1> QED
  BY UserTyped, OthersTyped, PlansTyped, PreparesTyped, SettleTyped, MovesTyped, WriteFileTyped, WriteRowsTyped,
     MergesTyped, EndTyped, FailTyped, StutterTyped DEF PullNext

LEMMA TypesAreOK == RowsInv /\ TypeInv => PullTypeOK
<1> SUFFICES ASSUME RowsInv, TypeInv PROVE PullTypeOK
  OBVIOUS
<1>1. DOMAIN server = Entry /\ head \in 0..MaxRemote /\ cursor \in 0..head
  BY DEF TypeInv, ServerTyped
<1>2. \A f \in Files : f \in Place /\ vault[f] # {}
  BY DEF TypeInv, VaultTyped, IsText, Files
<1>3. DOMAIN rows \subseteq Entry /\ \A d, e \in DOMAIN rows : d # e => ~Collides(rows[d], rows[e])
  BY DEF RowsInv, Sound, Table
<1>4. ASSUME NEW e \in DOMAIN rows
      PROVE  /\ rows[e] = Normalized(rows[e])
             /\ IF rows[e].dirty THEN rows[e].pending.op \in {"upsert", "delete"} /\ rows[e].pending.path \in Place
                ELSE rows[e].pending = None
  <2> DEFINE w == rows[e]
  <2>1. IsRow(w) /\ Keyed(w) /\ RowTyped(w)
    BY DEF RowsInv, Sound, Table, TypeInv, RowsTyped
  <2> HIDE DEF w
  <2>2. w = [remote |-> w.remote, base |-> w.base, local |-> w.local, dirty |-> w.dirty,
            pending |-> w.pending, remoteKey |-> w.remoteKey, localKey |-> w.localKey]
    BY <2>1 DEF IsRow
  <2> DEFINE rk == Key(w.remote)
             lk == Key(w.local)
             n == Normalized(w)
  <2>3. n = [w EXCEPT !.remoteKey = rk, !.localKey = lk] /\ w.remoteKey = rk /\ w.localKey = lk
    BY <2>1 DEF Normalized, Keyed
  <2> HIDE DEF rk, lk, n
  <2>4. w = n
    BY <2>2, <2>3
  <2> QED
    BY <2>1, <2>4 DEF RowTyped, w, n
<1>5. pull.phase \in {"idle", "plan", "apply", "move", "write", "merge"} /\ Applying = {"move", "write", "merge"}
  BY DEF RowsInv, Stage, Applying
<1>6. IF pull.phase \in {"move", "write", "merge"}
      THEN /\ DOMAIN pull.saved.rows \subseteq Entry
           /\ pull.saved.entries = Touched(pull.group) /\ Touched(pull.group) \subseteq pull.saved.queued
      ELSE pull.group = None /\ pull.saved = None
  <2>1. CASE pull.phase \in {"move", "write", "merge"}
    <3>1. GroupHeld(pull, Numbered, locals) /\ HoldsGroup(pull)
      BY <1>5, <2>1, HeldIs
    <3>2. DOMAIN pull.saved.rows \subseteq Entry
      BY <3>1 DEF HoldsGroup, Snapshot, Sound, Table
    <3> QED
      BY <2>1, <3>1, <3>2 DEF GroupHeld
  <2>2. CASE pull.phase \notin {"move", "write", "merge"}
    BY <1>5, <2>2 DEF TypeInv, PullTyped
  <2> QED
    BY <2>1, <2>2
<1>7. work \cup unguarded \subseteq {<<"here", n>> : n \in 0..locals}
  BY DEF TypeInv, Mine
<1> QED
  BY <1>1, <1>2, <1>3, <1>4, <1>5, <1>6, <1>7 DEF PullTypeOK

(***************************************************************************)
(* The types of a pull, for any entries, paths and bounds: files and texts,*)
(* the rows and their keys, a checkpoint that never passes what the server *)
(* has numbered, a group that is applied only while the rows it may change *)
(* are held in its snapshot.                                               *)
(***************************************************************************)
THEOREM PullTypeCorrect == Spec => []PullTypeOK
<1>1. PullInit => GroupsInv /\ RowsInv /\ TypeInv
  BY InitGroups, InitRows, InitTyped
<1>2. GroupsInv /\ RowsInv /\ TypeInv /\ [PullNext]_pullVars => GroupsInv' /\ RowsInv' /\ TypeInv'
  BY StepKeepsRows, StepKeepsTypes
<1>3. GroupsInv /\ RowsInv /\ TypeInv => PullTypeOK
  BY TypesAreOK
<1> QED
  BY <1>1, <1>2, <1>3, PTL DEF Spec
=============================================================================
