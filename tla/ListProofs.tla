------------------------------ MODULE ListProofs ------------------------------
(***************************************************************************)
(* Lemmas about lists.                                                     *)
(*                                                                         *)
(* An induction over a list takes the form of Smallest and Induction,      *)
(* whose parameters are sets: of the lengths up to which a recursion is    *)
(* right, each has its successor.                                          *)
(***************************************************************************)
EXTENDS Lists, TLAPS, FiniteSetTheorems, WellFoundedInduction

(* A set of numbers has a smallest. *)
LEMMA Smallest ==
  ASSUME NEW S \in SUBSET Nat, S # {}
  PROVE  \E m \in S : \A x \in S : m <= x
<1>1. PICK m \in S : \A x \in S : <<x, m>> \notin OpToRel(<, Nat)
  BY NatLessThanWellFounded, WFMin
<1>2. ASSUME NEW x \in S, ~(m <= x) PROVE FALSE
  <2>1. <<x, m>> \in OpToRel(<, Nat)
    BY <1>2 DEF OpToRel
  <2> QED BY <2>1, <1>1
<1> QED BY <1>2

(* What holds of nothing read and goes on holding with one more holds of a whole list *)
LEMMA Induction ==
  ASSUME NEW n \in Nat, NEW S, 0 \in S, \A m \in 1..n : m - 1 \in S => m \in S
  PROVE  \A m \in 0..n : m \in S
<1> DEFINE Bad == {m \in 0..n : m \notin S}
<1>1. ASSUME Bad # {} PROVE FALSE
  <2>1. PICK m \in Bad : \A x \in Bad : m <= x
    <3>1. Bad \in SUBSET Nat
      OBVIOUS
    <3> HIDE DEF Bad
    <3> QED BY <1>1, <3>1, Smallest
  <2>2. m \in 1..n
    OBVIOUS
  <2>3. m - 1 \in S
    BY <2>1, <2>2
  <2> QED BY <2>2, <2>3
<1> QED BY <1>1

Step(list, kept, seq, n) == IF list[n] \in kept THEN Append(seq, list[n]) ELSE seq

LEMMA FilteredUpTo ==
  ASSUME NEW S, NEW list \in Seq(S), NEW kept
  PROVE  \E g : /\ g[0] = <<>>
                /\ \A n \in 1..Len(list) : g[n] = Step(list, kept, g[n-1], n)
                /\ Filtered(list, kept) = g[Len(list)]
<1> DEFINE L == Len(list)
           F(g, m) == [n \in 0..m |-> IF n = 0 THEN <<>>
                        ELSE IF list[n] \in kept THEN Append(g[n - 1], list[n]) ELSE g[n - 1]]
           Yes == {m \in 0..L : \E g : g = F(g, m)}
<1>0. L \in Nat
  OBVIOUS
<1> HIDE DEF L
<1>1. 0 \in Yes
  <2> DEFINE g == [n \in 0..0 |-> <<>>]
  <2>1. g = F(g, 0)
    OBVIOUS
  <2> HIDE DEF g, F
  <2> QED BY <2>1, <1>0
<1>2. ASSUME NEW m \in 1..L, m - 1 \in Yes PROVE m \in Yes
  <2>1. PICK g : g = F(g, m - 1)
    BY <1>2
  <2> DEFINE next == IF list[m] \in kept THEN Append(g[m - 1], list[m]) ELSE g[m - 1]
             h == [n \in 0..m |-> IF n = m THEN next ELSE g[n]]
  <2>2. ASSUME NEW n \in 0..m PROVE h[n] = F(h, m)[n]
    <3>1. CASE n = m
      <4>1. h[n - 1] = g[m - 1] /\ n # 0 /\ h[n] = next
        BY <3>1, <1>0
      <4> QED BY <3>1, <4>1
    <3>2. CASE n # m /\ n # 0
      <4> DEFINE e(x) == IF n = 0 THEN <<>> ELSE IF list[n] \in kept THEN Append(x[n - 1], list[n]) ELSE x[n - 1]
      <4>1. h[n] = g[n] /\ h[n - 1] = g[n - 1]
        BY <3>2, <1>0
      <4>2. n \in 0..(m-1)
        BY <3>2, <1>0
      <4>3. F(g, m-1)[n] = e(g)
        BY <4>2
      <4>4. g[n] = e(g)
        <5> HIDE DEF F, e
        <5> QED BY <2>1, <4>3
      <4>5. F(h, m)[n] = e(h)
        OBVIOUS
      <4> HIDE DEF h, F
      <4> QED BY <4>1, <4>4, <4>5
    <3>3. CASE n = 0
      <4>1. F(g, m-1)[0] = <<>>
        BY <1>0, <1>2
      <4>2. g[0] = <<>>
        <5> HIDE DEF F
        <5> QED BY <2>1, <4>1
      <4> QED BY <3>3, <4>2, <1>0
    <3> QED BY <3>1, <3>2, <3>3
  <2>3. h = F(h, m)
    <3>1. h = [n \in 0..m |-> h[n]] /\ F(h, m) = [n \in 0..m |-> F(h, m)[n]]
      OBVIOUS
    <3> HIDE DEF h, F
    <3> QED BY <2>2, <3>1
  <2> HIDE DEF F, h
  <2> QED BY <2>3
<1>3. \E g : g = F(g, L)
  <2>1. L \in Yes
    <3>1. \A m \in 1..L : m - 1 \in Yes => m \in Yes
      BY <1>2
    <3>2. 0 \in Yes
      BY <1>1
    <3> HIDE DEF Yes
    <3>3. \A m \in 0..L : m \in Yes
      BY <1>0, <3>1, <3>2, Induction
    <3> QED BY <1>0, <3>3
  <2> QED BY <2>1
<1> DEFINE g == CHOOSE g : g = F(g, L)
<1>4. g = F(g, L)
  <2> HIDE DEF F
  <2> QED BY <1>3
<1>5. Filtered(list, kept) = g[L]
  BY DEF Filtered, L
<1> HIDE DEF g
<1>6. g[0] = <<>>
  <2>1. F(g, L)[0] = <<>>
    BY <1>0
  <2> HIDE DEF F
  <2> QED BY <2>1, <1>4
<1>7. ASSUME NEW n \in 1..L PROVE g[n] = Step(list, kept, g[n - 1], n)
  <2>1. F(g, L)[n] = Step(list, kept, g[n - 1], n)
    BY <1>0 DEF Step
  <2> HIDE DEF F
  <2> QED BY <2>1, <1>4
<1> QED BY <1>5, <1>6, <1>7 DEF L

(* at tells, of each entry of part, where in the first n entries of list it comes *)
(* from: in order, and from everywhere a kept entry is.                          *)
Places(at, part, list, kept, n) ==
  /\ \A p \in 1..Len(part) : at[p] \in 1..n /\ part[p] = list[at[p]] /\ list[at[p]] \in kept
  /\ \A p, q \in 1..Len(part) : p < q => at[p] < at[q]
  /\ \A i \in 1..n : list[i] \in kept => \E p \in 1..Len(part) : at[p] = i

(* Filtered keeps the order, and of the entries exactly those in the set. *)
LEMMA FilteredKeeps ==
  ASSUME NEW S, NEW list \in Seq(S), NEW kept
  PROVE  /\ Filtered(list, kept) \in Seq(S)
         /\ \E at : Places(at, Filtered(list, kept), list, kept, Len(list))
<1> DEFINE L == Len(list)
           Good(r, n) == r \in Seq(S) /\ \E at : Places(at, r, list, kept, n)
<1>0. L \in Nat /\ \A n \in 1..L : list[n] \in S
  OBVIOUS
<1>1. PICK g : /\ g[0] = <<>>
               /\ \A n \in 1..L : g[n] = Step(list, kept, g[n-1], n)
               /\ Filtered(list, kept) = g[L]
  BY FilteredUpTo
<1> HIDE DEF L
<1> DEFINE Yes == {n \in 0..L : Good(g[n], n)}
<1>2. 0 \in Yes
  <2>1. Good(<<>>, 0)
    BY 1..0 = {}, Len(<<>>) = 0, <<>> \in Seq(S) DEF Places
  <2> HIDE DEF Good
  <2> QED BY <2>1, <1>0, <1>1
<1>3. ASSUME NEW n \in 1..L, n - 1 \in Yes PROVE n \in Yes
  <2> DEFINE r == g[n - 1]
  <2>1. Good(r, n - 1)
    BY <1>3
  <2>2. n \in Nat /\ n - 1 \in Nat /\ list[n] \in S
    BY <1>0
  <2> HIDE DEF r
  <2>3. CASE list[n] \notin kept
    <3>1. g[n] = r
      BY <1>1, <2>3 DEF Step, r
    <3>2. PICK at : Places(at, r, list, kept, n - 1)
      BY <2>1
    <3>3. Places(at, r, list, kept, n)
      BY <3>2, <2>2, <2>3 DEF Places
    <3>4. Good(r, n)
      BY <2>1, <3>3
    <3> HIDE DEF Good
    <3> QED BY <3>1, <3>4
  <2>4. CASE list[n] \in kept
    <3> DEFINE t == Append(r, list[n])
    <3>1. g[n] = t
      BY <1>1, <2>4 DEF Step, r
    <3>2. PICK f : Places(f, r, list, kept, n - 1)
      BY <2>1
    <3> DEFINE h == [p \in 1..(Len(r) + 1) |-> IF p = Len(r) + 1 THEN n ELSE f[p]]
    <3>3. r \in Seq(S) /\ Len(r) \in Nat
      BY <2>1
    <3>4. /\ t \in Seq(S) /\ Len(t) = Len(r) + 1 /\ t[Len(r) + 1] = list[n]
          /\ \A p \in 1..Len(r) : t[p] = r[p]
      BY <2>2, <3>3
    <3>5. /\ h[Len(r) + 1] = n /\ \A p \in 1..Len(r) : h[p] = f[p]
      BY <3>3
    <3> HIDE DEF h, t
    <3>6. \A p \in 1..Len(t) : h[p] \in 1..n /\ t[p] = list[h[p]] /\ list[h[p]] \in kept
      <4> TAKE p \in 1..Len(t)
      <4>1. CASE p = Len(r) + 1
        BY <4>1, <2>2, <2>4, <3>4, <3>5
      <4>2. CASE p # Len(r) + 1
        <5>1. p \in 1..Len(r)
          BY <4>2, <3>3, <3>4
        <5> QED BY <5>1, <2>2, <3>2, <3>4, <3>5 DEF Places
      <4> QED BY <4>1, <4>2
    <3>7. \A p, q \in 1..Len(t) : p < q => h[p] < h[q]
      <4> SUFFICES ASSUME NEW p \in 1..Len(t), NEW q \in 1..Len(t), p < q PROVE h[p] < h[q]
        OBVIOUS
      <4>1. p \in 1..Len(r) /\ f[p] \in 1..(n-1) /\ h[p] = f[p]
        BY <3>2, <3>3, <3>4, <3>5 DEF Places
      <4>2. CASE q = Len(r) + 1
        BY <4>1, <4>2, <3>5, <2>2
      <4>3. CASE q # Len(r) + 1
        <5>1. q \in 1..Len(r)
          BY <4>3, <3>3, <3>4
        <5> QED BY <5>1, <4>1, <3>2, <3>5 DEF Places
      <4> QED BY <4>2, <4>3
    <3>8. \A i \in 1..n : list[i] \in kept => \E p \in 1..Len(t) : h[p] = i
      <4> SUFFICES ASSUME NEW i \in 1..n, list[i] \in kept PROVE \E p \in 1..Len(t) : h[p] = i
        OBVIOUS
      <4>1. CASE i = n
        BY <4>1, <3>3, <3>4, <3>5
      <4>2. CASE i # n
        <5>1. PICK p \in 1..Len(r) : f[p] = i
          BY <4>2, <2>2, <3>2 DEF Places
        <5> QED BY <5>1, <3>3, <3>4, <3>5
      <4> QED BY <4>1, <4>2
    <3>9. Places(h, t, list, kept, n)
      BY <3>6, <3>7, <3>8 DEF Places
    <3>10. Good(t, n)
      BY <3>4, <3>9
    <3> HIDE DEF Good
    <3> QED BY <3>1, <3>10
  <2> QED BY <2>3, <2>4
<1>4. Good(g[L], L)
  <2>1. \A n \in 1..L : n - 1 \in Yes => n \in Yes
    BY <1>3
  <2>2. 0 \in Yes
    BY <1>2
  <2> HIDE DEF Yes
  <2>3. \A n \in 0..L : n \in Yes
    BY <1>0, <2>1, <2>2, Induction
  <2>4. L \in Yes
    BY <1>0, <2>3
  <2> QED BY <2>4 DEF Yes
<1> QED BY <1>1, <1>4 DEF L

-----------------------------------------------------------------------------
(* Lists are functions on 1..Len. *)
LEMMA ListIs ==
  ASSUME NEW list, IsList(list)
  PROVE  /\ Len(list) \in Nat /\ DOMAIN list = 1..Len(list) /\ list = [i \in 1..Len(list) |-> list[i]]
         /\ \A i \in 1..Len(list) : list[i] \in ToSet(list)
         /\ \A x \in ToSet(list) : \E i \in 1..Len(list) : list[i] = x
<1>1. list \in Seq(ToSet(list))
  BY DEF IsList
<1> QED BY <1>1 DEF ToSet

LEMMA IsAList ==
  ASSUME NEW S, NEW list \in Seq(S)
  PROVE  IsList(list) /\ ToSet(list) \subseteq S
<1>1. Len(list) \in Nat /\ list = [i \in 1..Len(list) |-> list[i]] /\ \A i \in 1..Len(list) : list[i] \in S
  OBVIOUS
<1>2. \A i \in 1..Len(list) : list[i] \in ToSet(list)
  BY <1>1 DEF ToSet
<1>3. list \in Seq(ToSet(list))
  BY <1>1, <1>2
<1> QED BY <1>1, <1>3 DEF IsList, ToSet

LEMMA Concatenated ==
  ASSUME NEW s, NEW t, IsList(s), IsList(t)
  PROVE  /\ IsList(s \o t) /\ ToSet(s \o t) = ToSet(s) \cup ToSet(t)
         /\ Len(s \o t) = Len(s) + Len(t)
         /\ \A i \in 1..Len(s) : (s \o t)[i] = s[i]
         /\ \A i \in 1..Len(t) : (s \o t)[Len(s) + i] = t[i]
         /\ \A i \in 1..Len(s \o t) :
              \/ i \in 1..Len(s) /\ (s \o t)[i] = s[i]
              \/ i - Len(s) \in 1..Len(t) /\ (s \o t)[i] = t[i - Len(s)]
<1> DEFINE S == ToSet(s) \cup ToSet(t)
<1>1. s \in Seq(S) /\ t \in Seq(S)
  <2>1. ASSUME NEW l, IsList(l), ToSet(l) \subseteq S PROVE l \in Seq(S)
    <3>1. Len(l) \in Nat /\ l = [i \in 1..Len(l) |-> l[i]] /\ \A i \in 1..Len(l) : l[i] \in ToSet(l)
      BY <2>1, ListIs
    <3>2. \A i \in 1..Len(l) : l[i] \in S
      BY <2>1, <3>1
    <3> HIDE DEF S
    <3> QED BY <3>1, <3>2
  <2> QED BY <2>1
<1> HIDE DEF S
<1>2. /\ s \o t \in Seq(S) /\ Len(s) \in Nat /\ Len(t) \in Nat /\ Len(s \o t) = Len(s) + Len(t)
      /\ \A i \in 1..(Len(s) + Len(t)) : (s \o t)[i] = IF i <= Len(s) THEN s[i] ELSE t[i - Len(s)]
  BY <1>1
<1>3. /\ \A i \in 1..Len(s) : (s \o t)[i] = s[i]
      /\ \A i \in 1..Len(t) : (s \o t)[Len(s) + i] = t[i]
      /\ \A i \in 1..Len(s \o t) :
              \/ i \in 1..Len(s) /\ (s \o t)[i] = s[i]
              \/ i - Len(s) \in 1..Len(t) /\ (s \o t)[i] = t[i - Len(s)]
  BY <1>2
<1>4. IsList(s \o t)
  BY <1>2, IsAList
<1>5. ToSet(s \o t) = ToSet(s) \cup ToSet(t)
  <2>1. /\ DOMAIN s = 1..Len(s) /\ DOMAIN t = 1..Len(t) /\ DOMAIN (s \o t) = 1..(Len(s) + Len(t))
    BY <1>2, <1>4, ListIs
  <2>2. ASSUME NEW x \in ToSet(s) PROVE x \in ToSet(s \o t)
    <3>1. PICK i \in 1..Len(s) : s[i] = x
      BY <2>1 DEF ToSet
    <3>2. i \in 1..(Len(s) + Len(t)) /\ (s \o t)[i] = x
      BY <1>2, <1>3, <3>1
    <3> QED BY <2>1, <3>2 DEF ToSet
  <2>3. ASSUME NEW x \in ToSet(t) PROVE x \in ToSet(s \o t)
    <3>1. PICK i \in 1..Len(t) : t[i] = x
      BY <2>1 DEF ToSet
    <3>2. Len(s) + i \in 1..(Len(s) + Len(t)) /\ (s \o t)[Len(s) + i] = x
      BY <1>2, <1>3, <3>1
    <3> QED BY <2>1, <3>2 DEF ToSet
  <2>4. ASSUME NEW x \in ToSet(s \o t) PROVE x \in ToSet(s) \cup ToSet(t)
    <3>1. PICK i \in 1..Len(s \o t) : (s \o t)[i] = x
      BY <1>2, <2>1 DEF ToSet
    <3> QED BY <1>3, <2>1, <3>1 DEF ToSet
  <2> QED BY <2>2, <2>3, <2>4
<1> QED BY <1>2, <1>3, <1>4, <1>5

(* A function on 1..n is a list of length n. *)
LEMMA AsList ==
  ASSUME NEW n \in Nat, NEW S, NEW f \in [1..n -> S]
  PROVE  f \in Seq(S) /\ IsList(f) /\ Len(f) = n /\ DOMAIN f = 1..n /\ ToSet(f) \subseteq S
<1>1. f \in Seq(S) /\ Len(f) = n /\ DOMAIN f = 1..n
  OBVIOUS
<1> QED BY <1>1, IsAList DEF ToSet

(* What comes before an element, counted, is its place: InOrder puts each of the *)
(* elements where it belongs.                                                    *)
LEMMA InOrderIs ==
  ASSUME NEW S, IsFiniteSet(S), NEW before,
         \A x \in S : <<x, x>> \notin before,
         \A x, y, z \in S : <<x, y>> \in before /\ <<y, z>> \in before => <<x, z>> \in before,
         \A x, y \in S : x = y \/ <<x, y>> \in before \/ <<y, x>> \in before
  PROVE  /\ IsList(InOrder(S, before)) /\ ToSet(InOrder(S, before)) = S
         /\ Len(InOrder(S, before)) = Cardinality(S)
         /\ \A m, n \in 1..Len(InOrder(S, before)) :
              m < n => <<InOrder(S, before)[m], InOrder(S, before)[n]>> \in before
<1> DEFINE C == Cardinality(S)
           below(x) == {y \in S : <<y, x>> \in before}
           rank == [x \in S |-> Cardinality(below(x)) + 1]
           l == InOrder(S, before)
<1>1. C \in Nat
  BY FS_CardinalityType
<1>2. \A x \in S : IsFiniteSet(below(x)) /\ Cardinality(below(x)) \in Nat
  BY FS_Subset, FS_CardinalityType
<1>3. ASSUME NEW x \in S PROVE rank[x] \in 1..C
  <2>1. IsFiniteSet(S \ {x}) /\ Cardinality(S \ {x}) = C - 1
    BY FS_RemoveElement
  <2>2. below(x) \in SUBSET (S \ {x})
    OBVIOUS
  <2> HIDE DEF below
  <2>3. Cardinality(below(x)) <= Cardinality(S \ {x})
    BY <2>1, <2>2, FS_Subset
  <2>4. rank[x] = Cardinality(below(x)) + 1
    OBVIOUS
  <2> QED BY <1>1, <1>2, <2>1, <2>3, <2>4
<1>4. ASSUME NEW x \in S, NEW y \in S, <<x, y>> \in before PROVE rank[x] < rank[y]
  <2>1. below(x) \cup {x} \subseteq below(y) /\ x \notin below(x)
    BY <1>4
  <2>2. IsFiniteSet(below(x) \cup {x}) /\ Cardinality(below(x) \cup {x}) = Cardinality(below(x)) + 1
    BY <1>2, <2>1, FS_AddElement
  <2>3. Cardinality(below(x) \cup {x}) <= Cardinality(below(y))
    BY <1>2, <2>1, FS_Subset
  <2> HIDE DEF below
  <2> QED BY <1>2, <2>2, <2>3
<1>5. \A x \in S : rank[x] = Cardinality(below(x)) + 1 /\ rank[x] \in Nat
  <2> HIDE DEF below
  <2> QED BY <1>2
<1>a. l = [n \in 1..C |-> CHOOSE x \in S : Cardinality(below(x)) = n - 1]
  BY DEF InOrder
<1>6. rank \in [S -> 1..C]
  <2>1. rank = [x \in S |-> rank[x]]
    OBVIOUS
  <2> HIDE DEF rank
  <2> QED BY <1>3, <2>1
<1> HIDE DEF rank, below, l
<1>7. \A x, y \in S : rank[x] = rank[y] => x = y
  <2> SUFFICES ASSUME NEW x \in S, NEW y \in S, rank[x] = rank[y], x # y PROVE FALSE
    OBVIOUS
  <2>1. rank[x] < rank[y] \/ rank[y] < rank[x]
    BY <1>4
  <2> QED BY <2>1, <1>5
<1>8. rank \in Surjection(S, 1..C)
  <2>1. rank \in Injection(S, 1..C)
    BY <1>6, <1>7 DEF Injection, IsInjective
  <2>2. IsFiniteSet(1..C) /\ Cardinality(1..C) = C
    BY <1>1, FS_Interval
  <2> QED BY <2>1, <2>2, FS_Injection
<1>9. ASSUME NEW n \in 1..C
      PROVE  l[n] \in S /\ rank[l[n]] = n
  <2>1. PICK x \in S : rank[x] = n
    BY <1>8 DEF Surjection
  <2>2. Cardinality(below(x)) = n - 1
    BY <2>1, <1>2, <1>5
  <2>3. l[n] \in S /\ Cardinality(below(l[n])) = n - 1
    BY <1>a, <2>2
  <2> QED BY <2>3, <1>5
<1>10. l = [n \in 1..C |-> l[n]]
  BY <1>a
<1>11. /\ IsList(l) /\ Len(l) = C /\ DOMAIN l = 1..C /\ ToSet(l) \subseteq S
       /\ ToSet(l) = {l[i] : i \in 1..C}
  <2>1. l \in [1..C -> S]
    BY <1>9, <1>10
  <2> HIDE DEF C
  <2>2. IsList(l) /\ Len(l) = C /\ DOMAIN l = 1..C /\ ToSet(l) \subseteq S
    BY <1>1, <2>1, AsList
  <2> QED BY <2>2 DEF ToSet
<1>12. S \subseteq ToSet(l)
  <2> SUFFICES ASSUME NEW x \in S PROVE x \in ToSet(l)
    OBVIOUS
  <2>1. rank[x] \in 1..C
    BY <1>3
  <2>2. l[rank[x]] = x
    BY <2>1, <1>7, <1>9
  <2> QED BY <1>11, <2>1, <2>2
<1>13. ASSUME NEW m \in 1..C, NEW n \in 1..C, m < n
       PROVE  <<l[m], l[n]>> \in before
  <2>1. l[m] \in S /\ l[n] \in S /\ rank[l[m]] = m /\ rank[l[n]] = n
    BY <1>9
  <2>2. l[m] # l[n]
    BY <2>1, <1>13
  <2>3. <<l[n], l[m]>> \notin before
    <3>1. <<l[n], l[m]>> \in before => n < m
      BY <1>4, <2>1
    <3> QED BY <3>1, <1>13, <1>1
  <2> QED BY <2>1, <2>2, <2>3
<1> QED BY <1>11, <1>12, <1>13 DEF l

(* The elements of a finite set in some order. *)
LEMMA SetToSeqIs ==
  ASSUME NEW S, IsFiniteSet(S)
  PROVE  /\ IsList(SetToSeq(S)) /\ ToSet(SetToSeq(S)) = S
         /\ \A i, j \in DOMAIN SetToSeq(S) : SetToSeq(S)[i] = SetToSeq(S)[j] => i = j
<1> DEFINE C == Cardinality(S)
           l == SetToSeq(S)
<1>1. C \in Nat /\ ExistsBijection(1..C, S)
  BY FS_CardinalityType
<1>2. \E f \in [1..C -> S] : IsInjective(f)
  BY <1>1 DEF ExistsBijection, Bijection, Injection
<1>3. l \in [1..C -> S] /\ IsInjective(l)
  BY <1>2 DEF SetToSeq
<1> HIDE DEF l, C
<1>4. l \in Injection(1..C, S)
  BY <1>3 DEF Injection
<1>5. l \in Surjection(1..C, S)
  <2>1. Cardinality(1..C) = C
    BY <1>1, FS_Interval
  <2> QED BY <1>4, <2>1, FS_Injection DEF C
<1>6. IsList(l) /\ ToSet(l) = {l[i] : i \in 1..C}
  <2>1. IsList(l) /\ DOMAIN l = 1..C
    BY <1>1, <1>3, AsList
  <2> QED BY <2>1 DEF ToSet
<1>7. \A i, j \in DOMAIN l : l[i] = l[j] => i = j
  BY <1>3 DEF IsInjective
<1> QED BY <1>5, <1>6, <1>7 DEF Surjection, l

(* A list of lists, one after the other. *)
LEMMA FlattenUpTo ==
  ASSUME NEW S, NEW seqs \in Seq(Seq(S))
  PROVE  \E g : /\ g[0] = <<>>
                /\ \A n \in 1..Len(seqs) : g[n] = g[n-1] \o seqs[n]
                /\ FlattenSeq(seqs) = g[Len(seqs)]
<1> DEFINE L == Len(seqs)
           F(g, m) == [i \in 1..m |-> IF i = 1 THEN seqs[i] ELSE g[i-1] \o seqs[i]]
           Yes == {m \in 0..L : \E g : g = F(g, m)}
<1>0. L \in Nat /\ \A n \in 1..L : seqs[n] \in Seq(S)
  OBVIOUS
<1>a. CASE L = 0
  <2>1. seqs = <<>>
    BY <1>a
  <2> DEFINE g == [n \in {0} |-> <<>>]
  <2>2. g[0] = <<>>
    OBVIOUS
  <2>3. FlattenSeq(seqs) = seqs
    BY <1>a DEF FlattenSeq
  <2>4. 1..L = {}
    BY <1>a
  <2> HIDE DEF g
  <2> QED BY <1>a, <2>1, <2>2, <2>3, <2>4
<1>b. CASE L # 0
  <2>1. FlattenSeq(seqs) = (CHOOSE g : g = F(g, L))[L]
    BY <1>b DEF FlattenSeq
  <2> HIDE DEF L
  <2>2. 0 \in Yes
    <3> DEFINE g == [n \in 1..0 |-> <<>>]
    <3>1. g = F(g, 0)
      BY 1..0 = {}
    <3> HIDE DEF g, F
    <3> QED BY <3>1, <1>0
  <2>3. ASSUME NEW m \in 1..L, m - 1 \in Yes PROVE m \in Yes
    <3>1. PICK g : g = F(g, m - 1)
      BY <2>3
    <3> DEFINE last == IF m = 1 THEN seqs[m] ELSE g[m - 1] \o seqs[m]
               h == [n \in 1..m |-> IF n = m THEN last ELSE g[n]]
    <3>2. ASSUME NEW n \in 1..m PROVE h[n] = F(h, m)[n]
      <4> DEFINE e(x) == IF n = 1 THEN seqs[n] ELSE x[n-1] \o seqs[n]
      <4>1. F(h, m)[n] = e(h)
        OBVIOUS
      <4>2. CASE n = m
        <5>1. h[n] = last
          BY <4>2
        <5>2. n # 1 => h[n - 1] = g[m - 1]
          BY <4>2, <1>0
        <5>3. e(h) = last
          <6> HIDE DEF h
          <6> QED BY <4>2, <5>2
        <5> HIDE DEF F, h
        <5> QED BY <4>1, <5>1, <5>3
      <4>3. CASE n # m
        <5>1. n \in 1..(m - 1)
          BY <4>3, <1>0
        <5>2. F(g, m - 1)[n] = e(g)
          BY <5>1
        <5>3. g[n] = e(g)
          <6> HIDE DEF F, e
          <6> QED BY <3>1, <5>2
        <5>4. h[n] = g[n] /\ (n # 1 => h[n - 1] = g[n - 1])
          BY <4>3, <5>1, <1>0
        <5>5. e(h) = e(g)
          <6> HIDE DEF h
          <6> QED BY <5>4
        <5> HIDE DEF F, h, e
        <5> QED BY <4>1, <5>3, <5>4, <5>5
      <4> QED BY <4>2, <4>3
    <3>3. h = F(h, m)
      <4>1. h = [n \in 1..m |-> h[n]] /\ F(h, m) = [n \in 1..m |-> F(h, m)[n]]
        OBVIOUS
      <4> HIDE DEF h, F
      <4> QED BY <3>2, <4>1
    <3> HIDE DEF F, h
    <3> QED BY <3>3
  <2>4. \E g : g = F(g, L)
    <3>1. L \in Yes
      <4>1. \A m \in 1..L : m - 1 \in Yes => m \in Yes
        BY <2>3
      <4>2. 0 \in Yes
        BY <2>2
      <4> HIDE DEF Yes
      <4>3. \A m \in 0..L : m \in Yes
        BY <1>0, <4>1, <4>2, Induction
      <4> QED BY <1>0, <4>3
    <3> QED BY <3>1
  <2> DEFINE f == CHOOSE g : g = F(g, L)
             k == [n \in 0..L |-> IF n = 0 THEN <<>> ELSE f[n]]
  <2>5. f = F(f, L)
    <3> HIDE DEF F
    <3> QED BY <2>4
  <2>6. FlattenSeq(seqs) = f[L]
    BY <2>1
  <2> HIDE DEF f
  <2>7. ASSUME NEW n \in 1..L PROVE f[n] = IF n = 1 THEN seqs[n] ELSE f[n-1] \o seqs[n]
    <3>1. F(f, L)[n] = IF n = 1 THEN seqs[n] ELSE f[n-1] \o seqs[n]
      BY <1>0
    <3> HIDE DEF F
    <3> QED BY <2>5, <3>1
  <2>8. k[0] = <<>> /\ \A n \in 1..L : k[n] = f[n]
    BY <1>0
  <2>9. ASSUME NEW n \in 1..L PROVE k[n] = k[n-1] \o seqs[n]
    <3>1. CASE n = 1
      <4>1. k[n] = seqs[n] /\ k[n - 1] = <<>> /\ seqs[n] \in Seq(S)
        <5> HIDE DEF k
        <5> QED BY <3>1, <1>0, <2>7, <2>8
      <4>2. <<>> \o seqs[n] = seqs[n]
        BY <4>1
      <4> HIDE DEF k
      <4> QED BY <4>1, <4>2
    <3>2. CASE n # 1
      <4>1. n - 1 \in 1..L
        BY <3>2, <1>0
      <4> HIDE DEF k
      <4> QED BY <3>2, <4>1, <2>7, <2>8
    <3> QED BY <3>1, <3>2
  <2> HIDE DEF k
  <2>10. FlattenSeq(seqs) = k[L]
    BY <1>b, <1>0, <2>6, <2>8
  <2> QED BY <2>8, <2>9, <2>10 DEF L
<1> QED BY <1>a, <1>b

===============================================================================
