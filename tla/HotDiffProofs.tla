---------------------------- MODULE HotDiffProofs ----------------------------
(***************************************************************************)
(* Theorems about HotDiff, for any configurations and destinations.        *)
(*                                                                         *)
(* Filtered is a recursion over a list; what it returns is shown by an     *)
(* induction in the form of Smallest and Induction, whose parameters are   *)
(* sets.  The four properties follow from one invariant: the core is what  *)
(* the part of the plan that was sent has made of the old one (Halfway).   *)
(***************************************************************************)
EXTENDS HotDiff, ListProofs

-----------------------------------------------------------------------------
(* Lists as sets: where no tag comes twice, an entry is untouched by the other *)
(* list exactly if the other list has it.                                      *)
LEMMA FoundByTag ==
  ASSUME NEW list, IsList(list), UniqueTags(list, 1)
  PROVE  /\ \A x \in ToSet(list) : x.tag \in TagsOf(list) /\ ByTag(list, x.tag) = x
         /\ \A t \in TagsOf(list) : ByTag(list, t) \in ToSet(list) /\ ByTag(list, t).tag = t
         /\ \A x, y \in ToSet(list) : x.tag = y.tag => x = y
         /\ \A x : Untouched(x, list) <=> x \in ToSet(list)
<1>1. ASSUME NEW x \in ToSet(list), NEW y \in ToSet(list), x.tag = y.tag PROVE x = y
  <2>1. PICK i \in 1..Len(list), j \in 1..Len(list) : list[i] = x /\ list[j] = y
    BY ListIs
  <2> QED BY <2>1, <1>1 DEF UniqueTags
<1>2. ASSUME NEW t \in TagsOf(list) PROVE ByTag(list, t) \in ToSet(list) /\ ByTag(list, t).tag = t
  BY DEF TagsOf, ByTag, ToSet
<1>3. ASSUME NEW x \in ToSet(list) PROVE x.tag \in TagsOf(list)
  BY DEF TagsOf, ToSet
<1>4. ASSUME NEW x \in ToSet(list) PROVE ByTag(list, x.tag) = x
  BY <1>1, <1>2, <1>3
<1>5. ASSUME NEW x PROVE Untouched(x, list) <=> x \in ToSet(list)
  BY <1>2, <1>3, <1>4 DEF Untouched
<1> QED BY <1>1, <1>2, <1>3, <1>4, <1>5

LEMMA FilteredSet ==
  ASSUME NEW list, IsList(list), NEW kept
  PROVE  /\ IsList(Filtered(list, kept))
         /\ ToSet(Filtered(list, kept)) = ToSet(list) \cap kept
         /\ UniqueTags(list, 1) => UniqueTags(Filtered(list, kept), 1)
<1> DEFINE r == Filtered(list, kept)
<1>1. list \in Seq(ToSet(list))
  BY DEF IsList
<1>2. r \in Seq(ToSet(list)) /\ \E at : Places(at, r, list, kept, Len(list))
  BY <1>1, FilteredKeeps
<1>3. IsList(r)
  BY <1>2, IsAList
<1> HIDE DEF r
<1>4. PICK at : Places(at, r, list, kept, Len(list))
  BY <1>2
<1>5. ToSet(r) \subseteq ToSet(list) \cap kept
  <2>1. ASSUME NEW x \in ToSet(r) PROVE x \in ToSet(list) \cap kept
    <3>1. PICK p \in 1..Len(r) : r[p] = x
      BY <1>3, ListIs
    <3>2. at[p] \in 1..Len(list) /\ x = list[at[p]] /\ x \in kept
      BY <1>4, <3>1 DEF Places
    <3> QED BY <3>2, ListIs
  <2> QED BY <2>1
<1>6. ToSet(list) \cap kept \subseteq ToSet(r)
  <2>1. ASSUME NEW x \in ToSet(list) \cap kept PROVE x \in ToSet(r)
    <3>1. PICK i \in 1..Len(list) : list[i] = x
      BY ListIs
    <3>2. PICK p \in 1..Len(r) : at[p] = i
      BY <1>4, <3>1 DEF Places
    <3>3. r[p] = x
      BY <1>4, <3>1, <3>2 DEF Places
    <3> QED BY <1>3, <3>3, ListIs
  <2> QED BY <2>1
<1>7. ASSUME UniqueTags(list, 1) PROVE UniqueTags(r, 1)
  <2> SUFFICES ASSUME NEW p \in 1..Len(r), NEW q \in 1..Len(r), p # q PROVE r[p].tag # r[q].tag
    BY DEF UniqueTags
  <2>1. /\ at[p] \in 1..Len(list) /\ at[q] \in 1..Len(list) /\ at[p] # at[q]
        /\ r[p] = list[at[p]] /\ r[q] = list[at[q]]
    <3>1. Len(r) \in Nat /\ Len(list) \in Nat
      BY <1>3, ListIs
    <3>2. p < q \/ q < p
      BY <3>1
    <3> QED BY <1>4, <3>1, <3>2 DEF Places
  <2> QED BY <1>7, <2>1 DEF UniqueTags
<1> QED BY <1>3, <1>5, <1>6, <1>7 DEF r


(* A part of a list whose tags are told apart is told apart. *)
LEMMA TailOf ==
  ASSUME NEW list, IsList(list), list # <<>>
  PROVE  /\ IsList(Tail(list)) /\ Head(list) \in ToSet(list)
         /\ ToSet(list) = ToSet(Tail(list)) \cup {Head(list)}
         /\ UniqueTags(list, 1) => UniqueTags(Tail(list), 1) /\ Head(list) \notin ToSet(Tail(list))
<1> DEFINE t == Tail(list)
<1>1. list \in Seq(ToSet(list))
  BY DEF IsList
<1>2. /\ Len(list) \in Nat \ {0} /\ t \in Seq(ToSet(list)) /\ Len(t) = Len(list) - 1
      /\ \A i \in 1..Len(t) : t[i] = list[i + 1]
      /\ Head(list) = list[1]
  BY <1>1
<1>3. IsList(t)
  BY <1>2, IsAList
<1> HIDE DEF t
<1>4. /\ \A i \in 1..Len(list) : i = 1 \/ i - 1 \in 1..Len(t)
      /\ \A i \in 1..Len(t) : i + 1 \in 1..Len(list) /\ i + 1 # 1
      /\ 1 \in 1..Len(list)
  BY <1>2
<1>5. Head(list) \in ToSet(list)
  BY <1>2, <1>4, ListIs
<1>6. ToSet(t) \subseteq ToSet(list)
  <2>1. ASSUME NEW x \in ToSet(t) PROVE x \in ToSet(list)
    <3>1. PICK i \in 1..Len(t) : t[i] = x
      BY <1>3, ListIs
    <3>2. i + 1 \in 1..Len(list) /\ list[i + 1] = x
      BY <1>2, <1>4, <3>1
    <3> QED BY <3>2, ListIs
  <2> QED BY <2>1
<1>7. ToSet(list) \subseteq ToSet(t) \cup {Head(list)}
  <2>1. ASSUME NEW x \in ToSet(list), x # Head(list) PROVE x \in ToSet(t)
    <3>1. PICK i \in 1..Len(list) : list[i] = x
      BY ListIs
    <3>2. i - 1 \in 1..Len(t) /\ t[i - 1] = x
      <4>1. i - 1 \in 1..Len(t) /\ (i - 1) + 1 = i
        BY <1>2, <1>4, <2>1, <3>1
      <4> QED BY <4>1, <1>2, <3>1
    <3> QED BY <1>3, <3>2, ListIs
  <2> QED BY <2>1
<1>8. ASSUME UniqueTags(list, 1) PROVE UniqueTags(t, 1) /\ Head(list) \notin ToSet(t)
  <2>1. ASSUME NEW i \in 1..Len(t), NEW j \in 1..Len(t), i # j PROVE t[i].tag # t[j].tag
    <3>1. i + 1 \in 1..Len(list) /\ j + 1 \in 1..Len(list) /\ i + 1 # j + 1
      BY <1>2, <1>4, <2>1
    <3> QED BY <1>2, <1>8, <3>1 DEF UniqueTags
  <2>2. ASSUME NEW i \in 1..Len(t) PROVE t[i] # Head(list)
    <3>1. i + 1 \in 1..Len(list) /\ i + 1 # 1
      BY <1>4
    <3>2. list[i + 1].tag # list[1].tag
      BY <1>4, <1>8, <3>1 DEF UniqueTags
    <3> QED BY <1>2, <3>2
  <2>3. \A x \in ToSet(t) : \E i \in 1..Len(t) : t[i] = x
    BY <1>3, ListIs
  <2> QED BY <2>1, <2>2, <2>3 DEF UniqueTags
<1> QED BY <1>3, <1>5, <1>6, <1>7, <1>8 DEF t

(* What is to be added: the changed entries in the order of the old list, then *)
(* the new ones.  l1 and l2 are the lists without what takes no part.          *)
Additions(l1, l2, a, b) ==
  LET changed == Filtered(l1, {x \in Touched(l1, b) : x.tag \in TagsOf(b)})
  IN  [i \in DOMAIN changed |-> ByTag(b, changed[i].tag)]
      \o Filtered(l2, {x \in ToSet(l2) : x.tag \notin TagsOf(a)})

LEMMA AdditionsAre ==
  ASSUME NEW l1, NEW l2, NEW a, NEW b, IsList(l1), IsList(l2), IsList(a), IsList(b),
         UniqueTags(l1, 1), UniqueTags(l2, 1), UniqueTags(a, 1), UniqueTags(b, 1),
         ToSet(l1) \subseteq ToSet(a), ToSet(l2) \subseteq ToSet(b),
         ToSet(a) \ ToSet(l1) \subseteq ToSet(b), ToSet(b) \ ToSet(l2) \subseteq ToSet(a)
  PROVE  /\ IsList(Additions(l1, l2, a, b)) /\ UniqueTags(Additions(l1, l2, a, b), 1)
         /\ ToSet(Additions(l1, l2, a, b)) = ToSet(l2) \ ToSet(a)
<1> DEFINE kept == {x \in Touched(l1, b) : x.tag \in TagsOf(b)}
           changed == Filtered(l1, kept)
           c == [i \in DOMAIN changed |-> ByTag(b, changed[i].tag)]
           fresh == {x \in ToSet(l2) : x.tag \notin TagsOf(a)}
           n == Filtered(l2, fresh)
<1>1. IsList(changed) /\ ToSet(changed) = ToSet(l1) \cap kept /\ UniqueTags(changed, 1)
  <2> HIDE DEF kept
  <2> QED BY FilteredSet
<1>2. IsList(n) /\ ToSet(n) = ToSet(l2) \cap fresh /\ UniqueTags(n, 1)
  <2> HIDE DEF fresh
  <2> QED BY FilteredSet
<1>3. /\ \A x \in ToSet(a) : x.tag \in TagsOf(a)
      /\ \A t \in TagsOf(a) : ByTag(a, t) \in ToSet(a) /\ ByTag(a, t).tag = t
      /\ \A x, y \in ToSet(a) : x.tag = y.tag => x = y
  BY FoundByTag
<1>4. /\ \A x \in ToSet(b) : x.tag \in TagsOf(b) /\ ByTag(b, x.tag) = x
      /\ \A t \in TagsOf(b) : ByTag(b, t) \in ToSet(b) /\ ByTag(b, t).tag = t
      /\ \A x : Untouched(x, b) <=> x \in ToSet(b)
  BY FoundByTag
<1>5. kept = {x \in ToSet(l1) \ ToSet(b) : x.tag \in TagsOf(b)}
  BY <1>4 DEF Touched
<1> HIDE DEF changed, n, kept
<1>6. /\ DOMAIN changed = 1..Len(changed) /\ Len(changed) \in Nat
      /\ \A i \in 1..Len(changed) : changed[i] \in ToSet(changed)
      /\ \A x \in ToSet(changed) : \E i \in 1..Len(changed) : changed[i] = x
  BY <1>1, ListIs
<1>7. \A i \in 1..Len(changed) : /\ changed[i] \in ToSet(a) \ ToSet(b) /\ changed[i].tag \in TagsOf(b)
                                 /\ c[i] \in ToSet(b) /\ c[i].tag = changed[i].tag
  BY <1>1, <1>4, <1>5, <1>6
<1>8. c \in Seq(ToSet(b)) /\ Len(c) = Len(changed)
  BY <1>6, <1>7
<1>9. IsList(c) /\ UniqueTags(c, 1)
  <2> HIDE DEF c
  <2>1. IsList(c)
    BY <1>8, IsAList
  <2>2. ASSUME NEW i \in 1..Len(c), NEW j \in 1..Len(c), i # j PROVE c[i].tag # c[j].tag
    BY <1>1, <1>7, <1>8, <2>2 DEF UniqueTags
  <2> QED BY <2>1, <2>2 DEF UniqueTags
<1>10. ASSUME NEW i \in 1..Len(c) PROVE c[i] \in ToSet(l2) \ ToSet(a) /\ c[i].tag \in TagsOf(a)
  <2>1. c[i] \in ToSet(b) /\ c[i].tag = changed[i].tag /\ changed[i] \in ToSet(a) \ ToSet(b)
    BY <1>7, <1>8
  <2> HIDE DEF c
  <2>2. c[i] \notin ToSet(a)
    BY <1>3, <2>1
  <2> QED BY <1>3, <2>1, <2>2
<1>11. ASSUME NEW y \in ToSet(l2) \ ToSet(a), y.tag \in TagsOf(a) PROVE \E i \in 1..Len(c) : c[i] = y
  <2> DEFINE x == ByTag(a, y.tag)
  <2>1. x \in ToSet(a) /\ x.tag = y.tag /\ x # y /\ y \in ToSet(b)
    BY <1>3, <1>11
  <2>2. x \notin ToSet(b) /\ x.tag \in TagsOf(b) /\ ByTag(b, x.tag) = y
    <3>1. \A z \in ToSet(b) : ByTag(b, z.tag) = z /\ z.tag \in TagsOf(b)
      BY <1>4
    <3> HIDE DEF x
    <3> QED BY <2>1, <3>1
  <2>3. x \in ToSet(changed)
    <3> HIDE DEF x
    <3> QED BY <1>1, <1>5, <2>1, <2>2
  <2> HIDE DEF x
  <2>4. PICK i \in 1..Len(changed) : changed[i] = x
    BY <1>6, <2>3
  <2>5. c[i] = y
    BY <1>6, <2>2, <2>4
  <2> QED BY <1>8, <2>5
<1>12. /\ \A i \in 1..Len(c) : c[i] \in ToSet(c)
       /\ \A x \in ToSet(c) : \E i \in 1..Len(c) : c[i] = x
       /\ Len(c) \in Nat
  BY <1>9, ListIs
<1>13. /\ IsList(c \o n) /\ ToSet(c \o n) = ToSet(c) \cup ToSet(n)
       /\ \A i \in 1..Len(c \o n) :
            \/ i \in 1..Len(c) /\ (c \o n)[i] = c[i]
            \/ i - Len(c) \in 1..Len(n) /\ (c \o n)[i] = n[i - Len(c)]
       /\ Len(n) \in Nat /\ \A i \in 1..Len(n) : n[i] \in ToSet(n)
  <2> HIDE DEF c
  <2> QED BY <1>2, <1>9, Concatenated, ListIs
<1> HIDE DEF c
<1>14. ToSet(c \o n) = ToSet(l2) \ ToSet(a)
  <2>1. ToSet(n) = {y \in ToSet(l2) \ ToSet(a) : y.tag \notin TagsOf(a)}
    BY <1>2, <1>3
  <2>2. ToSet(c) = {y \in ToSet(l2) \ ToSet(a) : y.tag \in TagsOf(a)}
    BY <1>10, <1>11, <1>12
  <2> QED BY <1>13, <2>1, <2>2
<1>15. UniqueTags(c \o n, 1)
  <2> SUFFICES ASSUME NEW i \in 1..Len(c \o n), NEW j \in 1..Len(c \o n), i # j
               PROVE  (c \o n)[i].tag # (c \o n)[j].tag
    BY DEF UniqueTags
  <2>1. \A k \in 1..Len(n) : n[k].tag \notin TagsOf(a)
    BY <1>2, <1>13
  <2>2. Len(c \o n) \in Nat
    BY <1>13, ListIs
  <2>3. i - Len(c) # j - Len(c)
    BY <1>12, <2>2
  <2>4. CASE i \in 1..Len(c) /\ (c \o n)[i] = c[i]
    BY <1>9, <1>10, <1>13, <2>1, <2>4 DEF UniqueTags
  <2>5. CASE i - Len(c) \in 1..Len(n) /\ (c \o n)[i] = n[i - Len(c)]
    BY <1>2, <1>10, <1>13, <2>1, <2>3, <2>5 DEF UniqueTags
  <2> QED BY <1>13, <2>4, <2>5
<1> QED BY <1>13, <1>14, <1>15 DEF Additions, changed, c, n, kept


-----------------------------------------------------------------------------
(* The plan: what each kind of RPC is sent for, and in which order.            *)
Rank == [delIn |-> 1, addIn |-> 2, delOut |-> 3, addOut |-> 4, rules |-> 5]
Args(plan, op) == {plan[i].arg : i \in {j \in 1..Len(plan) : plan[j].op = op}}

(* Kinds follow one another; no tag comes twice in one kind, and the rules once. *)
InStages(plan) ==
  /\ \A i \in 1..Len(plan) : plan[i].op \in DOMAIN Rank
  /\ \A i, j \in 1..Len(plan) : i < j => Rank[plan[i].op] <= Rank[plan[j].op]
  /\ \A i, j \in 1..Len(plan) :
       i # j /\ plan[i].op = plan[j].op => plan[i].op # "rules" /\ plan[i].arg.tag # plan[j].arg.tag

LEMMA Ranks == /\ DOMAIN Rank = {"delIn", "addIn", "delOut", "addOut", "rules"}
               /\ Rank["delIn"] = 1 /\ Rank["addIn"] = 2 /\ Rank["delOut"] = 3
               /\ Rank["addOut"] = 4 /\ Rank["rules"] = 5
               /\ \A op \in DOMAIN Rank : Rank[op] \in 1..5
BY DEF Rank

(* One kind. *)
LEMMA OneStage ==
  ASSUME NEW list, IsList(list), UniqueTags(list, 1), NEW op \in DOMAIN Rank \ {"rules"}
  PROVE  /\ IsList(Rpcs(op, list)) /\ InStages(Rpcs(op, list))
         /\ \A i \in 1..Len(Rpcs(op, list)) : Rpcs(op, list)[i].op = op
         /\ Args(Rpcs(op, list), op) = ToSet(list)
         /\ Len(Rpcs(op, list)) = Len(list)
<1> DEFINE p == Rpcs(op, list)
           R == {[op |-> op, arg |-> x] : x \in ToSet(list)}
<1>1. /\ Len(list) \in Nat /\ DOMAIN list = 1..Len(list)
      /\ \A i \in 1..Len(list) : list[i] \in ToSet(list)
      /\ \A x \in ToSet(list) : \E i \in 1..Len(list) : list[i] = x
  BY ListIs
<1>2. p = [i \in 1..Len(list) |-> [op |-> op, arg |-> list[i]]]
  BY <1>1 DEF Rpcs
<1>3. p \in Seq(R) /\ Len(p) = Len(list)
  BY <1>1, <1>2
<1>4. IsList(p)
  <2> HIDE DEF p, R
  <2> QED BY <1>3, IsAList
<1>5. \A i \in 1..Len(p) : p[i].op = op /\ p[i].arg = list[i]
  BY <1>2, <1>3
<1> HIDE DEF p
<1>6. InStages(p)
  <2>1. \A i, j \in 1..Len(p) : i # j => p[i].arg.tag # p[j].arg.tag
    BY <1>3, <1>5 DEF UniqueTags
  <2>2. Rank[op] <= Rank[op]
    BY Ranks
  <2> QED BY <1>5, <2>1, <2>2 DEF InStages
<1>7. Args(p, op) = ToSet(list)
  <2>1. \A i \in 1..Len(list) : p[i].op = op /\ p[i].arg = list[i]
    BY <1>3, <1>5
  <2>2. Args(p, op) = {p[i].arg : i \in 1..Len(list)}
    BY <1>3, <2>1 DEF Args
  <2>3. {p[i].arg : i \in 1..Len(list)} = {list[i] : i \in 1..Len(list)}
    BY <2>1
  <2>4. {list[i] : i \in 1..Len(list)} = ToSet(list)
    BY <1>1
  <2> QED BY <2>2, <2>3, <2>4
<1> QED BY <1>3, <1>4, <1>5, <1>6, <1>7 DEF p

(* One kind after the other. *)
LEMMA NextStage ==
  ASSUME NEW s, NEW t, IsList(s), IsList(t), InStages(s), InStages(t),
         \A i \in 1..Len(s), j \in 1..Len(t) : Rank[s[i].op] < Rank[t[j].op]
  PROVE  /\ IsList(s \o t) /\ InStages(s \o t)
         /\ \A op : Args(s \o t, op) = Args(s, op) \cup Args(t, op)
<1> DEFINE u == s \o t
<1>1. /\ IsList(u) /\ Len(u) = Len(s) + Len(t)
      /\ \A i \in 1..Len(s) : u[i] = s[i]
      /\ \A i \in 1..Len(t) : u[Len(s) + i] = t[i]
      /\ \A i \in 1..Len(u) : \/ i \in 1..Len(s) /\ u[i] = s[i]
                              \/ i - Len(s) \in 1..Len(t) /\ u[i] = t[i - Len(s)]
      /\ Len(s) \in Nat /\ Len(t) \in Nat
  BY Concatenated, ListIs
<1> HIDE DEF u
<1>2. \A i \in 1..Len(s) : i \in 1..Len(u)
  BY <1>1
<1>3. \A i \in 1..Len(t) : Len(s) + i \in 1..Len(u)
  BY <1>1
<1>4. InStages(u)
  <2>1. \A i \in 1..Len(u) : u[i].op \in DOMAIN Rank
    BY <1>1 DEF InStages
  <2>2. ASSUME NEW i \in 1..Len(u), NEW j \in 1..Len(u), i < j PROVE Rank[u[i].op] <= Rank[u[j].op]
    <3>1. CASE i \in 1..Len(s) /\ u[i] = s[i] /\ j \in 1..Len(s) /\ u[j] = s[j]
      BY <2>2, <3>1 DEF InStages
    <3>2. CASE i \in 1..Len(s) /\ u[i] = s[i] /\ j - Len(s) \in 1..Len(t) /\ u[j] = t[j - Len(s)]
      <4>1. Rank[s[i].op] < Rank[t[j - Len(s)].op]
        BY <3>2
      <4>2. s[i].op \in DOMAIN Rank /\ t[j - Len(s)].op \in DOMAIN Rank
        BY <3>2 DEF InStages
      <4>3. Rank[s[i].op] \in Int /\ Rank[t[j - Len(s)].op] \in Int
        BY <4>2, Ranks
      <4> QED BY <3>2, <4>1, <4>3
    <3>3. CASE i - Len(s) \in 1..Len(t) /\ u[i] = t[i - Len(s)]
      <4>1. i - Len(s) < j - Len(s) /\ j - Len(s) \in 1..Len(t) /\ u[j] = t[j - Len(s)]
        BY <1>1, <2>2, <3>3
      <4> QED BY <3>3, <4>1 DEF InStages
    <3> QED BY <1>1, <3>1, <3>2, <3>3
  <2>3. ASSUME NEW i \in 1..Len(u), NEW j \in 1..Len(u), i # j, u[i].op = u[j].op
        PROVE  u[i].op # "rules" /\ u[i].arg.tag # u[j].arg.tag
    <3>1. CASE i \in 1..Len(s) /\ u[i] = s[i] /\ j \in 1..Len(s) /\ u[j] = s[j]
      BY <2>3, <3>1 DEF InStages
    <3>2. \A k \in 1..Len(s), l \in 1..Len(t) : s[k].op # t[l].op
      <4>1. ASSUME NEW k \in 1..Len(s), NEW l \in 1..Len(t), s[k].op = t[l].op PROVE FALSE
        <5>1. Rank[s[k].op] < Rank[s[k].op] /\ s[k].op \in DOMAIN Rank
          BY <4>1 DEF InStages
        <5>2. Rank[s[k].op] \in Int
          BY <5>1, Ranks
        <5> QED BY <5>1, <5>2
      <4> QED BY <4>1
    <3>3. CASE /\ i - Len(s) \in 1..Len(t) /\ u[i] = t[i - Len(s)]
               /\ j - Len(s) \in 1..Len(t) /\ u[j] = t[j - Len(s)]
      <4>1. i - Len(s) # j - Len(s)
        BY <1>1, <2>3
      <4> QED BY <2>3, <3>3, <4>1 DEF InStages
    <3> QED BY <1>1, <2>3, <3>1, <3>2, <3>3, SMTT(30)
  <2> QED BY <2>1, <2>2, <2>3 DEF InStages
<1>5. ASSUME NEW op PROVE Args(u, op) = Args(s, op) \cup Args(t, op)
  <2>1. ASSUME NEW x \in Args(u, op) PROVE x \in Args(s, op) \cup Args(t, op)
    <3>1. PICK i \in 1..Len(u) : u[i].op = op /\ x = u[i].arg
      BY DEF Args
    <3> QED BY <1>1, <3>1 DEF Args
  <2>2. ASSUME NEW x \in Args(s, op) PROVE x \in Args(u, op)
    <3>1. PICK i \in 1..Len(s) : s[i].op = op /\ x = s[i].arg
      BY DEF Args
    <3> QED BY <1>1, <1>2, <3>1 DEF Args
  <2>3. ASSUME NEW x \in Args(t, op) PROVE x \in Args(u, op)
    <3>1. PICK i \in 1..Len(t) : t[i].op = op /\ x = t[i].arg
      BY DEF Args
    <3>2. Len(s) + i \in 1..Len(u) /\ u[Len(s) + i] = t[i]
      BY <1>1, <1>3
    <3> QED BY <3>1, <3>2 DEF Args
  <2> QED BY <2>1, <2>2, <2>3
<1> QED BY <1>1, <1>4, <1>5 DEF u


(* What a difference says of the two configurations. *)
Comparable(c, d) ==
  /\ c.rest = d.rest /\ c.strategy = d.strategy
  /\ UniqueTags(c.inbounds, 1) /\ UniqueTags(d.inbounds, 1)
  /\ ~InboundNeedsRestart(c.inbounds, d.inbounds)
  /\ \/ c.outbounds = d.outbounds
     \/ /\ UniqueTags(c.outbounds, 1) /\ UniqueTags(d.outbounds, 1)
        /\ Head(c.outbounds) = Head(d.outbounds)

PlanOf(c, d) == Plan(ComputeHotDiff(c, d), d.rules)

LEMMA DiffIs ==
  ASSUME NEW c, NEW d, ComputeHotDiff(c, d).ok
  PROVE  /\ Comparable(c, d)
         /\ ComputeHotDiff(c, d).removedIn = Removed(c.inbounds, d.inbounds)
         /\ ComputeHotDiff(c, d).addedIn = Added(c.inbounds, d.inbounds)
         /\ ComputeHotDiff(c, d).removedOut =
              IF c.outbounds = d.outbounds THEN <<>> ELSE OutboundsRemoved(c.outbounds, d.outbounds)
         /\ ComputeHotDiff(c, d).addedOut =
              IF c.outbounds = d.outbounds THEN <<>> ELSE OutboundsAdded(c.outbounds, d.outbounds)
         /\ ComputeHotDiff(c, d).routing <=> c.rules # d.rules
<1>1. ASSUME ComputeHotDiff(c, d) = Restart PROVE FALSE
  <2>1. Restart.ok = FALSE
    BY DEF Restart
  <2> QED BY <1>1, <2>1
<1> HIDE DEF Restart
<1>2. ~(\/ c.rest # d.rest
        \/ ~InboundsIndexable(c.inbounds) \/ ~InboundsIndexable(d.inbounds)
        \/ InboundNeedsRestart(c.inbounds, d.inbounds)
        \/ OutboundsNeedRestart(c.outbounds, d.outbounds)
        \/ c.strategy # d.strategy)
  BY <1>1 DEF ComputeHotDiff
<1>3. Comparable(c, d)
  BY <1>2 DEF Comparable, InboundsIndexable, OutboundsNeedRestart, OutboundsIndexable, DefaultKept
<1> DEFINE delIn == Removed(c.inbounds, d.inbounds)
           addIn == Added(c.inbounds, d.inbounds)
           delOut == IF c.outbounds = d.outbounds THEN <<>> ELSE OutboundsRemoved(c.outbounds, d.outbounds)
           addOut == IF c.outbounds = d.outbounds THEN <<>> ELSE OutboundsAdded(c.outbounds, d.outbounds)
           rules == c.rules # d.rules
<1>4. ComputeHotDiff(c, d) = [ok |-> TRUE, removedIn |-> delIn, addedIn |-> addIn,
                              removedOut |-> delOut, addedOut |-> addOut, routing |-> rules]
  BY <1>2 DEF ComputeHotDiff
<1> HIDE DEF delIn, addIn, delOut, addOut, rules
<1>5. /\ ComputeHotDiff(c, d).removedIn = delIn /\ ComputeHotDiff(c, d).addedIn = addIn
      /\ ComputeHotDiff(c, d).removedOut = delOut /\ ComputeHotDiff(c, d).addedOut = addOut
      /\ ComputeHotDiff(c, d).routing = rules
  BY <1>4
<1> QED BY <1>3, <1>5 DEF delIn, addIn, delOut, addOut, rules

LEMMA EmptyList == IsList(<<>>) /\ UniqueTags(<<>>, 1) /\ ToSet(<<>>) = {}
<1>1. <<>> \in Seq({}) /\ Len(<<>>) = 0 /\ 1..0 = {}
  OBVIOUS
<1>2. IsList(<<>>) /\ ToSet(<<>>) = {}
  BY <1>1, IsAList
<1> QED BY <1>1, <1>2 DEF UniqueTags

LEMMA InboundsPlanned ==
  ASSUME NEW c \in Configs, NEW d \in Configs, Comparable(c, d)
  PROVE  /\ IsList(Removed(c.inbounds, d.inbounds)) /\ UniqueTags(Removed(c.inbounds, d.inbounds), 1)
         /\ IsList(Added(c.inbounds, d.inbounds)) /\ UniqueTags(Added(c.inbounds, d.inbounds), 1)
         /\ ToSet(Removed(c.inbounds, d.inbounds)) = ToSet(c.inbounds) \ ToSet(d.inbounds)
         /\ ToSet(Added(c.inbounds, d.inbounds)) = ToSet(d.inbounds) \ ToSet(c.inbounds)
<1> DEFINE a == c.inbounds
           b == d.inbounds
<1>1. IsList(a) /\ IsList(b) /\ UniqueTags(a, 1) /\ UniqueTags(b, 1)
  BY ConfigsAssumption DEF Comparable
<1> HIDE DEF a, b
<1>2. Touched(a, b) = ToSet(a) \ ToSet(b)
  BY <1>1, FoundByTag DEF Touched
<1>3. IsList(Removed(a, b)) /\ UniqueTags(Removed(a, b), 1) /\ ToSet(Removed(a, b)) = ToSet(a) \ ToSet(b)
  BY <1>1, <1>2, FilteredSet DEF Removed
<1>4. Added(a, b) = Additions(a, b, a, b)
  BY DEF Added, AddedChangedOnly, Additions
<1>5. IsList(Added(a, b)) /\ UniqueTags(Added(a, b), 1) /\ ToSet(Added(a, b)) = ToSet(b) \ ToSet(a)
  BY <1>1, <1>4, AdditionsAre
<1> QED BY <1>3, <1>5 DEF a, b

LEMMA OutboundsPlanned ==
  ASSUME NEW c \in Configs, NEW d \in Configs, Comparable(c, d), c.outbounds # d.outbounds
  PROVE  LET del == OutboundsRemoved(c.outbounds, d.outbounds)
             add == OutboundsAdded(c.outbounds, d.outbounds)
         IN  /\ IsList(del) /\ UniqueTags(del, 1) /\ IsList(add) /\ UniqueTags(add, 1)
             /\ ToSet(del) = ToSet(Tail(c.outbounds)) \ ToSet(d.outbounds)
             /\ ToSet(add) = ToSet(Tail(d.outbounds)) \ ToSet(c.outbounds)
<1> DEFINE a == c.outbounds
           b == d.outbounds
           s == Tail(a)
           t == Tail(b)
<1>1. /\ IsList(a) /\ IsList(b) /\ UniqueTags(a, 1) /\ UniqueTags(b, 1)
      /\ a # <<>> /\ b # <<>> /\ Head(a) = Head(b)
  BY ConfigsAssumption DEF Comparable
<1> HIDE DEF a, b
<1>2. /\ IsList(s) /\ ToSet(a) = ToSet(s) \cup {Head(a)} /\ UniqueTags(s, 1)
      /\ IsList(t) /\ ToSet(b) = ToSet(t) \cup {Head(b)} /\ UniqueTags(t, 1)
  BY <1>1, TailOf
<1> HIDE DEF s, t
<1>3. Touched(s, b) = ToSet(s) \ ToSet(b)
  BY <1>1, FoundByTag DEF Touched
<1>4. /\ IsList(Filtered(s, Touched(s, b))) /\ UniqueTags(Filtered(s, Touched(s, b)), 1)
      /\ ToSet(Filtered(s, Touched(s, b))) = ToSet(s) \ ToSet(b)
  BY <1>2, <1>3, FilteredSet
<1>5. OutboundsAdded(a, b) = Additions(s, t, a, b) /\ OutboundsRemoved(a, b) = Filtered(s, Touched(s, b))
  BY DEF OutboundsAdded, OutboundsRemoved, Additions, s, t
<1>6. /\ IsList(Additions(s, t, a, b)) /\ UniqueTags(Additions(s, t, a, b), 1)
      /\ ToSet(Additions(s, t, a, b)) = ToSet(t) \ ToSet(a)
  BY <1>1, <1>2, AdditionsAre
<1> QED BY <1>4, <1>5, <1>6 DEF a, b, s, t

LEMMA PlanIs ==
  ASSUME NEW c \in Configs, NEW d \in Configs, ComputeHotDiff(c, d).ok
  PROVE  /\ IsList(PlanOf(c, d)) /\ InStages(PlanOf(c, d))
         /\ Args(PlanOf(c, d), "delIn") = ToSet(c.inbounds) \ ToSet(d.inbounds)
         /\ Args(PlanOf(c, d), "addIn") = ToSet(d.inbounds) \ ToSet(c.inbounds)
         /\ Args(PlanOf(c, d), "delOut") = ToSet(Tail(c.outbounds)) \ ToSet(d.outbounds)
         /\ Args(PlanOf(c, d), "addOut") = ToSet(Tail(d.outbounds)) \ ToSet(c.outbounds)
         /\ Args(PlanOf(c, d), "rules") = IF c.rules = d.rules THEN {} ELSE {d.rules}
<1> DEFINE diff == ComputeHotDiff(c, d)
           p1 == Rpcs("delIn", diff.removedIn)
           p2 == Rpcs("addIn", diff.addedIn)
           p3 == Rpcs("delOut", diff.removedOut)
           p4 == Rpcs("addOut", diff.addedOut)
           p5 == IF diff.routing THEN <<[op |-> "rules", arg |-> d.rules]>> ELSE <<>>
<1>1. Comparable(c, d)
  BY DiffIs
<1> HIDE DEF diff
<1>2. /\ diff.removedIn = Removed(c.inbounds, d.inbounds) /\ diff.addedIn = Added(c.inbounds, d.inbounds)
      /\ diff.removedOut = IF c.outbounds = d.outbounds THEN <<>> ELSE OutboundsRemoved(c.outbounds, d.outbounds)
      /\ diff.addedOut = IF c.outbounds = d.outbounds THEN <<>> ELSE OutboundsAdded(c.outbounds, d.outbounds)
      /\ diff.routing <=> c.rules # d.rules
  BY DiffIs DEF diff
<1>3. /\ IsList(diff.removedIn) /\ UniqueTags(diff.removedIn, 1)
      /\ ToSet(diff.removedIn) = ToSet(c.inbounds) \ ToSet(d.inbounds)
      /\ IsList(diff.addedIn) /\ UniqueTags(diff.addedIn, 1)
      /\ ToSet(diff.addedIn) = ToSet(d.inbounds) \ ToSet(c.inbounds)
  <2> DEFINE gone == Removed(c.inbounds, d.inbounds)
             come == Added(c.inbounds, d.inbounds)
  <2>1. /\ IsList(gone) /\ UniqueTags(gone, 1) /\ ToSet(gone) = ToSet(c.inbounds) \ ToSet(d.inbounds)
        /\ IsList(come) /\ UniqueTags(come, 1) /\ ToSet(come) = ToSet(d.inbounds) \ ToSet(c.inbounds)
    BY <1>1, InboundsPlanned
  <2>2. diff.removedIn = gone /\ diff.addedIn = come
    BY <1>2
  <2> HIDE DEF gone, come
  <2> QED BY <2>1, <2>2
<1>4. /\ IsList(diff.removedOut) /\ UniqueTags(diff.removedOut, 1)
      /\ ToSet(diff.removedOut) = ToSet(Tail(c.outbounds)) \ ToSet(d.outbounds)
      /\ IsList(diff.addedOut) /\ UniqueTags(diff.addedOut, 1)
      /\ ToSet(diff.addedOut) = ToSet(Tail(d.outbounds)) \ ToSet(c.outbounds)
  <2>1. CASE c.outbounds # d.outbounds
    BY <1>1, <1>2, <2>1, OutboundsPlanned
  <2>2. CASE c.outbounds = d.outbounds
    <3>1. ToSet(Tail(c.outbounds)) \subseteq ToSet(c.outbounds)
      BY ConfigsAssumption, TailOf
    <3> QED BY <1>2, <2>2, <3>1, EmptyList
  <2> QED BY <2>1, <2>2
<1>5. /\ IsList(p1) /\ InStages(p1) /\ (\A i \in 1..Len(p1) : p1[i].op = "delIn")
      /\ Args(p1, "delIn") = ToSet(diff.removedIn)
      /\ IsList(p2) /\ InStages(p2) /\ (\A i \in 1..Len(p2) : p2[i].op = "addIn")
      /\ Args(p2, "addIn") = ToSet(diff.addedIn)
      /\ IsList(p3) /\ InStages(p3) /\ (\A i \in 1..Len(p3) : p3[i].op = "delOut")
      /\ Args(p3, "delOut") = ToSet(diff.removedOut)
      /\ IsList(p4) /\ InStages(p4) /\ (\A i \in 1..Len(p4) : p4[i].op = "addOut")
      /\ Args(p4, "addOut") = ToSet(diff.addedOut)
  BY <1>3, <1>4, OneStage, Ranks
<1>6. /\ IsList(p5) /\ InStages(p5) /\ (\A i \in 1..Len(p5) : p5[i].op = "rules")
      /\ Args(p5, "rules") = IF c.rules = d.rules THEN {} ELSE {d.rules}
  <2>1. CASE ~diff.routing
    <3>1. p5 = <<>> /\ Len(p5) = 0 /\ 1..0 = {} /\ c.rules = d.rules
      BY <1>2, <2>1
    <3> QED BY <3>1, EmptyList DEF InStages, Args
  <2>2. CASE diff.routing
    <3> DEFINE r == [op |-> "rules", arg |-> d.rules]
    <3>1. p5 = <<r>> /\ c.rules # d.rules
      BY <1>2, <2>2
    <3>2. r.op = "rules" /\ r.arg = d.rules
      OBVIOUS
    <3> HIDE DEF r, p5
    <3>3. p5 \in Seq({r}) /\ Len(p5) = 1 /\ p5[1] = r /\ 1..1 = {1}
      BY <3>1
    <3>4. IsList(p5)
      BY <3>3, IsAList
    <3>5. InStages(p5)
      BY <3>2, <3>3, Ranks DEF InStages
    <3>6. Args(p5, "rules") = {d.rules}
      BY <3>2, <3>3 DEF Args
    <3> QED BY <3>1, <3>2, <3>3, <3>4, <3>5, <3>6
  <2> QED BY <1>2, <2>1, <2>2
<1> HIDE DEF p1, p2, p3, p4, p5
<1>7. ASSUME NEW p, NEW op, NEW other, op # other, \A i \in 1..Len(p) : p[i].op = op
      PROVE  Args(p, other) = {}
  BY <1>7 DEF Args
<1> DEFINE q2 == p1 \o p2
           q3 == q2 \o p3
           q4 == q3 \o p4
           q5 == q4 \o p5
<1> DEFINE Until(q, n) == IsList(q) /\ InStages(q) /\ \A i \in 1..Len(q) : Rank[q[i].op] <= n
<1>8. ASSUME NEW q, NEW p, NEW n \in 1..4, NEW op \in DOMAIN Rank, Until(q, n), Rank[op] = n + 1,
             IsList(p), InStages(p), \A i \in 1..Len(p) : p[i].op = op
      PROVE  Until(q \o p, n + 1) /\ \A o : Args(q \o p, o) = Args(q, o) \cup Args(p, o)
  <2>1. \A i \in 1..Len(q), j \in 1..Len(p) : Rank[q[i].op] < Rank[p[j].op]
    <3>1. ASSUME NEW i \in 1..Len(q), NEW j \in 1..Len(p) PROVE Rank[q[i].op] < Rank[p[j].op]
      <4>1. Rank[q[i].op] \in 1..5 /\ Rank[q[i].op] <= n /\ Rank[p[j].op] = n + 1
        BY <1>8, Ranks DEF InStages
      <4> QED BY <4>1
    <3> QED BY <3>1
  <2>2. /\ IsList(q \o p) /\ InStages(q \o p)
        /\ \A o : Args(q \o p, o) = Args(q, o) \cup Args(p, o)
    BY <1>8, <2>1, NextStage
  <2>3. ASSUME NEW i \in 1..Len(q \o p) PROVE Rank[(q \o p)[i].op] <= n + 1
    <3>1. \/ i \in 1..Len(q) /\ (q \o p)[i] = q[i]
          \/ i - Len(q) \in 1..Len(p) /\ (q \o p)[i] = p[i - Len(q)]
      BY <1>8, Concatenated
    <3>2. CASE i \in 1..Len(q) /\ (q \o p)[i] = q[i]
      <4>1. Rank[q[i].op] \in 1..5 /\ Rank[q[i].op] <= n
        BY <1>8, <3>2, Ranks DEF InStages
      <4> QED BY <3>2, <4>1
    <3>3. CASE i - Len(q) \in 1..Len(p) /\ (q \o p)[i] = p[i - Len(q)]
      <4>1. Rank[(q \o p)[i].op] = n + 1
        BY <1>8, <3>3
      <4> QED BY <4>1
    <3> QED BY <3>1, <3>2, <3>3
  <2> QED BY <2>2, <2>3
<1>9. Until(p1, 1)
  BY <1>5, Ranks
<1>10. Until(q2, 2) /\ \A o : Args(q2, o) = Args(p1, o) \cup Args(p2, o)
  <2> HIDE DEF Until
  <2>1. 1 \in 1..4 /\ 1 + 1 = 2 /\ Rank["addIn"] = 1 + 1 /\ "addIn" \in DOMAIN Rank
    BY Ranks
  <2> QED BY <1>5, <1>8, <1>9, <2>1
<1>11. Until(q3, 3) /\ \A o : Args(q3, o) = Args(q2, o) \cup Args(p3, o)
  <2> HIDE DEF Until, q2
  <2>1. 2 \in 1..4 /\ 2 + 1 = 3 /\ Rank["delOut"] = 2 + 1 /\ "delOut" \in DOMAIN Rank
    BY Ranks
  <2> QED BY <1>5, <1>8, <1>10, <2>1
<1>12. Until(q4, 4) /\ \A o : Args(q4, o) = Args(q3, o) \cup Args(p4, o)
  <2> HIDE DEF Until, q3
  <2>1. 3 \in 1..4 /\ 3 + 1 = 4 /\ Rank["addOut"] = 3 + 1 /\ "addOut" \in DOMAIN Rank
    BY Ranks
  <2> QED BY <1>5, <1>8, <1>11, <2>1
<1>13. Until(q5, 5) /\ \A o : Args(q5, o) = Args(q4, o) \cup Args(p5, o)
  <2> HIDE DEF Until, q4
  <2>1. 4 \in 1..4 /\ 4 + 1 = 5 /\ Rank["rules"] = 4 + 1 /\ "rules" \in DOMAIN Rank
    BY Ranks
  <2> QED BY <1>6, <1>8, <1>12, <2>1
<1>14. PlanOf(c, d) = q5
  BY DEF PlanOf, Plan, diff, p1, p2, p3, p4, p5
<1>15. \A o : Args(q5, o) = Args(p1, o) \cup Args(p2, o) \cup Args(p3, o) \cup Args(p4, o) \cup Args(p5, o)
  <2> HIDE DEF q2, q3, q4, q5
  <2> QED BY <1>10, <1>11, <1>12, <1>13
<1> HIDE DEF q5
<1>16. /\ Args(q5, "delIn") = Args(p1, "delIn") /\ Args(q5, "addIn") = Args(p2, "addIn")
       /\ Args(q5, "delOut") = Args(p3, "delOut") /\ Args(q5, "addOut") = Args(p4, "addOut")
       /\ Args(q5, "rules") = Args(p5, "rules")
  <2>1. \A o : o # "delIn" => Args(p1, o) = {}
    <3>1. \A i \in 1..Len(p1) : p1[i].op = "delIn"
      BY <1>5
    <3> QED BY <1>7, <3>1
  <2>2. \A o : o # "addIn" => Args(p2, o) = {}
    <3>1. \A i \in 1..Len(p2) : p2[i].op = "addIn"
      BY <1>5
    <3> QED BY <1>7, <3>1
  <2>3. \A o : o # "delOut" => Args(p3, o) = {}
    <3>1. \A i \in 1..Len(p3) : p3[i].op = "delOut"
      BY <1>5
    <3> QED BY <1>7, <3>1
  <2>4. \A o : o # "addOut" => Args(p4, o) = {}
    <3>1. \A i \in 1..Len(p4) : p4[i].op = "addOut"
      BY <1>5
    <3> QED BY <1>7, <3>1
  <2>5. \A o : o # "rules" => Args(p5, o) = {}
    <3>1. \A i \in 1..Len(p5) : p5[i].op = "rules"
      BY <1>6
    <3> QED BY <1>7, <3>1
  <2> QED BY <1>15, <2>1, <2>2, <2>3, <2>4, <2>5
<1> QED BY <1>3, <1>4, <1>5, <1>6, <1>13, <1>14, <1>16


-----------------------------------------------------------------------------
(* Half-way through the plan.                                                *)
Sent(plan, k, op) == {plan[i].arg : i \in {j \in 1..k : plan[j].op = op}}

LEMMA SentSoFar ==
  ASSUME NEW plan, IsList(plan), InStages(plan), NEW k \in 0..Len(plan)
  PROVE  /\ \A op : Sent(plan, k, op) \subseteq Args(plan, op)
         /\ k = 0 => \A op : Sent(plan, k, op) = {}
         /\ k = Len(plan) => \A op : Sent(plan, k, op) = Args(plan, op)
<1>1. Len(plan) \in Nat
  BY ListIs
<1>2. \A i \in 1..k : i \in 1..Len(plan)
  BY <1>1
<1>3. ASSUME k = 0, NEW op PROVE Sent(plan, k, op) = {}
  BY <1>3, 1..0 = {} DEF Sent
<1> QED BY <1>2, <1>3 DEF Sent, Args

LEMMA NextSent ==
  ASSUME NEW plan, IsList(plan), InStages(plan), NEW k \in 0..Len(plan), k # Len(plan)
  PROVE  /\ k + 1 \in 1..Len(plan) /\ plan[k + 1].op \in DOMAIN Rank
         /\ plan[k + 1].arg \in Args(plan, plan[k + 1].op)
         /\ Sent(plan, k + 1, plan[k + 1].op) = Sent(plan, k, plan[k + 1].op) \cup {plan[k + 1].arg}
         /\ \A op : op # plan[k + 1].op => Sent(plan, k + 1, op) = Sent(plan, k, op)
         /\ \A op \in DOMAIN Rank : Rank[op] < Rank[plan[k + 1].op] => Sent(plan, k, op) = Args(plan, op)
         /\ \A op \in DOMAIN Rank : Rank[op] > Rank[plan[k + 1].op] => Sent(plan, k, op) = {}
         /\ plan[k + 1].op = "rules" => Sent(plan, k, "rules") = {}
         /\ plan[k + 1].op # "rules" =>
              \A x \in Sent(plan, k, plan[k + 1].op) : x.tag # plan[k + 1].arg.tag
<1>1. Len(plan) \in Nat
  BY ListIs
<1>2. /\ k + 1 \in 1..Len(plan) /\ \A i \in 1..k : i \in 1..Len(plan) /\ i < k + 1
      /\ \A i \in 1..(k + 1) : i \in 1..k \/ i = k + 1
      /\ \A i \in 1..k : i \in 1..(k + 1)
      /\ k + 1 \in 1..(k + 1)
      /\ \A i \in 1..Len(plan) : i \in 1..k \/ i = k + 1 \/ k + 1 < i
  BY <1>1
<1>3. plan[k + 1].op \in DOMAIN Rank /\ \A i \in 1..Len(plan) : plan[i].op \in DOMAIN Rank
  BY <1>2 DEF InStages
<1>4. \A op \in DOMAIN Rank : Rank[op] \in Nat
  BY Ranks
<1>5. Sent(plan, k + 1, plan[k + 1].op) = Sent(plan, k, plan[k + 1].op) \cup {plan[k + 1].arg}
  BY <1>2 DEF Sent
<1>6. ASSUME NEW op, op # plan[k + 1].op PROVE Sent(plan, k + 1, op) = Sent(plan, k, op)
  BY <1>2, <1>6 DEF Sent
<1>7. ASSUME NEW op \in DOMAIN Rank, Rank[op] < Rank[plan[k + 1].op] PROVE Sent(plan, k, op) = Args(plan, op)
  <2>1. ASSUME NEW i \in 1..Len(plan), plan[i].op = op PROVE i \in 1..k
    <3>1. ASSUME i = k + 1 \/ k + 1 < i PROVE FALSE
      <4>1. Rank[plan[k + 1].op] <= Rank[plan[i].op]
        BY <1>2, <1>3, <1>4, <3>1 DEF InStages
      <4> QED BY <1>3, <1>4, <1>7, <2>1, <4>1
    <3> QED BY <1>2, <3>1
  <2> QED BY <1>2, <2>1 DEF Sent, Args
<1>8. ASSUME NEW op \in DOMAIN Rank, Rank[op] > Rank[plan[k + 1].op] PROVE Sent(plan, k, op) = {}
  <2>1. ASSUME NEW i \in 1..k, plan[i].op = op PROVE FALSE
    <3>1. Rank[plan[i].op] <= Rank[plan[k + 1].op]
      BY <1>2 DEF InStages
    <3> QED BY <1>3, <1>4, <1>8, <2>1, <3>1
  <2> QED BY <2>1 DEF Sent
<1>9. ASSUME plan[k + 1].op = "rules" PROVE Sent(plan, k, "rules") = {}
  <2>1. \A i \in 1..k : i # k + 1 /\ plan[i].op # "rules"
    BY <1>1, <1>2, <1>9 DEF InStages
  <2> QED BY <2>1 DEF Sent
<1>10. ASSUME NEW x \in Sent(plan, k, plan[k + 1].op), plan[k + 1].op # "rules"
       PROVE  x.tag # plan[k + 1].arg.tag
  <2>1. PICK i \in 1..k : plan[i].op = plan[k + 1].op /\ x = plan[i].arg
    BY DEF Sent
  <2>2. i \in 1..Len(plan) /\ i # k + 1
    BY <1>1, <1>2
  <2> QED BY <1>2, <2>1, <2>2 DEF InStages
<1> QED BY <1>2, <1>3, <1>5, <1>6, <1>7, <1>8, <1>9, <1>10 DEF Args

(* The core that the first k RPCs have made of a core with the old configuration. *)
CoreAfter(c, d, k) ==
  LET plan == PlanOf(c, d)
  IN  [rest |-> c.rest, strategy |-> c.strategy,
       rules |-> IF Sent(plan, k, "rules") = {} THEN c.rules ELSE d.rules,
       inbounds |-> (ToSet(c.inbounds) \ Sent(plan, k, "delIn")) \cup Sent(plan, k, "addIn"),
       default |-> Head(c.outbounds),
       outbounds |-> (ToSet(Tail(c.outbounds)) \ Sent(plan, k, "delOut")) \cup Sent(plan, k, "addOut")]

(* No inbound with Reality is added, and the control plane stays. *)
LEMMA LeftAlone ==
  ASSUME NEW c \in Configs, NEW d \in Configs, Comparable(c, d)
  PROVE  /\ \A y \in ToSet(d.inbounds) \ ToSet(c.inbounds) : ~y.reality
         /\ \A x \in ToSet(c.inbounds) : x.tag = "api" => x \in ToSet(d.inbounds)
<1> DEFINE a == c.inbounds
           b == d.inbounds
<1>1. IsList(a) /\ IsList(b) /\ UniqueTags(a, 1) /\ UniqueTags(b, 1)
  BY ConfigsAssumption DEF Comparable
<1>2. ~InboundNeedsRestart(a, b)
  BY DEF Comparable
<1> HIDE DEF a, b
<1>3. /\ \A t \in TagsOf(a) : ByTag(a, t) \in ToSet(a) /\ ByTag(a, t).tag = t
      /\ \A x \in ToSet(a) : x.tag \in TagsOf(a) /\ ByTag(a, x.tag) = x
  BY <1>1, FoundByTag
<1>4. /\ \A x \in ToSet(b) : x.tag \in TagsOf(b) /\ ByTag(b, x.tag) = x
      /\ \A x : Untouched(x, b) <=> x \in ToSet(b)
  BY <1>1, FoundByTag
<1>5. /\ \A x \in ToSet(a) : \E i \in DOMAIN a : a[i] = x
      /\ \A x \in ToSet(b) : \E i \in DOMAIN b : b[i] = x
  BY DEF ToSet
<1>6. /\ \A x \in ToSet(a) \ ToSet(b) : x.tag # "api" /\ (x.tag \in TagsOf(b) => ~(x.reality \/ ByTag(b, x.tag).reality))
      /\ \A y \in ToSet(b) : y.tag \notin TagsOf(a) => ~y.reality
  BY <1>2, <1>4, <1>5 DEF InboundNeedsRestart
<1>7. ASSUME NEW y \in ToSet(b) \ ToSet(a) PROVE ~y.reality
  <2>1. CASE y.tag \notin TagsOf(a)
    BY <1>6, <2>1
  <2>2. CASE y.tag \in TagsOf(a)
    <3> DEFINE x == ByTag(a, y.tag)
    <3>1. x \in ToSet(a) /\ x.tag = y.tag
      BY <1>3, <2>2
    <3> HIDE DEF x
    <3>2. ByTag(b, x.tag) = y /\ x.tag \in TagsOf(b)
      BY <1>4, <3>1
    <3>3. x \notin ToSet(b)
      BY <1>4, <3>1, <3>2
    <3> QED BY <1>6, <3>1, <3>2, <3>3
  <2> QED BY <2>1, <2>2
<1> QED BY <1>6, <1>7 DEF a, b


(* The next RPC is accepted, and takes the core one step further. *)
LEMMA StepOfPlan ==
  ASSUME old \in Configs, new \in Configs, ComputeHotDiff(old, new).ok, HasControlPlane(old),
         NEW k \in 0..Len(PlanOf(old, new)), k # Len(PlanOf(old, new)), core = CoreAfter(old, new, k)
  PROVE  /\ Accepts(PlanOf(old, new)[k + 1])
         /\ Effect(PlanOf(old, new)[k + 1]) = CoreAfter(old, new, k + 1)
<1> DEFINE plan == PlanOf(old, new)
           rpc == plan[k + 1]
           a == ToSet(old.inbounds)
           b == ToSet(new.inbounds)
           s == ToSet(Tail(old.outbounds))
           t == ToSet(Tail(new.outbounds))
           S(op) == Sent(plan, k, op)
           T(op) == Sent(plan, k + 1, op)
<1>1. Comparable(old, new)
  BY DiffIs
<1>2. /\ IsList(plan) /\ InStages(plan)
      /\ Args(plan, "delIn") = a \ b /\ Args(plan, "addIn") = b \ a
      /\ Args(plan, "delOut") = s \ ToSet(new.outbounds) /\ Args(plan, "addOut") = t \ ToSet(old.outbounds)
      /\ Args(plan, "rules") = IF old.rules = new.rules THEN {} ELSE {new.rules}
  BY PlanIs
<1>3. /\ core.inbounds = (a \ S("delIn")) \cup S("addIn")
      /\ core.outbounds = (s \ S("delOut")) \cup S("addOut")
      /\ core.default = Head(old.outbounds)
      /\ core.rules = IF S("rules") = {} THEN old.rules ELSE new.rules
      /\ core.rest = old.rest /\ core.strategy = old.strategy
      /\ core = [rest |-> old.rest, strategy |-> old.strategy, rules |-> core.rules, inbounds |-> core.inbounds,
                 default |-> Head(old.outbounds), outbounds |-> core.outbounds]
  BY DEF CoreAfter
<1>4. CoreAfter(old, new, k + 1) =
        [rest |-> old.rest, strategy |-> old.strategy,
         rules |-> IF T("rules") = {} THEN old.rules ELSE new.rules,
         inbounds |-> (a \ T("delIn")) \cup T("addIn"),
         default |-> Head(old.outbounds),
         outbounds |-> (s \ T("delOut")) \cup T("addOut")]
  BY DEF CoreAfter
<1>5. IsList(old.inbounds) /\ IsList(new.inbounds) /\ UniqueTags(old.inbounds, 1) /\ UniqueTags(new.inbounds, 1)
  BY <1>1, ConfigsAssumption DEF Comparable
<1>6. /\ \A x, y \in a : x.tag = y.tag => x = y
      /\ \A x, y \in b : x.tag = y.tag => x = y
  BY <1>5, FoundByTag
<1>7. \A x, y \in b : x.port = y.port => x = y
  <2>1. \A i, j \in 1..Len(new.inbounds) : new.inbounds[i].port = new.inbounds[j].port => i = j
    BY <1>5, ConfigsAssumption, ListIs
  <2>2. \A x \in b : \E i \in 1..Len(new.inbounds) : new.inbounds[i] = x
    BY <1>5, ListIs
  <2> QED BY <2>1, <2>2
<1>8. /\ \A y \in b \ a : ~y.reality
      /\ \A x \in a : x.tag = "api" => x \in b
  BY <1>1, LeftAlone
<1>9. /\ rpc.op \in DOMAIN Rank /\ rpc.arg \in Args(plan, rpc.op)
      /\ T(rpc.op) = S(rpc.op) \cup {rpc.arg}
      /\ \A op : op # rpc.op => T(op) = S(op)
      /\ \A op \in DOMAIN Rank : Rank[op] < Rank[rpc.op] => S(op) = Args(plan, op)
      /\ \A op \in DOMAIN Rank : Rank[op] > Rank[rpc.op] => S(op) = {}
      /\ rpc.op = "rules" => S("rules") = {}
      /\ rpc.op # "rules" => \A x \in S(rpc.op) : x.tag # rpc.arg.tag
  BY <1>2, NextSent
<1>10. \A op : S(op) \subseteq Args(plan, op)
  BY <1>2, SentSoFar
<1>11. /\ IsList(old.outbounds) /\ IsList(new.outbounds) /\ old.outbounds # <<>> /\ new.outbounds # <<>>
       /\ ToSet(old.outbounds) = s \cup {Head(old.outbounds)} /\ ToSet(new.outbounds) = t \cup {Head(new.outbounds)}
  BY ConfigsAssumption, TailOf
<1>12. ASSUME old.outbounds # new.outbounds
       PROVE  /\ \A x, y \in ToSet(old.outbounds) : x.tag = y.tag => x = y
              /\ \A x, y \in ToSet(new.outbounds) : x.tag = y.tag => x = y
              /\ Head(old.outbounds) = Head(new.outbounds)
              /\ Head(old.outbounds) \notin s /\ Head(new.outbounds) \notin t
  <2>1. UniqueTags(old.outbounds, 1) /\ UniqueTags(new.outbounds, 1) /\ Head(old.outbounds) = Head(new.outbounds)
    BY <1>1, <1>12 DEF Comparable
  <2> QED BY <1>11, <2>1, FoundByTag, TailOf
<1> HIDE DEF a, b, s, t, rpc, S, T, plan
<1>out. ASSUME NEW these
        PROVE  [core EXCEPT !.outbounds = these] =
                 [rest |-> old.rest, strategy |-> old.strategy, rules |-> core.rules, inbounds |-> core.inbounds,
                  default |-> Head(old.outbounds), outbounds |-> these]
  <2> DEFINE ruled == core.rules  ins == core.inbounds  outs == core.outbounds
  <2>1. core = [rest |-> old.rest, strategy |-> old.strategy, rules |-> ruled, inbounds |-> ins,
                default |-> Head(old.outbounds), outbounds |-> outs]
    BY <1>3
  <2> HIDE DEF ruled, ins, outs
  <2>2. [core EXCEPT !.outbounds = these] =
          [rest |-> old.rest, strategy |-> old.strategy, rules |-> ruled, inbounds |-> ins,
           default |-> Head(old.outbounds), outbounds |-> these]
    BY <2>1
  <2> QED BY <2>2 DEF ruled, ins
<1>13. \E x \in core.inbounds : x.tag = "api"
  <2>1. PICK x \in a : x.tag = "api"
    BY DEF HasControlPlane, TagsOf, ToSet, a
  <2> QED BY <1>2, <1>3, <1>8, <1>10, <2>1
<1>14. CASE rpc.op = "delIn"
  <2>1. S("addIn") = {} /\ rpc.arg \in a \ b
    BY <1>2, <1>9, <1>14, Ranks
  <2>2. rpc.arg \in core.inbounds
    BY <1>3, <1>9, <1>14, <2>1
  <2>3. Accepts(rpc)
    BY <1>13, <1>14, <2>2 DEF Accepts
  <2>4. {x \in core.inbounds : x.tag # rpc.arg.tag} = (a \ T("delIn")) \cup T("addIn")
    BY <1>3, <1>6, <1>9, <1>14, <2>1
  <2>5. Effect(rpc) = [core EXCEPT !.inbounds = (a \ T("delIn")) \cup T("addIn")]
    BY <1>14, <2>4 DEF Effect
  <2>6. T("rules") = S("rules") /\ T("delOut") = S("delOut") /\ T("addOut") = S("addOut")
    BY <1>9, <1>14
  <2> QED BY <1>3, <1>4, <2>3, <2>5, <2>6 DEF rpc, plan
<1>15. CASE rpc.op = "addIn"
  <2>1. S("delIn") = a \ b /\ rpc.arg \in b \ a
    BY <1>2, <1>9, <1>15, Ranks
  <2>2. ASSUME NEW x \in core.inbounds PROVE x.tag # rpc.arg.tag /\ x.port # rpc.arg.port
    <3>1. x \in b /\ x # rpc.arg
      BY <1>2, <1>3, <1>9, <1>10, <1>15, <2>1
    <3> QED BY <1>6, <1>7, <2>1, <3>1
  <2>3. Accepts(rpc)
    BY <1>13, <1>15, <2>2 DEF Accepts
  <2>4. Rebuilt(rpc.arg) = rpc.arg
    BY <1>8, <2>1 DEF Rebuilt
  <2>5. Effect(rpc) = [core EXCEPT !.inbounds = core.inbounds \cup {rpc.arg}]
    BY <1>15, <2>4 DEF Effect
  <2>6. core.inbounds \cup {rpc.arg} = (a \ T("delIn")) \cup T("addIn")
    BY <1>3, <1>9, <1>15
  <2>7. T("rules") = S("rules") /\ T("delOut") = S("delOut") /\ T("addOut") = S("addOut")
    BY <1>9, <1>15
  <2> QED BY <1>3, <1>4, <2>3, <2>5, <2>6, <2>7 DEF rpc, plan
<1>16. CASE rpc.op = "delOut"
  <2>1. S("addOut") = {} /\ rpc.arg \in s \ ToSet(new.outbounds)
    BY <1>2, <1>9, <1>16, Ranks
  <2>2. old.outbounds # new.outbounds
    BY <1>11, <2>1
  <2>3. rpc.arg \in core.outbounds
    BY <1>3, <1>9, <1>16, <2>1
  <2>4. Accepts(rpc)
    BY <1>13, <1>16, <2>3 DEF Accepts
  <2>5. {x \in core.outbounds : x.tag # rpc.arg.tag} = (s \ T("delOut")) \cup T("addOut")
    BY <1>3, <1>9, <1>11, <1>12, <1>16, <2>1, <2>2
  <2>6. Effect(rpc) = [core EXCEPT !.outbounds = (s \ T("delOut")) \cup T("addOut")]
    BY <1>16, <2>5 DEF Effect
  <2>7. T("rules") = S("rules") /\ T("delIn") = S("delIn") /\ T("addIn") = S("addIn")
    BY <1>9, <1>16
  <2>8. Effect(rpc) = [rest |-> old.rest, strategy |-> old.strategy, rules |-> core.rules,
                       inbounds |-> core.inbounds, default |-> Head(old.outbounds),
                       outbounds |-> (s \ T("delOut")) \cup T("addOut")]
    BY <1>out, <2>6
  <2>9. /\ core.rules = IF T("rules") = {} THEN old.rules ELSE new.rules
        /\ core.inbounds = (a \ T("delIn")) \cup T("addIn")
    BY <1>3, <2>7
  <2>10. Effect(rpc) = CoreAfter(old, new, k + 1)
    BY <1>4, <2>8, <2>9
  <2> QED BY <2>4, <2>10 DEF rpc, plan
<1>17. CASE rpc.op = "addOut"
  <2>1. S("delOut") = s \ ToSet(new.outbounds) /\ rpc.arg \in t \ ToSet(old.outbounds)
    BY <1>2, <1>9, <1>17, Ranks
  <2>2. old.outbounds # new.outbounds
    BY <1>11, <2>1
  <2>3. ASSUME NEW x \in core.outbounds \cup {core.default} PROVE x.tag # rpc.arg.tag
    <3>1. x \in ToSet(new.outbounds) /\ x # rpc.arg
      BY <1>2, <1>3, <1>9, <1>10, <1>11, <1>12, <1>17, <2>1, <2>2
    <3> QED BY <1>11, <1>12, <2>1, <2>2, <3>1
  <2>4. Accepts(rpc)
    BY <1>13, <1>17, <2>3 DEF Accepts
  <2>5. Effect(rpc) = [core EXCEPT !.outbounds = core.outbounds \cup {rpc.arg}]
    BY <1>17 DEF Effect
  <2>6. core.outbounds \cup {rpc.arg} = (s \ T("delOut")) \cup T("addOut")
    BY <1>3, <1>9, <1>17
  <2>7. T("rules") = S("rules") /\ T("delIn") = S("delIn") /\ T("addIn") = S("addIn")
    BY <1>9, <1>17
  <2>8. Effect(rpc) = [rest |-> old.rest, strategy |-> old.strategy, rules |-> core.rules,
                       inbounds |-> core.inbounds, default |-> Head(old.outbounds),
                       outbounds |-> (s \ T("delOut")) \cup T("addOut")]
    BY <1>out, <2>5, <2>6
  <2>9. /\ core.rules = IF T("rules") = {} THEN old.rules ELSE new.rules
        /\ core.inbounds = (a \ T("delIn")) \cup T("addIn")
    BY <1>3, <2>7
  <2>10. Effect(rpc) = CoreAfter(old, new, k + 1)
    BY <1>4, <2>8, <2>9
  <2> QED BY <2>4, <2>10 DEF rpc, plan
<1>18. CASE rpc.op = "rules"
  <2>1. rpc.arg = new.rules /\ T("rules") # {}
    BY <1>2, <1>9, <1>18
  <2>2. Accepts(rpc)
    BY <1>13, <1>18 DEF Accepts
  <2>3. Effect(rpc) = [core EXCEPT !.rules = new.rules]
    BY <1>18, <2>1 DEF Effect
  <2>4. /\ T("delIn") = S("delIn") /\ T("addIn") = S("addIn")
        /\ T("delOut") = S("delOut") /\ T("addOut") = S("addOut")
    BY <1>9, <1>18
  <2> QED BY <1>3, <1>4, <2>1, <2>2, <2>3, <2>4 DEF rpc, plan
<1> QED BY <1>9, <1>14, <1>15, <1>16, <1>17, <1>18, Ranks

(* Nothing sent, and all of it. *)
LEMMA Ends ==
  ASSUME NEW c \in Configs, NEW d \in Configs, ComputeHotDiff(c, d).ok
  PROVE  CoreAfter(c, d, 0) = Boot(c) /\ CoreAfter(c, d, Len(PlanOf(c, d))) = Boot(d)
<1> DEFINE plan == PlanOf(c, d)
<1>1. /\ IsList(plan) /\ InStages(plan)
      /\ Args(plan, "delIn") = ToSet(c.inbounds) \ ToSet(d.inbounds)
      /\ Args(plan, "addIn") = ToSet(d.inbounds) \ ToSet(c.inbounds)
      /\ Args(plan, "delOut") = ToSet(Tail(c.outbounds)) \ ToSet(d.outbounds)
      /\ Args(plan, "addOut") = ToSet(Tail(d.outbounds)) \ ToSet(c.outbounds)
      /\ Args(plan, "rules") = IF c.rules = d.rules THEN {} ELSE {d.rules}
  BY PlanIs
<1> HIDE DEF plan
<1>2. Len(plan) \in Nat
  BY <1>1, ListIs
<1>3. /\ \A op : Sent(plan, 0, op) = {}
      /\ \A op : Sent(plan, Len(plan), op) = Args(plan, op)
  BY <1>1, <1>2, SentSoFar
<1>4. CoreAfter(c, d, 0) = Boot(c)
  BY <1>3 DEF CoreAfter, Boot, plan
<1>5. /\ ToSet(c.outbounds) = ToSet(Tail(c.outbounds)) \cup {Head(c.outbounds)}
      /\ ToSet(d.outbounds) = ToSet(Tail(d.outbounds)) \cup {Head(d.outbounds)}
      /\ c.rest = d.rest /\ c.strategy = d.strategy /\ Head(c.outbounds) = Head(d.outbounds)
      /\ c.outbounds # d.outbounds => /\ Head(c.outbounds) \notin ToSet(Tail(c.outbounds))
                                      /\ Head(d.outbounds) \notin ToSet(Tail(d.outbounds))
  BY ConfigsAssumption, TailOf, DiffIs DEF Comparable
<1>6. (ToSet(Tail(c.outbounds)) \ Args(plan, "delOut")) \cup Args(plan, "addOut") = ToSet(Tail(d.outbounds))
  BY <1>1, <1>5
<1>7. (ToSet(c.inbounds) \ Args(plan, "delIn")) \cup Args(plan, "addIn") = ToSet(d.inbounds)
  BY <1>1
<1>8. (IF Args(plan, "rules") = {} THEN c.rules ELSE d.rules) = d.rules
  BY <1>1
<1>9. CoreAfter(c, d, Len(plan)) = Boot(d)
  BY <1>3, <1>5, <1>6, <1>7, <1>8 DEF CoreAfter, Boot, plan
<1> QED BY <1>4, <1>9 DEF plan

-----------------------------------------------------------------------------
(* Where traffic goes.                                                        *)
Hits(rules, x) == {i \in DOMAIN rules : x \in rules[i].dst}
First(S) == CHOOSE i \in S : \A j \in S : i <= j

LEMMA FirstIs ==
  ASSUME NEW S \in SUBSET Nat, S # {}
  PROVE  First(S) \in S /\ \A j \in S : First(S) <= j
BY Smallest DEF First

(* Every rule of a configuration names an outbound of its core. *)
LEMMA RouteOf ==
  ASSUME NEW c \in Configs, NEW x
  PROVE  /\ Hits(c.rules, x) \in SUBSET Nat
         /\ Hits(c.rules, x) = {} => Route(Boot(c), x) = Head(c.outbounds)
         /\ Hits(c.rules, x) # {} => /\ Route(Boot(c), x) \in ToSet(c.outbounds)
                                     /\ Route(Boot(c), x).tag = c.rules[First(Hits(c.rules, x))].tag
<1> DEFINE hits == Hits(c.rules, x)
           tag == c.rules[First(hits)].tag
           named == {y \in ToSet(Tail(c.outbounds)) \cup {Head(c.outbounds)} : y.tag = tag}
<1>1. IsList(c.rules) /\ IsList(c.outbounds) /\ c.outbounds # <<>>
  BY ConfigsAssumption
<1>2. hits \in SUBSET Nat /\ \A i \in hits : i \in DOMAIN c.rules
  BY <1>1, ListIs DEF Hits
<1>3. /\ Boot(c).rules = c.rules /\ Boot(c).default = Head(c.outbounds)
      /\ Boot(c).outbounds = ToSet(Tail(c.outbounds))
  BY DEF Boot
<1>4. Route(Boot(c), x) = IF hits # {} /\ named # {} THEN CHOOSE y \in named : TRUE ELSE Head(c.outbounds)
  BY <1>3 DEF Route, Hits, First
<1>5. ToSet(c.outbounds) = ToSet(Tail(c.outbounds)) \cup {Head(c.outbounds)}
  BY <1>1, TailOf
<1>6. ASSUME hits # {} PROVE named # {}
  <2>1. First(hits) \in DOMAIN c.rules
    BY <1>2, <1>6, FirstIs
  <2>2. PICK k \in DOMAIN c.outbounds : c.outbounds[k].tag = tag
    BY <2>1, RulesAssumption
  <2>3. c.outbounds[k] \in ToSet(c.outbounds)
    BY DEF ToSet
  <2> QED BY <1>5, <2>2, <2>3
<1>7. ASSUME hits # {} PROVE Route(Boot(c), x) \in named
  BY <1>4, <1>6, <1>7
<1> QED BY <1>2, <1>4, <1>5, <1>7

(* The rules of metering do not count in a conclusion, since they come last. *)
LEMMA ConclusionIs ==
  ASSUME NEW c \in Configs, NEW x
  PROVE  LET without == WithoutMeters(c.rules)
             hits == Hits(without, x)
         IN  Conclusion(Boot(c), x) = IF hits = {} THEN Head(c.outbounds).tag ELSE without[First(hits)].tag
<1> DEFINE without == WithoutMeters(c.rules)
           kept == {r \in ToSet(c.rules) : r.tag \notin MeterTags}
           h == Hits(without, x)
           g == Hits(c.rules, x)
<1>1. IsList(c.rules) /\ c.rules \in Seq(ToSet(c.rules))
  BY ConfigsAssumption DEF IsList
<1>2. /\ Len(c.rules) \in Nat /\ DOMAIN c.rules = 1..Len(c.rules)
      /\ \A i \in 1..Len(c.rules) : c.rules[i] \in ToSet(c.rules)
  BY <1>1, ListIs
<1>3. without \in Seq(ToSet(c.rules)) /\ \E at : Places(at, without, c.rules, kept, Len(c.rules))
  BY <1>1, FilteredKeeps DEF WithoutMeters
<1>4. PICK at : Places(at, without, c.rules, kept, Len(c.rules))
  BY <1>3
<1> HIDE DEF without
<1>5. Len(without) \in Nat /\ DOMAIN without = 1..Len(without)
  BY <1>3
<1>6. \A p \in 1..Len(without) : /\ at[p] \in 1..Len(c.rules) /\ without[p] = c.rules[at[p]]
                                 /\ c.rules[at[p]].tag \notin MeterTags
  BY <1>4 DEF Places
<1>7. \A p, q \in 1..Len(without) : p < q => at[p] < at[q]
  BY <1>4 DEF Places
<1>8. \A i \in 1..Len(c.rules) : c.rules[i].tag \notin MeterTags => \E p \in 1..Len(without) : at[p] = i
  BY <1>2, <1>4 DEF Places
<1>9. \A i, j \in 1..Len(c.rules) : i < j /\ c.rules[i].tag \in MeterTags => c.rules[j].tag \in MeterTags
  BY <1>2, RulesAssumption
<1>10. /\ h \in SUBSET Nat /\ g \in SUBSET Nat
       /\ \A p : p \in h <=> p \in 1..Len(without) /\ x \in without[p].dst
       /\ \A i : i \in g <=> i \in 1..Len(c.rules) /\ x \in c.rules[i].dst
  BY <1>2, <1>5 DEF Hits
<1> HIDE DEF h, g, kept
<1>11. Boot(c).default = Head(c.outbounds)
  BY DEF Boot
<1>12. CASE h = {}
  <2>1. \A i \in g : c.rules[i].tag \in MeterTags
    <3> SUFFICES ASSUME NEW i \in g, c.rules[i].tag \notin MeterTags PROVE FALSE
      OBVIOUS
    <3>1. i \in 1..Len(c.rules) /\ x \in c.rules[i].dst
      BY <1>10
    <3>2. PICK p \in 1..Len(without) : at[p] = i
      BY <1>8, <3>1
    <3>3. p \in h
      BY <1>6, <1>10, <3>1, <3>2
    <3> QED BY <1>12, <3>3
  <2>2. CASE g = {}
    BY <1>11, <1>12, <2>2, RouteOf DEF Conclusion, g, h, without
  <2>3. CASE g # {}
    <3>1. Route(Boot(c), x).tag = c.rules[First(g)].tag /\ First(g) \in g
      BY <1>10, <2>3, RouteOf, FirstIs DEF g
    <3> QED BY <1>11, <1>12, <2>1, <3>1 DEF Conclusion, h, without
  <2> QED BY <2>2, <2>3
<1>13. CASE h # {}
  <2> DEFINE p == First(h)
             i == First(g)
  <2>1. p \in h /\ \A q \in h : p <= q
    BY <1>10, <1>13, FirstIs
  <2>2. at[p] \in g
    BY <1>6, <1>10, <2>1
  <2>3. i \in g /\ \A j \in g : i <= j
    BY <1>10, <2>2, FirstIs
  <2> HIDE DEF p, i
  <2>4. c.rules[i].tag \notin MeterTags
    <3>1. p \in 1..Len(without) /\ i \in 1..Len(c.rules) /\ i <= at[p]
      BY <1>10, <2>1, <2>2, <2>3
    <3>2. at[p] \in 1..Len(c.rules) /\ c.rules[at[p]].tag \notin MeterTags
      BY <1>6, <3>1
    <3>3. i < at[p] \/ i = at[p]
      BY <1>2, <3>1, <3>2
    <3> QED BY <1>9, <3>1, <3>2, <3>3
  <2>5. PICK q \in 1..Len(without) : at[q] = i
    BY <1>8, <1>10, <2>3, <2>4
  <2>6. q \in h
    BY <1>6, <1>10, <2>3, <2>5
  <2>7. q = p
    <3>1. p <= q /\ p \in 1..Len(without) /\ at[p] \in Nat /\ i \in Nat /\ i <= at[p]
      BY <1>10, <2>1, <2>2, <2>3, <2>6
    <3> QED BY <1>5, <1>7, <2>5, <3>1
  <2>8. without[p].tag = c.rules[i].tag
    BY <1>6, <2>5, <2>7
  <2>9. Route(Boot(c), x).tag = c.rules[i].tag
    BY <2>3, RouteOf DEF g, i
  <2> QED BY <1>13, <2>4, <2>8, <2>9 DEF Conclusion, h, p, without
<1> QED BY <1>12, <1>13

(* The rules go last: once they are sent the core is the new one. *)
LEMMA RulesLast ==
  ASSUME NEW c \in Configs, NEW d \in Configs, ComputeHotDiff(c, d).ok,
         NEW k \in 0..Len(PlanOf(c, d)), Sent(PlanOf(c, d), k, "rules") # {}
  PROVE  CoreAfter(c, d, k) = Boot(d)
<1> DEFINE plan == PlanOf(c, d)
<1>1. IsList(plan) /\ InStages(plan)
  BY PlanIs
<1> HIDE DEF plan
<1>2. ASSUME k # Len(plan) PROVE FALSE
  <2>1. /\ plan[k + 1].op \in DOMAIN Rank
        /\ \A op \in DOMAIN Rank : Rank[op] > Rank[plan[k + 1].op] => Sent(plan, k, op) = {}
        /\ plan[k + 1].op = "rules" => Sent(plan, k, "rules") = {}
    BY <1>1, <1>2, NextSent DEF plan
  <2>2. plan[k + 1].op # "rules" => Rank["rules"] > Rank[plan[k + 1].op]
    BY <2>1, Ranks
  <2> QED BY <2>1, <2>2, Ranks DEF plan
<1> QED BY <1>2, Ends DEF plan

(* The routes half-way. *)
LEMMA RouteAfter ==
  ASSUME NEW c \in Configs, NEW d \in Configs, ComputeHotDiff(c, d).ok,
         NEW k \in 0..Len(PlanOf(c, d)), NEW x
  PROVE  LET half == CoreAfter(c, d, k)
         IN  \/ Route(half, x).tag \in {Route(Boot(c), x).tag, Route(Boot(d), x).tag}
             \/ Route(half, x) = half.default /\ Route(Boot(c), x) \notin ToSet(d.outbounds)
<1> DEFINE plan == PlanOf(c, d)
           half == CoreAfter(c, d, k)
           s == ToSet(Tail(c.outbounds))
           hits == Hits(c.rules, x)
           tag == c.rules[First(hits)].tag
           named == {y \in half.outbounds \cup {half.default} : y.tag = tag}
<1>1. CASE Sent(plan, k, "rules") # {}
  BY <1>1, RulesLast
<1>2. CASE Sent(plan, k, "rules") = {}
  <2>1. /\ half.rules = c.rules /\ half.default = Head(c.outbounds)
        /\ half.outbounds = (s \ Sent(plan, k, "delOut")) \cup Sent(plan, k, "addOut")
    BY <1>2 DEF CoreAfter
  <2>2. Sent(plan, k, "delOut") \subseteq s \ ToSet(d.outbounds)
    BY PlanIs, SentSoFar
  <2> HIDE DEF half, plan
  <2>3. Route(half, x) = IF hits # {} /\ named # {} THEN CHOOSE y \in named : TRUE ELSE Head(c.outbounds)
    BY <2>1 DEF Route, Hits, First
  <2>4. CASE hits = {}
    BY <2>3, <2>4, RouteOf DEF half
  <2>5. CASE hits # {} /\ named # {}
    BY <2>3, <2>5, RouteOf DEF half
  <2>6. CASE hits # {} /\ named = {}
    <3>1. Route(Boot(c), x) \in ToSet(c.outbounds) /\ Route(Boot(c), x).tag = tag
      BY <2>6, RouteOf
    <3>2. ToSet(c.outbounds) = s \cup {Head(c.outbounds)}
      BY ConfigsAssumption, TailOf
    <3>3. Route(Boot(c), x) \in s /\ Route(Boot(c), x) \in Sent(plan, k, "delOut")
      BY <2>1, <2>6, <3>1, <3>2
    <3> QED BY <2>1, <2>2, <2>3, <2>6, <3>3 DEF half
  <2> QED BY <2>4, <2>5, <2>6
<1> QED BY <1>1, <1>2

-----------------------------------------------------------------------------
(* The invariant: the first k RPCs are sent, the others are still to send.    *)
Halfway(k) ==
  /\ k \in 0..Len(PlanOf(old, new))
  /\ todo = [i \in 1..(Len(PlanOf(old, new)) - k) |-> PlanOf(old, new)[i + k]]
  /\ core = CoreAfter(old, new, k)

HotInv ==
  /\ old \in Configs /\ new \in Configs
  /\ verdict \in {"none", "restart", "same", "hot", "meters"}
  /\ verdict = "none" => todo = <<>> /\ core = Boot(old)
  /\ verdict = "restart" => todo = <<>>
  /\ Hot => /\ ComputeHotDiff(old, new).ok /\ (todo # <<>> => HasControlPlane(old))
            /\ \E k \in 0..Len(PlanOf(old, new)) : Halfway(k)
  /\ verdict = "meters" => OnlyTouchesTags(old, new, ComputeHotDiff(old, new))

LEMMA AsSequence ==
  ASSUME NEW n \in Nat, NEW S, NEW f \in [1..n -> S]
  PROVE  /\ f = <<>> <=> n = 0
         /\ n # 0 => Head(f) = f[1] /\ Tail(f) = [i \in 1..(n - 1) |-> f[i + 1]]
<1>1. f \in Seq(S) /\ Len(f) = n
  OBVIOUS
<1>2. f = <<>> <=> n = 0
  BY <1>1
<1>3. ASSUME n # 0 PROVE Head(f) = f[1] /\ Tail(f) = [i \in 1..(n - 1) |-> f[i + 1]]
  <2> DEFINE t == Tail(f)
  <2>1. Head(f) = f[1] /\ t \in Seq(S) /\ Len(t) = n - 1
    BY <1>1, <1>2, <1>3
  <2>2. \A i \in 1..(n - 1) : t[i] = f[i + 1]
    BY <1>1, <1>2, <1>3
  <2> HIDE DEF t
  <2>3. t = [i \in 1..Len(t) |-> t[i]]
    BY <2>1
  <2>4. t = [i \in 1..(n - 1) |-> f[i + 1]]
    BY <2>1, <2>2, <2>3
  <2> QED BY <2>1, <2>4 DEF t
<1> QED BY <1>2, <1>3

LEMMA Shifted ==
  ASSUME NEW plan, IsList(plan), NEW k \in 0..Len(plan)
  PROVE  LET left == [i \in 1..(Len(plan) - k) |-> plan[i + k]]
         IN  /\ left = <<>> <=> k = Len(plan)
             /\ left # <<>> => /\ k + 1 \in 0..Len(plan) /\ Head(left) = plan[k + 1]
                               /\ Tail(left) = [i \in 1..(Len(plan) - (k + 1)) |-> plan[i + (k + 1)]]
             /\ k = 0 => left = plan
<1> DEFINE n == Len(plan) - k
           left == [i \in 1..n |-> plan[i + k]]
<1>1. /\ Len(plan) \in Nat /\ plan = [i \in 1..Len(plan) |-> plan[i]]
      /\ \A i \in 1..Len(plan) : plan[i] \in ToSet(plan)
  BY ListIs
<1>2. n \in Nat /\ \A i \in 1..n : i + k \in 1..Len(plan)
  BY <1>1
<1>3. n - 1 = Len(plan) - (k + 1) /\ n = Len(plan) - k
  BY <1>1
<1> HIDE DEF n
<1>4. left \in [1..n -> ToSet(plan)] /\ \A i \in 1..n : left[i] = plan[i + k]
  BY <1>1, <1>2
<1> HIDE DEF left
<1>5. /\ left = <<>> <=> n = 0
      /\ n # 0 => Head(left) = left[1] /\ Tail(left) = [i \in 1..(n - 1) |-> left[i + 1]]
  BY <1>2, <1>4, AsSequence
<1>6. left = <<>> <=> k = Len(plan)
  BY <1>1, <1>3, <1>5
<1>7. ASSUME n # 0 PROVE Head(left) = plan[k + 1] /\ k + 1 \in 0..Len(plan)
  <2>1. 1 \in 1..n /\ 1 + k = k + 1 /\ k + 1 \in 0..Len(plan)
    BY <1>1, <1>2, <1>3, <1>7
  <2> QED BY <1>4, <1>5, <1>7, <2>1
<1>8. ASSUME n # 0 PROVE Tail(left) = [i \in 1..(Len(plan) - (k + 1)) |-> plan[i + (k + 1)]]
  <2>1. \A i \in 1..(n - 1) : i + 1 \in 1..n /\ (i + 1) + k = i + (k + 1)
    BY <1>2
  <2>2. \A i \in 1..(n - 1) : left[i + 1] = plan[i + (k + 1)]
    BY <1>4, <2>1
  <2> QED BY <1>3, <1>5, <1>8, <2>2, Zenon
<1>9. ASSUME k = 0 PROVE left = plan
  <2>1. n = Len(plan) /\ \A i \in 1..n : i + k = i
    BY <1>1, <1>3, <1>9
  <2>2. plan = [i \in 1..n |-> plan[i + k]]
    BY <1>1, <2>1
  <2> QED BY <2>2 DEF left
<1> QED BY <1>3, <1>5, <1>6, <1>7, <1>8, <1>9 DEF left

LEMMA Started == Init => HotInv
BY DEF Init, HotInv, Hot

LEMMA DecideKeeps == HotInv /\ Decide => HotInv'
<1> SUFFICES ASSUME HotInv, Decide PROVE HotInv'
  OBVIOUS
<1> DEFINE diff == ComputeHotDiff(old, new)
           plan == PlanOf(old, new)
<1>1. /\ old \in Configs /\ new \in Configs /\ todo = <<>> /\ core = Boot(old)
      /\ old' = old /\ new' = new /\ core' = core
  BY DEF HotInv, Decide
<1>2. \/ verdict' = "restart" /\ todo' = <<>>
      \/ diff.ok /\ plan = <<>> /\ verdict' = "same" /\ todo' = plan
      \/ /\ diff.ok /\ HasControlPlane(old) /\ todo' = plan /\ verdict' \in {"hot", "meters"}
         /\ verdict' = "meters" => OnlyTouchesTags(old, new, diff)
  BY DEF Decide, PlanOf
<1>3. CASE verdict' = "restart" /\ todo' = <<>>
  BY <1>1, <1>3 DEF HotInv, Hot
<1>4. ASSUME diff.ok, todo' = plan
      PROVE  /\ ComputeHotDiff(old', new').ok
             /\ \E k \in 0..Len(PlanOf(old', new')) : Halfway(k)'
  <2>1. IsList(plan)
    BY <1>1, <1>4, PlanIs
  <2>2. 0 \in 0..Len(plan)
    BY <2>1, ListIs
  <2>3. plan = [i \in 1..(Len(plan) - 0) |-> plan[i + 0]]
    <3> DEFINE left == [i \in 1..(Len(plan) - 0) |-> plan[i + 0]]
    <3>1. left = plan
      BY <2>1, <2>2, Shifted
    <3> QED BY <3>1
  <2>4. core' = CoreAfter(old', new', 0)
    BY <1>1, <1>4, Ends
  <2>5. Halfway(0)'
    BY <1>1, <1>4, <2>2, <2>3, <2>4 DEF Halfway
  <2> QED BY <1>1, <1>4, <2>2, <2>5
<1>5. CASE diff.ok /\ plan = <<>> /\ verdict' = "same" /\ todo' = plan
  BY <1>1, <1>4, <1>5 DEF HotInv, Hot
<1>6. CASE /\ diff.ok /\ HasControlPlane(old) /\ todo' = plan /\ verdict' \in {"hot", "meters"}
           /\ verdict' = "meters" => OnlyTouchesTags(old, new, diff)
  BY <1>1, <1>4, <1>6 DEF HotInv, Hot
<1> QED BY <1>2, <1>3, <1>5, <1>6

(* What the invariant says when there is an RPC to send. *)
LEMMA AboutToSend ==
  ASSUME HotInv, todo # <<>>, NEW k \in 0..Len(PlanOf(old, new)), Halfway(k)
  PROVE  /\ Accepts(Head(todo)) /\ Effect(Head(todo)) = CoreAfter(old, new, k + 1)
         /\ k + 1 \in 0..Len(PlanOf(old, new))
         /\ Tail(todo) = [i \in 1..(Len(PlanOf(old, new)) - (k + 1)) |-> PlanOf(old, new)[i + (k + 1)]]
<1>1. /\ old \in Configs /\ new \in Configs /\ ComputeHotDiff(old, new).ok /\ HasControlPlane(old)
      /\ core = CoreAfter(old, new, k)
  BY DEF HotInv, Halfway, Hot
<1>2. IsList(PlanOf(old, new))
  BY <1>1, PlanIs
<1>3. /\ k # Len(PlanOf(old, new)) /\ k + 1 \in 0..Len(PlanOf(old, new))
      /\ Head(todo) = PlanOf(old, new)[k + 1]
      /\ Tail(todo) = [i \in 1..(Len(PlanOf(old, new)) - (k + 1)) |-> PlanOf(old, new)[i + (k + 1)]]
  <2> DEFINE plan == PlanOf(old, new)
             left == [i \in 1..(Len(plan) - k) |-> plan[i + k]]
  <2>1. todo = left
    BY DEF Halfway
  <2>2. left # <<>>
    BY <2>1
  <2> HIDE DEF plan
  <2>3. /\ k # Len(plan) /\ k + 1 \in 0..Len(plan) /\ Head(left) = plan[k + 1]
        /\ Tail(left) = [i \in 1..(Len(plan) - (k + 1)) |-> plan[i + (k + 1)]]
    <3>1. IsList(plan) /\ k \in 0..Len(plan)
      BY <1>2 DEF plan
    <3> QED BY <2>2, <3>1, Shifted, SMTT(30)
  <2> HIDE DEF left
  <2> QED BY <2>1, <2>3 DEF plan
<1> QED BY <1>1, <1>3, StepOfPlan

LEMMA SendKeeps == HotInv /\ Send => HotInv'
<1> SUFFICES ASSUME HotInv, Send PROVE HotInv'
  OBVIOUS
<1>1. /\ todo # <<>> /\ core' = Effect(Head(todo)) /\ todo' = Tail(todo)
      /\ old' = old /\ new' = new /\ verdict' = verdict
  BY DEF Send
<1>2. /\ Hot /\ HasControlPlane(old) /\ ComputeHotDiff(old, new).ok
      /\ verdict \in {"same", "hot", "meters"}
  BY <1>1 DEF HotInv, Hot
<1>3. PICK k \in 0..Len(PlanOf(old, new)) : Halfway(k)
  BY <1>2 DEF HotInv
<1>4. /\ core' = CoreAfter(old', new', k + 1) /\ k + 1 \in 0..Len(PlanOf(old', new'))
      /\ todo' = [i \in 1..(Len(PlanOf(old', new')) - (k + 1)) |-> PlanOf(old', new')[i + (k + 1)]]
  BY <1>1, <1>3, AboutToSend
<1>5. \E j \in 0..Len(PlanOf(old', new')) : Halfway(j)'
  BY <1>4 DEF Halfway
<1> QED BY <1>1, <1>2, <1>5 DEF HotInv, Hot

LEMMA HotInvKept == HotInv /\ [Next]_vars => HotInv'
<1> SUFFICES ASSUME HotInv, [Next]_vars PROVE HotInv'
  OBVIOUS
<1>1. CASE Decide
  BY <1>1, DecideKeeps
<1>2. CASE Send
  BY <1>2, SendKeeps
<1>3. CASE UNCHANGED vars
  BY <1>3 DEF vars, HotInv, Hot, Halfway
<1> QED BY <1>1, <1>2, <1>3 DEF Next

THEOREM HotInvHolds == Spec => []HotInv
BY Started, HotInvKept, PTL DEF Spec

-----------------------------------------------------------------------------
(* tryHotApply meets no RPC error of its own making: for any two configurations,   *)
(* the core that the plan has reached accepts the next RPC - no tag is added over  *)
(* an old one, no port is bound twice, nothing is deleted that is not there, and   *)
(* the api inbound the RPCs travel through survives to the last.                   *)
THEOREM NoRpcRefused == Spec => []NothingRefused
<1>1. HotInv => NothingRefused
  <2> SUFFICES ASSUME HotInv, todo # <<>> PROVE Accepts(Head(todo))
    BY DEF NothingRefused
  <2>1. Hot
    BY DEF HotInv, Hot
  <2>2. PICK k \in 0..Len(PlanOf(old, new)) : Halfway(k)
    BY <2>1 DEF HotInv
  <2> QED BY <2>2, AboutToSend
<1> QED BY <1>1, HotInvHolds, PTL

(* A hot application ends where a restart would have: after the last RPC the core  *)
(* is the one Boot makes of the new configuration, for any two configurations, so  *)
(* process.SetConfig(newCfg) is true.                                              *)
THEOREM HotIsRestart == Spec => []HotEqualsRestart
<1>1. HotInv => HotEqualsRestart
  <2> SUFFICES ASSUME HotInv, Hot, todo = <<>> PROVE core = Boot(new)
    BY DEF HotEqualsRestart
  <2>1. /\ old \in Configs /\ new \in Configs /\ ComputeHotDiff(old, new).ok
    BY DEF HotInv
  <2>2. PICK k \in 0..Len(PlanOf(old, new)) : Halfway(k)
    BY DEF HotInv
  <2>3. k = Len(PlanOf(old, new)) /\ core = CoreAfter(old, new, k)
    BY <2>1, <2>2, PlanIs, Shifted DEF Halfway
  <2> QED BY <2>1, <2>3, Ends
<1> QED BY <1>1, HotInvHolds, PTL

(* While RPCs are under way no traffic takes a route that neither configuration    *)
(* gives it, except to the default outbound when its old outbound is edited or     *)
(* removed (tryHotApply: outbounds first, the rules that name them last).         *)
THEOREM TrafficOnOldOrNewRoute == Spec => []RoutesInBetween
<1>1. HotInv => RoutesInBetween
  <2> SUFFICES ASSUME HotInv, Hot, NEW d \in Dests
               PROVE  \/ Route(core, d).tag \in {Route(Boot(old), d).tag, Route(Boot(new), d).tag}
                      \/ Route(core, d) = core.default /\ Route(Boot(old), d) \notin ToSet(new.outbounds)
    BY DEF RoutesInBetween
  <2>1. /\ old \in Configs /\ new \in Configs /\ ComputeHotDiff(old, new).ok
    BY DEF HotInv
  <2>2. PICK k \in 0..Len(PlanOf(old, new)) : Halfway(k)
    BY DEF HotInv
  <2> QED BY <2>1, <2>2, RouteAfter DEF Halfway
<1> QED BY <1>1, HotInvHolds, PTL

(* When OnlyTouchesTags says that a change concerns metering only, no conclusion   *)
(* about where traffic goes changes: tryHotApply may leave the generation of the  *)
(* route audit as it is.                                                           *)
THEOREM MeteringKeepsConclusions == Spec => []MetersChangeNothing
<1>1. HotInv => MetersChangeNothing
  <2> SUFFICES ASSUME HotInv, verdict = "meters", NEW x \in Dests
               PROVE  Conclusion(Boot(new), x) = Conclusion(Boot(old), x)
    BY DEF MetersChangeNothing
  <2>1. /\ old \in Configs /\ new \in Configs /\ ComputeHotDiff(old, new).ok
        /\ OnlyTouchesTags(old, new, ComputeHotDiff(old, new))
    BY DEF HotInv, Hot
  <2>2. WithoutMeters(old.rules) = WithoutMeters(new.rules)
    BY <2>1, DiffIs DEF OnlyTouchesTags
  <2>3. Head(old.outbounds) = Head(new.outbounds)
    BY <2>1, DiffIs DEF Comparable
  <2> QED BY <2>1, <2>2, <2>3, ConclusionIs
<1> QED BY <1>1, HotInvHolds, PTL

=============================================================================
