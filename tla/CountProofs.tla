---------------------------- MODULE CountProofs ----------------------------
(***************************************************************************)
(* Theorems about the two counts of the panel, that nothing is counted     *)
(* twice and nothing passed over: bytes per source (Online) and lines of   *)
(* the core's log (AccessLog), for any constants.                          *)
(*                                                                         *)
(* Bytes: the counter the tracker remembers of a connection is never ahead *)
(* of the table in flight nor of the kernel (Trails), and what was         *)
(* accounted is what it remembers (Told): a connection it remembers        *)
(* nothing of either was never accounted or can be accounted no more.      *)
(*                                                                         *)
(* Lines: the stored cursor is taken up only in the file it was written    *)
(* for, and divides it in lines that are rows and lines that are not       *)
(* (StoredOnce); the point divides the rows in those that are counted and  *)
(* those that are not, but for rows that came late (CountedOnce).          *)
(***************************************************************************)
EXTENDS Online, AccessLog, TLAPS, FiniteSetTheorems, WellFoundedInduction

Told(c) == base[c] + credited[c]

(* May still be in a table or a notice that will be accounted. *)
Live(c) == state[c] # "destroyed" \/ c \in notices \/ c \in DOMAIN table.conns \ DOMAIN closed

Types ==
  /\ state \in [Conns -> {"none", "up", "half", "destroyed"}] /\ bytes \in [Conns -> 0..MaxBytes]
  /\ credited \in [Conns -> Nat] /\ base \in [Conns -> 0..MaxBytes]
  /\ notices \subseteq Conns /\ DOMAIN table.conns \subseteq Conns
  /\ now \in Nat /\ fresh \in BOOLEAN
  /\ DOMAIN prev \subseteq Conns /\ DOMAIN gone \subseteq Conns /\ DOMAIN closed \subseteq Conns
  /\ \A c \in DOMAIN prev : prev[c] \in Nat
  /\ \A c \in DOMAIN gone : gone[c].bytes \in Nat /\ gone[c].at \in 0..now
  /\ \A c \in DOMAIN closed : closed[c] \in 0..now
  /\ \A c \in DOMAIN table.conns : table.conns[c] \in Nat

(* Where the tracker has a connection, and when its end is known. *)
Places ==
  /\ DOMAIN prev \cap DOMAIN gone = {} /\ (DOMAIN prev \cup DOMAIN gone) \cap DOMAIN closed = {}
  /\ fresh => DOMAIN prev = {} /\ DOMAIN gone = {} /\ DOMAIN closed = {}
  /\ \A c \in notices : state[c] = "destroyed"
  /\ \A c \in DOMAIN closed : state[c] = "destroyed" /\ c \notin notices

(* Counters only grow on their way from the kernel to the tracker. *)
Trails ==
  /\ \A c \in DOMAIN prev : prev[c] <= bytes[c]
  /\ \A c \in DOMAIN gone : gone[c].bytes <= bytes[c]
  /\ \A c \in DOMAIN table.conns : table.conns[c] <= bytes[c]
  /\ \A c \in DOMAIN table.conns \ DOMAIN closed :
       /\ c \in DOMAIN prev => prev[c] <= table.conns[c]
       /\ c \in DOMAIN gone => gone[c].bytes <= table.conns[c]

Accounted ==
  \A c \in Conns \ excused :
    /\ Told(c) <= bytes[c]
    /\ c \in DOMAIN prev => Told(c) <= prev[c] /\ (c \in missed \/ Told(c) = prev[c])
    /\ c \in DOMAIN gone => Told(c) <= gone[c].bytes /\ (c \in missed \/ Told(c) = gone[c].bytes)
    /\ c \in DOMAIN closed \ missed => Told(c) = bytes[c]
    /\ ~fresh /\ c \notin DOMAIN prev \cup DOMAIN gone /\ Live(c) => Told(c) = 0
    /\ fresh /\ c \in DOMAIN table.conns => credited[c] <= table.conns[c]

BytesInv == Types /\ Places /\ Trails /\ Accounted

-----------------------------------------------------------------------------
(* What is credited of a delta is all of it or nothing. *)
LEMMA CreditEffect ==
  ASSUME Types, NEW set \in SUBSET Conns, NEW delta, \A c \in set : delta[c] \in Nat,
         Credit(set, delta)
  PROVE  /\ credited' \in [Conns -> Nat] /\ missed \subseteq missed'
         /\ \A c \in Conns \ set : credited'[c] = credited[c]
         /\ \A c \in set : \/ credited'[c] = credited[c] + delta[c]
                           \/ credited'[c] = credited[c] /\ c \in missed'
<1> DEFINE paying == {c \in set : delta[c] > 0}
<1>1. PICK taken \in SUBSET paying :
        /\ credited' = [c \in Conns |-> credited[c] + IF c \in taken THEN delta[c] ELSE 0]
        /\ missed' = missed \cup (paying \ taken)
  BY DEF Credit
<1>2. credited' \in [Conns -> Nat]
  BY <1>1 DEF Types
<1>3. ASSUME NEW c \in Conns \ set PROVE credited'[c] = credited[c]
  BY <1>1 DEF Types
<1>4. ASSUME NEW c \in set, c \in taken PROVE credited'[c] = credited[c] + delta[c]
  BY <1>1, <1>4 DEF Types
<1>5. ASSUME NEW c \in set, c \notin taken
      PROVE  credited'[c] = credited[c] /\ (delta[c] = 0 \/ c \in missed')
  BY <1>1, <1>5 DEF Types
<1> QED BY <1>1, <1>2, <1>3, <1>4, <1>5 DEF Types

LEMMA InitBytesInv == OnlineInit => BytesInv
BY OnlineAssumption DEF OnlineAssumption, OnlineInit, BytesInv, Types, Places, Trails, Accounted, Empty,
   NoTable, Told

-----------------------------------------------------------------------------
(* The kernel's steps. *)
LEMMA KernelKeeps ==
  ASSUME BytesInv, NEW c \in Conns, Connect(c) \/ Transfer(c) \/ HalfClose(c) \/ Destroy(c)
  PROVE  BytesInv'
<1> USE OnlineAssumption DEF OnlineAssumption, BytesInv, Connect, Transfer, HalfClose, Destroy, tracker,
        onlineTold
<1>1. Types'
  BY DEF Types
<1>2. Places'
  BY DEF Types, Places
<1>3. \A d \in Conns : bytes'[d] \in Nat /\ bytes[d] \in Nat /\ bytes[d] <= bytes'[d]
  BY DEF Types
<1>4. Trails'
  BY <1>3 DEF Types, Trails
<1>5. \A d \in Conns : Live(d)' => Live(d)
  BY DEF Types, Live
<1>6. Accounted'
  BY <1>3, <1>5 DEF Types, Places, Accounted, Told
<1> QED BY <1>1, <1>2, <1>4, <1>6

LEMMA DumpKeeps ==
  ASSUME BytesInv, Dump
  PROVE  BytesInv'
<1> USE OnlineAssumption DEF OnlineAssumption, BytesInv, kernel, tracker, onlineTold
<1>1. /\ UNCHANGED <<kernel, notices, tracker, pending, onlineTold>>
      /\ DOMAIN table'.conns \subseteq {c \in Conns : state[c] = "up"}
      /\ \A c \in DOMAIN table'.conns : table'.conns[c] = bytes[c]
  BY DEF Dump
<1>2. Types'
  BY <1>1 DEF Types
<1>3. Places'
  BY <1>1 DEF Places
<1>4. Trails'
  BY <1>1 DEF Types, Trails
<1>5. \A d \in Conns : Live(d)' => Live(d)
  BY <1>1 DEF Live
<1>6. Accounted'
  BY <1>1, <1>5 DEF Types, Accounted, Told
<1> QED BY <1>2, <1>3, <1>4, <1>6

LEMMA DrainKeeps ==
  ASSUME BytesInv, Drain
  PROVE  BytesInv'
BY DEF BytesInv, Drain, kernel, tracker, onlineTold, Types, Places, Trails, Accounted, Told, Live

LEMMA ForgetAllKeeps ==
  ASSUME BytesInv, ForgetAll
  PROVE  BytesInv'
<1> USE OnlineAssumption DEF OnlineAssumption, BytesInv, ForgetAll, kernel, Empty, NoTable
<1>1. Types'
  BY DEF Types
<1>2. Places' /\ Trails'
  BY DEF Places, Trails
<1>3. Accounted'
  BY DEF Accounted, Told
<1> QED BY <1>1, <1>2, <1>3

-----------------------------------------------------------------------------
(* The counter a delta is taken against is behind the one it is taken of. *)
LEMMA SeenBehind ==
  ASSUME Types, Trails, NEW c \in Conns
  PROVE  /\ Seen(c) \in Nat /\ Seen(c) <= bytes[c] /\ Delta(c, bytes[c]) = bytes[c] - Seen(c)
         /\ c \in DOMAIN table.conns \ DOMAIN closed =>
              Seen(c) <= table.conns[c] /\ Delta(c, table.conns[c]) = table.conns[c] - Seen(c)
<1>1. bytes[c] \in Nat
  BY DEF Types
<1>2. Seen(c) \in Nat /\ Seen(c) <= bytes[c]
  BY <1>1 DEF Types, Trails, Seen
<1>3. c \in DOMAIN table.conns \ DOMAIN closed => Seen(c) <= table.conns[c] /\ table.conns[c] \in Nat
  BY DEF Types, Trails, Seen
<1> QED BY <1>1, <1>2, <1>3 DEF Delta

(* A notice before the first sample is dropped. *)
LEMMA NoticeFreshKeeps ==
  ASSUME BytesInv, NEW c \in Conns, Notice(c), fresh
  PROVE  BytesInv'
<1>1. /\ UNCHANGED <<kernel, tracker, pending, credited, table, base, excused, failures>>
      /\ notices' = notices \ {c} /\ missed \subseteq missed'
  BY DEF Notice
<1> USE <1>1 DEF BytesInv, kernel, tracker
<1>2. Types' /\ Places' /\ Trails'
  BY DEF Types, Places, Trails
<1>3. Accounted'
  BY DEF Accounted, Told, Live
<1> QED BY <1>2, <1>3

LEMMA NoticeKeeps ==
  ASSUME BytesInv, NEW c \in Conns, Notice(c), ~fresh
  PROVE  BytesInv'
<1> DEFINE delta == [x \in {c} |-> Delta(x, bytes[x])]
<1> USE DEF BytesInv
<1>1. c \in notices /\ state[c] = "destroyed" /\ c \notin DOMAIN closed
  BY DEF Notice, Places
<1>2. /\ Credit({c}, delta)
      /\ closed' = [x \in DOMAIN closed \cup {c} |-> IF x = c THEN now ELSE closed[x]]
      /\ prev' = [x \in DOMAIN prev \ {c} |-> prev[x]] /\ gone' = [x \in DOMAIN gone \ {c} |-> gone[x]]
      /\ notices' = notices \ {c}
      /\ UNCHANGED <<state, bytes, table, base, excused, now, fresh>>
  BY <1>1 DEF Notice, Without, kernel
<1>3. delta[c] = bytes[c] - Seen(c) /\ delta[c] \in Nat
  BY SeenBehind DEF Types
<1> HIDE DEF delta
<1>4. /\ credited' \in [Conns -> Nat] /\ missed \subseteq missed'
      /\ \A x \in Conns \ {c} : credited'[x] = credited[x]
      /\ \/ credited'[c] = credited[c] + delta[c]
         \/ credited'[c] = credited[c] /\ c \in missed'
  BY <1>2, <1>3, CreditEffect
<1>5. Types'
  BY <1>2, <1>4 DEF Types
<1>6. Places'
  BY <1>1, <1>2 DEF Places
<1>7. Trails'
  BY <1>2 DEF Trails
<1>8. \A x \in Conns : (Live(x)' => Live(x) /\ x # c)
  BY <1>1, <1>2 DEF Live, Types
<1>9. Accounted'
  <2> SUFFICES ASSUME NEW x \in Conns \ excused
               PROVE  /\ Told(x)' <= bytes[x]
                      /\ x \in DOMAIN prev' => /\ Told(x)' <= prev'[x]
                                               /\ (x \in missed' \/ Told(x)' = prev'[x])
                      /\ x \in DOMAIN gone' => /\ Told(x)' <= gone'[x].bytes
                                               /\ (x \in missed' \/ Told(x)' = gone'[x].bytes)
                      /\ x \in DOMAIN closed' \ missed' => Told(x)' = bytes[x]
                      /\ x \notin DOMAIN prev' \cup DOMAIN gone' /\ Live(x)' => Told(x)' = 0
    BY <1>2 DEF Accounted
  <2>1. CASE x # c
    BY <2>1, <1>2, <1>4, <1>8 DEF Accounted, Told
  <2>2. CASE x = c
    <3>1. Told(c) <= Seen(c) /\ (c \in missed \/ Told(c) = Seen(c))
      BY <2>2, <1>1 DEF Accounted, Seen, Live, Types, Told
    <3>2. Told(c)' = base[c] + credited'[c] /\ base[c] \in Nat /\ credited[c] \in Nat /\ Seen(c) \in Nat
          /\ bytes[c] \in Nat /\ Seen(c) <= bytes[c]
      BY <1>2, SeenBehind DEF Types, Told
    <3>3. Told(c)' <= bytes[c] /\ (c \in missed' \/ Told(c)' = bytes[c])
      BY <3>1, <3>2, <1>3, <1>4 DEF Told
    <3> QED BY <2>2, <3>3, <1>2, <1>8
  <2> QED BY <2>1, <2>2
<1> QED BY <1>5, <1>6, <1>7, <1>9

-----------------------------------------------------------------------------
(* The accounting of a table. *)
LEMMA UpdateMoves ==
  ASSUME BytesInv, Update
  PROVE  /\ UNCHANGED <<state, bytes, notices>> /\ table' = NoTable /\ now' = now + 1 /\ fresh' = FALSE
         /\ DOMAIN prev' = Dumped /\ \A c \in Dumped : prev'[c] = table.conns[c]
         /\ DOMAIN gone' \subseteq (DOMAIN prev \cup DOMAIN gone) \ Dumped
         /\ \A c \in DOMAIN gone' :
              /\ c \in DOMAIN prev => gone'[c] = [bytes |-> prev[c], at |-> now']
              /\ c \notin DOMAIN prev => gone'[c] = gone[c]
         /\ DOMAIN prev \ Dumped \subseteq DOMAIN gone'
         /\ DOMAIN closed' \subseteq DOMAIN closed /\ \A c \in DOMAIN closed' : closed'[c] = closed[c]
<1> DEFINE left == [c \in (DOMAIN prev \ Dumped) \cup (DOMAIN gone \ DOMAIN prev) |->
                      IF c \in DOMAIN prev THEN [bytes |-> prev[c], at |-> now'] ELSE gone[c]]
<1>1. gone' = [c \in {x \in DOMAIN left : now' - left[x].at <= GoneRetention} \ Dumped |-> left[c]]
  BY DEF Update, Kept
<1>2. now' = now + 1 /\ now \in Nat /\ now' - now' <= GoneRetention
  BY OnlineAssumption DEF OnlineAssumption, Update, BytesInv, Types
<1>3. \A c \in DOMAIN prev \ Dumped : left[c] = [bytes |-> prev[c], at |-> now']
  OBVIOUS
<1>4. DOMAIN prev \ Dumped \subseteq DOMAIN gone'
  BY <1>1, <1>2, <1>3
<1>5. DOMAIN gone' \subseteq (DOMAIN prev \cup DOMAIN gone) \ Dumped
  BY <1>1
<1>6. \A c \in DOMAIN gone' : /\ c \in DOMAIN prev => gone'[c] = [bytes |-> prev[c], at |-> now']
                              /\ c \notin DOMAIN prev => gone'[c] = gone[c]
  BY <1>1
<1> QED BY <1>4, <1>5, <1>6 DEF Update, kernel

(* What it credits: the first table after a start is only a base. *)
LEMMA UpdateFresh ==
  ASSUME BytesInv, Update, fresh
  PROVE  /\ credited' = credited /\ missed' = missed /\ base' \in [Conns -> 0..MaxBytes]
         /\ \A c \in Conns : base'[c] = IF c \in Dumped /\ table.conns[c] > credited[c]
                                        THEN table.conns[c] - credited[c] ELSE 0
         /\ \A c \in Conns \ excused' : c \notin excused /\ (c \in Dumped \/ credited[c] = 0)
<1>1. /\ credited' = credited /\ missed' = missed
      /\ base' = [c \in Conns |-> IF c \in Dumped /\ table.conns[c] > credited[c]
                                  THEN table.conns[c] - credited[c] ELSE 0]
      /\ excused' = excused \cup {c \in Conns \ Dumped : credited[c] > 0}
  BY DEF Update
<1>2. \A c \in Dumped : table.conns[c] \in 0..MaxBytes
  BY OnlineAssumption DEF OnlineAssumption, BytesInv, Types, Trails, Dumped
<1>3. \A c \in Conns : credited[c] \in Nat
  BY DEF BytesInv, Types
<1>4. base' \in [Conns -> 0..MaxBytes]
  BY <1>1, <1>2, <1>3, OnlineAssumption DEF OnlineAssumption
<1>5. \A c \in Conns : base'[c] = IF c \in Dumped /\ table.conns[c] > credited[c]
                                  THEN table.conns[c] - credited[c] ELSE 0
  BY <1>1
<1>6. \A c \in Conns \ excused' : c \notin excused /\ (c \in Dumped \/ credited[c] = 0)
  <2> SUFFICES ASSUME NEW c \in Conns \ excused' PROVE c \notin excused /\ (c \in Dumped \/ credited[c] = 0)
    OBVIOUS
  <2>1. credited[c] \in Nat /\ c \notin excused /\ c \notin {x \in Conns \ Dumped : credited[x] > 0}
    BY <1>1, <1>3
  <2> QED BY <2>1
<1> QED BY <1>1, <1>4, <1>5, <1>6

LEMMA UpdateLater ==
  ASSUME BytesInv, Update, ~fresh
  PROVE  /\ base' = base /\ excused \subseteq excused'
         /\ \A c \in Conns : c \in DOMAIN gone /\ c \notin DOMAIN gone' \cup Dumped => c \in excused'
         /\ credited' \in [Conns -> Nat] /\ missed \subseteq missed'
         /\ \A c \in Conns \ Dumped : credited'[c] = credited[c]
         /\ \A c \in Dumped : \/ credited'[c] = credited[c] + (table.conns[c] - Seen(c))
                              \/ credited'[c] = credited[c] /\ c \in missed'
<1> DEFINE delta == [c \in Dumped |-> Delta(c, table.conns[c])]
<1>1. /\ base' = base /\ Credit(Dumped, delta)
      /\ excused' = excused \cup (DOMAIN gone \ (Kept(gone) \cup Dumped))
  BY DEF Update
<1>2. \A c \in Dumped : delta[c] = table.conns[c] - Seen(c) /\ delta[c] \in Nat
  BY SeenBehind DEF Dumped, BytesInv, Types
<1>3. Dumped \subseteq Conns
  BY DEF Dumped, BytesInv, Types
<1>4. ASSUME NEW c \in Kept(gone) \ Dumped PROVE c \in DOMAIN gone'
  <2> DEFINE left == [x \in (DOMAIN prev \ Dumped) \cup (DOMAIN gone \ DOMAIN prev) |->
                        IF x \in DOMAIN prev THEN [bytes |-> prev[x], at |-> now'] ELSE gone[x]]
  <2>1. gone' = [x \in {y \in DOMAIN left : now' - left[y].at <= GoneRetention} \ Dumped |-> left[x]]
    BY DEF Update, Kept
  <2>2. c \in DOMAIN gone \ DOMAIN prev /\ now' - gone[c].at <= GoneRetention
    BY DEF Kept, BytesInv, Places
  <2>3. left[c] = gone[c] /\ c \in DOMAIN left
    BY <2>2
  <2> QED BY <2>1, <2>2, <2>3
<1> HIDE DEF delta
<1>5. /\ credited' \in [Conns -> Nat] /\ missed \subseteq missed'
      /\ \A c \in Conns \ Dumped : credited'[c] = credited[c]
      /\ \A c \in Dumped : \/ credited'[c] = credited[c] + delta[c]
                           \/ credited'[c] = credited[c] /\ c \in missed'
  BY <1>1, <1>2, <1>3, CreditEffect DEF BytesInv
<1> QED BY <1>1, <1>2, <1>4, <1>5

LEMMA UpdateKeeps ==
  ASSUME BytesInv, Update
  PROVE  BytesInv'
<1>1. Dumped \subseteq Conns /\ \A c \in Dumped : table.conns[c] \in Nat /\ table.conns[c] <= bytes[c]
  BY DEF BytesInv, Types, Trails, Dumped
<1>2. credited' \in [Conns -> Nat] /\ base' \in [Conns -> 0..MaxBytes]
  BY UpdateFresh, UpdateLater DEF BytesInv, Types
<1>3. /\ UNCHANGED <<state, bytes, notices>> /\ DOMAIN table'.conns = {} /\ now' = now + 1 /\ fresh' = FALSE
  BY UpdateMoves DEF NoTable, Empty
<1>4. Types'
  <2>1. DOMAIN prev' \subseteq Conns /\ \A c \in DOMAIN prev' : prev'[c] \in Nat
    BY <1>1, UpdateMoves
  <2>2. DOMAIN gone' \subseteq Conns /\ \A c \in DOMAIN gone' : gone'[c].bytes \in Nat /\ gone'[c].at \in 0..now'
    <3> SUFFICES ASSUME NEW c \in DOMAIN gone'
                 PROVE  c \in Conns /\ gone'[c].bytes \in Nat /\ gone'[c].at \in 0..now'
      OBVIOUS
    <3>1. now \in Nat /\ now' = now + 1 /\ c \in DOMAIN prev \cup DOMAIN gone
      BY UpdateMoves DEF BytesInv, Types
    <3>2. CASE c \in DOMAIN prev
      <4>1. gone'[c] = [bytes |-> prev[c], at |-> now'] /\ c \in Conns /\ prev[c] \in Nat
        BY <3>2, UpdateMoves DEF BytesInv, Types
      <4> QED BY <3>1, <4>1
    <3>3. CASE c \notin DOMAIN prev
      <4>1. gone'[c] = gone[c] /\ c \in DOMAIN gone
        BY <3>1, <3>3, UpdateMoves
      <4>2. c \in Conns /\ gone[c].bytes \in Nat /\ gone[c].at \in 0..now
        BY <4>1 DEF BytesInv, Types
      <4> QED BY <3>1, <4>1, <4>2
    <3> QED BY <3>2, <3>3
  <2>3. DOMAIN closed' \subseteq Conns /\ \A c \in DOMAIN closed' : closed'[c] \in 0..now'
    <3> SUFFICES ASSUME NEW c \in DOMAIN closed' PROVE c \in Conns /\ closed'[c] \in 0..now'
      OBVIOUS
    <3>1. c \in DOMAIN closed /\ closed'[c] = closed[c]
      BY UpdateMoves
    <3>2. c \in Conns /\ closed[c] \in 0..now /\ now \in Nat
      BY <3>1 DEF BytesInv, Types
    <3> QED BY <1>3, <3>1, <3>2
  <2>4. state' \in [Conns -> {"none", "up", "half", "destroyed"}] /\ bytes' \in [Conns -> 0..MaxBytes]
        /\ notices' \subseteq Conns
    BY <1>3 DEF BytesInv, Types
  <2>5. now' \in Nat /\ fresh' \in BOOLEAN
    <3>1. now \in Nat
      BY DEF BytesInv, Types
    <3>2. now' \in Nat
      BY <1>3, <3>1
    <3>3. fresh' \in BOOLEAN
      BY <1>3
    <3> QED BY <3>2, <3>3
  <2> QED BY <1>2, <2>4, <2>5, <1>3, <2>1, <2>2, <2>3 DEF BytesInv, Types
<1>5. Places'
  BY <1>3, UpdateMoves DEF BytesInv, Places, Dumped
<1>6. Trails'
  <2>1. \A c \in DOMAIN prev' : prev'[c] <= bytes'[c]
    BY <1>1, <1>3, UpdateMoves
  <2>2. \A c \in DOMAIN gone' : gone'[c].bytes <= bytes'[c]
    <3>1. \A c \in DOMAIN gone' : gone'[c].bytes = IF c \in DOMAIN prev THEN prev[c] ELSE gone[c].bytes
      BY UpdateMoves
    <3> QED BY <1>3, <3>1, UpdateMoves DEF BytesInv, Trails
  <2> QED BY <1>3, <2>1, <2>2 DEF Trails
<1>7. \A c \in Conns : Live(c)' => Live(c)
  BY <1>3 DEF Live
<1>8. CASE fresh
  <2>1. DOMAIN prev = {} /\ DOMAIN gone = {} /\ DOMAIN closed = {} /\ Dumped = DOMAIN table.conns
    BY <1>8 DEF BytesInv, Places, Dumped
  <2>2. DOMAIN gone' = {} /\ DOMAIN closed' = {} /\ DOMAIN prev' = Dumped
    BY <2>1, UpdateMoves
  <2>3. ASSUME NEW c \in Conns \ excused'
        PROVE  /\ c \in Dumped => Told(c)' = table.conns[c]
               /\ c \notin Dumped => Told(c)' = 0
    <3>1. c \notin excused /\ credited'[c] = credited[c] /\ credited[c] \in Nat
          /\ (c \in Dumped \/ credited[c] = 0)
      BY <1>8, UpdateFresh DEF BytesInv, Types
    <3>2. c \in Dumped => credited[c] <= table.conns[c]
      BY <1>8, <2>1, <3>1 DEF BytesInv, Accounted
    <3> QED BY <1>1, <1>8, <3>1, <3>2, UpdateFresh DEF Told
  <2>4. Accounted'
    <3> SUFFICES ASSUME NEW c \in Conns \ excused'
                 PROVE  /\ Told(c)' <= bytes[c]
                        /\ c \in Dumped => Told(c)' <= prev'[c] /\ Told(c)' = prev'[c]
                        /\ c \notin Dumped => Told(c)' = 0
      BY <1>3, <2>2 DEF Accounted
    <3>1. bytes[c] \in Nat
      BY DEF BytesInv, Types
    <3>2. CASE c \in Dumped
      BY <1>1, <2>3, <3>2, UpdateMoves
    <3>3. CASE c \notin Dumped
      BY <2>3, <3>1, <3>3
    <3> QED BY <3>2, <3>3
  <2> QED BY <1>4, <1>5, <1>6, <2>4 DEF BytesInv
<1>9. CASE ~fresh
  <2>1. ASSUME NEW c \in Conns \ excused', c \in Dumped
        PROVE  Told(c)' <= table.conns[c] /\ (c \in missed' \/ Told(c)' = table.conns[c])
    <3>1. c \notin excused /\ c \in DOMAIN table.conns \ DOMAIN closed
      BY <1>9, <2>1, UpdateLater DEF Dumped
    <3>2. Told(c) <= Seen(c) /\ (c \in missed \/ Told(c) = Seen(c))
      BY <1>9, <3>1 DEF BytesInv, Types, Accounted, Seen, Live, Told
    <3>3. Seen(c) \in Nat /\ Seen(c) <= table.conns[c] /\ table.conns[c] \in Nat
      BY <1>1, <2>1, <3>1, SeenBehind DEF BytesInv
    <3>4. base'[c] = base[c] /\ base[c] \in Nat /\ credited[c] \in Nat /\ missed \subseteq missed'
          /\ \/ credited'[c] = credited[c] + (table.conns[c] - Seen(c))
             \/ credited'[c] = credited[c] /\ c \in missed'
      BY <1>9, <2>1, UpdateLater DEF BytesInv, Types
    <3> QED BY <3>2, <3>3, <3>4 DEF Told
  <2>2. ASSUME NEW c \in Conns \ excused', c \notin Dumped
        PROVE  /\ c \notin excused /\ Told(c)' = Told(c)
               /\ missed \subseteq missed'
               /\ c \notin DOMAIN prev' /\ (c \in DOMAIN gone' <=> c \in DOMAIN prev \cup DOMAIN gone)
    <3>1. c \notin excused /\ Told(c)' = Told(c) /\ missed \subseteq missed'
      BY <1>9, <2>2, UpdateLater DEF Told
    <3>2. c \in DOMAIN gone => c \in DOMAIN gone'
      BY <1>9, <2>2, UpdateLater
    <3> QED BY <2>2, <3>1, <3>2, UpdateMoves
  <2>3. ASSUME NEW c \in Conns \ excused', c \in Dumped
        PROVE  /\ Told(c)' <= bytes'[c]
               /\ c \in DOMAIN prev' => Told(c)' <= prev'[c] /\ (c \in missed' \/ Told(c)' = prev'[c])
               /\ c \in DOMAIN prev' /\ c \notin DOMAIN gone' /\ c \notin DOMAIN closed'
    <3>1. Told(c)' \in Int /\ table.conns[c] \in Nat /\ bytes[c] \in Nat /\ table.conns[c] <= bytes[c]
      BY <1>1, <1>2, <2>3 DEF Told, BytesInv, Types
    <3> QED BY <1>3, <2>1, <2>3, <3>1, UpdateMoves DEF Dumped
  <2>4. ASSUME NEW c \in Conns \ excused', c \notin Dumped
        PROVE  /\ Told(c)' <= bytes'[c] /\ c \notin DOMAIN prev'
               /\ c \in DOMAIN gone' => /\ Told(c)' <= gone'[c].bytes
                                        /\ (c \in missed' \/ Told(c)' = gone'[c].bytes)
               /\ c \in DOMAIN closed' \ missed' => Told(c)' = bytes'[c]
               /\ c \notin DOMAIN prev' \cup DOMAIN gone' /\ Live(c)' => Told(c)' = 0
    <3>1. c \in DOMAIN gone' => gone'[c].bytes = IF c \in DOMAIN prev THEN prev[c] ELSE gone[c].bytes
      BY UpdateMoves
    <3> QED BY <1>3, <1>7, <1>9, <2>2, <2>4, <3>1, UpdateMoves DEF BytesInv, Accounted
  <2>5. Accounted'
    BY <1>3, <2>3, <2>4 DEF Accounted
  <2> QED BY <1>4, <1>5, <1>6, <2>5 DEF BytesInv
<1> QED BY <1>8, <1>9

LEMMA BytesInvAlways == OnlineSpec => []BytesInv
<1>1. BytesInv /\ [OnlineNext]_onlineVars => BytesInv'
  <2> SUFFICES ASSUME BytesInv, [OnlineNext]_onlineVars PROVE BytesInv'
    OBVIOUS
  <2>1. ASSUME NEW c \in Conns, Connect(c) \/ Transfer(c) \/ HalfClose(c) \/ Destroy(c) PROVE BytesInv'
    BY <2>1, KernelKeeps
  <2>2. ASSUME NEW c \in Conns, Notice(c) PROVE BytesInv'
    BY <2>2, NoticeFreshKeeps, NoticeKeeps
  <2>3. CASE Dump \/ Update \/ Drain \/ ForgetAll
    BY <2>3, DumpKeeps, UpdateKeeps, DrainKeeps, ForgetAllKeeps
  <2>4. CASE UNCHANGED onlineVars
    BY <2>4 DEF onlineVars, kernel, tracker, onlineTold, BytesInv, Types, Places, Trails, Accounted, Told, Live
  <2> QED BY <2>1, <2>2, <2>3, <2>4 DEF OnlineNext
<1> QED BY InitBytesInv, <1>1, PTL DEF OnlineSpec

-----------------------------------------------------------------------------
(* The table of addresses with bytes not drained yet. *)
PendingBound ==
  /\ pending \subseteq {Address[c] : c \in Conns}
  /\ IsFiniteSet(pending) /\ Cardinality(pending) <= MaxPendingKeys

LEMMA AddressesFinite == IsFiniteSet({Address[c] : c \in Conns})
<1> DEFINE f == [c \in Conns |-> Address[c]]
           T == {Address[c] : c \in Conns}
<1>1. f \in Surjection(Conns, T)
  BY DEF Surjection
<1>2. IsFiniteSet(Conns)
  BY OnlineAssumption DEF OnlineAssumption
<1> HIDE DEF T, f
<1>3. IsFiniteSet(T)
  BY <1>1, <1>2, FS_Surjection
<1> QED BY <1>3 DEF T

(* A full table takes no new address, and no sample overfills it. *)
LEMMA CreditBound ==
  ASSUME PendingBound, NEW set \in SUBSET Conns, NEW delta, Credit(set, delta)
  PROVE  PendingBound'
<1> DEFINE wanted == {Address[c] : c \in {x \in set : delta[x] > 0}} \ pending
           room == IF MaxPendingKeys > Cardinality(pending) THEN MaxPendingKeys - Cardinality(pending) ELSE 0
<1>1. PICK more \in SUBSET wanted :
        /\ Cardinality(more) = (IF Cardinality(wanted) < room THEN Cardinality(wanted) ELSE room)
        /\ pending' = pending \cup more
  BY DEF Credit
<1>2. more \subseteq {Address[c] : c \in Conns} /\ more \cap pending = {}
  OBVIOUS
<1>3. IsFiniteSet(more) /\ Cardinality(more) \in Nat
  BY <1>2, AddressesFinite, FS_Subset, FS_CardinalityType
<1>4. Cardinality(pending) \in Nat /\ MaxPendingKeys \in Nat
  BY FS_CardinalityType, OnlineAssumption DEF PendingBound, OnlineAssumption
<1>5. IsFiniteSet(wanted) /\ Cardinality(wanted) \in Nat
  <2>1. wanted \subseteq {Address[c] : c \in Conns}
    OBVIOUS
  <2> QED BY <2>1, AddressesFinite, FS_Subset, FS_CardinalityType
<1> HIDE DEF wanted
<1>6. Cardinality(more) <= MaxPendingKeys - Cardinality(pending)
  BY <1>1, <1>3, <1>4, <1>5 DEF PendingBound
<1>7. IsFiniteSet(pending') /\ Cardinality(pending') = Cardinality(pending) + Cardinality(more)
  <2>1. Cardinality({}) = 0
    BY FS_EmptySet
  <2>2. IsFiniteSet(pending \cup more)
        /\ Cardinality(pending \cup more) = Cardinality(pending) + Cardinality(more) - Cardinality(pending \cap more)
    BY <1>3, FS_Union DEF PendingBound
  <2>3. Cardinality(pending \cap more) = 0
    <3>1. pending \cap more = {}
      BY <1>2
    <3> QED BY <2>1, <3>1
  <2> HIDE DEF room
  <2> QED BY <1>1, <1>3, <1>4, <2>2, <2>3
<1> QED BY <1>1, <1>2, <1>3, <1>4, <1>6, <1>7 DEF PendingBound

LEMMA PendingBoundAlways == OnlineSpec => []PendingBound
<1>1. OnlineInit => PendingBound
  BY FS_EmptySet, OnlineAssumption DEF OnlineInit, PendingBound, OnlineAssumption
<1>2. BytesInv /\ PendingBound /\ [OnlineNext]_onlineVars => PendingBound'
  <2> SUFFICES ASSUME BytesInv, PendingBound, [OnlineNext]_onlineVars PROVE PendingBound'
    OBVIOUS
  <2>1. CASE UNCHANGED pending
    BY <2>1 DEF PendingBound
  <2>2. ASSUME NEW c \in Conns, Notice(c) PROVE PendingBound'
    <3>1. UNCHANGED pending \/ Credit({c}, [x \in {c} |-> Delta(x, bytes[x])])
      BY <2>2 DEF Notice
    <3> QED BY <2>1, <3>1, CreditBound
  <2>3. CASE Update
    <3>1. UNCHANGED pending \/ Credit(Dumped, [c \in Dumped |-> Delta(c, table.conns[c])])
      BY <2>3 DEF Update
    <3>2. Dumped \subseteq Conns
      BY DEF BytesInv, Types, Dumped
    <3> QED BY <2>1, <3>1, <3>2, CreditBound
  <2>4. CASE pending' = {}
    BY <2>4, <1>1, FS_EmptySet, OnlineAssumption DEF PendingBound, OnlineAssumption
  <2>5. ASSUME NEW c \in Conns, Connect(c) \/ Transfer(c) \/ HalfClose(c) \/ Destroy(c) PROVE UNCHANGED pending
    BY <2>5 DEF Connect, Transfer, HalfClose, Destroy
  <2>6. CASE Dump \/ Drain \/ ForgetAll \/ UNCHANGED onlineVars
    BY <2>1, <2>4, <2>6 DEF Dump, Drain, ForgetAll, onlineVars
  <2> QED BY <2>1, <2>2, <2>3, <2>5, <2>6 DEF OnlineNext
<1> QED BY <1>1, <1>2, BytesInvAlways, PTL DEF OnlineSpec

-----------------------------------------------------------------------------
(* The tracker's counters keep their types, no connection has two bases, and    *)
(* however many addresses come the table of those not drained is never larger   *)
(* than onlinePendingMaxKeys.                                                   *)
THEOREM TrackerTypes == OnlineSpec => []OnlineTypeOK
<1>1. BytesInv /\ PendingBound => OnlineTypeOK
  BY DEF BytesInv, Types, Places, PendingBound, OnlineTypeOK
<1> QED BY <1>1, BytesInvAlways, PendingBoundAlways, PTL

(* In whatever order tables and notices of the kernel arrive, and whatever      *)
(* tables are incomplete and notices lost, no byte of a connection is accounted *)
(* twice, and what the last table or its notice told of it is accounted.        *)
THEOREM EveryByteOnce == OnlineSpec => []BytesOnce
<1>1. BytesInv => BytesOnce
  <2> SUFFICES ASSUME BytesInv PROVE BytesOnce
    OBVIOUS
  <2>1. NoByteTwice
    BY DEF BytesInv, Accounted, Told, NoByteTwice
  <2>2. NoByteMissed
    BY DEF BytesInv, Accounted, Told, NoByteMissed
  <2> QED BY <2>1, <2>2 DEF BytesOnce
<1> QED BY <1>1, BytesInvAlways, PTL

-----------------------------------------------------------------------------
(* Lines that have ended. *)
Done == Written - IF open THEN 1 ELSE 0

(* Where the stored cursor would take a reader up. *)
Origin == IF cursor.head # 0 /\ FirstLine = cursor.head THEN cursor.offset ELSE 0

(* The file holds lines in the order they were written, each at most once. *)
Cell == [line : Nat \ {0}, ends : BOOLEAN]
Filed ==
  /\ time \in Seq(Times) /\ Written <= MaxLines /\ open \in BOOLEAN /\ (open => Written > 0)
  /\ file \in Seq(Cell)
  /\ \A k \in 1..Len(file) : file[k].line \in 1..Written /\ (file[k].ends => file[k].line <= Done)
  /\ \A j, k \in 1..Len(file) : j < k =>
       \/ file[j].line < file[k].line
       \/ file[j].line = file[k].line /\ ~file[j].ends /\ file[k].ends

(* The collector goes on where the cursor it would be given again points to, and *)
(* what it is about to store is what lies behind that place.                      *)
Batches == [at : {"idle", "peek", "store", "commit", "trim"}, next : Nat, lines : SUBSET Lines, head : Nat]
Following ==
  /\ offset \in Nat /\ resumed \in BOOLEAN
  /\ batch \in Batches /\ batch.lines \subseteq 1..Written
  /\ cursor.offset \in Nat /\ cursor.head \in 0..Done
  /\ ~resumed => offset = 0 /\ batch.at = "idle"
  /\ resumed /\ batch.at # "commit" => offset = Origin
  /\ batch.at = "store" =>
       /\ batch.next \in offset + 1..Len(file) /\ file[batch.next].ends
       /\ batch.lines = Whole(offset, batch.next) /\ batch.head = FirstLine /\ batch.head # 0
  /\ batch.at = "commit" => batch.next = Origin /\ offset <= Origin /\ (offset # 0 => file[offset].ends)
  /\ Origin <= Len(file) /\ (Origin # 0 => file[Origin].ends)
  /\ cursor.head = 0 => cursor.offset = 0

(* What lies before that place are rows, what lies behind it is not. *)
StoredOnce ==
  /\ stored \in [Lines -> 0..1]
  /\ \A l \in Whole(0, Origin) : stored[l] = 1 \/ l \in lost
  /\ \A l \in Whole(Origin, Len(file)) : stored[l] = 0
  /\ \A l \in Lines : l > Done => stored[l] = 0

(* A line has one row, also of those the counting has read and somebody deleted *)
(* since.                                                                       *)
Rows ==
  /\ rows \cup gather.rows \subseteq (Nat \ {0}) \X (1..Written)
  /\ IsFiniteSet(rows) /\ IsFiniteSet(gather.rows)
  /\ gather.at \in {"idle", "store"} /\ (gather.at = "store") = (gather.rows # {})
  /\ \A r, s \in rows \cup gather.rows : r[2] = s[2] => r = s
  /\ \A r, s \in rows : r[1] = s[1] => r = s
  /\ \A r \in rows \cup gather.rows : stored[r[2]] = 1

(* What lies before the point is counted, what lies behind it is not; and up to  *)
(* the last row a round has read there are no others, unless they came meanwhile. *)
CountedOnce ==
  /\ point \in Nat \X Nat /\ point[1] \in Times \cup {0}
  /\ counted \in [Lines -> 0..1] /\ \A l \in Lines : counted[l] <= stored[l]
  /\ \A r \in gather.rows : counted[r[2]] = 0 /\ ~Behind(Place(r), point)
  /\ \A r \in rows :
       /\ ~Behind(Place(r), point) => counted[r[2]] = 0
       /\ Behind(Place(r), point) => counted[r[2]] = 1 \/ r[2] \in late
       /\ ~Behind(Place(r), point) /\ (\E g \in gather.rows : Behind(Place(r), Place(g)))
            => r \in gather.rows \/ r[2] \in late

LogInv == Filed /\ Following /\ StoredOnce /\ Rows /\ CountedOnce

-----------------------------------------------------------------------------
(* Finitely many things that are ordered have a greatest: of the sets of what is  *)
(* above one of them, a smallest one is empty.                                  *)
LEMMA Greatest ==
  ASSUME NEW S, IsFiniteSet(S), S # {}, NEW R,
         \A x, y \in S : <<x, y>> \in R \/ <<y, x>> \in R,
         \A x, y, z \in S : <<x, y>> \in R /\ <<y, z>> \in R => <<x, z>> \in R
  PROVE  \E m \in S : \A x \in S : <<x, m>> \in R
<1> DEFINE above(x) == {y \in S : <<y, x>> \notin R}
           aboves == {above(x) : x \in S}
<1>1. aboves \subseteq FiniteSubsetsOf(S) /\ aboves # {}
  <2>1. \A x \in S : above(x) \subseteq S /\ IsFiniteSet(above(x))
    BY FS_Subset
  <2> HIDE DEF above
  <2> QED BY <2>1 DEF FiniteSubsetsOf
<1>2. \E U \in aboves : \A V \in aboves : <<V, U>> \notin StrictSubsetOrdering(S)
  <2> HIDE DEF aboves
  <2> QED BY <1>1, FS_StrictSubsetOrderingWellFounded, WFMin
<1>3. PICK m \in S : \A x \in S : <<above(x), above(m)>> \notin StrictSubsetOrdering(S)
  <2> HIDE DEF above
  <2> QED BY <1>2
<1>4. ASSUME NEW x \in S, <<x, m>> \notin R PROVE FALSE
  <2>1. above(x) \subseteq above(m) /\ x \in above(m) /\ x \notin above(x)
    BY <1>4
  <2>2. <<above(x), above(m)>> \in StrictSubsetOrdering(S)
    BY <2>1 DEF StrictSubsetOrdering
  <2> HIDE DEF above
  <2> QED BY <1>3, <2>2
<1> QED BY <1>4

(* A set of numbers of cells has a first and a last. *)
LEMMA FirstAndLast ==
  ASSUME NEW S, NEW n \in Nat, S \subseteq 1..n, S # {}
  PROVE  (\E m \in S : \A x \in S : m <= x) /\ (\E m \in S : \A x \in S : x <= m)
<1>1. IsFiniteSet(S)
  <2>1. IsFiniteSet(1..n)
    BY FS_Interval, 1 \in Int, n \in Int
  <2> QED BY <2>1, FS_Subset
<1>2. \E m \in S : \A x \in S : m <= x
  <2> DEFINE R == {p \in S \X S : p[2] <= p[1]}
  <2>1. /\ \A x, y \in S : <<x, y>> \in R \/ <<y, x>> \in R
        /\ \A x, y, z \in S : <<x, y>> \in R /\ <<y, z>> \in R => <<x, z>> \in R
    OBVIOUS
  <2> HIDE DEF R
  <2>2. \E m \in S : \A x \in S : <<x, m>> \in R
    BY <1>1, <2>1, Greatest
  <2> QED BY <2>2 DEF R
<1>3. \E m \in S : \A x \in S : x <= m
  <2> DEFINE R == {p \in S \X S : p[1] <= p[2]}
  <2>1. /\ \A x, y \in S : <<x, y>> \in R \/ <<y, x>> \in R
        /\ \A x, y, z \in S : <<x, y>> \in R /\ <<y, z>> \in R => <<x, z>> \in R
    OBVIOUS
  <2> HIDE DEF R
  <2>2. \E m \in S : \A x \in S : <<x, m>> \in R
    BY <1>1, <2>1, Greatest
  <2> QED BY <2>2 DEF R
<1> QED BY <1>2, <1>3

(* FirstLine is the line of the first cell that ends one. *)
LEMMA FirstLineIs ==
  ASSUME Filed
  PROVE  /\ LineEnds(0, Len(file)) = {} => FirstLine = 0
         /\ LineEnds(0, Len(file)) # {} =>
              \E k \in LineEnds(0, Len(file)) :
                (\A j \in LineEnds(0, Len(file)) : k <= j) /\ FirstLine = file[k].line
         /\ FirstLine \in 0..Done /\ (FirstLine = 0 <=> LineEnds(0, Len(file)) = {})
<1> DEFINE ends == LineEnds(0, Len(file))
<1>1. ends = {k \in 1..Len(file) : file[k].ends} /\ Done \in Nat
  BY DEF LineEnds, Filed, Done, Written
<1>2. ends = {} => FirstLine = 0
  BY DEF FirstLine
<1>3. ASSUME ends # {}
      PROVE  \E k \in ends : (\A j \in ends : k <= j) /\ FirstLine = file[k].line
  <2>1. Len(file) \in Nat
    BY DEF Filed
  <2>2. \E k \in ends : \A j \in ends : k <= j
    BY <1>1, <1>3, <2>1, FirstAndLast
  <2>3. FirstLine = file[CHOOSE k \in ends : \A j \in ends : k <= j].line
    BY <1>3 DEF FirstLine
  <2> QED BY <2>2, <2>3
<1>4. \A k \in ends : file[k].line \in 1..Done
  BY <1>1 DEF Filed
<1> HIDE DEF ends
<1> QED
  <2>1. FirstLine \in 0..Done /\ (FirstLine = 0 <=> ends = {})
    BY <1>1, <1>2, <1>3, <1>4
  <2> QED BY <2>1, <1>2, <1>3 DEF ends

(* The file grows: its old cells stay and its first line does once it has one. *)
LEMMA FileGrows ==
  ASSUME Filed, NEW c \in Cell, file' = Append(file, c)
  PROVE  /\ Len(file') = Len(file) + 1 /\ \A k \in 1..Len(file) : file'[k] = file[k]
         /\ file'[Len(file) + 1] = c
         /\ \A from \in Nat, to \in 0..Len(file) : Whole(from, to)' = Whole(from, to)
         /\ FirstLine # 0 => FirstLine' = FirstLine
         /\ FirstLine = 0 => FirstLine' = IF c.ends THEN c.line ELSE 0
<1>1. /\ Len(file') = Len(file) + 1 /\ \A k \in 1..Len(file) : file'[k] = file[k]
      /\ file'[Len(file) + 1] = c /\ Len(file) \in Nat
  BY DEF Filed
<1>2. ASSUME NEW from \in Nat, NEW to \in 0..Len(file) PROVE Whole(from, to)' = Whole(from, to)
  <2>1. \A k \in from + 1..to - 1 : file'[k] = file[k] /\ file'[k + 1] = file[k + 1]
    BY <1>1
  <2> QED BY <2>1 DEF Whole, Half, Rest
<1> DEFINE ends == LineEnds(0, Len(file))
<1>3. ends = {k \in 1..Len(file) : file[k].ends} /\ ends' = {k \in 1..Len(file) + 1 : file'[k].ends}
  BY <1>1 DEF LineEnds
<1>4. ends \subseteq ends' /\ ends' \subseteq ends \cup {Len(file) + 1} /\ (Len(file) + 1 \in ends' <=> c.ends)
  BY <1>1, <1>3
<1>5. FirstLine' = IF ends' = {} THEN 0 ELSE file'[CHOOSE k \in ends' : \A j \in ends' : k <= j].line
  BY DEF FirstLine
<1>6. ASSUME NEW k \in ends', \A j \in ends' : k <= j
      PROVE  FirstLine' = file'[k].line
  <2>1. \A i \in ends' : (\A j \in ends' : i <= j) => i = k
    BY <1>1, <1>3, <1>6
  <2>2. k = CHOOSE i \in ends' : \A j \in ends' : i <= j
    BY <1>6, <2>1
  <2> HIDE DEF ends
  <2> QED BY <1>5, <1>6, <2>2
<1>7. FirstLine # 0 => FirstLine' = FirstLine
  <2> HAVE FirstLine # 0
  <2>1. PICK k \in ends : (\A j \in ends : k <= j) /\ FirstLine = file[k].line
    BY FirstLineIs
  <2>2. k \in ends' /\ \A j \in ends' : k <= j
    BY <1>1, <1>3, <1>4, <2>1
  <2> HIDE DEF ends
  <2>3. FirstLine' = file'[k].line
    BY <1>6, <2>2
  <2> QED BY <2>1, <2>3, <1>1, <1>3
<1>8. FirstLine = 0 => FirstLine' = IF c.ends THEN c.line ELSE 0
  <2> HAVE FirstLine = 0
  <2>1. ends = {}
    BY FirstLineIs
  <2> HIDE DEF ends
  <2>2. CASE c.ends
    <3>1. Len(file) + 1 \in ends' /\ \A j \in ends' : Len(file) + 1 <= j
      BY <2>1, <2>2, <1>1, <1>4
    <3> QED BY <3>1, <1>1, <1>6, <2>2
  <2>3. CASE ~c.ends
    <3>1. ends' = {}
      BY <2>1, <2>3, <1>4
    <3> QED BY <3>1, <1>5, <2>3
  <2> QED BY <2>2, <2>3
<1> QED BY <1>1, <1>2, <1>7, <1>8

(* A place behind which no line is cut in two parts what is read. *)
LEMMA WholeSplit ==
  ASSUME Filed, NEW from \in Nat, NEW mid \in Nat, NEW to \in 0..Len(file), from <= mid, mid <= to,
         mid # 0 => file[mid].ends
  PROVE  /\ Whole(from, to) = Whole(from, mid) \cup Whole(mid, to)
         /\ Whole(from, mid) \cap Whole(mid, to) = {}
         /\ \A l \in Whole(from, to) : l \in Lines /\ l <= Done
<1>1. Len(file) \in Nat /\ Done \in Int
  BY DEF Filed, Done, Written
<1>2. ASSUME NEW l \in Whole(from, to) PROVE l \in Whole(from, mid) \cup Whole(mid, to)
  <2>1. PICK k \in from + 1..to - 1 : file[k] = Half(l) /\ file[k + 1] = Rest(l)
    BY DEF Whole
  <2>2. l \in Lines /\ k # mid
    BY <2>1 DEF Whole, Half
  <2>3. k \in from + 1..mid - 1 \/ k \in mid + 1..to - 1
    BY <2>1, <2>2, <1>1
  <2> QED BY <2>1, <2>2, <2>3 DEF Whole
<1>3. Whole(from, mid) \subseteq Whole(from, to) /\ Whole(mid, to) \subseteq Whole(from, to)
  BY <1>1 DEF Whole
<1>4. ASSUME NEW l \in Whole(from, mid), l \in Whole(mid, to) PROVE FALSE
  <2>1. PICK j \in from + 1..mid - 1 : file[j] = Half(l)
    BY DEF Whole
  <2>2. PICK k \in mid + 1..to - 1 : file[k] = Half(l)
    BY <1>4 DEF Whole
  <2>3. j \in 1..Len(file) /\ k \in 1..Len(file) /\ j < k
    BY <2>1, <2>2, <1>1
  <2>4. file[j].line = l /\ file[k].line = l /\ ~file[k].ends /\ l \in Int
    BY <1>4, <2>1, <2>2 DEF Half, Whole, Lines
  <2> QED BY <2>3, <2>4 DEF Filed
<1>5. ASSUME NEW l \in Whole(from, to) PROVE l \in Lines /\ l <= Done
  <2>1. PICK k \in from + 1..to - 1 : file[k + 1] = Rest(l)
    BY DEF Whole
  <2>2. k + 1 \in 1..Len(file) /\ file[k + 1].ends /\ file[k + 1].line = l
    BY <2>1, <1>1 DEF Rest
  <2> QED BY <2>2 DEF Filed, Whole
<1> QED BY <1>2, <1>3, <1>4, <1>5

(* What the core appends does not move anybody's place in the file. *)
LEMMA AppendKeeps ==
  ASSUME LogInv, NEW c \in Cell, file' = Append(file, c), UNCHANGED <<tailing, tables, stored, lost>>,
         Filed', Written' >= Written,
         \/ c.ends /\ c.line = Done + 1 /\ Done' = Done + 1
         \/ ~c.ends /\ Done' = Done
  PROVE  Following' /\ StoredOnce'
<1> USE DEF LogInv
<1> DEFINE n == Len(file)
<1>1. /\ Len(file') = n + 1 /\ n \in Nat /\ \A k \in 1..n : file'[k] = file[k]
      /\ file'[n + 1] = c
      /\ \A from \in Nat, to \in 0..n : Whole(from, to)' = Whole(from, to)
      /\ FirstLine # 0 => FirstLine' = FirstLine
      /\ FirstLine = 0 => FirstLine' = IF c.ends THEN c.line ELSE 0
  BY FileGrows DEF Filed
<1>2. /\ UNCHANGED <<offset, resumed, batch, cursor, stored, lost>>
      /\ Done \in Int /\ Written \in Nat /\ Written' \in Nat
  BY DEF tailing, tables, Done, Written, Filed
<1>3. Origin \in 0..n /\ Origin' = Origin /\ offset \in 0..n
  BY <1>1, <1>2 DEF Origin, Following
<1>4. Following'
  <2>1. batch.at = "store" => /\ batch.next \in 0..n /\ Whole(offset, batch.next)' = Whole(offset, batch.next)
                              /\ file'[batch.next] = file[batch.next] /\ FirstLine' = FirstLine
    BY <1>1, <1>2, <1>3 DEF Following
  <2>2. (batch.at = "store" =>
           /\ batch.next \in offset + 1..Len(file) /\ file[batch.next].ends
           /\ batch.lines = Whole(offset, batch.next) /\ batch.head = FirstLine /\ batch.head # 0)'
    BY <1>1, <1>2, <1>3, <2>1 DEF Following
  <2>3. /\ (offset \in Nat /\ resumed \in BOOLEAN)'
        /\ (batch \in Batches /\ batch.lines \subseteq 1..Written)'
        /\ (cursor.offset \in Nat /\ cursor.head \in 0..Done)'
    BY <1>2 DEF Following
  <2>4. /\ (Origin <= Len(file) /\ (Origin # 0 => file[Origin].ends))'
        /\ (cursor.head = 0 => cursor.offset = 0)'
    BY <1>1, <1>2, <1>3 DEF Following
  <2>5. (batch.at = "commit" => batch.next = Origin /\ offset <= Origin /\ (offset # 0 => file[offset].ends))'
    BY <1>1, <1>2, <1>3 DEF Following
  <2>6. (~resumed => offset = 0 /\ batch.at = "idle")' /\ (resumed /\ batch.at # "commit" => offset = Origin)'
    BY <1>2, <1>3 DEF Following
  <2> QED BY <2>2, <2>3, <2>4, <2>5, <2>6 DEF Following
<1>5. ASSUME NEW l \in Whole(Origin, Len(file))'
      PROVE  l \in Whole(Origin, n) \/ l > Done
  <2>1. PICK k \in Origin + 1..n : file'[k] = Half(l) /\ file'[k + 1] = Rest(l)
    BY <1>1, <1>3 DEF Whole
  <2>2. CASE k = n
    BY <2>1, <2>2, <1>1, <1>2 DEF Rest
  <2>3. CASE k # n
    BY <2>1, <2>3, <1>1, <1>3 DEF Whole, Half, Rest, Lines
  <2> QED BY <2>2, <2>3
<1>6. StoredOnce'
  <2>1. \A l \in Whole(0, Origin)' : stored[l] = 1 \/ l \in lost
    BY <1>1, <1>3 DEF StoredOnce
  <2>2. \A l \in Whole(Origin, Len(file))' : stored[l] = 0
    BY <1>5 DEF StoredOnce, Whole, Lines
  <2>3. \A l \in Lines : l > Done' => stored[l] = 0
    BY <1>2 DEF StoredOnce, Lines
  <2> QED BY <1>1, <1>2, <1>3, <2>1, <2>2, <2>3 DEF StoredOnce, Lines
<1> QED BY <1>4, <1>6

(* Nor does it change what is counted, which rests as long as rows, point and   *)
(* times do.                                                                    *)
LEMMA CountsRest ==
  ASSUME LogInv, UNCHANGED <<rows, stats, stored, counted>>, late \subseteq late',
         Written' >= Written, Written' \in Nat, \A l \in 1..Written : time'[l] = time[l]
  PROVE  Rows' /\ CountedOnce'
<1>1. \A r \in rows \cup gather.rows : r[2] \in 1..Written /\ Place(r)' = Place(r)
  BY DEF LogInv, Rows, Place
<1>2. UNCHANGED <<rows, gather, point, stored, counted>> /\ Written \in Nat
  BY DEF stats, LogInv, Filed, Written
<1>3. Rows'
  <2>1. 1..Written \subseteq 1..Written'
    BY <1>2
  <2> QED BY <1>2, <2>1 DEF LogInv, Rows
<1>4. CountedOnce'
  BY <1>1, <1>2 DEF LogInv, CountedOnce
<1> QED BY <1>3, <1>4

-----------------------------------------------------------------------------
(* The steps of the core. *)
LEMMA FiledAppend ==
  ASSUME Filed, NEW c \in Cell, file' = Append(file, c), c.line = Written',
         time' \in Seq(Times), Written' <= MaxLines, open' \in BOOLEAN, Written' > 0,
         \/ c.ends /\ Written' = Written /\ Done' = Written /\ Done < Written
         \/ ~c.ends /\ Written' = Written + 1 /\ Done' = Done
  PROVE  Filed'
<1> DEFINE n == Len(file)
<1>1. /\ file' \in Seq(Cell) /\ Len(file') = n + 1 /\ n \in Nat /\ file'[n + 1] = c
      /\ \A k \in 1..n : file'[k] = file[k]
  BY DEF Filed
<1>2. Done \in Int /\ Written \in Nat /\ \A k \in 1..n : file[k].line \in 1..Written /\ (file[k].ends => file[k].line <= Done)
  BY DEF Filed, Done, Written
<1>3. \A j, k \in 1..n : j < k =>
       \/ file[j].line < file[k].line
       \/ file[j].line = file[k].line /\ ~file[j].ends /\ file[k].ends
  BY DEF Filed
<1> HIDE DEF n
<1>4. ASSUME NEW k \in 1..n + 1
      PROVE  file'[k].line \in 1..Written' /\ (file'[k].ends => file'[k].line <= Done')
  <2>1. CASE k = n + 1
    BY <2>1, <1>1, <1>2
  <2>2. CASE k \in 1..n
    BY <2>2, <1>1, <1>2
  <2> QED BY <2>1, <2>2, <1>1
<1>5. ASSUME NEW j \in 1..n + 1, NEW k \in 1..n + 1, j < k
      PROVE  \/ file'[j].line < file'[k].line
             \/ file'[j].line = file'[k].line /\ ~file'[j].ends /\ file'[k].ends
  <2>1. j \in 1..n /\ file'[j] = file[j] /\ file[j].line \in 1..Written /\ (file[j].ends => file[j].line <= Done)
    BY <1>1, <1>2, <1>5
  <2>2. CASE k = n + 1
    <3>1. file[j].ends \in BOOLEAN
      <4>1. file[j] \in Cell
        BY <2>1 DEF Filed, n
      <4> QED BY <4>1 DEF Cell
    <3> QED BY <2>1, <2>2, <1>1, <1>2, <3>1
  <2>3. CASE k \in 1..n
    BY <2>1, <2>3, <1>1, <1>3, <1>5
  <2> QED BY <2>2, <2>3, <1>1
<1> QED BY <1>1, <1>4, <1>5 DEF Filed

LEMMA WriteHalfKeeps ==
  ASSUME LogInv, WriteHalf
  PROVE  LogInv'
<1> USE DEF LogInv
<1>1. PICK t \in Times : time' = Append(time, t)
  BY DEF WriteHalf
<1>2. /\ ~open /\ open' = TRUE /\ Written < MaxLines /\ file' = Append(file, Half(Written + 1))
      /\ UNCHANGED <<tailing, tables, stats, logTold>>
  BY DEF WriteHalf
<1>3. /\ Written \in Nat /\ Written' = Written + 1 /\ time' \in Seq(Times) /\ Done = Written /\ Done' = Written
      /\ \A l \in 1..Written : time'[l] = time[l]
  BY <1>1, <1>2 DEF Filed, Written, Done
<1>4. Half(Written + 1) \in Cell /\ ~Half(Written + 1).ends /\ Half(Written + 1).line = Written + 1
  BY <1>3 DEF Half, Cell
<1>6. Filed'
  BY <1>2, <1>3, <1>4, FiledAppend, AccessLogAssumption DEF Filed, AccessLogAssumption
<1>7. UNCHANGED <<tailing, tables, stored, lost, rows, stats, counted, late>>
  BY <1>2 DEF tables, logTold
<1>8. Following' /\ StoredOnce'
  BY <1>2, <1>3, <1>4, <1>6, <1>7, AppendKeeps
<1>9. Rows' /\ CountedOnce'
  BY <1>3, <1>7, CountsRest
<1> QED BY <1>6, <1>8, <1>9

LEMMA WriteRestKeeps ==
  ASSUME LogInv, WriteRest
  PROVE  LogInv'
<1> USE DEF LogInv
<1>2. /\ open /\ open' = FALSE /\ file' = Append(file, Rest(Written))
      /\ UNCHANGED <<time, tailing, tables, stats, logTold>>
  BY DEF WriteRest
<1>3. Written \in Nat \ {0} /\ Written' = Written /\ Done = Written - 1 /\ Done' = Written
  BY <1>2 DEF Filed, Written, Done
<1>4. Rest(Written) \in Cell /\ Rest(Written).ends /\ Rest(Written).line = Written
  BY <1>3 DEF Rest, Cell
<1>6. Filed'
  <2>1. Filed /\ time' \in Seq(Times) /\ Written' <= MaxLines /\ open' \in BOOLEAN
    BY <1>2, <1>3 DEF Filed
  <2> QED BY <2>1, <1>2, <1>3, <1>4, FiledAppend
<1>7. UNCHANGED <<tailing, tables, stored, lost, rows, stats, counted, late>>
  BY <1>2 DEF tables, logTold
<1>8. Following' /\ StoredOnce'
  BY <1>2, <1>3, <1>4, <1>6, <1>7, AppendKeeps
<1>9. Rows' /\ CountedOnce'
  BY <1>2, <1>3, <1>7, CountsRest
<1> QED BY <1>6, <1>8, <1>9

-----------------------------------------------------------------------------
(* The steps of the collector. *)
LEMMA FileRests ==
  ASSUME UNCHANGED file
  PROVE  FirstLine' = FirstLine /\ \A from, to : Whole(from, to)' = Whole(from, to)
<1>1. LineEnds(0, Len(file))' = LineEnds(0, Len(file))
  BY DEF LineEnds
<1>2. FirstLine' = FirstLine
  <2> DEFINE ends == LineEnds(0, Len(file))
  <2>1. FirstLine = IF ends = {} THEN 0 ELSE file[CHOOSE k \in ends : \A j \in ends : k <= j].line
    BY DEF FirstLine
  <2>2. FirstLine' = IF ends' = {} THEN 0 ELSE file'[CHOOSE k \in ends' : \A j \in ends' : k <= j].line
    BY DEF FirstLine
  <2>3. ends' = ends
    BY <1>1
  <2> HIDE DEF ends
  <2> QED BY <2>1, <2>2, <2>3
<1>3. \A from, to : Whole(from, to)' = Whole(from, to)
  BY DEF Whole, Half, Rest
<1> QED BY <1>2, <1>3

(* The collector's steps that write nothing but its place. *)
LEMMA PlaceMoves ==
  ASSUME LogInv, UNCHANGED <<file, open, time, tables, stats, logTold>>,
         Following'
  PROVE  LogInv'
<1> USE DEF LogInv
<1>1. Filed' /\ Done' = Done /\ Written' = Written /\ Written \in Nat
  BY DEF Filed, Done, Written
<1>2. Origin' = Origin
  BY FileRests DEF Origin, tables
<1>3. StoredOnce'
  <2>1. UNCHANGED <<stored, lost>>
    BY DEF logTold
  <2>2. Whole(0, Origin)' = Whole(0, Origin) /\ Whole(Origin, Len(file))' = Whole(Origin, Len(file))
    BY <1>2, FileRests
  <2> QED BY <1>1, <2>1, <2>2 DEF StoredOnce
<1>4. Rows' /\ CountedOnce'
  <2>1. UNCHANGED <<rows, stats, stored, counted>> /\ late \subseteq late'
    BY DEF logTold, tables
  <2> QED BY <1>1, <2>1, CountsRest
<1> QED BY <1>1, <1>3, <1>4

LEMMA ResumesKeeps ==
  ASSUME LogInv, CollectResumes
  PROVE  LogInv'
<1> USE DEF LogInv
<1>1. UNCHANGED <<file, open, time, tables, stats, logTold>> /\ UNCHANGED cursor
  BY DEF CollectResumes, tables
<1>2. FirstLine' = FirstLine /\ Origin' = Origin /\ Done' = Done /\ Written' = Written
  BY <1>1, FileRests DEF Origin, Done, Written
<1>3. Len(file) \in Nat
  BY DEF Filed
<1>4. /\ batch.at = "idle" /\ batch' = [NoBatch EXCEPT !.at = "peek"] /\ resumed' = TRUE
      /\ offset' = Origin
  BY <1>3 DEF CollectResumes, Following, Resume, Origin
<1>5. batch'.at = "peek" /\ batch'.lines = {} /\ batch' \in Batches
  BY <1>4 DEF NoBatch, Batches
<1>6. Origin \in Nat
  BY DEF Following, Origin
<1>7. Following'
  BY <1>1, <1>2, <1>4, <1>5, <1>6 DEF Following
<1> QED BY <1>1, <1>7, PlaceMoves

LEMMA PeeksKeeps ==
  ASSUME LogInv, CollectPeeks
  PROVE  LogInv'
<1> USE DEF LogInv
<1> DEFINE ends == LineEnds(offset, Least(Len(file), offset + MaxReadCells))
           next == IF ends = {} THEN offset ELSE CHOOSE k \in ends : \A j \in ends : j <= k
<1>1. UNCHANGED <<file, open, time, tables, stats, logTold>> /\ UNCHANGED <<cursor, resumed>>
  BY DEF CollectPeeks, tables
<1>2. FirstLine' = FirstLine /\ Origin' = Origin /\ Done' = Done /\ Written' = Written
  BY <1>1, FileRests DEF Origin, Done, Written
<1>3. /\ Len(file) \in Nat /\ resumed /\ batch.at = "peek" /\ offset = Origin /\ Origin \in 0..Len(file)
      /\ ~(Len(file) < offset)
  BY DEF Filed, CollectPeeks, Following
<1>4. /\ offset' = offset
      /\ batch' = IF next = offset THEN [NoBatch EXCEPT !.at = "trim"]
                  ELSE [at |-> "store", next |-> next, lines |-> Whole(offset, next), head |-> FirstLine]
  BY <1>3 DEF CollectPeeks
<1>5. ends \subseteq {k \in offset + 1..Len(file) : file[k].ends}
  <2>1. Least(Len(file), offset + MaxReadCells) \in Int /\ Least(Len(file), offset + MaxReadCells) <= Len(file)
    BY <1>3, AccessLogAssumption DEF Least, AccessLogAssumption
  <2> QED BY <2>1, <1>3 DEF LineEnds
<1>6. next = offset \/ next \in ends
  <2>1. CASE ends # {}
    <3>1. ends \subseteq 1..Len(file)
      BY <1>3, <1>5
    <3> HIDE DEF ends
    <3>2. \E k \in ends : \A j \in ends : j <= k
      BY <2>1, <1>3, <3>1, FirstAndLast
    <3> QED BY <2>1, <3>2
  <2> QED BY <2>1
<1> HIDE DEF next, ends
<1>7. CASE next = offset
  <2>1. batch'.at = "trim" /\ batch'.lines = {} /\ batch' \in Batches
    BY <1>4, <1>7 DEF NoBatch, Batches
  <2>2. Following'
    BY <1>1, <1>2, <1>3, <1>4, <2>1 DEF Following
  <2> QED BY <1>1, <2>2, PlaceMoves
<1>8. CASE next # offset
  <2>1. /\ batch'.at = "store" /\ batch'.next = next /\ batch'.lines = Whole(offset, next)
        /\ batch'.head = FirstLine
    BY <1>4, <1>8
  <2>2. next \in offset + 1..Len(file) /\ file[next].ends
    BY <1>5, <1>6, <1>8
  <2>3. FirstLine # 0
    <3>1. next \in LineEnds(0, Len(file))
      BY <2>2, <1>3 DEF LineEnds
    <3> QED BY <3>1, FirstLineIs
  <2>4. Whole(offset, next) \subseteq 1..Written
    <3>1. offset \in Nat /\ next \in 0..Len(file) /\ offset <= offset /\ offset <= next
          /\ (offset # 0 => file[offset].ends)
      BY <1>3, <2>2 DEF Following
    <3>2. \A l \in Whole(offset, next) : l \in Lines /\ l <= Done
      BY <3>1, WholeSplit
    <3>3. Done \in Int /\ Done <= Written /\ Written \in Nat
      BY DEF Filed, Done, Written
    <3> QED BY <3>2, <3>3 DEF Lines
  <2>5. Whole(offset, batch.next)' = Whole(offset, next)
    BY <2>1, <1>1, <1>4 DEF Whole, Half, Rest
  <2>6. batch' \in Batches
    <3>1. Whole(offset, next) \in SUBSET Lines /\ FirstLine \in Nat /\ next \in Nat
      BY <1>3, <2>2, FirstLineIs DEF Whole, Filed, Done, Written
    <3> QED BY <3>1, <1>4, <1>8 DEF Batches
  <2>7. Following'
    BY <1>1, <1>2, <1>3, <1>4, <2>1, <2>2, <2>3, <2>4, <2>5, <2>6 DEF Following
  <2> QED BY <1>1, <2>7, PlaceMoves
<1> QED BY <1>7, <1>8

LEMMA StoreFailsKeeps ==
  ASSUME LogInv, CollectStoreFails
  PROVE  LogInv'
<1> USE DEF LogInv
<1>1. /\ UNCHANGED <<file, open, time, tables, stats, logTold>> /\ UNCHANGED <<cursor, resumed, offset>>
      /\ batch.at = "store" /\ batch'.at = "idle" /\ batch'.lines = {} /\ batch' \in Batches
  BY DEF CollectStoreFails, tables, NoBatch, Batches
<1>2. FirstLine' = FirstLine /\ Origin' = Origin /\ Done' = Done /\ Written' = Written
  BY <1>1, FileRests DEF Origin, Done, Written
<1>3. Following'
  BY <1>1, <1>2 DEF Following
<1> QED BY <1>1, <1>3, PlaceMoves

LEMMA CommitsKeeps ==
  ASSUME LogInv, CollectCommits
  PROVE  LogInv'
<1> USE DEF LogInv
<1>1. /\ UNCHANGED <<file, open, time, tables, stats, logTold>> /\ UNCHANGED <<cursor, resumed>>
      /\ batch.at = "commit" /\ offset' = batch.next /\ batch'.at = "trim" /\ batch'.lines = {}
      /\ batch' \in Batches
  BY DEF CollectCommits, tables, NoBatch, Batches
<1>2. FirstLine' = FirstLine /\ Origin' = Origin /\ Done' = Done /\ Written' = Written
  BY <1>1, FileRests DEF Origin, Done, Written
<1>3. Origin \in Nat
  BY DEF Following, Origin
<1>4. Following'
  BY <1>1, <1>2, <1>3 DEF Following
<1> QED BY <1>1, <1>4, PlaceMoves

LEMMA TrimsKeeps ==
  ASSUME LogInv, CollectTrims
  PROVE  LogInv'
<1> USE DEF LogInv
<1>1. /\ UNCHANGED <<open, time, tables, stats, stored, counted, late>> /\ UNCHANGED <<cursor, resumed, rows>>
      /\ batch.at = "trim" /\ batch'.at = "idle" /\ batch'.lines = {} /\ batch' \in Batches
  BY DEF CollectTrims, tables, NoBatch, Batches
<1>2. Done' = Done /\ Written' = Written /\ Written \in Nat /\ Done \in Nat
  BY <1>1 DEF Filed, Done, Written
<1>3. CASE file' = file
  <2>1. UNCHANGED <<file, offset, lost>>
    <3>1. CASE Len(file) > MaxFileCells
      <4>1. file = <<>>
        BY <3>1, <1>3 DEF CollectTrims
      <4>2. Len(file) = 0
        BY <4>1
      <4> QED BY <4>2, <3>1, AccessLogAssumption DEF AccessLogAssumption
    <3> QED BY <3>1 DEF CollectTrims
  <2>2. FirstLine' = FirstLine /\ Origin' = Origin
    BY <1>1, <2>1, FileRests DEF Origin
  <2>3. Following'
    BY <1>1, <1>2, <2>1, <2>2 DEF Following
  <2>4. UNCHANGED <<file, open, time, tables, stats, logTold>>
    BY <1>1, <2>1 DEF logTold
  <2> QED BY <2>3, <2>4, PlaceMoves
<1>4. CASE file' # file
  <2>1. file' = <<>> /\ offset' = 0
    BY <1>4 DEF CollectTrims
  <2>2. Len(file') = 0 /\ file' \in Seq(Cell)
    BY <2>1
  <2>3. Filed'
    BY <1>1, <1>2, <2>2 DEF Filed
  <2>4. FirstLine' = 0 /\ Origin' = 0
    <3>1. LineEnds(0, Len(file))' = {}
      BY <2>2 DEF LineEnds
    <3>2. FirstLine' = 0
      BY <3>1 DEF FirstLine
    <3> QED BY <3>2, <1>1 DEF Origin, Following
  <2>5. Following'
    BY <1>1, <1>2, <2>1, <2>2, <2>4 DEF Following
  <2>6. Whole(0, Origin)' = {} /\ Whole(Origin, Len(file))' = {}
    BY <2>2, <2>4 DEF Whole
  <2>7. StoredOnce'
    BY <1>1, <1>2, <2>6 DEF StoredOnce
  <2>8. Rows' /\ CountedOnce'
    BY <1>1, <1>2, CountsRest
  <2> QED BY <2>3, <2>5, <2>7, <2>8
<1> QED BY <1>3, <1>4

(* What the panel or a round forgets. *)
LEMMA ForgetKeeps ==
  ASSUME LogInv, PanelRestarts \/ AggregateFails
  PROVE  LogInv'
<1> USE DEF LogInv
<1>1. /\ UNCHANGED <<file, open, time, tables, point, logTold>>
      /\ gather' = NoGather
      /\ \/ offset' = 0 /\ resumed' = FALSE /\ batch' = NoBatch
         \/ UNCHANGED <<offset, resumed, batch>>
  BY DEF PanelRestarts, AggregateFails, tailing
<1>2. UNCHANGED <<cursor, rows, stored, counted, late, lost>>
  BY <1>1 DEF tables, logTold
<1>3. /\ FirstLine' = FirstLine /\ Origin' = Origin /\ Done' = Done /\ Written' = Written
      /\ \A from, to : Whole(from, to)' = Whole(from, to)
  BY <1>1, <1>2, FileRests DEF Origin, Done, Written
<1>4. Filed'
  BY <1>1, <1>3 DEF Filed
<1>5. Following'
  <2>1. CASE batch' = NoBatch /\ offset' = 0 /\ resumed' = FALSE
    BY <1>1, <1>2, <1>3, <2>1 DEF Following, NoBatch, Batches
  <2>2. CASE UNCHANGED <<offset, resumed, batch>>
    <3>1. Whole(offset, batch.next)' = Whole(offset, batch.next)
      BY <1>1, <1>3, <2>2 DEF Whole, Half, Rest
    <3> QED BY <1>1, <1>2, <1>3, <2>2, <3>1 DEF Following
  <2> QED BY <1>1, <2>1, <2>2
<1>6. StoredOnce'
  <2>1. Whole(0, Origin)' = Whole(0, Origin) /\ Whole(Origin, Len(file))' = Whole(Origin, Len(file))
    BY <1>1, <1>3
  <2> QED BY <1>2, <1>3, <2>1 DEF StoredOnce
<1>7. gather'.rows = {} /\ gather'.at = "idle" /\ IsFiniteSet({})
  BY <1>1, FS_EmptySet DEF NoGather
<1>8. Rows'
  BY <1>2, <1>3, <1>7 DEF Rows
<1>9. CountedOnce'
  <2>1. \A r \in rows : Place(r)' = Place(r)
    BY <1>1 DEF Place
  <2> QED BY <1>1, <1>2, <1>7, <2>1 DEF CountedOnce
<1> QED BY <1>4, <1>5, <1>6, <1>8, <1>9

-----------------------------------------------------------------------------
(* Places are ordered. *)
LEMMA BehindOrders ==
  ASSUME NEW a \in Nat \X Nat, NEW b \in Nat \X Nat, NEW c \in Nat \X Nat
  PROVE  /\ Behind(a, b) \/ Behind(b, a)
         /\ Behind(a, b) /\ Behind(b, c) => Behind(a, c)
         /\ Behind(a, b) /\ Behind(b, a) => a = b
BY DEF Behind

LEMMA PlaceIs ==
  ASSUME Filed, NEW r \in (Nat \ {0}) \X (1..Written)
  PROVE  Place(r) \in Nat \X Nat /\ Place(r)[1] \in Times /\ Place(r)[2] = r[1]
<1>1. time[r[2]] \in Times /\ r[1] \in Nat
  BY DEF Filed, Written
<1> QED BY <1>1, AccessLogAssumption DEF Place, AccessLogAssumption

(* The last place of some rows is the place of one of them. *)
LEMMA LastPlaceIs ==
  ASSUME Filed, NEW S \in SUBSET ((Nat \ {0}) \X (1..Written)), IsFiniteSet(S), S # {}
  PROVE  \E m \in S : LastPlace(S) = Place(m) /\ \A r \in S : Behind(Place(r), Place(m))
<1> DEFINE R == {p \in S \X S : Behind(Place(p[1]), Place(p[2]))}
<1>1. \A x, y \in S : <<x, y>> \in R <=> Behind(Place(x), Place(y))
  OBVIOUS
<1>2. \A x \in S : Place(x) \in Nat \X Nat
  BY PlaceIs
<1> HIDE DEF R
<1>3. /\ \A x, y \in S : <<x, y>> \in R \/ <<y, x>> \in R
      /\ \A x, y, z \in S : <<x, y>> \in R /\ <<y, z>> \in R => <<x, z>> \in R
  BY <1>1, <1>2, BehindOrders
<1>4. PICK k \in S : \A x \in S : <<x, k>> \in R
  BY <1>3, Greatest
<1>5. Place(k) \in {Place(r) : r \in S} /\ \A r \in S : Behind(Place(r), Place(k))
  BY <1>1, <1>4
<1>6. LastPlace(S) \in {Place(r) : r \in S} /\ \A r \in S : Behind(Place(r), LastPlace(S))
  BY <1>5 DEF LastPlace
<1> QED BY <1>6

(* A round has not reached less than the point or than a row it has read. *)
LEMMA ReachedIs ==
  ASSUME LogInv
  PROVE  /\ Reached \in Nat \X Nat /\ Behind(point, Reached)
         /\ \A g \in gather.rows : Behind(Place(g), Reached)
<1> USE DEF LogInv
<1>1. point \in Nat \X Nat
  BY DEF CountedOnce
<1>2. CASE gather.rows = {}
  BY <1>1, <1>2, BehindOrders DEF Reached
<1>3. CASE gather.rows # {}
  <2>1. gather.rows \in SUBSET ((Nat \ {0}) \X (1..Written)) /\ IsFiniteSet(gather.rows)
    BY DEF Rows
  <2>2. PICK m \in gather.rows : /\ LastPlace(gather.rows) = Place(m)
                                 /\ \A r \in gather.rows : Behind(Place(r), Place(m))
    BY <1>3, <2>1, LastPlaceIs
  <2>3. Place(m) \in Nat \X Nat /\ ~Behind(Place(m), point)
    BY <2>1, PlaceIs DEF CountedOnce
  <2> QED BY <1>1, <1>3, <2>2, <2>3, BehindOrders DEF Reached
<1> QED BY <1>2, <1>3

(* New rows take ids that no row has, and no two of them the same. *)
LEMMA NextIdIs ==
  ASSUME Rows
  PROVE  NextId \in Nat \ {0} /\ \A r \in rows : r[1] < NextId
<1>1. CASE rows = {}
  BY <1>1 DEF NextId
<1>2. CASE rows # {}
  <2> DEFINE R == {p \in rows \X rows : p[1][1] <= p[2][1]}
  <2>1. IsFiniteSet(rows) /\ \A r \in rows : r[1] \in Nat
    BY DEF Rows
  <2>2. /\ \A x, y \in rows : <<x, y>> \in R \/ <<y, x>> \in R
        /\ \A x, y, z \in rows : <<x, y>> \in R /\ <<y, z>> \in R => <<x, z>> \in R
    BY <2>1
  <2>3. \A x, y \in rows : <<x, y>> \in R => x[1] <= y[1]
    OBVIOUS
  <2> HIDE DEF R
  <2>4. PICK m \in rows : \A x \in rows : <<x, m>> \in R
    BY <1>2, <2>1, <2>2, Greatest
  <2> DEFINE n == CHOOSE n \in {r[1] : r \in rows} : \A r \in rows : r[1] <= n
  <2>5. m[1] \in {r[1] : r \in rows} /\ \A r \in rows : r[1] <= m[1]
    BY <2>3, <2>4
  <2>6. n \in {r[1] : r \in rows} /\ \A r \in rows : r[1] <= n
    BY <2>5
  <2>7. NextId = 1 + n
    BY <1>2 DEF NextId
  <2> HIDE DEF n
  <2> QED BY <2>1, <2>6, <2>7
<1> QED BY <1>1, <1>2

LEMMA NumberedIs ==
  ASSUME Filed, Rows, NEW lines \in SUBSET (1..Written)
  PROVE  /\ IsFiniteSet(Numbered(lines)) /\ Numbered(lines) \subseteq (Nat \ {0}) \X lines
         /\ \A r \in Numbered(lines) : \A s \in rows : s[1] # r[1]
         /\ \A r, s \in Numbered(lines) : r[1] = s[1] \/ r[2] = s[2] => r = s
<1> DEFINE before(l) == {m \in lines : m < l}
           id(l) == NextId + Cardinality(before(l))
           f == [l \in lines |-> <<id(l), l>>]
<1>1. IsFiniteSet(lines)
  <2>1. Written \in Int /\ 1 \in Int
    BY DEF Filed, Written
  <2>2. IsFiniteSet(1..Written)
    BY <2>1, FS_Interval
  <2> QED BY <2>2, FS_Subset
<1>2. NextId \in Nat \ {0} /\ \A r \in rows : r[1] < NextId /\ r[1] \in Nat
  BY NextIdIs DEF Rows
<1>3. \A l \in lines : IsFiniteSet(before(l)) /\ Cardinality(before(l)) \in Nat
  BY <1>1, FS_Subset, FS_CardinalityType
<1>4. \A l \in lines : id(l) \in Nat \ {0} /\ NextId <= id(l)
  BY <1>2, <1>3
<1>5. ASSUME NEW k \in lines, NEW l \in lines, k < l PROVE id(k) # id(l)
  <2>1. before(k) \subseteq before(l) /\ k \in before(l) /\ k \notin before(k)
    <3>1. k \in Int /\ l \in Int /\ \A m \in lines : m \in Int
      OBVIOUS
    <3>2. \A m \in lines : m < k => m < l
      BY <1>5, <3>1
    <3>3. ~(k < k)
      BY <3>1
    <3> QED BY <1>5, <3>2, <3>3, Zenon
  <2>2. Cardinality(before(k)) # Cardinality(before(l))
    BY <2>1, <1>3, FS_Subset
  <2> HIDE DEF before
  <2> QED BY <2>2, <1>2, <1>3
<1>6. Numbered(lines) = {<<id(l), l>> : l \in lines}
  BY DEF Numbered
<1> HIDE DEF id
<1>7. IsFiniteSet(Numbered(lines))
  <2>1. f \in Surjection(lines, Numbered(lines))
    BY <1>6 DEF Surjection
  <2> QED BY <1>1, <2>1, FS_Surjection
<1>8. \A k, l \in lines : id(k) = id(l) => k = l
  BY <1>5
<1> QED BY <1>2, <1>4, <1>6, <1>7, <1>8

(* The transaction that stores rows and cursor: the rows are of lines that had   *)
(* none, and those that come before what a round has reached are late.          *)
LEMMA StoresKeeps ==
  ASSUME LogInv, CollectStores
  PROVE  LogInv'
<1> USE DEF LogInv
<1> DEFINE new == Numbered(batch.lines)
           next == batch.next
<1>1. /\ batch.at = "store" /\ rows' = rows \cup new
      /\ late' = late \cup {r[2] : r \in {n \in new : Behind(Place(n), Reached)}}
      /\ stored' = [l \in Lines |-> stored[l] + IF l \in batch.lines THEN 1 ELSE 0]
      /\ cursor' = [offset |-> next, head |-> batch.head] /\ batch' = [batch EXCEPT !.at = "commit"]
      /\ UNCHANGED <<file, open, time, offset, resumed, stats, counted, lost>>
  BY DEF CollectStores, CursorStored
<1>2. /\ batch.lines \subseteq 1..Written /\ resumed /\ offset = Origin /\ offset \in Nat
      /\ next \in offset + 1..Len(file) /\ file[next].ends
      /\ batch.lines = Whole(offset, next) /\ batch.head = FirstLine /\ batch.head # 0
      /\ (offset # 0 => file[offset].ends) /\ Len(file) \in Nat
  BY <1>1 DEF Following, Filed
<1>3. /\ FirstLine' = FirstLine /\ Done' = Done /\ Written' = Written /\ Done <= Written
      /\ Written \in Nat /\ Done \in Nat
      /\ \A from, to : Whole(from, to)' = Whole(from, to)
  BY <1>1, FileRests DEF Done, Written, Filed
<1>4. Filed'
  BY <1>1, <1>3 DEF Filed
<1>5. Origin' = next /\ cursor'.head = FirstLine /\ cursor'.offset = next
  BY <1>1, <1>2, <1>3 DEF Origin
<1>6. batch'.at = "commit" /\ batch'.lines \subseteq 1..Written /\ batch'.next = next /\ batch' \in Batches
  BY <1>1, <1>2 DEF Following, Batches
<1>7. Following'
  <2>1. FirstLine \in 0..Done
    BY FirstLineIs
  <2> QED BY <1>1, <1>2, <1>3, <1>5, <1>6, <2>1 DEF Following
<1>8. /\ Whole(0, next) = Whole(0, offset) \cup batch.lines
      /\ batch.lines \cap Whole(next, Len(file)) = {} /\ Whole(next, Len(file)) \subseteq Whole(offset, Len(file))
      /\ batch.lines \subseteq Whole(offset, Len(file)) /\ batch.lines \subseteq Lines
      /\ \A l \in batch.lines : l <= Done
  <2>0. next \in 0..Len(file) /\ next \in Nat /\ 0 <= offset /\ offset <= next /\ 0 \in Nat
        /\ Len(file) \in 0..Len(file) /\ next <= Len(file)
    BY <1>2
  <2> HIDE DEF next
  <2>1. /\ Whole(0, next) = Whole(0, offset) \cup Whole(offset, next)
        /\ \A l \in Whole(0, next) : l \in Lines /\ l <= Done
    BY <1>2, <2>0, WholeSplit
  <2>2. /\ Whole(offset, Len(file)) = Whole(offset, next) \cup Whole(next, Len(file))
        /\ Whole(offset, next) \cap Whole(next, Len(file)) = {}
    BY <1>2, <2>0, WholeSplit
  <2> QED BY <1>2, <2>1, <2>2
<1>9. \A l \in batch.lines : stored[l] = 0
  BY <1>2, <1>8 DEF StoredOnce
<1> HIDE DEF next
<1>10. StoredOnce'
  <2>1. \A l \in Whole(0, Origin)' : stored'[l] = 1 \/ l \in lost'
    <3>1. Whole(0, Origin)' = Whole(0, next)
      BY <1>3, <1>5
    <3>2. \A l \in Whole(0, offset) : l \in Lines /\ (stored[l] = 1 \/ l \in lost)
      BY <1>2 DEF StoredOnce, Whole
    <3>3. \A l \in Whole(0, offset) \ batch.lines : stored'[l] = stored[l]
      BY <1>1, <3>2 DEF StoredOnce
    <3>4. \A l \in batch.lines : stored'[l] = 1
      BY <1>1, <1>8, <1>9
    <3> QED BY <1>1, <1>8, <3>1, <3>2, <3>3, <3>4
  <2>2. \A l \in Whole(Origin, Len(file))' : stored'[l] = 0
    <3>1. Whole(Origin, Len(file))' = Whole(next, Len(file))
      BY <1>1, <1>3, <1>5
    <3>2. \A l \in Whole(next, Len(file)) : l \in Lines /\ stored[l] = 0 /\ l \notin batch.lines
      BY <1>2, <1>8 DEF StoredOnce, Whole
    <3> QED BY <1>1, <3>1, <3>2
  <2>3. stored' \in [Lines -> 0..1]
    BY <1>1, <1>9 DEF StoredOnce
  <2>4. \A l \in Lines : l > Done => stored'[l] = 0
    BY <1>1, <1>3, <1>8 DEF StoredOnce, Lines
  <2> QED BY <1>3, <2>1, <2>2, <2>3, <2>4 DEF StoredOnce
<1>11. /\ IsFiniteSet(new) /\ new \subseteq (Nat \ {0}) \X batch.lines
       /\ \A r \in new : \A s \in rows : s[1] # r[1]
       /\ \A r, s \in new : r[1] = s[1] \/ r[2] = s[2] => r = s
  BY <1>2, NumberedIs
<1> HIDE DEF new
<1>12. gather' = gather /\ point' = point /\ counted' = counted
  BY <1>1 DEF stats
<1>13. /\ \A r \in rows \cup gather.rows : r[2] \in Lines /\ stored[r[2]] = 1 /\ r[2] \notin batch.lines
       /\ \A r \in rows \cup gather.rows : stored'[r[2]] = 1
       /\ \A r \in new : r[2] \in batch.lines /\ r[2] \in Lines /\ stored'[r[2]] = 1
  <2>1. \A r \in rows \cup gather.rows : r[2] \in 1..Written /\ stored[r[2]] = 1
    BY DEF Rows
  <2>2. 1..Written \subseteq Lines
    BY <1>3, AccessLogAssumption DEF Filed, Lines, AccessLogAssumption
  <2>3. \A r \in rows \cup gather.rows : r[2] \in Lines /\ stored[r[2]] = 1 /\ r[2] \notin batch.lines
    BY <1>9, <2>1, <2>2
  <2>4. \A r \in rows \cup gather.rows : stored'[r[2]] = 1
    BY <1>1, <2>3
  <2>5. \A r \in new : r[2] \in batch.lines /\ r[2] \in Lines /\ stored'[r[2]] = 1
    BY <1>1, <1>8, <1>9, <1>11
  <2> QED BY <2>3, <2>4, <2>5
<1>14. Rows'
  <2>1. rows' \cup gather'.rows \subseteq (Nat \ {0}) \X (1..Written')
    BY <1>1, <1>2, <1>3, <1>11, <1>12 DEF Rows
  <2>2. IsFiniteSet(rows') /\ IsFiniteSet(gather'.rows)
    BY <1>1, <1>11, <1>12, FS_Union DEF Rows
  <2>3. \A r, s \in rows' \cup gather'.rows : r[2] = s[2] => r = s
    BY <1>1, <1>11, <1>12, <1>13 DEF Rows
  <2>4. \A r, s \in rows' : r[1] = s[1] => r = s
    BY <1>1, <1>11 DEF Rows
  <2>5. \A r \in rows' \cup gather'.rows : stored'[r[2]] = 1
    BY <1>1, <1>12, <1>13
  <2> QED BY <1>12, <2>1, <2>2, <2>3, <2>4, <2>5 DEF Rows
<1>15. \A r \in rows \cup gather.rows \cup new : Place(r)' = Place(r)
  BY <1>1 DEF Place
<1>16. CountedOnce'
  <2>1. \A l \in Lines : counted[l] <= stored'[l]
    BY <1>1, <1>9 DEF CountedOnce, StoredOnce
  <2>2. ASSUME NEW r \in new
        PROVE  /\ counted[r[2]] = 0
               /\ Behind(Place(r), point) => r[2] \in late'
               /\ (\E g \in gather.rows : Behind(Place(r), Place(g))) => r[2] \in late'
    <3>1. counted[r[2]] = 0
      BY <1>9, <1>13 DEF CountedOnce
    <3>2. r \in (Nat \ {0}) \X (1..Written)
      BY <1>2, <1>11
    <3>3. Place(r) \in Nat \X Nat
      BY <3>2, PlaceIs
    <3>4. Behind(Place(r), Reached) => r[2] \in late'
      BY <1>1
    <3>5. /\ point \in Nat \X Nat /\ Reached \in Nat \X Nat /\ Behind(point, Reached)
          /\ \A g \in gather.rows : Behind(Place(g), Reached) /\ Place(g) \in Nat \X Nat
      BY ReachedIs, PlaceIs DEF CountedOnce, Rows
    <3>6. Behind(Place(r), point) => Behind(Place(r), Reached)
      BY <3>3, <3>5, BehindOrders
    <3>7. (\E g \in gather.rows : Behind(Place(r), Place(g))) => Behind(Place(r), Reached)
      BY <3>3, <3>5, BehindOrders
    <3> QED BY <3>1, <3>4, <3>6, <3>7
  <2>3. ASSUME NEW r \in rows'
        PROVE  /\ ~Behind(Place(r), point) => counted[r[2]] = 0
               /\ Behind(Place(r), point) => counted[r[2]] = 1 \/ r[2] \in late'
               /\ ~Behind(Place(r), point) /\ (\E g \in gather.rows : Behind(Place(r), Place(g)))
                    => r \in gather.rows \/ r[2] \in late'
    <3>1. CASE r \in new
      BY <3>1, <2>2
    <3>2. CASE r \in rows
      BY <3>2, <1>1 DEF CountedOnce
    <3> QED BY <3>1, <3>2, <1>1
  <2> QED BY <1>1, <1>12, <1>15, <2>1, <2>3 DEF CountedOnce
<1> QED BY <1>4, <1>7, <1>10, <1>14, <1>16

-----------------------------------------------------------------------------
(* A step of the counting moves nothing in the file. *)
LEMMA FileUntouched ==
  ASSUME LogInv, UNCHANGED <<file, open, time, tailing, cursor, stored, lost>>
  PROVE  Filed' /\ Following' /\ StoredOnce' /\ Written' = Written /\ \A r : Place(r)' = Place(r)
<1> USE DEF LogInv
<1>1. UNCHANGED <<offset, resumed, batch>>
  BY DEF tailing
<1>2. /\ FirstLine' = FirstLine /\ Origin' = Origin /\ Done' = Done /\ Written' = Written
      /\ \A from, to : Whole(from, to)' = Whole(from, to)
  BY FileRests DEF Origin, Done, Written
<1>3. Filed'
  BY <1>2 DEF Filed
<1>4. Following'
  <2>1. Whole(offset, batch.next)' = Whole(offset, batch.next)
    BY <1>1 DEF Whole, Half, Rest
  <2> QED BY <1>1, <1>2, <2>1 DEF Following
<1>5. StoredOnce'
  <2>1. Whole(0, Origin)' = Whole(0, Origin) /\ Whole(Origin, Len(file))' = Whole(Origin, Len(file))
    BY <1>2
  <2> QED BY <1>2, <2>1 DEF StoredOnce
<1>6. \A r : Place(r)' = Place(r)
  BY DEF Place
<1> QED BY <1>2, <1>3, <1>4, <1>5, <1>6

(* The first rows behind the point are all there are up to the last of them. *)
LEMMA FirstRowsAre ==
  ASSUME LogInv, Ahead # {}
  PROVE  /\ FirstRows \subseteq Ahead /\ FirstRows # {} /\ IsFiniteSet(FirstRows)
         /\ \A r \in Ahead : (\E g \in FirstRows : Behind(Place(r), Place(g))) => r \in FirstRows
<1> USE DEF LogInv
<1> DEFINE upTo(r) == {o \in Ahead : Behind(Place(o), Place(r))}
           R == {p \in Ahead \X Ahead : Behind(Place(p[2]), Place(p[1]))}
<1>1. Ahead \subseteq rows /\ IsFiniteSet(Ahead)
  BY FS_Subset DEF Ahead, Rows
<1>2. \A r \in Ahead : Place(r) \in Nat \X Nat /\ Place(r)[2] = r[1]
  BY <1>1, PlaceIs DEF Rows
<1>3. \A x, y \in Ahead : <<x, y>> \in R <=> Behind(Place(y), Place(x))
  OBVIOUS
<1>4. \A r \in Ahead : IsFiniteSet(upTo(r)) /\ Cardinality(upTo(r)) \in Nat
  BY <1>1, FS_Subset, FS_CardinalityType
<1>5. FirstRows = {r \in Ahead : Cardinality(upTo(r)) <= BatchSize}
  BY DEF FirstRows
<1>6. FirstRows # {}
  <2> HIDE DEF R
  <2>1. /\ \A x, y \in Ahead : <<x, y>> \in R \/ <<y, x>> \in R
        /\ \A x, y, z \in Ahead : <<x, y>> \in R /\ <<y, z>> \in R => <<x, z>> \in R
    BY <1>2, <1>3, BehindOrders
  <2>2. PICK m \in Ahead : \A x \in Ahead : <<x, m>> \in R
    BY <1>1, <2>1, Greatest
  <2>3. \A x \in Ahead : Behind(Place(x), Place(m)) => x = m
    <3> TAKE x \in Ahead
    <3> HAVE Behind(Place(x), Place(m))
    <3>1. Place(x) = Place(m)
      BY <1>2, <1>3, <2>2, BehindOrders
    <3> QED BY <3>1, <1>1, <1>2 DEF Rows
  <2>4. Behind(Place(m), Place(m))
    BY <1>2, BehindOrders
  <2>5. upTo(m) = {m}
    BY <2>3, <2>4
  <2>6. Cardinality(upTo(m)) = 1
    BY <2>5, FS_Singleton
  <2> QED BY <1>5, <2>6, AccessLogAssumption DEF AccessLogAssumption
<1>7. ASSUME NEW r \in Ahead, NEW g \in FirstRows, Behind(Place(r), Place(g)) PROVE r \in FirstRows
  <2>1. g \in Ahead /\ Cardinality(upTo(g)) <= BatchSize
    BY <1>5
  <2>2. upTo(r) \subseteq upTo(g)
    BY <1>2, <1>7, <2>1, BehindOrders
  <2>3. Cardinality(upTo(r)) <= Cardinality(upTo(g))
    BY <1>4, <2>1, <2>2, FS_Subset
  <2> HIDE DEF upTo
  <2> QED BY <1>4, <1>5, <2>1, <2>3, AccessLogAssumption DEF AccessLogAssumption
<1>8. FirstRows \subseteq Ahead /\ IsFiniteSet(FirstRows)
  BY <1>1, FS_Subset DEF FirstRows
<1> QED BY <1>6, <1>7, <1>8

LEMMA ReadsKeeps ==
  ASSUME LogInv, AggregateReads
  PROVE  LogInv'
<1> USE DEF LogInv
<1>1. /\ Ahead # {} /\ gather.at = "idle" /\ gather' = [at |-> "store", rows |-> FirstRows]
      /\ UNCHANGED <<file, open, time, tailing, cursor, rows, point, stored, counted, lost, late>>
  BY DEF AggregateReads, tables, logTold
<1>2. Filed' /\ Following' /\ StoredOnce' /\ Written' = Written /\ \A r : Place(r)' = Place(r)
  BY <1>1, FileUntouched
<1>3. gather'.at = "store" /\ gather'.rows = FirstRows
  BY <1>1
<1>4. /\ FirstRows \subseteq Ahead /\ FirstRows # {} /\ IsFiniteSet(FirstRows)
      /\ \A r \in Ahead : (\E g \in FirstRows : Behind(Place(r), Place(g))) => r \in FirstRows
  BY <1>1, FirstRowsAre
<1>5. Ahead = {r \in rows : ~Behind(Place(r), point)}
  BY DEF Ahead
<1>6. Rows'
  BY <1>1, <1>2, <1>3, <1>4, <1>5 DEF Rows
<1>7. CountedOnce'
  BY <1>1, <1>2, <1>3, <1>4, <1>5 DEF CountedOnce
<1> QED BY <1>2, <1>6, <1>7

(* The transaction that counts and moves the point: each line has at most one    *)
(* row among those read, and no other row is passed but late ones.              *)
LEMMA AggregateStoresKeeps ==
  ASSUME LogInv, AggregateStores
  PROVE  LogInv'
<1> USE DEF LogInv
<1> DEFINE of(l) == {r \in gather.rows : r[2] = l}
<1>1. /\ gather.at = "store" /\ gather.rows # {} /\ point' = LastPlace(gather.rows) /\ gather' = NoGather
      /\ counted' = [l \in Lines |-> counted[l] + Cardinality(of(l))]
      /\ UNCHANGED <<file, open, time, tailing, cursor, rows, stored, lost, late>>
  BY DEF AggregateStores, Rows, tables
<1>2. Filed' /\ Following' /\ StoredOnce' /\ Written' = Written /\ \A r : Place(r)' = Place(r)
  BY <1>1, FileUntouched
<1>3. gather'.at = "idle" /\ gather'.rows = {} /\ IsFiniteSet({})
  BY <1>1, FS_EmptySet DEF NoGather
<1>4. Rows'
  BY <1>1, <1>2, <1>3 DEF Rows
<1>5. PICK m \in gather.rows : point' = Place(m) /\ \A r \in gather.rows : Behind(Place(r), Place(m))
  BY <1>1, LastPlaceIs DEF Rows
<1>6. /\ Place(m) \in Nat \X Nat /\ Place(m)[1] \in Times /\ point \in Nat \X Nat
      /\ \A r \in rows \cup gather.rows : Place(r) \in Nat \X Nat /\ r[2] \in Lines /\ stored[r[2]] = 1
  <2>1. 1..Written \subseteq Lines
    BY AccessLogAssumption DEF Filed, Lines, Written, AccessLogAssumption
  <2> QED BY <2>1, PlaceIs DEF Rows, CountedOnce
<1>7. ASSUME NEW l \in Lines, of(l) = {} PROVE counted'[l] = counted[l]
  <2>1. Cardinality(of(l)) = 0
    BY <1>7, FS_EmptySet
  <2> HIDE DEF of
  <2> QED BY <2>1, <1>1 DEF CountedOnce
<1>8. ASSUME NEW g \in gather.rows PROVE counted'[g[2]] = 1
  <2>1. of(g[2]) = {g}
    BY DEF Rows
  <2>2. Cardinality(of(g[2])) = 1 /\ counted[g[2]] = 0
    BY <2>1, FS_Singleton DEF CountedOnce
  <2> HIDE DEF of
  <2> QED BY <2>2, <1>1, <1>6
<1>9. \A l \in Lines : of(l) = {} \/ \E g \in gather.rows : l = g[2]
  OBVIOUS
<1> HIDE DEF of
<1>10. counted' \in [Lines -> 0..1] /\ \A l \in Lines : counted'[l] <= stored'[l]
  <2>1. \A l \in Lines : counted'[l] \in 0..1 /\ counted'[l] <= stored[l]
    BY <1>6, <1>7, <1>8, <1>9 DEF CountedOnce
  <2> QED BY <1>1, <2>1
<1>11. ASSUME NEW r \in rows, r \notin gather.rows PROVE counted'[r[2]] = counted[r[2]]
  <2>1. of(r[2]) = {}
    BY <1>11 DEF Rows, of
  <2> QED BY <2>1, <1>6, <1>7
<1>12. ASSUME NEW r \in rows
       PROVE  /\ ~Behind(Place(r), point') => counted'[r[2]] = 0
              /\ Behind(Place(r), point') => counted'[r[2]] = 1 \/ r[2] \in late
  <2>1. CASE r \in gather.rows
    BY <2>1, <1>5, <1>8
  <2>2. CASE r \notin gather.rows
    <3>1. counted'[r[2]] = counted[r[2]]
      BY <2>2, <1>11
    <3>2. Behind(Place(r), point) => Behind(Place(r), point')
      <4>1. ~Behind(Place(m), point)
        BY DEF CountedOnce
      <4> QED BY <4>1, <1>5, <1>6, BehindOrders
    <3> QED BY <2>2, <3>1, <3>2, <1>5 DEF CountedOnce
  <2> QED BY <2>1, <2>2
<1>13. CountedOnce'
  BY <1>1, <1>2, <1>3, <1>5, <1>6, <1>10, <1>12 DEF CountedOnce
<1> QED BY <1>2, <1>4, <1>13

LEMMA DeleteRowKeeps ==
  ASSUME LogInv, DeleteRow
  PROVE  LogInv'
<1> USE DEF LogInv
<1>1. /\ rows' \subseteq rows /\ late \subseteq late'
      /\ UNCHANGED <<file, open, time, tailing, cursor, gather, point, stored, counted, lost>>
  BY DEF DeleteRow, stats
<1>2. Filed' /\ Following' /\ StoredOnce' /\ Written' = Written /\ \A r : Place(r)' = Place(r)
  BY <1>1, FileUntouched
<1>3. Rows'
  BY <1>1, <1>2, FS_Subset DEF Rows
<1>4. CountedOnce'
  BY <1>1, <1>2 DEF CountedOnce
<1> QED BY <1>2, <1>3, <1>4

-----------------------------------------------------------------------------
LEMMA LogStarts == LogInit => LogInv
<1> SUFFICES ASSUME LogInit PROVE LogInv
  OBVIOUS
<1> USE DEF LogInit
<1>1. Len(time) = 0 /\ Len(file) = 0 /\ time \in Seq(Times) /\ file \in Seq(Cell)
  OBVIOUS
<1>2. Written = 0 /\ Done = 0
  BY <1>1 DEF Written, Done
<1>3. Filed
  <2>1. 1..Len(file) = {} /\ Written <= MaxLines /\ open = FALSE
    BY <1>1, <1>2, AccessLogAssumption DEF AccessLogAssumption
  <2> QED BY <1>1, <2>1 DEF Filed
<1>4. Origin = 0 /\ batch.at = "idle" /\ batch.lines = {} /\ batch \in Batches
  <2>1. Origin = 0
    BY DEF Origin
  <2>2. batch.at = "idle" /\ batch.lines = {} /\ batch \in Batches
    BY DEF NoBatch, Batches
  <2> QED BY <2>1, <2>2
<1>5. Following
  <2>1. offset = 0 /\ resumed = FALSE /\ cursor.offset = 0 /\ cursor.head = 0 /\ 0 \in 0..Done
    BY <1>2
  <2> HIDE DEF LogInit
  <2>2. /\ resumed \in BOOLEAN /\ offset \in Nat /\ cursor.offset \in Nat
        /\ batch \in Batches /\ batch.lines \subseteq 1..Written
        /\ cursor.head \in 0..Done
    <3>1. resumed \in BOOLEAN
      BY <2>1, Zenon
    <3>2. offset \in Nat /\ cursor.offset \in Nat
      BY <2>1
    <3>3. batch \in Batches /\ batch.lines \subseteq 1..Written
      BY <1>4
    <3>4. cursor.head \in 0..Done
      BY <2>1
    <3> QED BY <3>1, <3>2, <3>3, <3>4
  <2>3. /\ ~resumed => offset = 0 /\ batch.at = "idle"
        /\ resumed /\ batch.at # "commit" => offset = Origin
        /\ batch.at # "store" /\ batch.at # "commit"
        /\ Origin <= Len(file) /\ ~(Origin # 0)
        /\ cursor.head = 0 => cursor.offset = 0
    BY <1>1, <1>4, <2>1
  <2> QED BY <2>2, <2>3 DEF Following
<1>6. Whole(0, 0) = {}
  BY DEF Whole
<1>7. StoredOnce
  BY <1>1, <1>4, <1>6 DEF StoredOnce
<1>8. Rows
  BY FS_EmptySet DEF Rows, NoGather
<1>9. CountedOnce
  BY DEF CountedOnce, NoGather
<1> QED BY <1>3, <1>5, <1>7, <1>8, <1>9 DEF LogInv

LEMMA LogKeeps == LogInv /\ [LogNext]_logVars => LogInv'
<1> SUFFICES ASSUME LogInv, [LogNext]_logVars PROVE LogInv'
  OBVIOUS
<1>1. CASE WriteHalf \/ WriteRest
  BY <1>1, WriteHalfKeeps, WriteRestKeeps
<1>2. CASE Collecting
  BY <1>2, ResumesKeeps, PeeksKeeps, StoresKeeps, StoreFailsKeeps, CommitsKeeps, TrimsKeeps DEF Collecting
<1>3. CASE AggregateReads \/ AggregateStores \/ DeleteRow
  BY <1>3, ReadsKeeps, AggregateStoresKeeps, DeleteRowKeeps
<1>4. CASE PanelRestarts \/ AggregateFails
  BY <1>4, ForgetKeeps
<1>5. CASE UNCHANGED logVars
  <2>1. UNCHANGED <<file, open, time, tailing, cursor, rows, gather, point, stored, counted, lost, late>>
    BY <1>5 DEF logVars, tables, stats, logTold
  <2>2. Filed' /\ Following' /\ StoredOnce' /\ Written' = Written /\ \A r : Place(r)' = Place(r)
    BY <2>1, FileUntouched
  <2>3. Rows' /\ CountedOnce'
    BY <2>1, <2>2 DEF LogInv, Rows, CountedOnce
  <2> QED BY <2>2, <2>3 DEF LogInv
<1> QED BY <1>1, <1>2, <1>3, <1>4, <1>5 DEF LogNext

LEMMA LogInvCounts == LogInv => EveryLineOnce
<1> SUFFICES ASSUME LogInv PROVE EveryLineOnce
  OBVIOUS
<1> USE DEF LogInv
<1>1. NotTwice
  BY DEF NotTwice, StoredOnce, CountedOnce
<1>2. Len(file) \in Nat /\ Origin \in 0..Len(file) /\ offset \in Nat
  BY DEF Filed, Following, Origin
<1>3. GoesOnFrom \in 0..Origin
  BY <1>2 DEF GoesOnFrom, Following, Origin
<1>4. ReadTo(GoesOnFrom)
  <2>1. Least(GoesOnFrom, Len(file)) = GoesOnFrom
    BY <1>2, <1>3 DEF Least
  <2>2. Whole(0, GoesOnFrom) \subseteq Whole(0, Origin)
    BY <1>2, <1>3 DEF Whole
  <2> QED BY <2>1, <2>2 DEF ReadTo, StoredOnce
<1>5. \A r \in rows : Behind(Place(r), point) => counted[r[2]] = 1 \/ r[2] \in late
  BY DEF CountedOnce
<1> QED BY <1>1, <1>4, <1>5 DEF EveryLineOnce, NotPassedOver

LEMMA LogInvTypes == LogInv => LogTypeOK
<1> SUFFICES ASSUME LogInv PROVE LogTypeOK
  OBVIOUS
<1> USE DEF LogInv
<1>1. Written <= MaxLines /\ \A l \in 1..Written : time[l] \in Times
  BY DEF Filed, Written
<1>2. /\ offset \in Nat /\ resumed \in BOOLEAN /\ batch.at \in {"idle", "peek", "store", "commit", "trim"}
      /\ batch.lines \subseteq Lines
  BY DEF Following, Batches
<1>3. AtLineEnd(offset)
  BY DEF AtLineEnd, Following
<1>4. Cardinality({r[1] : r \in rows}) = Cardinality(rows)
  <2> DEFINE f == [r \in rows |-> r[1]]
             ids == {r[1] : r \in rows}
  <2>1. f \in [rows -> ids] /\ \A i \in ids : \E r \in rows : f[r] = i
    OBVIOUS
  <2>2. \A r, s \in rows : f[r] = f[s] => r = s
    BY DEF Rows
  <2>3. IsFiniteSet(rows)
    BY DEF Rows
  <2> HIDE DEF f, ids
  <2>4. f \in Surjection(rows, ids)
    BY <2>1 DEF Surjection
  <2>5. f \in Injection(rows, ids)
    BY <2>1, <2>2 DEF Injection, IsInjective
  <2>6. Cardinality(ids) = Cardinality(rows)
    BY <2>3, <2>4, <2>5, FS_Surjection
  <2> QED BY <2>6 DEF ids
<1>5. /\ gather.at \in {"idle", "store"} /\ (gather.at = "store") = (gather.rows # {})
      /\ {point[1]} \subseteq Times \cup {0}
  BY DEF Rows, CountedOnce
<1> QED BY <1>1, <1>2, <1>3, <1>4, <1>5 DEF LogTypeOK

-----------------------------------------------------------------------------
(* Variables of the collector and the counting keep their types, ids of rows    *)
(* are unique, and the collector's offset never ends inside a line.             *)
THEOREM LogTypesHold == LogSpec => []LogTypeOK
BY LogStarts, LogKeeps, LogInvTypes, PTL DEF LogSpec

(* However transactions fail and the panel restarts between their steps, a line *)
(* of the log becomes at most one row and is counted at most once, and nothing  *)
(* the collector or the counting has gone past was left out, but for lines that *)
(* were emptied out of the file, and rows deleted or dated before the point.    *)
THEOREM EveryLineCounted == LogSpec => []EveryLineOnce
BY LogStarts, LogKeeps, LogInvCounts, PTL DEF LogSpec
=============================================================================
