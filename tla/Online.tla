------------------------------- MODULE Online -------------------------------
(***************************************************************************)
(* Bytes per source address: onlineTracker (web/service/online.go) adds up *)
(* what two sources tell of a connection, samples of the kernel's          *)
(* connection table and the kernel's notices of destroyed connections,     *)
(* which arrive in any order: a table may have been read before a notice   *)
(* and be accounted after it.                                              *)
(*                                                                         *)
(* The table lists established connections only; reading its IPv6 half may *)
(* fail.  Notices may be lost, and a restart of the panel forgets all.     *)
(* Connections stand for cookies on ports of inbounds; up and down are     *)
(* added up alike, so there is one direction.                              *)
(***************************************************************************)
EXTENDS Integers, FiniteSets

CONSTANTS
  Conns,            \* connections
  Six,              \* those over IPv6
  Address,          \* Address[c]: where c comes from
  MaxBytes,         \* bound: bytes of a connection
  MaxPendingKeys,   \* onlinePendingMaxKeys
  ClosedRetention,  \* onlineClosedRetention and
  GoneRetention,    \* onlineGoneRetention, in samples
  MaxSamples,       \* bound: samples
  MaxFailures6      \* bound: failed readings of the IPv6 table, and restarts of the panel

ASSUME OnlineAssumption ==
  /\ IsFiniteSet(Conns) /\ Six \subseteq Conns /\ DOMAIN Address = Conns
  /\ MaxBytes \in Nat /\ MaxPendingKeys \in Nat /\ MaxSamples \in Nat /\ MaxFailures6 \in Nat
  /\ ClosedRetention \in Nat \ {0} /\ GoneRetention \in Nat \ {0}

VARIABLES
  state,      \* state[c]: "none", "up", "half" (closed on one side: not in the table), "destroyed"
  bytes,      \* bytes[c]: the kernel's counter
  notices,    \* notices on their way to recordClosed
  table,      \* the dump a sample has read and not accounted yet
  prev,       \* counters at the last sample
  gone,       \* counters of those that left the table, and when
  closed,     \* those whose end is accounted, and when
  pending,    \* addresses with bytes not drained yet
  now,        \* samples accounted: the tracker's clock; 0 is "no sample yet"
  fresh,      \* lastSample is zero
  credited,   \* history: what was added for c
  base,       \* history: bytes of c before the panel's first sample that nobody accounted
  excused,    \* history: connections of which no promise is made, see NoByteTwice
  missed,     \* history: connections whose bytes were dropped, see NoByteTwice
  failures    \* remaining bound

kernel  == <<state, bytes>>
tracker == <<prev, gone, closed, now, fresh>>
onlineTold == <<credited, base, excused, missed>>
onlineVars == <<kernel, notices, table, tracker, pending, onlineTold, failures>>

Empty == [c \in {} |-> 0]
NoTable == [read |-> FALSE, conns |-> Empty]
Without(f, c) == [x \in DOMAIN f \ {c} |-> f[x]]

OnlineInit ==
  /\ state = [c \in Conns |-> "none"] /\ bytes = [c \in Conns |-> 0]
  /\ notices = {} /\ table = NoTable
  /\ prev = Empty /\ gone = Empty /\ closed = Empty /\ pending = {}
  /\ now = 0 /\ fresh = TRUE
  /\ credited = [c \in Conns |-> 0] /\ base = [c \in Conns |-> 0]
  /\ excused = {} /\ missed = {}
  /\ failures = MaxFailures6

-----------------------------------------------------------------------------
(* The kernel. *)
Connect(c) ==
  /\ state[c] = "none" /\ state' = [state EXCEPT ![c] = "up"]
  /\ UNCHANGED <<bytes, notices, table, tracker, pending, onlineTold, failures>>

Transfer(c) ==
  /\ state[c] \in {"up", "half"} /\ bytes[c] < MaxBytes
  /\ bytes' = [bytes EXCEPT ![c] = @ + 1]
  /\ UNCHANGED <<state, notices, table, tracker, pending, onlineTold, failures>>

HalfClose(c) ==
  /\ state[c] = "up" /\ state' = [state EXCEPT ![c] = "half"]
  /\ UNCHANGED <<bytes, notices, table, tracker, pending, onlineTold, failures>>

(* Destroyed, with a notice or, when the buffer overflows, without. *)
Destroy(c) ==
  /\ state[c] \in {"up", "half"} /\ state' = [state EXCEPT ![c] = "destroyed"]
  /\ notices' \in {notices, notices \cup {c}}
  /\ UNCHANGED <<bytes, table, tracker, pending, onlineTold, failures>>

-----------------------------------------------------------------------------
(* deltaBytes against the counter at the last sample, or the one kept since the *)
(* connection left the table, or nothing.                                       *)
SeenInLastTable(c) == IF c \in DOMAIN prev THEN prev[c] ELSE 0
Seen(c) == IF c \in DOMAIN prev THEN prev[c]
           ELSE IF c \in DOMAIN gone THEN gone[c].bytes ELSE 0
Delta(c, count) == IF count < Seen(c) THEN count ELSE count - Seen(c)

(* addPendingLocked for the connections of set, delta[c] bytes each: a full     *)
(* table takes no new address.  Which addresses of one sample come first is the *)
(* order of the dump.                                                           *)
Credit(set, delta) ==
  LET paying == {c \in set : delta[c] > 0}
      wanted == {Address[c] : c \in paying} \ pending
      room   == IF MaxPendingKeys > Cardinality(pending) THEN MaxPendingKeys - Cardinality(pending) ELSE 0
      taken(new) == {c \in paying : Address[c] \in pending \cup new}
  IN  \E new \in SUBSET wanted :
        /\ Cardinality(new) = (IF Cardinality(wanted) < room THEN Cardinality(wanted) ELSE room)
        /\ pending' = pending \cup new
        /\ credited' = [c \in Conns |-> credited[c] + IF c \in taken(new) THEN delta[c] ELSE 0]
        /\ missed' = missed \cup (paying \ taken(new))

(* recordClosed. *)
Notice(c) ==
  /\ c \in notices /\ notices' = notices \ {c}
  /\ IF fresh
     THEN /\ missed' = missed \cup {c}
          /\ UNCHANGED <<tracker, pending, credited>>
     ELSE /\ IF c \in DOMAIN closed
             THEN UNCHANGED <<pending, credited, missed, closed>>
             ELSE /\ Credit({c}, [x \in {c} |-> Delta(x, bytes[x])])
                  /\ closed' = [x \in DOMAIN closed \cup {c} |-> IF x = c THEN now ELSE closed[x]]
          /\ prev' = Without(prev, c) /\ gone' = Without(gone, c)
          /\ UNCHANGED <<now, fresh>>
  /\ UNCHANGED <<kernel, table, base, excused, failures>>

(* sample: the table is read, *)
Dump ==
  /\ ~table.read /\ now < MaxSamples
  /\ \E lacks \in {{}, Six} :
       /\ IF lacks = {} THEN failures' = failures ELSE failures > 0 /\ failures' = failures - 1
       /\ LET seen == {c \in Conns \ lacks : state[c] = "up"}
          IN  table' = [read |-> TRUE, conns |-> [c \in seen |-> bytes[c]]]
  /\ UNCHANGED <<kernel, notices, tracker, pending, onlineTold>>

(* and accounted.  The first table after a start is only a base; a connection   *)
(* that is not in it has none.                                                  *)
DumpedAnyway == DOMAIN table.conns
Dumped == DOMAIN table.conns \ DOMAIN closed

Kept(f) == {c \in DOMAIN f : now' - f[c].at <= GoneRetention}
Update ==
  /\ table.read /\ table' = NoTable
  /\ now' = now + 1 /\ fresh' = FALSE
  /\ IF fresh
     THEN /\ base' = [c \in Conns |-> IF c \in Dumped /\ table.conns[c] > credited[c]
                                   THEN table.conns[c] - credited[c] ELSE 0]
          /\ excused' = excused \cup {c \in Conns \ Dumped : credited[c] > 0}
          /\ UNCHANGED <<pending, credited, missed>>
     ELSE /\ Credit(Dumped, [c \in Dumped |-> Delta(c, table.conns[c])])
          /\ excused' = excused \cup (DOMAIN gone \ (Kept(gone) \cup Dumped))
          /\ UNCHANGED base
  /\ LET left == [c \in (DOMAIN prev \ Dumped) \cup (DOMAIN gone \ DOMAIN prev) |->
                    IF c \in DOMAIN prev THEN [bytes |-> prev[c], at |-> now'] ELSE gone[c]]
     IN  gone' = [c \in Kept(left) \ Dumped |-> left[c]]
  /\ closed' = [c \in {x \in DOMAIN closed : now' - closed[x] <= ClosedRetention} |-> closed[c]]
  /\ prev' = [c \in Dumped |-> table.conns[c]]
  /\ UNCHANGED <<kernel, notices, failures>>

(* drainPending, by the sampling for shared accounts. *)
Drain ==
  /\ pending # {} /\ pending' = {}
  /\ UNCHANGED <<kernel, notices, table, tracker, onlineTold, failures>>

(* A restart of the panel: a new tracker, and bytes accounted so far stay so.   *)
ForgetAll ==
  /\ failures > 0 /\ failures' = failures - 1
  /\ prev' = Empty /\ gone' = Empty /\ closed' = Empty /\ pending' = {} /\ fresh' = TRUE
  /\ table' = NoTable /\ missed' = missed \cup notices \cup {c \in Conns : state[c] # "none"}
  /\ notices' = {}
  /\ UNCHANGED <<kernel, now, credited, base, excused>>

-----------------------------------------------------------------------------
OnlineNext ==
  \/ \E c \in Conns : Connect(c) \/ Transfer(c) \/ HalfClose(c) \/ Destroy(c) \/ Notice(c)
  \/ Dump \/ Update \/ Drain \/ ForgetAll
OnlineSpec == OnlineInit /\ [][OnlineNext]_onlineVars

-----------------------------------------------------------------------------
(* Every variable has its type, and no connection has two bases. *)
OnlineTypeOK ==
  /\ state \in [Conns -> {"none", "up", "half", "destroyed"}]
  /\ \A c \in Conns : bytes[c] \in 0..MaxBytes /\ credited[c] \in Nat /\ base[c] \in 0..MaxBytes
  /\ notices \subseteq Conns /\ DOMAIN table.conns \subseteq Conns
  /\ \A c \in DOMAIN gone : gone[c].at <= now
  /\ \A c \in DOMAIN closed : closed[c] <= now
  /\ DOMAIN prev \cap DOMAIN gone = {} /\ (DOMAIN prev \cup DOMAIN gone) \cap DOMAIN closed = {}
  /\ pending \subseteq {Address[c] : c \in Conns} /\ Cardinality(pending) <= MaxPendingKeys

(* No byte is accounted twice, in whatever order samples and notices come, and  *)
(* what the last sample or the notice told of a connection is accounted.        *)
(* Excused are connections that were accounted before a restart of the panel    *)
(* and are not in the first table after it, and those that stay out of the      *)
(* table longer than their counter is kept; and from the second part also those *)
(* whose address the full table refused, that ended before the first sample, or *)
(* that saw a restart.                                                          *)
NoByteTwice == \A c \in Conns \ excused : base[c] + credited[c] <= bytes[c]
NoByteMissed ==
  \A c \in Conns \ (excused \cup missed) :
    /\ c \in DOMAIN prev => base[c] + credited[c] = prev[c]
    /\ c \in DOMAIN closed => base[c] + credited[c] = bytes[c]
BytesOnce == NoByteTwice /\ NoByteMissed
=============================================================================
