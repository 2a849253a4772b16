------------------------------ MODULE PagePolling ------------------------------
(***************************************************************************)
(* The summary of the routing audit in the side bar of every page: asked   *)
(* for by a timer, when the page becomes visible again and after an        *)
(* operation, so that requests overlap and answers come in any order       *)
(* (routing-audit.js; inbound-attention.js is the same without the stale   *)
(* sign).  An instant is half an interval; a callback runs in the instant  *)
(* it is due while the page is visible.  A failing request is one that is  *)
(* never served, one whose answer is lost or one that meets a login page.  *)
(***************************************************************************)
EXTENDS Naturals, FiniteSets

CONSTANTS Interval, StaleAfter,   \* ROUTING_AUDIT_INTERVAL_MS, ROUTING_AUDIT_STALE_MS
          MaxInstant, MaxAsks, MaxAnswer, MaxWaiting

ASSUME PollingAssumption ==
  /\ Interval \in Nat \ {0} /\ StaleAfter \in Nat /\ StaleAfter >= Interval
  /\ MaxInstant \in Nat /\ MaxAsks \in Nat /\ MaxAnswer \in Nat /\ MaxWaiting \in Nat

VARIABLES instant, hidden,
          tick,                 \* when the timer ran last
          asked, lastApplied,   \* routingAuditSeq, routingAuditAppliedSeq
          waiting,              \* the requests that await their answer
          display,              \* the answer on display, loadedAt, lastAttemptAt, failedAt
          truth,                \* the answer the panel would give now
          due                   \* the least answer the received answers leave room for

pollingVars == <<instant, hidden, tick, asked, lastApplied, waiting, display, truth, due>>

(* A request: the answer it was given, if any, and the one of its sending.   *)
Unserved == 0
Requests == [seq : 1..MaxAsks, answer : 0..MaxAnswer, sent : 1..MaxAnswer]

PollingTypeOK ==
  /\ instant \in Nat /\ tick \in Nat /\ hidden \in BOOLEAN /\ asked \in 0..MaxAsks /\ lastApplied \in 0..asked
  /\ waiting \subseteq Requests /\ truth \in 1..MaxAnswer /\ due \in 0..truth
  /\ display \in [answer : 0..truth, loadedAt : 0..instant, lastAttemptAt : 0..instant, failedAt : 0..instant]

Ask(now) ==
  /\ asked < MaxAsks /\ Cardinality(waiting) < MaxWaiting
  /\ asked' = asked + 1
  /\ waiting' = waiting \cup {[seq |-> asked + 1, answer |-> Unserved, sent |-> truth]}
  /\ display' = [display EXCEPT !.lastAttemptAt = now]

(* mounted: the first request and the timer.                                 *)
PollingInit ==
  /\ instant = 1 /\ tick = 1 /\ hidden = FALSE /\ asked = 1 /\ lastApplied = 0
  /\ truth = 1 /\ due = 0
  /\ waiting = {[seq |-> 1, answer |-> Unserved, sent |-> 1]}
  /\ display = [answer |-> 0, loadedAt |-> 0, lastAttemptAt |-> 1, failedAt |-> 0]

(* The timer runs whenever an interval has gone by; on a hidden page it does   *)
(* nothing (routingAuditTick).                                                 *)
PassTime ==
  /\ instant < MaxInstant /\ instant' = instant + 1
  /\ tick' = IF instant + 1 = tick + Interval THEN instant + 1 ELSE tick
  /\ IF tick' # tick /\ ~hidden THEN Ask(instant + 1) ELSE UNCHANGED <<asked, waiting, display>>
  /\ UNCHANGED <<hidden, lastApplied, truth, due>>

Hide == ~hidden /\ hidden' = TRUE /\ UNCHANGED <<instant, tick, asked, lastApplied, waiting, display, truth, due>>

(* onRoutingAuditVisibility                                                  *)
Show ==
  /\ hidden /\ hidden' = FALSE
  /\ IF instant - display.loadedAt >= Interval THEN Ask(instant) ELSE UNCHANGED <<asked, waiting, display>>
  /\ UNCHANGED <<instant, tick, lastApplied, truth, due>>

(* A rule was saved or verified on this page: refreshRoutingAudit at once.   *)
AfterOperation == ~hidden /\ Ask(instant) /\ UNCHANGED <<instant, hidden, tick, lastApplied, truth, due>>

Changes ==
  /\ truth < MaxAnswer /\ truth' = truth + 1
  /\ UNCHANGED <<instant, hidden, tick, asked, lastApplied, waiting, display, due>>

Serve(r) ==
  /\ r.answer = Unserved /\ waiting' = (waiting \ {r}) \cup {[r EXCEPT !.answer = truth]}
  /\ UNCHANGED <<instant, hidden, tick, asked, lastApplied, display, truth, due>>

(* Mutant: answers are taken as they come.                                   *)
LateNever(r) == FALSE

Late(r) == r.seq <= lastApplied

Max2(a, b) == IF a < b THEN b ELSE a

Receive(r) ==
  /\ r.answer # Unserved /\ waiting' = waiting \ {r}
  /\ due' = Max2(due, r.sent)
  /\ IF Late(r)
     THEN UNCHANGED <<lastApplied, display>>
     ELSE /\ lastApplied' = r.seq
          /\ display' = [display EXCEPT !.answer = r.answer, !.loadedAt = instant]
  /\ UNCHANGED <<instant, hidden, tick, asked, truth>>

AskFails(r) ==
  /\ waiting' = waiting \ {r}
  /\ display' = IF Late(r) THEN display ELSE [display EXCEPT !.failedAt = instant]
  /\ UNCHANGED <<instant, hidden, tick, asked, lastApplied, truth, due>>

PollingNext ==
  \/ PassTime \/ Hide \/ Show \/ AfterOperation \/ Changes
  \/ \E r \in waiting : Serve(r) \/ Receive(r) \/ AskFails(r)

PollingSpec == PollingInit /\ [][PollingNext]_pollingVars

(* routingAuditStale                                                         *)
Stale == display.loadedAt # 0 /\ Max2(display.lastAttemptAt, display.failedAt) - display.loadedAt >= StaleAfter

(* Once an answer has come, what is shown is at least as recent as the sending  *)
(* of its request, and no request that was overtaken takes that back: neither  *)
(* an old verdict nor an old failure is put over a new one (the two counters). *)
NewestShown == display.answer >= due

(* A visible summary that nothing has confirmed for three rounds is grey, even *)
(* if all requests hang.  The comment at ROUTING_AUDIT_STALE_MS promises it    *)
(* after two, which holds only if a failure takes longer than the last success.*)
GreyWhenOld ==
  ~hidden /\ display.loadedAt # 0 /\ instant - display.loadedAt >= StaleAfter + Interval - 1 => Stale

SummaryTold == NewestShown /\ GreyWhenOld
=============================================================================
