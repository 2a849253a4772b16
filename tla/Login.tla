------------------------------- MODULE Login -------------------------------
(***************************************************************************)
(* Signing in to the panel: the limiter that counts failures per source    *)
(* (web/controller/login_limiter.go), the login request                    *)
(* (web/controller/index.go) and the second factor with its setup, its     *)
(* end and the rescue from the command line                                *)
(* (web/service/two_factor.go, util/totp, web/controller/setting.go,       *)
(* main.go).                                                               *)
(*                                                                         *)
(* Requests run side by side.  The limiter's mutex covers one call of it,  *)
(* twoFactorMu one call of Verify, Enable or Disable, whose database       *)
(* statements are single steps that may fail; the rescue is another        *)
(* process and knows no mutex.                                             *)
(*                                                                         *)
(* The clock counts periods of the authenticator.  A code is the period it *)
(* was made for, NoStep if it was made for none or for another secret;     *)
(* what a request carries is chosen where the code first looks at it.      *)
(***************************************************************************)
EXTENDS Integers, FiniteSets

CONSTANTS
  Clients,      \* goroutines of requests
  Nobody,       \* none of them
  Sources,      \* keys of the limiter: an IPv4 address or a /64
  MaxFailures, Window, LockTime, MaxEntries,   \* the limiter's constants
  Skew,         \* periods a code may be early or late
  MaxClock,     \* bound: periods that pass
  MaxCalls,     \* bound: requests, and rescues
  MaxSlips      \* bound: database statements that fail

ASSUME LoginAssumption ==
  /\ Nobody \notin Clients
  /\ MaxFailures \in Nat \ {0} /\ MaxEntries \in Nat \ {0}
  /\ Window \in Nat /\ LockTime \in Nat /\ Skew \in Nat
  /\ MaxClock \in Nat /\ MaxCalls \in Nat /\ MaxSlips \in Nat

NoStep == 0
Off == 0        \* no secret

VARIABLES
  clock,
  attempts,     \* loginGuard.entries, a partial function of Sources
  secret,       \* twoFactorSecret
  pendingSecret,      \* twoFactorPending
  lastStep,     \* twoFactorLastStep
  made,         \* secrets generated so far: the next one is made + 1
  mu,           \* holder of twoFactorMu
  call,         \* call[c]: where client c's request is, and its local variables
  rescue,       \* keys the rescue has still to clear
  era,          \* history: how often the second factor was switched on
  passed,       \* history: pairs <<era, step>> whose code was accepted
  twice,        \* history: such pairs accepted more than once
  crossed,      \* history: eras that began while a rescue was under way
  budget        \* remaining bounds

limiter == <<attempts>>
factor == <<secret, pendingSecret, lastStep, made>>
told == <<era, passed, twice, crossed>>
loginVars == <<clock, limiter, factor, mu, call, rescue, told, budget>>

NoEntry == [failures |-> 0, windowStart |-> 0, lockedUntil |-> 0]
Idle == [at |-> "idle", src |-> Nobody, era |-> 0, sec |-> Off, step |-> NoStep]
Goes(c, place) == call' = [call EXCEPT ![c].at = place]
Ends(c) == call' = [call EXCEPT ![c] = Idle]

SpendOn(b) == budget[b] > 0 /\ budget' = [budget EXCEPT ![b] = @ - 1]

LoginInit ==
  /\ clock = 1 /\ attempts = [s \in {} |-> NoEntry]
  /\ secret = Off /\ pendingSecret = Off /\ lastStep = NoStep /\ made = 0
  /\ mu = Nobody /\ call = [c \in Clients |-> Idle] /\ rescue = 0
  /\ era = 0 /\ passed = {} /\ twice = {} /\ crossed = {}
  /\ budget = [calls |-> MaxCalls, slips |-> MaxSlips]

Tick ==
  /\ clock < MaxClock /\ clock' = clock + 1
  /\ UNCHANGED <<limiter, factor, mu, call, rescue, told, budget>>

-----------------------------------------------------------------------------
(* The limiter. *)
Blocked(s) == s \in DOMAIN attempts /\ attempts[s].lockedUntil > clock

EvictForgetsLock(table) ==
  [s \in {x \in DOMAIN table : clock - table[x].windowStart <= Window} |-> table[s]]
Evict(table) ==
  [s \in {x \in DOMAIN table : \/ clock <= table[x].lockedUntil
                               \/ clock - table[x].windowStart <= Window} |-> table[s]]
Full(table) == Cardinality(DOMAIN table) >= MaxEntries
Room(s) == IF s \notin DOMAIN attempts /\ Full(attempts) THEN Evict(attempts) ELSE attempts

Counted(e) ==
  LET fresh == clock - e.windowStart > Window
      n     == (IF fresh THEN 0 ELSE e.failures) + 1
  IN  IF n >= MaxFailures
      THEN [failures |-> 0, windowStart |-> clock, lockedUntil |-> clock + LockTime]
      ELSE [e EXCEPT !.failures = n, !.windowStart = IF fresh THEN clock ELSE @]

Fail(s) ==
  LET table == Room(s)
      entry == IF s \in DOMAIN table THEN table[s] ELSE [NoEntry EXCEPT !.windowStart = clock]
  IN  attempts' = IF s \notin DOMAIN table /\ Full(table) THEN table
                  ELSE [x \in DOMAIN table \cup {s} |-> IF x = s THEN Counted(entry) ELSE table[x]]

Reset(s) == attempts' = [x \in DOMAIN attempts \ {s} |-> attempts[x]]

-----------------------------------------------------------------------------
(* IndexController.login: the limiter is asked, then whether there is a second *)
(* factor; password and code follow, and the verdict is recorded at the end.   *)
Arrive(c, s) ==
  /\ call[c] = Idle /\ ~Blocked(s) /\ SpendOn("calls")
  /\ call' = [call EXCEPT ![c].src = s, ![c].at = IF secret = Off THEN "passwordOnly" ELSE "passwordThenCode"]
  /\ UNCHANGED <<clock, limiter, factor, mu, rescue, told>>

CheckUser(c) ==
  /\ call[c].at \in {"passwordOnly", "passwordThenCode"}
  /\ \/ Goes(c, "wrong")
     \/ Goes(c, IF call[c].at = "passwordOnly" THEN "right" ELSE "verify")
  /\ UNCHANGED <<clock, limiter, factor, mu, rescue, told, budget>>

CountFailure(c) ==
  /\ call[c].at = "wrong"
  /\ Fail(call[c].src) /\ Ends(c)
  /\ UNCHANGED <<clock, factor, mu, rescue, told, budget>>

SignIn(c) ==
  /\ call[c].at = "right"
  /\ Reset(call[c].src) /\ Ends(c)
  /\ UNCHANGED <<clock, factor, mu, rescue, told, budget>>

-----------------------------------------------------------------------------
(***************************************************************************)
(* TwoFactorService.Verify.  A request to switch the factor off verifies a *)
(* code as well; it has no source and is not counted.                      *)
(***************************************************************************)
AskToDisable(c) ==
  /\ call[c] = Idle /\ SpendOn("calls")
  /\ Goes(c, "verify")
  /\ UNCHANGED <<clock, limiter, factor, mu, rescue, told>>

Matches(step) == step # NoStep /\ clock - Skew <= step /\ step <= clock + Skew
Codes == {step \in 0..MaxClock + Skew : Matches(step)} \cup {NoStep}

Refuse(c) == IF call[c].src = Nobody THEN Ends(c) ELSE Goes(c, "wrong")

LockFactorForgotten(c, from, to) == call[c].at = from /\ mu' = mu /\ Goes(c, to)
LockFactor(c, from, to) == call[c].at = from /\ mu = Nobody /\ mu' = c /\ Goes(c, to)

VerifyLock(c) ==
  /\ LockFactor(c, "verify", "compare")
  /\ UNCHANGED <<clock, limiter, factor, rescue, told, budget>>

VerifyCompare(c) ==
  /\ call[c].at = "compare"
  /\ \E step \in Codes :
       IF secret # Off /\ Matches(step) /\ (lastStep # NoStep => step > lastStep)
       THEN mu' = mu /\ call' = [call EXCEPT ![c].at = "record", ![c].era = era, ![c].step = step]
       ELSE mu' = Nobody /\ Refuse(c)
  /\ UNCHANGED <<clock, limiter, factor, rescue, told, budget>>

VerifyRecord(c) ==
  /\ call[c].at = "record" /\ mu' = Nobody
  /\ lastStep' = call[c].step
  /\ LET code == <<call[c].era, call[c].step>>
     IN  passed' = passed \cup {code} /\ twice' = IF code \in passed THEN twice \cup {code} ELSE twice
  /\ Goes(c, IF call[c].src = Nobody THEN "disable" ELSE "right")
  /\ UNCHANGED <<clock, limiter, secret, pendingSecret, made, rescue, era, crossed, budget>>

VerifyRecordFails(c) ==
  /\ call[c].at = "record" /\ SpendOn("slips")
  /\ mu' = Nobody /\ Refuse(c)
  /\ UNCHANGED <<clock, limiter, factor, rescue, told>>

-----------------------------------------------------------------------------
(* Begin: no mutex between the question and the write. *)
Begin(c) ==
  /\ call[c] = Idle /\ secret = Off /\ SpendOn("calls")
  /\ Goes(c, "begin")
  /\ UNCHANGED <<clock, limiter, factor, mu, rescue, told>>

SavePending(c) ==
  /\ call[c].at = "begin"
  /\ made' = made + 1 /\ pendingSecret' = made + 1 /\ Ends(c)
  /\ UNCHANGED <<clock, limiter, secret, lastStep, mu, rescue, told, budget>>

(* Enable, from the lock to the match; then the step, the secret, the pending  *)
(* secret are written in this order.                                           *)
EnableMatch(c) ==
  /\ call[c] = Idle /\ mu = Nobody /\ secret = Off /\ pendingSecret # Off /\ SpendOn("calls")
  /\ mu' = c
  /\ \E step \in Codes \ {NoStep} :
       call' = [call EXCEPT ![c].at = "stepFirst", ![c].sec = pendingSecret, ![c].step = step]
  /\ UNCHANGED <<clock, limiter, factor, rescue, told>>

EnableStep(c) ==
  /\ call[c].at = "stepFirst"
  /\ lastStep' = call[c].step /\ Goes(c, "secretNext")
  /\ UNCHANGED <<clock, limiter, secret, pendingSecret, made, mu, rescue, told, budget>>

EnableSecret(c) ==
  /\ call[c].at = "secretNext"
  /\ secret' = call[c].sec /\ Goes(c, "pendingLast")
  /\ era' = era + 1 /\ passed' = passed \cup {<<era + 1, call[c].step>>}
  /\ crossed' = IF rescue # 0 \/ lastStep # call[c].step THEN crossed \cup {era + 1} ELSE crossed
  /\ UNCHANGED <<clock, limiter, pendingSecret, lastStep, made, mu, rescue, twice, budget>>

EnablePending(c) ==
  /\ call[c].at = "pendingLast"
  /\ pendingSecret' = Off /\ mu' = Nobody /\ Ends(c)
  /\ UNCHANGED <<clock, limiter, secret, lastStep, made, rescue, told, budget>>

(* Disable, after Verify: secret, pending secret, step. *)
DisableLock(c) ==
  /\ LockFactor(c, "disable", "clearSecret")
  /\ UNCHANGED <<clock, limiter, factor, rescue, told, budget>>

DisableSecret(c) ==
  /\ call[c].at = "clearSecret"
  /\ secret' = Off /\ Goes(c, "clearPending")
  /\ UNCHANGED <<clock, limiter, pendingSecret, lastStep, made, mu, rescue, told, budget>>

DisablePending(c) ==
  /\ call[c].at = "clearPending"
  /\ pendingSecret' = Off /\ Goes(c, "clearStep")
  /\ UNCHANGED <<clock, limiter, secret, lastStep, made, mu, rescue, told, budget>>

DisableStep(c) ==
  /\ call[c].at = "clearStep"
  /\ lastStep' = NoStep /\ mu' = Nobody /\ Ends(c)
  /\ UNCHANGED <<clock, limiter, secret, pendingSecret, made, rescue, told, budget>>

(* A statement of Enable or Disable fails: the rest is left as it is. *)
Writing == {"stepFirst", "secretNext", "pendingLast", "clearSecret", "clearPending", "clearStep"}
WriteFails(c) ==
  /\ call[c].at \in Writing /\ SpendOn("slips")
  /\ mu' = Nobody /\ Ends(c)
  /\ UNCHANGED <<clock, limiter, factor, rescue, told>>

(* `a-ui setting -disable2fa`: Disable in another process. *)
Rescue ==
  /\ \/ rescue = 0 /\ SpendOn("calls") /\ rescue' = 3 /\ UNCHANGED factor
     \/ rescue = 3 /\ secret' = Off /\ rescue' = 2 /\ UNCHANGED <<pendingSecret, lastStep, made, budget>>
     \/ rescue = 2 /\ pendingSecret' = Off /\ rescue' = 1 /\ UNCHANGED <<secret, lastStep, made, budget>>
     \/ rescue = 1 /\ lastStep' = NoStep /\ rescue' = 0 /\ UNCHANGED <<secret, pendingSecret, made, budget>>
  /\ UNCHANGED <<clock, limiter, mu, call, told>>

-----------------------------------------------------------------------------
Request(c) ==
  \/ \E s \in Sources : Arrive(c, s)
  \/ CheckUser(c) \/ CountFailure(c) \/ SignIn(c)
  \/ AskToDisable(c) \/ VerifyLock(c) \/ VerifyCompare(c) \/ VerifyRecord(c) \/ VerifyRecordFails(c)
  \/ Begin(c) \/ SavePending(c)
  \/ EnableMatch(c) \/ EnableStep(c) \/ EnableSecret(c) \/ EnablePending(c)
  \/ DisableLock(c) \/ DisableSecret(c) \/ DisablePending(c) \/ DisableStep(c) \/ WriteFails(c)

LoginNext == Tick \/ Rescue \/ \E c \in Clients : Request(c)
LoginSpec == LoginInit /\ [][LoginNext]_loginVars

-----------------------------------------------------------------------------
Places == {"idle", "passwordOnly", "passwordThenCode", "wrong", "right", "verify", "compare", "record", "begin", "disable"}
          \cup Writing

(* Every variable has its type, and twoFactorMu is held by the one request that *)
(* is between a lock and an unlock, whichever way it leaves.                    *)
LoginTypeOK ==
  /\ clock \in Nat /\ DOMAIN attempts \subseteq Sources
  /\ \A s \in DOMAIN attempts :
       attempts[s] \in [failures : 0..MaxFailures - 1, windowStart : Nat, lockedUntil : Nat]
  /\ secret \in Nat /\ pendingSecret \in Nat /\ lastStep \in Nat /\ made \in Nat
  /\ mu \in Clients \cup {Nobody}
  /\ call \in [Clients -> [at : Places, src : Sources \cup {Nobody},
                           era : Nat, sec : Nat, step : Nat]]
  /\ rescue \in 0..3 /\ era \in Nat
  /\ passed \subseteq Nat \X Nat /\ twice \subseteq passed /\ crossed \subseteq Nat
  /\ budget \in [{"calls", "slips"} -> Nat]
  /\ \A c \in Clients : (mu = c) = (call[c].at \in Writing \cup {"compare", "record"})

(* One code opens the panel once: neither two requests at the same time nor a   *)
(* statement that failed, nor switching the factor off and on again lets a code *)
(* pass Verify twice, or once after it has switched the factor on.  A rescue    *)
(* from the command line in the middle of switching on is the one exception.    *)
CodeOnce == \A code \in twice : code[1] \in crossed

(* A lock lasts: while it runs no other source's failures push it out of the    *)
(* table and nothing shortens it, except a success of the same source that was  *)
(* let in before.                                                               *)
SignedIn(s) == \E c \in Clients : call[c].at = "right" /\ call[c].src = s /\ call'[c] = Idle
LockHolds ==
  [][\A s \in Sources : Blocked(s) /\ ~SignedIn(s) =>
       s \in DOMAIN attempts' /\ attempts'[s].lockedUntil >= attempts[s].lockedUntil]_limiter
=============================================================================
