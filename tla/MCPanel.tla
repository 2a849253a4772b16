------------------------------- MODULE MCPanel -------------------------------
(***************************************************************************)
(* The parts of the panel that share no state with one another, side by    *)
(* side: a behaviour is one of the part that Init chose, the others rest.  *)
(***************************************************************************)
EXTENDS MCHotDiff, Login, RouteAudit, AccessLog, Online, Concurrency, PanelUpgrade, PagePolling

VARIABLE part

MCAddress == [c \in Conns |-> IF c \in Six THEN "s" ELSE "f"]

(* Either the administrator steps in once or something fails once.           *)
MCBudgets == {[orders |-> 1, faults |-> 0], [orders |-> 0, faults |-> 1]}

Parts == {"diff", "login", "audit", "log", "online", "limit", "upgrade", "polling"}

(* Where the difference rests, there are no configurations.                  *)
AtRest == old = <<>> /\ new = <<>> /\ core = <<>> /\ verdict = "none" /\ todo = <<>>

PanelInit ==
  /\ part \in Parts
  /\ ConcInit /\ (part # "limit" => inb.limit = 0 /\ ordersLeft = 0)
  /\ IF part = "diff" THEN Init ELSE AtRest
  /\ LoginInit /\ AuditInit /\ LogInit /\ OnlineInit /\ PollingInit
  /\ UpgradeInit /\ (part # "upgrade" => panel = CHOOSE v \in Versions \ Routeless : TRUE)

DiffMoves    == Next /\ UNCHANGED <<loginVars, auditVars, logVars, onlineVars, concVars, upgradeVars, pollingVars>>
LoginMoves   == LoginNext /\ UNCHANGED <<vars, auditVars, logVars, onlineVars, concVars, upgradeVars, pollingVars>>
AuditMoves   == AuditNext /\ UNCHANGED <<vars, loginVars, logVars, onlineVars, concVars, upgradeVars, pollingVars>>
LogMoves     == LogNext /\ UNCHANGED <<vars, loginVars, auditVars, onlineVars, concVars, upgradeVars, pollingVars>>
OnlineMoves  == OnlineNext /\ UNCHANGED <<vars, loginVars, auditVars, logVars, concVars, upgradeVars, pollingVars>>
LimitMoves   == ConcNext /\ UNCHANGED <<vars, loginVars, auditVars, logVars, onlineVars, upgradeVars, pollingVars>>
UpgradeMoves == UpgradeNext /\ UNCHANGED <<vars, loginVars, auditVars, logVars, onlineVars, concVars, pollingVars>>
PollingMoves == PollingNext /\ UNCHANGED <<vars, loginVars, auditVars, logVars, onlineVars, concVars, upgradeVars>>

PanelNext ==
  /\ \/ part = "diff" /\ DiffMoves
     \/ part = "login" /\ LoginMoves
     \/ part = "audit" /\ AuditMoves
     \/ part = "log" /\ LogMoves
     \/ part = "online" /\ OnlineMoves
     \/ part = "limit" /\ LimitMoves
     \/ part = "upgrade" /\ UpgradeMoves
     \/ part = "polling" /\ PollingMoves
  /\ UNCHANGED part

PanelSpec ==
  PanelInit /\ [][PanelNext]_<<part, vars, loginVars, auditVars, logVars, onlineVars, concVars, upgradeVars, pollingVars>>

(* Every variable of the part that moves has its type.                       *)
PanelTypeOK ==
  CASE part = "login" -> LoginTypeOK
    [] part = "audit" -> AuditTypeOK
    [] part = "log" -> LogTypeOK
    [] part = "online" -> OnlineTypeOK
    [] part = "limit" -> ConcTypeOK
    [] part = "upgrade" -> UpgradeTypeOK
    [] part = "polling" -> PollingTypeOK
    [] OTHER -> TRUE
=============================================================================
