----------------------------- MODULE PanelUpgrade -----------------------------
(***************************************************************************)
(* The upgrade dialog of a page that polls the panel while a systemd unit  *)
(* of its own downloads a release, stops the panel, replaces it and starts *)
(* it again: panel-version.js against panel_version.go and install.sh.     *)
(* One page is modelled; another administrator, a lost connection, a       *)
(* failing step of the script, a crash of the panel and a session that     *)
(* ends while the page waits are troubles, MaxTroubles of them together.     *)
(* Three minutes pass somewhere between the first poll and poll MaxPolls.  *)
(* The dialog cannot be left but from "timeout" and "idle" (common_sider). *)
(***************************************************************************)
EXTENDS Naturals

CONSTANTS Versions,      \* the releases on offer
          Routeless,     \* those too old to answer /server/panelVersion
          Refusing,      \* those that do not accept a session of another release
          Down,          \* no process, or nothing installed
          MaxPolls, MaxTries, MaxTroubles

ASSUME UpgradeAssumption ==
  /\ Routeless \subseteq Versions /\ Refusing \subseteq Versions /\ Down \notin Versions
  /\ MaxPolls \in Nat \ {0} /\ MaxTries \in Nat /\ MaxTroubles \in Nat

VARIABLES panel,      \* the version that serves, or Down
          disk,       \* the version that is installed
          unit,       \* the unit a-ui-update: the version it installs and how far it is
          session,    \* the page's session has not been ended by hand
          issuer,     \* the version that issued it
          loop,       \* where startUpgrade and pollUpgrade wait
          heard,      \* the answer that is on its way to the page
          dialog,     \* upgradeState, upgradeTarget, upgradeSawRestart, upgradeVersionUnverified
          current,    \* panelVersion.current
          polls, tries, troubles,
          from, came, \* the version when this attempt began, and those started since
          meddled     \* another administrator has upgraded since

upgradeVars == <<panel, disk, unit, session, issuer, loop, heard, dialog, current, polls, tries, troubles, from, came, meddled>>
server == <<panel, disk, unit, session, issuer, came>>
page == <<loop, heard, dialog, current, polls>>

UpgradeStates == {"idle", "starting", "restarting", "done", "relogin", "timeout"}
NoUnit == [tag |-> Down, step |-> "idle"]
Nothing == [kind |-> "none", version |-> Down]
Replies == {"none", "reply", "refused", "missing", "lost"}

UpgradeTypeOK ==
  /\ panel \in Versions \cup {Down} /\ disk \in Versions \cup {Down} /\ session \in BOOLEAN /\ issuer \in Versions
  /\ unit \in [tag : Versions \cup {Down}, step : {"idle", "download", "stopped", "unpacked"}]
  /\ loop \in {"none", "posting", "head", "sleeping", "answered"}
  /\ heard \in [kind : Replies, version : Versions \cup {Down}]
  /\ dialog \in [state : UpgradeStates, target : Versions \cup {Down}, saw : BOOLEAN, unverified : BOOLEAN]
  /\ current \in Versions \cup {Down} /\ from \in Versions \cup {Down} /\ came \subseteq Versions
  /\ polls \in 0..MaxPolls /\ tries \in 0..MaxTries /\ troubles \in 0..MaxTroubles /\ meddled \in BOOLEAN

UpgradeInit ==
  /\ panel \in Versions \ Routeless /\ disk = panel /\ current = panel /\ from = panel /\ issuer = panel
  /\ unit = NoUnit /\ session = TRUE /\ loop = "none" /\ heard = Nothing
  /\ dialog = [state |-> "idle", target |-> Down, saw |-> FALSE, unverified |-> FALSE]
  /\ polls = 0 /\ tries = 0 /\ troubles = 0 /\ came = {} /\ meddled = FALSE

Trouble == troubles < MaxTroubles /\ troubles' = troubles + 1

------------------------------------------------------------------------------
(* The page.  Each action runs from one await to the next.                   *)
Leave(state) == dialog' = [dialog EXCEPT !.state = state] /\ loop' = "none"

StartUpgrade(tag) ==
  /\ loop = "none" /\ dialog.state = "idle" /\ tries < MaxTries
  /\ dialog' = [state |-> "starting", target |-> tag, saw |-> FALSE, unverified |-> FALSE]
  /\ loop' = "posting" /\ polls' = 0 /\ tries' = tries + 1
  /\ from' = panel /\ came' = {} /\ meddled' = FALSE
  /\ UNCHANGED <<panel, disk, unit, session, issuer, heard, current, troubles>>

(* checkLogin, and systemd that refuses a second unit of the name (Upgrade). *)
LoggedIn == session /\ (panel \in Refusing => panel = issuer)
UnitAccepts == panel # Down /\ panel \notin Routeless /\ LoggedIn /\ unit = NoUnit

PostUpgrade ==
  /\ loop = "posting"
  /\ \/ /\ UnitAccepts /\ unit' = [tag |-> dialog.target, step |-> "download"]
        /\ \/ loop' = "head" /\ UNCHANGED <<dialog, troubles>>
           \/ Leave("idle") /\ Trouble
     \/ ~UnitAccepts /\ Leave("idle") /\ UNCHANGED <<unit, troubles>>
  /\ UNCHANGED <<panel, disk, session, issuer, heard, current, polls, tries, from, came, meddled>>

TimesOut ==
  /\ loop = "head" /\ polls > 0 /\ Leave("timeout")
  /\ UNCHANGED <<server, heard, current, polls, tries, troubles, from, meddled>>

Sleeps ==
  /\ loop = "head" /\ polls < MaxPolls /\ loop' = "sleeping" /\ polls' = polls + 1
  /\ UNCHANGED <<server, heard, dialog, current, tries, troubles, from, meddled>>

(* What the panel answers to /server/panelVersion: checkLogin comes first    *)
(* where there is such a route, and nobody answers for a stopped panel.      *)
Reply ==
  CASE panel = Down -> [kind |-> "lost", version |-> Down]
    [] panel \in Routeless -> [kind |-> "missing", version |-> Down]
    [] OTHER -> IF LoggedIn THEN [kind |-> "reply", version |-> panel] ELSE [kind |-> "refused", version |-> Down]

Asks ==
  /\ loop = "sleeping" /\ loop' = "answered"
  /\ \/ heard' = Reply /\ UNCHANGED troubles
     \/ panel # Down /\ heard' = [kind |-> "lost", version |-> Down] /\ Trouble
  /\ UNCHANGED <<server, dialog, current, polls, tries, from, meddled>>

(* A mutant: every exception is taken for the 404.                           *)
NotFoundAnyError(answer) == answer.kind \in {"missing", "lost"}

Refused(answer) == answer.kind = "refused"
NotFound(answer) == answer.kind = "missing"
OnTarget(answer) == answer.version = dialog.target

PollUpgrade ==
  /\ loop = "answered" /\ heard' = Nothing
  /\ current' = IF heard.kind = "reply" THEN heard.version ELSE current
  /\ \/ Refused(heard) /\ Leave("relogin")
     \/ heard.kind = "reply" /\ OnTarget(heard) /\ Leave("done")
     \/ /\ heard.kind = "reply" /\ ~OnTarget(heard) /\ loop' = "head"
        /\ dialog' = IF dialog.saw THEN dialog ELSE [dialog EXCEPT !.state = "starting"]
     \/ /\ NotFound(heard) /\ loop' = "none"
        /\ dialog' = [dialog EXCEPT !.state = "done", !.unverified = TRUE]
     \/ /\ ~Refused(heard) /\ ~NotFound(heard) /\ heard.kind # "reply" /\ loop' = "head"
        /\ dialog' = [dialog EXCEPT !.state = "restarting", !.saw = TRUE]
  /\ UNCHANGED <<server, polls, tries, troubles, from, meddled>>

CloseDialog ==
  /\ loop = "none" /\ dialog.state = "timeout" /\ Leave("idle")
  /\ UNCHANGED <<server, heard, current, polls, tries, troubles, from, meddled>>

------------------------------------------------------------------------------
(* The unit a-ui-update: install.sh with the chosen version.                 *)
Script == UNCHANGED <<page, tries, from, meddled, issuer>>

DownloadFails ==
  /\ unit.step = "download" /\ unit' = NoUnit /\ Trouble
  /\ Script /\ UNCHANGED <<panel, disk, session, came>>

StopsPanel ==
  /\ unit.step = "download" /\ unit' = [unit EXCEPT !.step = "stopped"]
  /\ panel' = Down /\ disk' = Down
  /\ Script /\ UNCHANGED <<session, came, troubles>>

(* The result of tar is not looked at: without the files the start fails.    *)
Unpacks ==
  /\ unit.step = "stopped" /\ unit' = [unit EXCEPT !.step = "unpacked"]
  /\ \/ disk' = unit.tag /\ UNCHANGED troubles
     \/ Trouble /\ UNCHANGED disk
  /\ Script /\ UNCHANGED <<panel, session, came>>

StartsPanel ==
  /\ unit.step = "unpacked" /\ unit' = NoUnit
  /\ panel' = disk /\ came' = came \cup ({disk} \ {Down})
  /\ Script /\ UNCHANGED <<disk, session, troubles>>

------------------------------------------------------------------------------
(* What else happens on the server.                                          *)
OtherUpgrades(tag) ==
  /\ panel # Down /\ panel \notin Routeless /\ unit = NoUnit /\ Trouble
  /\ unit' = [tag |-> tag, step |-> "download"] /\ meddled' = TRUE
  /\ UNCHANGED <<panel, disk, session, issuer, came, page, tries, from>>

Crashes ==
  /\ panel # Down /\ unit = NoUnit /\ panel' = Down /\ Trouble
  /\ Script /\ UNCHANGED <<disk, unit, session, came>>

StartedByHand ==
  /\ panel = Down /\ disk # Down /\ unit = NoUnit /\ panel' = disk /\ came' = came \cup {disk}
  /\ Script /\ UNCHANGED <<disk, unit, session, troubles>>

SessionEnds ==
  /\ session /\ session' = FALSE /\ Trouble
  /\ Script /\ UNCHANGED <<panel, disk, unit, came>>

UpgradeNext ==
  \/ \E tag \in Versions : StartUpgrade(tag) \/ OtherUpgrades(tag)
  \/ PostUpgrade \/ TimesOut \/ Sleeps \/ Asks \/ PollUpgrade \/ CloseDialog
  \/ DownloadFails \/ StopsPanel \/ Unpacks \/ StartsPanel
  \/ Crashes \/ StartedByHand \/ SessionEnds

UpgradeSpec == UpgradeInit /\ [][UpgradeNext]_upgradeVars

------------------------------------------------------------------------------
(* The dialog never reports what has not happened, whatever fails, restarts or *)
(* comes late: "done" with a version means that the panel has been started in  *)
(* it since the attempt began (unless it was chosen although it was running),  *)
(* "done" without one that the chosen version was started and cannot be asked, *)
(* "relogin" that a panel was started or the session ended elsewhere.  Another *)
(* administrator's upgrade in between excuses only the second (pollUpgrade).   *)
UpgradeTold ==
  /\ dialog.state = "done" /\ ~dialog.unverified => current = dialog.target /\ dialog.target \in came \cup {from}
  /\ dialog.state = "done" /\ dialog.unverified
       => came # {} /\ (dialog.target \in came \cap Routeless \/ meddled)
  /\ dialog.state = "relogin" => came # {} \/ ~session
=============================================================================
