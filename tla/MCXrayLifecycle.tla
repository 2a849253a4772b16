-------------------------- MODULE MCXrayLifecycle --------------------------
(***************************************************************************)
(* One consumer goroutine beside the administrator's, two process slots    *)
(* (the current process and a dying predecessor) and requests that change  *)
(* inbounds with outbounds, outbounds, rules or the metering pool, which   *)
(* the control plane can swap, the static part, or the layout only.        *)
(***************************************************************************)
EXTENDS XrayLifecycle

MCSlots == 1..2
MCEdits == {{"in", "out"}, {"out"}, {"route"}, {"meter"}, {"static"}, {"layout"}}
MCFewEdits == {{"in", "out", "route"}, {"static"}}
=============================================================================
