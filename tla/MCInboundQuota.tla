--------------------------- MODULE MCInboundQuota ---------------------------
(***************************************************************************)
(* One inbound (rows of different inbounds meet only in the two statements *)
(* and the loop over rows), a month of two days, a quota of two units; the *)
(* inbound begins due for its monthly reset and expires on day 3.          *)
(***************************************************************************)
EXTENDS InboundQuota

MCRows == {[enable |-> TRUE, marked |-> FALSE, used |-> 0, expiry |-> 3,
            mode |-> "monthly", last |-> 1, cause |-> "none"]}
MCExpiries == {0, 3, 4}
MCRenewalDays == {0, 1}
=============================================================================
