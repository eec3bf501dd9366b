------------------------- MODULE MCControllerActions -------------------------
(***************************************************************************)
(* ControllerActions for TLC: two approvals of one proposal, a listing, a  *)
(* launch, one or two stop requests and a reset.                           *)
(***************************************************************************)
EXTENDS ControllerActions

CONSTANTS e1, e2, z1, d1, d2, l1, w1, p1

mcKindOf ==
    [r \in Requests |-> CASE r \in {e1, e2} -> "engage"
                          [] r = z1 -> "reset"
                          [] r \in {d1, d2} -> "diagnose"
                          [] r = l1 -> "list"
                          [] r = w1 -> "launch"]
mcProposalOf == [r \in Requests |-> p1]
==============================================================================
