------------------------- MODULE MCApprovalDispatch -------------------------
(* TLC instance of ApprovalDispatch: two Approvals, two keys, the single   *)
(* caller that SessionService.mu admits chosen from two.                   *)
EXTENDS ApprovalDispatch

=============================================================================
