-------------------------- MODULE MCControllerLease --------------------------
(* TLC instance of ControllerLease: two clients, a clock that can be set   *)
(* back, and a history of effects short enough to enumerate.               *)
EXTENDS ControllerLease

=============================================================================
