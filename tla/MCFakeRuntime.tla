---------------------------- MODULE MCFakeRuntime ----------------------------
(* TLC instance of FakeRuntime: two Sessions, so that a request on one     *)
(* meets the exit of the other.                                            *)
EXTENDS FakeRuntime

=============================================================================
