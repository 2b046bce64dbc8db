---------------------------- MODULE MCCodexTurns ----------------------------
(* TLC instance of CodexTurns: two Sessions that share one app-server.     *)
EXTENDS CodexTurns

=============================================================================
