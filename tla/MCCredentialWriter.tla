------------------------- MODULE MCCredentialWriter -------------------------
(* TLC instance of CredentialWriter: two writers, so that a finalizer and a *)
(* stale lease pump of one meet the start of the next.                      *)
EXTENDS CredentialWriter

=============================================================================
