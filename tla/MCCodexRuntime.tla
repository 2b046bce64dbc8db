---------------------------- MODULE MCCodexRuntime ----------------------------
(* TLC instances of CodexRuntime: one credential shared by two Sessions.   *)
EXTENDS CodexRuntime

CONSTANTS s1, s2, c1, k1, k2

MCCredentialOf == [s \in Sessions |-> c1]

(* The daemon, whose SessionService.mu lets one caller in, with a crash.   *)
OneCaller == [callers |-> {k1}, sessions |-> Sessions, revision |-> MaxRevision,
              crashes |-> 0]

(* The manager alone: two callers start the same reserved Session, and     *)
(* finalize may move the credential revision.                              *)
TwoCallers == [callers |-> {k1, k2}, sessions |-> {s1}, revision |-> 1,
               crashes |-> MaxCrashes]

MCScenarios == {OneCaller, TwoCallers}
MCOneCaller == {OneCaller}
=============================================================================
