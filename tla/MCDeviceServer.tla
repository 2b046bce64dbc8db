--------------------------- MODULE MCDeviceServer ---------------------------
(* TLC instance of DeviceServer: one command of the CLI of each class (k   *)
(* is recorded, u changes a row at a revision, v initializes the Vault, h  *)
(* is simply repeated) and one peer that asks for a status, which it may   *)
(* have, for an administrative method, which it may not, and for one that  *)
(* is unknown.                                                             *)
EXTENDS DeviceServer, TLC

CONSTANTS k, u, v, h, p, q1, q2, q3, r1, r2

MCNeeds == [r \in Commands \cup {q1, q2} |-> IF r = q1 THEN "read" ELSE "admin"]
MCCaps == Owner :> {"read", "admin"} @@ Peer :> {"read"}
MCRosters == 1 :> {{k}} @@ 2 :> {{k}, {u}, {v}, {h}, {p}}
MCExpected == [a \in Revisioned |-> 1]
=============================================================================
