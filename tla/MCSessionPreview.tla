-------------------------- MODULE MCSessionPreview --------------------------
(* TLC instance of SessionPreview: an account with or without a login, a   *)
(* second one migrated or to create, two previews of one client, and       *)
(* requests that retry, change the key, reuse a key and come from another  *)
(* client.                                                                 *)
EXTENDS SessionPreview

CONSTANTS a1, a2, p1, p2, x, y, c1, c2, u1, u2, k1, k2

MCHomes == {[account |-> a1, profile |-> p1, alias |-> x, cred |-> c1],
            [account |-> a2, profile |-> p2, alias |-> None, cred |-> c2],
            [account |-> a1, profile |-> p1, alias |-> x, cred |-> None]}
MCOwner == [v \in Previews |-> u1]
Req(u, k, v) == [client |-> u, key |-> k, preview |-> v, alias |-> x]
MCRequests == {Req(u1, k1, 1), Req(u1, k2, 1), Req(u1, k1, 2), Req(u2, k1, 1)}
=============================================================================
