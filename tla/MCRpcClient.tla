----------------------------- MODULE MCRpcClient -----------------------------
(* TLC instance of RpcClient: the handshake, a call and the answer to a    *)
(* server request, with queues of one.                                     *)
EXTENDS RpcClient

CONSTANTS h, c1, r

MCKind == [o \in Ops |-> CASE o = h -> "handshake" [] o = r -> "respond" [] OTHER -> "call"]
=============================================================================
