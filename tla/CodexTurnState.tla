--------------------------- MODULE CodexTurnState ---------------------------
(***************************************************************************)
(* The state of the turns and inbound events of one shared                 *)
(* CredentialRuntime (internal/providers/codex/runtime.go), and what must  *)
(* hold of it.  CodexTurns has the steps; CodexRuntimeProofs speaks of     *)
(* this state beside that of the RuntimeManager.                           *)
(***************************************************************************)
VARIABLES
  bound,      \* Sessions with a SessionBinding on the runtime
  state,      \* SessionBinding.state
  active,     \* SessionBinding.ActiveTurnID
  completed,  \* SessionBinding.CompletedTurnID
  retired,    \* CredentialRuntime.Retired: the turn kept for a stopped thread
  inbound,    \* notifications the pump has not routed yet
  request,    \* the request inside SessionService.mu
  server,     \* the app-server's view of each thread
  life,       \* the runtime: "live", "final" after its last release, or
              \* "failed" by failRuntime because of an unroutable event
  exposed     \* history: Sessions released while an event that a retired
              \* thread does not absorb could still come

(* Once the pump has caught up and no request is inside, the turn that a   *)
(* binding believes active is the one the server runs: neither order of    *)
(* answer and notifications leaves a Session busy for ever, and none lets  *)
(* a second turn begin on top of the first.                                *)
TurnsAgree ==
  request.pc = "idle" /\ inbound = <<>> =>
    \A s \in bound : active[s] = server[s].turn

(* With a server that keeps its protocol, an event is unroutable only when *)
(* its thread was released too early: the retired entry absorbs what an    *)
(* interrupted turn still sends, and no order of answers and notifications *)
(* fails the runtime by itself.                                            *)
OnlyExposedFail == life = "failed" => exposed # {}

=============================================================================
