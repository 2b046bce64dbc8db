------------------------------ MODULE FakeState ------------------------------
(***************************************************************************)
(* The state of the Fake Provider's Sessions, as internal/runtime/         *)
(* manager.go and process.go keep it, and what it promises to a request    *)
(* that has passed the lease check.  FakeRuntime has the steps; the proofs *)
(* of ControllerLeaseProofs speak of this state beside that of the lease.  *)
(***************************************************************************)
CONSTANT Sessions  \* Session IDs

VARIABLES
  status,    \* sessions.status ("none": no row)
  child,     \* the child process of a Session
  asked,     \* the child has been sent a stop request
  process,   \* Manager.processes has an entry
  exits,     \* handleExit calls the observer still has to make
  observer,  \* "off", "idle", or the status handleExit has read
  call,      \* the request inside SessionService.mu
  daemon     \* "up", "closing" (Close has its snapshot) or "down"

(* Every child that was not signalled is one that Stop, Kill and Close can *)
(* still find: it is registered, or the start that spawned it is running.  *)
ChildIsReachable ==
  \A s \in Sessions : child[s] = "alive" => process[s] \/ call.s = s

=============================================================================
