----------------------------- MODULE CodexTurns -----------------------------
(***************************************************************************)
(* Turns and inbound events of one shared CredentialRuntime: Input, Stop,  *)
(* releaseBinding and routeInbound of internal/providers/codex/runtime.go  *)
(* (CodexRuntime has the life of the runtime itself).                      *)
(*                                                                         *)
(* Requests are serialised (SessionService.mu), but the event pump routes  *)
(* notifications beside them: a response is handed to the caller at once,  *)
(* while the notifications written before it may still be in the inbound   *)
(* queue.  The app-server is external; it answers turn/start, notifies     *)
(* turn/started, then deltas and Approval requests, then turn/completed,   *)
(* and emits no new Approval request once turn/interrupt was answered.     *)
(***************************************************************************)
EXTENDS Integers, Sequences, CodexTurnState

CONSTANTS
  Sessions,  \* Sessions bound to the runtime, one thread each
  None,      \* no Session
  MaxTurns,  \* bound: turns per thread
  MaxQueue   \* bound: notifications waiting for the pump

ASSUME TurnsAssumption ==
  /\ None \notin Sessions
  /\ MaxTurns \in Nat /\ MaxQueue \in Nat

vars == <<bound, state, active, completed, retired, inbound, request, server,
          life, exposed>>

NoTurn == 0
Starting == -1
Turns == 1..MaxTurns

Methods == {"thread/started", "turn/started", "delta", "approval", "turn/completed"}
Event == [method: Methods, s: Sessions, turn: Turns \cup {NoTurn}]

(* On the server: the running turn, the number of turns so far, and        *)
(* whether the running turn was interrupted.                               *)
Thread == [started: BOOLEAN, turn: Turns \cup {NoTurn}, last: 0..MaxTurns,
           interrupted: BOOLEAN]

PCs == {"idle", "call", "answer", "interrupt", "release"}

Idle == [pc |-> "idle", s |-> None, turn |-> NoTurn, kill |-> FALSE]

Init ==
  /\ bound = {}
  /\ state = [s \in Sessions |-> "running"]
  /\ active = [s \in Sessions |-> NoTurn]
  /\ completed = [s \in Sessions |-> NoTurn]
  /\ retired = [s \in Sessions |-> NoTurn]
  /\ inbound = <<>>
  /\ request = Idle
  /\ server = [s \in Sessions |-> [started |-> FALSE, turn |-> NoTurn,
                                   last |-> 0, interrupted |-> FALSE]]
  /\ life = "live"
  /\ exposed = {}

Notify(method, s, turn) ==
  /\ Len(inbound) < MaxQueue
  /\ inbound' = Append(inbound, [method |-> method, s |-> s, turn |-> turn])

binds == <<bound, state, active, completed, retired>>
marks == <<life, exposed>>

-----------------------------------------------------------------------------
(* start: thread/start answers and notifies; the binding is registered     *)
(* with the answer.                                                        *)
Start(s) ==
  /\ life = "live"
  /\ request.pc = "idle"
  /\ ~server[s].started
  /\ server' = [server EXCEPT ![s].started = TRUE]
  /\ Notify("thread/started", s, NoTurn)
  /\ bound' = bound \cup {s}
  /\ UNCHANGED <<state, active, completed, retired, request, marks>>

(* Input up to the call: one turn at a time.                               *)
BeginInput(s) ==
  /\ request.pc = "idle"
  /\ s \in bound
  /\ state[s] = "running"
  /\ active[s] = NoTurn
  /\ active' = [active EXCEPT ![s] = Starting]
  /\ request' = [Idle EXCEPT !.pc = "call", !.s = s]
  /\ UNCHANGED <<bound, state, completed, retired, inbound, server, marks>>

(* turn/start is refused: the mark is taken back.                          *)
InputRefused ==
  LET s == request.s IN
  /\ request.pc = "call"
  /\ active' = [active EXCEPT ![s] =
                  IF s \in bound /\ @ = Starting THEN NoTurn ELSE @]
  /\ request' = Idle
  /\ UNCHANGED <<bound, state, completed, retired, inbound, server, marks>>

(* turn/start is accepted: the answer is on its way to the caller and the  *)
(* notification in the queue.                                              *)
ServerStarts ==
  LET s == request.s
      n == server[s].last + 1
  IN
  /\ request.pc = "call"
  /\ life = "live"
  /\ n \in Turns
  /\ server' = [server EXCEPT ![s] = [started |-> TRUE, turn |-> n,
                                      last |-> n, interrupted |-> FALSE]]
  /\ Notify("turn/started", s, n)
  /\ request' = [request EXCEPT !.pc = "answer", !.turn = n]
  /\ UNCHANGED <<binds, marks>>

(* The caller handles the answer: the pump may have seen the turn complete.*)
Mutant_AnsweredTurn(s, turn) == turn
AnsweredTurn(s, turn) == IF completed[s] = turn THEN NoTurn ELSE turn

InputAnswer ==
  LET s == request.s IN
  /\ request.pc = "answer"
  /\ active' = [active EXCEPT ![s] =
                  IF s \in bound /\ state[s] = "running"
                  THEN AnsweredTurn(s, request.turn) ELSE @]
  /\ request' = Idle
  /\ UNCHANGED <<bound, state, completed, retired, inbound, server, marks>>

-----------------------------------------------------------------------------
(* Stop and kill *)

(* Only a turn whose ID is known can be interrupted.                       *)
Interruptible(turn) == turn \notin {NoTurn, Starting}

BeginStop(s, kill) ==
  /\ request.pc = "idle"
  /\ s \in bound
  /\ state' = [state EXCEPT ![s] = "stopping"]
  /\ request' = [s |-> s, turn |-> active[s], kill |-> kill,
                 pc |-> IF Interruptible(active[s]) THEN "interrupt"
                        ELSE "release"]
  /\ UNCHANGED <<bound, active, completed, retired, inbound, server, marks>>

(* turn/interrupt is answered; a refusal (the turn has completed) refuses  *)
(* a stop, while a kill goes on.                                           *)
Interrupt ==
  LET s == request.s IN
  /\ request.pc = "interrupt"
  /\ \/ /\ server[s].turn = request.turn
        /\ server' = [server EXCEPT ![s].interrupted = TRUE]
        /\ request' = [request EXCEPT !.pc = "release"]
        /\ UNCHANGED state
     \/ /\ request.kill
        /\ request' = [request EXCEPT !.pc = "release"]
        /\ UNCHANGED <<server, state>>
     \/ /\ ~request.kill
        /\ state' = [state EXCEPT ![s] = IF s \in bound THEN "running" ELSE @]
        /\ request' = Idle
        /\ UNCHANGED server
  /\ UNCHANGED <<bound, active, completed, retired, inbound, marks>>

Waiting(s) == {inbound[i] : i \in {j \in 1..Len(inbound) : inbound[j].s = s}}

(* releaseBinding: the thread of a running turn is retired for 30 seconds; *)
(* the last release finalizes the runtime.                                 *)
Mutant_RetiredTurn(s) == NoTurn
RetiredTurn(s) == IF active[s] = Starting THEN NoTurn ELSE active[s]

Release ==
  LET s == request.s IN
  /\ request.pc = "release"
  /\ request' = Idle
  /\ IF s \in bound
     THEN /\ retired' = [retired EXCEPT ![s] = RetiredTurn(s)]
          /\ bound' = bound \ {s}
          /\ life' = IF bound = {s} THEN "final" ELSE life
          /\ exposed' = IF \/ \E e \in Waiting(s) : e.method \notin {"delta", "turn/completed"}
                           \/ server[s].turn # NoTurn /\ ~server[s].interrupted
                        THEN exposed \cup {s} ELSE exposed
     ELSE UNCHANGED <<retired, bound, life, exposed>>
  /\ UNCHANGED <<state, active, completed, inbound, server>>

(* 30 seconds have passed since the release.                               *)
RetiredExpires(s) ==
  /\ life = "live"
  /\ retired[s] # NoTurn
  /\ retired' = [retired EXCEPT ![s] = NoTurn]
  /\ exposed' = exposed \cup {s}
  /\ UNCHANGED <<bound, state, active, completed, inbound, request, server, life>>

-----------------------------------------------------------------------------
(* The app-server (external) *)

ServerDelta(s) ==
  /\ life = "live"
  /\ server[s].turn # NoTurn
  /\ Notify("delta", s, server[s].turn)
  /\ UNCHANGED <<binds, request, server, marks>>

ServerApproval(s) ==
  /\ life = "live"
  /\ server[s].turn # NoTurn
  /\ ~server[s].interrupted
  /\ Notify("approval", s, server[s].turn)
  /\ UNCHANGED <<binds, request, server, marks>>

ServerCompletes(s) ==
  /\ life = "live"
  /\ server[s].turn # NoTurn
  /\ Notify("turn/completed", s, server[s].turn)
  /\ server' = [server EXCEPT ![s].turn = NoTurn]
  /\ UNCHANGED <<binds, request, marks>>

-----------------------------------------------------------------------------
(* routeInbound *)

(* The event names a turn the binding does not have.                       *)
UnknownTurn(e) ==
  e.turn # NoTurn /\ active[e.s] \notin {NoTurn, Starting} /\ e.turn # active[e.s]

(* A retired thread absorbs the rest of its last turn.                     *)
Absorbed(e) ==
  /\ e.s \notin bound
  /\ retired[e.s] # NoTurn
  /\ e.turn = retired[e.s]
  /\ e.method \in {"delta", "turn/completed"}

Routable(e) == e.s \in bound /\ ~UnknownTurn(e)

Route ==
  LET e == Head(inbound) IN
  /\ life = "live"
  /\ inbound # <<>>
  /\ Routable(e)
  /\ inbound' = Tail(inbound)
  /\ active' = [active EXCEPT ![e.s] =
       CASE e.method = "turn/started" /\ @ \in {NoTurn, Starting} -> e.turn
         [] e.method = "turn/completed" -> NoTurn
         [] OTHER -> @]
  /\ completed' = [completed EXCEPT ![e.s] =
                     IF e.method = "turn/completed" THEN e.turn ELSE @]
  /\ UNCHANGED <<bound, state, retired, request, server, marks>>

RouteRetired ==
  LET e == Head(inbound) IN
  /\ life = "live"
  /\ inbound # <<>>
  /\ Absorbed(e)
  /\ inbound' = Tail(inbound)
  /\ retired' = [retired EXCEPT ![e.s] =
                   IF e.method = "turn/completed" THEN NoTurn ELSE @]
  /\ UNCHANGED <<bound, state, active, completed, request, server, marks>>

(* Anything else is a protocol error: failRuntime fails every binding.     *)
RouteFails ==
  /\ life = "live"
  /\ inbound # <<>>
  /\ ~Routable(Head(inbound))
  /\ ~Absorbed(Head(inbound))
  /\ life' = "failed"
  /\ bound' = {}
  /\ inbound' = <<>>
  /\ UNCHANGED <<state, active, completed, retired, request, server, exposed>>

Next ==
  \/ \E s \in Sessions : Start(s) \/ BeginInput(s)
  \/ InputRefused \/ ServerStarts \/ InputAnswer
  \/ \E s \in Sessions, kill \in BOOLEAN : BeginStop(s, kill)
  \/ Interrupt \/ Release
  \/ \E s \in Sessions : RetiredExpires(s)
  \/ \E s \in Sessions : ServerDelta(s) \/ ServerApproval(s) \/ ServerCompletes(s)
  \/ Route \/ RouteRetired \/ RouteFails

Spec == Init /\ [][Next]_vars

-----------------------------------------------------------------------------
(* Every variable has its type; turn/interrupt names a turn.               *)
TypeOK ==
  /\ bound \subseteq Sessions
  /\ state \in [Sessions -> {"running", "stopping"}]
  /\ active \in [Sessions -> Turns \cup {NoTurn, Starting}]
  /\ completed \in [Sessions -> Turns \cup {NoTurn}]
  /\ retired \in [Sessions -> Turns \cup {NoTurn}]
  /\ inbound \in Seq(Event)
  /\ request \in [pc: PCs, s: Sessions \cup {None},
                  turn: Turns \cup {NoTurn, Starting}, kill: BOOLEAN]
  /\ request.pc = "interrupt" => request.turn \in Turns
  /\ server \in [Sessions -> Thread]
  /\ life \in {"live", "final", "failed"}
  /\ exposed \subseteq Sessions

=============================================================================
