----------------------------- MODULE FakeRuntime -----------------------------
(***************************************************************************)
(* Sessions of the Fake Provider: StartFake, observeProcess/handleExit,    *)
(* Stop, Kill and Close of internal/runtime/manager.go over the child      *)
(* process of internal/runtime/process.go.                                 *)
(*                                                                         *)
(* Requests are serialised by SessionService.mu: one request at a time,    *)
(* held until the handler returns.  Beside it run one observer goroutine   *)
(* per Session, the child processes and, at shutdown, Close.  The lease    *)
(* that Stop and Kill also require is the subject of ControllerLease.      *)
(***************************************************************************)
EXTENDS Integers, FakeState

CONSTANT None  \* no Session

ASSUME FakeAssumption == None \notin Sessions

vars == <<status, child, asked, process, exits, observer, call, daemon>>

Terminal == {"exited", "failed", "killed"}
Statuses == {"none", "starting", "running", "stopping"} \cup Terminal

Children == {"none", "alive", "signalled", "dead"}

PCs == {"idle", "spawn", "ready", "torunning", "stopcas", "stopsend",
        "stopdone", "waitterm", "kill", "killcas"}

Idle == [pc |-> "idle", s |-> None, read |-> "none"]

Init ==
  /\ status = [s \in Sessions |-> "none"]
  /\ child = [s \in Sessions |-> "none"]
  /\ asked = [s \in Sessions |-> FALSE]
  /\ process = [s \in Sessions |-> FALSE]
  /\ exits = [s \in Sessions |-> 0]
  /\ observer = [s \in Sessions |-> "off"]
  /\ call = Idle
  /\ daemon = "up"

(* domain.sessionTransitions *)
Transitions ==
  ({"starting"} \X {"running", "failed", "killed"}) \cup
  ({"running"}  \X {"stopping", "failed", "killed"}) \cup
  ({"stopping"} \X {"exited", "failed", "killed"})

CanTransition(s, expected, next) ==
  status[s] = expected /\ <<expected, next>> \in Transitions

Transition(s, expected, next) ==
  status' = [status EXCEPT ![s] =
               IF CanTransition(s, expected, next) THEN next ELSE @]

Goto(pc) == call' = [call EXCEPT !.pc = pc]
Return == call' = Idle

(* Process.Kill: the signal is sent, the exit is not awaited.              *)
Signalled(s) == IF child[s] = "alive" THEN "signalled" ELSE child[s]

-----------------------------------------------------------------------------
(* sessions.start *)

BeginStart(s) ==
  /\ call.pc = "idle"
  /\ status[s] = "none"
  /\ status' = [status EXCEPT ![s] = "starting"]
  /\ call' = [pc |-> "spawn", s |-> s, read |-> "none"]
  /\ UNCHANGED <<child, asked, process, exits, observer, daemon>>

Spawn ==
  LET s == call.s IN
  /\ call.pc = "spawn"
  /\ \/ /\ child' = [child EXCEPT ![s] = "alive"]
        /\ Goto("ready")
        /\ UNCHANGED status
     \/ /\ Transition(s, "starting", "failed")
        /\ Return
        /\ UNCHANGED child
  /\ UNCHANGED <<asked, process, exits, observer, daemon>>

(* waitReady: the child reports ready, or it exits or times out first.     *)
Ready ==
  LET s == call.s IN
  /\ call.pc = "ready"
  /\ \/ Goto("torunning") /\ UNCHANGED <<status, child>>
     \/ /\ child' = [child EXCEPT ![s] = Signalled(s)]
        /\ Transition(s, "starting", "failed")
        /\ Return
  /\ UNCHANGED <<asked, process, exits, observer, daemon>>

(* starting -> running; the process is registered and observed.            *)
ToRunning ==
  LET s == call.s IN
  /\ call.pc = "torunning"
  /\ CanTransition(s, "starting", "running")
  /\ Transition(s, "starting", "running")
  /\ process' = [process EXCEPT ![s] = TRUE]
  /\ observer' = [observer EXCEPT ![s] = "idle"]
  /\ Return
  /\ UNCHANGED <<child, asked, exits, daemon>>

(* The store refuses (shutdown has cancelled the context): only the child  *)
(* is killed.                                                              *)
Mutant_ToRunningFails ==
  /\ call.pc = "torunning"
  /\ Return
  /\ UNCHANGED <<status, child, asked, process, exits, observer, daemon>>
ToRunningFails ==
  LET s == call.s IN
  /\ call.pc = "torunning"
  /\ child' = [child EXCEPT ![s] = Signalled(s)]
  /\ Return
  /\ UNCHANGED <<status, asked, process, exits, observer, daemon>>

-----------------------------------------------------------------------------
(* sessions.stop *)

BeginStop(s) ==
  /\ call.pc = "idle"
  /\ status[s] \in {"starting", "running"}
  /\ call' = [pc |-> "stopcas", s |-> s, read |-> status[s]]
  /\ UNCHANGED <<status, child, asked, process, exits, observer, daemon>>

(* The CAS to stopping; a lost one, or no registered process, ends Stop.   *)
StopCas ==
  LET s == call.s IN
  /\ call.pc = "stopcas"
  /\ Transition(s, call.read, "stopping")
  /\ IF CanTransition(s, call.read, "stopping") /\ process[s]
     THEN Goto("stopsend") ELSE Return
  /\ UNCHANGED <<child, asked, process, exits, observer, daemon>>

(* A write to a child that has exited fails and ends Stop with an error.   *)
StopSend ==
  LET s == call.s IN
  /\ call.pc = "stopsend"
  /\ IF child[s] = "dead" THEN Return /\ UNCHANGED asked
     ELSE Goto("stopdone") /\ asked' = [asked EXCEPT ![s] = TRUE]
  /\ UNCHANGED <<status, child, process, exits, observer, daemon>>

(* Process.Stop returns when the child is done (the error of an unclean    *)
(* exit ends Stop) or when StopTimeout has passed.                         *)
StopDone ==
  /\ call.pc = "stopdone"
  /\ \/ child[call.s] = "dead" /\ Return
     \/ Goto("waitterm")
  /\ UNCHANGED <<status, child, asked, process, exits, observer, daemon>>

(* waitTerminal polls the row; its context is the daemon's.                *)
WaitTerminal ==
  /\ call.pc = "waitterm"
  /\ status[call.s] \in Terminal \/ daemon # "up"
  /\ Return
  /\ UNCHANGED <<status, child, asked, process, exits, observer, daemon>>

-----------------------------------------------------------------------------
(* sessions.kill *)

BeginKill(s) ==
  /\ call.pc = "idle"
  /\ status[s] \in Statuses \ ({"none"} \cup Terminal)
  /\ call' = [pc |-> "kill", s |-> s, read |-> status[s]]
  /\ UNCHANGED <<status, child, asked, process, exits, observer, daemon>>

KillChild ==
  LET s == call.s IN
  /\ call.pc = "kill"
  /\ child' = [child EXCEPT ![s] = IF process[s] THEN Signalled(s) ELSE @]
  /\ Goto("killcas")
  /\ UNCHANGED <<status, asked, process, exits, observer, daemon>>

KillCas ==
  /\ call.pc = "killcas"
  /\ Transition(call.s, call.read, "killed")
  /\ Return
  /\ UNCHANGED <<child, asked, process, exits, observer, daemon>>

-----------------------------------------------------------------------------
(* The child and its observer *)

(* Process.collect posts one exit event, and observeProcess calls          *)
(* handleExit a second time when the exit was an error.  (A line that is   *)
(* no event would skip the first call; the Fake Provider writes none.)     *)
Mutant_ExitCalls(clean) == 1
ExitCalls(clean) == IF clean THEN 1 ELSE 2

(* The child obeys a stop request (clean), crashes, or dies of the signal. *)
ChildExits(s, clean) ==
  /\ child[s] \in {"alive", "signalled"}
  /\ clean => asked[s] /\ child[s] = "alive"
  /\ child' = [child EXCEPT ![s] = "dead"]
  /\ exits' = [exits EXCEPT ![s] = ExitCalls(clean)]
  /\ UNCHANGED <<status, asked, process, observer, call, daemon>>

(* handleExit reads the row; a terminal one needs nothing more.            *)
ObserveExit(s) ==
  /\ observer[s] = "idle"
  /\ exits[s] > 0
  /\ IF status[s] \in Terminal
     THEN exits' = [exits EXCEPT ![s] = @ - 1] /\ UNCHANGED observer
     ELSE observer' = [observer EXCEPT ![s] = status[s]] /\ UNCHANGED exits
  /\ UNCHANGED <<status, child, asked, process, call, daemon>>

(* ... and moves it: stopping to exited, anything else to failed.          *)
ExitStatus(read) == IF read = "stopping" THEN "exited" ELSE "failed"

HandleExit(s) ==
  /\ observer[s] \in Statuses
  /\ Transition(s, observer[s], ExitStatus(observer[s]))
  /\ process' = [process EXCEPT ![s] = FALSE]
  /\ exits' = [exits EXCEPT ![s] = @ - 1]
  /\ observer' = [observer EXCEPT ![s] = "idle"]
  /\ UNCHANGED <<child, asked, call, daemon>>

-----------------------------------------------------------------------------
(* Manager.Close signals every registered process and does not wait.       *)
Close ==
  /\ daemon = "up"
  /\ daemon' = "closing"
  /\ child' = [s \in Sessions |-> IF process[s] THEN Signalled(s) ELSE child[s]]
  /\ UNCHANGED <<status, asked, process, exits, observer, call>>

(* The daemon process ends: goroutines and maps are gone, children see the *)
(* end of their standard input and exit.                                   *)
Exit ==
  /\ daemon = "closing"
  /\ daemon' = "down"
  /\ call' = Idle
  /\ process' = [s \in Sessions |-> FALSE]
  /\ exits' = [s \in Sessions |-> 0]
  /\ observer' = [s \in Sessions |-> "off"]
  /\ child' = [s \in Sessions |-> IF child[s] = "none" THEN "none" ELSE "dead"]
  /\ UNCHANGED <<status, asked>>

Request ==
  \/ Spawn \/ Ready \/ ToRunning \/ ToRunningFails
  \/ StopCas \/ StopSend \/ StopDone \/ WaitTerminal
  \/ KillChild \/ KillCas

Observe(s) == ObserveExit(s) \/ HandleExit(s)

Up == daemon # "down"

Next ==
  \/ \E s \in Sessions : daemon = "up" /\ (BeginStart(s) \/ BeginStop(s) \/ BeginKill(s))
  \/ Up /\ Request
  \/ \E s \in Sessions : Up /\ Observe(s)
  \/ \E s \in Sessions, clean \in BOOLEAN : Up /\ ChildExits(s, clean)
  \/ Close
  \/ Exit

Spec == Init /\ [][Next]_vars

(* Handlers and observers keep running; a signalled child dies.  A child   *)
(* need not obey a stop request, and nobody need send a request.           *)
FairSpec ==
  /\ Spec
  /\ WF_vars(Up /\ Request)
  /\ \A s \in Sessions :
       /\ WF_vars(Up /\ Observe(s))
       /\ WF_vars(Up /\ child[s] = "signalled" /\ \E clean \in BOOLEAN : ChildExits(s, clean))

-----------------------------------------------------------------------------
(* Every variable has its type.                                            *)
TypeOK ==
  /\ status \in [Sessions -> Statuses]
  /\ child \in [Sessions -> Children]
  /\ asked \in [Sessions -> BOOLEAN]
  /\ process \in [Sessions -> BOOLEAN]
  /\ exits \in [Sessions -> 0..2]
  /\ observer \in [Sessions -> {"off", "idle"} \cup (Statuses \ Terminal)]
  /\ call \in [pc: PCs, s: Sessions \cup {None}, read: Statuses]
  /\ daemon \in {"up", "closing", "down"}

(* The exit of an observed child is recorded, whichever of handleExit,     *)
(* Stop and Kill wins each compare-and-swap (handleExit ignores a lost     *)
(* one, and is called once more only after an unclean exit).               *)
ExitIsRecorded ==
  \A s \in Sessions :
    child[s] = "dead" /\ process[s] ~> status[s] \in Terminal \/ daemon # "up"

=============================================================================
