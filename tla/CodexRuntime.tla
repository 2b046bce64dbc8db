---------------------------- MODULE CodexRuntime ----------------------------
(***************************************************************************)
(* The Codex RuntimeManager: internal/providers/codex/runtime.go with the  *)
(* Session rows it moves (internal/storage/repository.go) and the          *)
(* credential writer it holds (internal/providers/codex/materialization.go,*)
(* abstracted to its lock and the stored revision).                        *)
(*                                                                         *)
(* One CredentialRuntime (an app-server child, its client and its writer   *)
(* lock) is shared by every Session of a credential.  Four kinds of        *)
(* goroutines interleave on it: callers inside start/Stop/Input, three     *)
(* pumps per runtime, and Close at daemon shutdown.  RuntimeManager.mu     *)
(* makes one step of each locked region; between two regions anything can  *)
(* happen.  In the daemon the callers are serialised by SessionService.mu  *)
(* (a single member of Callers); the manager itself admits several.        *)
(***************************************************************************)
EXTENDS Integers, FiniteSets

CONSTANTS
  Sessions,      \* Session IDs
  Reserved,      \* those inserted by preview consumption (StartReserved)
  Credentials,   \* CredentialInstance IDs
  CredentialOf,  \* the credential each Session is bound to
  Callers,       \* goroutines that may be inside start, Stop or Input
  None,          \* no session, credential, runtime or caller
  MaxRuntimes,   \* bound: CredentialRuntime objects created
  MaxRevision,   \* bound: credential revisions
  MaxCrashes,    \* bound: daemon crashes (power loss, SIGKILL)
  Scenarios      \* bound: who calls, on which Sessions, from which revision

ASSUME RuntimeAssumption ==
  /\ Reserved \subseteq Sessions
  /\ CredentialOf \in [Sessions -> Credentials]
  /\ None \notin Sessions \cup Credentials \cup Callers \cup Nat
  /\ MaxRuntimes \in Nat
  /\ MaxRevision \in Nat \ {0}
  /\ MaxCrashes \in Nat
  /\ Scenarios \subseteq [callers: SUBSET Callers, sessions: SUBSET Sessions,
                          revision: 1..MaxRevision, crashes: 0..MaxCrashes]

VARIABLES
  status,    \* sessions.status ("none": no row)
  threadId,  \* sessions.provider_session_id is set
  revision,  \* credential_instances.credential_revision
  writer,    \* the runtime that holds a credential's writer lock
  owner,     \* RuntimeManager.runtimes
  binding,   \* RuntimeManager.bindings: the runtime a Session is bound to
  gate,      \* RuntimeManager.starting: the caller that owns a start
  closed,    \* RuntimeManager.closed
  workers,   \* RuntimeManager.workers, the WaitGroup counter
  runtime,   \* the CredentialRuntime objects
  caller,    \* program counter and locals of each caller
  closer,    \* program counter and locals of Close
  crashes,   \* daemon crashes so far
  finals,    \* history: finalize calls, per runtime
  detached,  \* history: status of a Session when its binding was removed
  leaked     \* history: pump triples added to workers and never started

vars == <<status, threadId, revision, writer, owner, binding, gate, closed,
          workers, runtime, caller, closer, crashes, finals, detached,
          leaked>>

store == <<status, threadId>>
history == <<finals, detached, leaked>>

Runtimes == 1..MaxRuntimes

(* Runtime objects are numbered in the order they are created.             *)
Fresh(r) ==
  /\ runtime[r].phase = "none"
  /\ \A q \in Runtimes : q < r => runtime[q].phase # "none"

Pumps == {"event", "lease", "wait"}
Active == {"starting", "running", "stopping"}
Terminal == {"exited", "failed", "killed"}
Statuses == {"none"} \cup Active \cup Terminal

(* domain.sessionTransitions *)
Transitions ==
  ({"starting"} \X {"running", "failed", "killed"}) \cup
  ({"running"}  \X {"stopping", "failed", "killed"}) \cup
  ({"stopping"} \X {"exited", "failed", "killed"})

(* Store.TransitionSession: the domain edge and the status CAS.  A caller  *)
(* that ignores the error leaves the row as it is when either is refused.  *)
TransitionAllowed(s, expected, next) ==
  status[s] = expected /\ <<expected, next>> \in Transitions

Transition(s, expected, next) ==
  status' = [status EXCEPT ![s] =
               IF TransitionAllowed(s, expected, next) THEN next ELSE @]

(* A CredentialRuntime goes live -> detached (finalizing set, removed from *)
(* the maps) -> finalize (its Sessions are done) -> killed -> final.       *)
Phases == {"none", "live", "detached", "finalize", "killed", "final"}

RuntimeRecord ==
  [phase: Phases, cred: Credentials \cup {None}, rev: Nat,
   sessions: SUBSET Sessions, by: Pumps \cup {"none", "start", "input", "release", "close"},
   left: SUBSET Sessions, readId: Sessions \cup {None}, read: Statuses,
   pumps: SUBSET Pumps, child: {"none", "alive", "killed", "gone"}]

NewRuntime ==
  [phase |-> "none", cred |-> None, rev |-> 0, sessions |-> {},
   by |-> "none", left |-> {}, readId |-> None, read |-> "none",
   pumps |-> {}, child |-> "none"]

PCs == {"idle", "out", "gate", "recheck", "lock", "setthread", "torunning",
        "failstart", "finwait", "interrupt", "release", "relread", "relstop",
        "relcas", "relfin", "turn", "failwait"}

(* Inside start, behind the gate.                                          *)
StartPCs == {"recheck", "lock", "setthread", "torunning", "finwait", "failstart"}

CallerRecord ==
  [pc: PCs, s: Sessions \cup {None}, rt: Runtimes \cup {None}, rev: Nat,
   created: BOOLEAN, target: Statuses, read: Statuses]

IdleCaller ==
  [pc |-> "idle", s |-> None, rt |-> None, rev |-> 0, created |-> FALSE,
   target |-> "none", read |-> "none"]

(* A member of Callers that the chosen scenario leaves out never calls.    *)
AbsentCaller == [IdleCaller EXCEPT !.pc = "out"]

IdleCloser == [pc |-> "idle", todo |-> {}, cur |-> None]

(* A fresh manager.  A Session outside the scenario ended before it.       *)
Init ==
  /\ \E sc \in Scenarios :
       /\ status = [s \in Sessions |-> IF s \in sc.sessions THEN "none" ELSE "exited"]
       /\ threadId = [s \in Sessions |-> s \notin sc.sessions]
       /\ caller = [k \in Callers |-> IF k \in sc.callers THEN IdleCaller
                                                        ELSE AbsentCaller]
       /\ revision = [c \in Credentials |-> sc.revision]
       /\ crashes = sc.crashes
  /\ writer = [c \in Credentials |-> None]
  /\ owner = [c \in Credentials |-> None]
  /\ binding = [s \in Sessions |-> None]
  /\ gate = [s \in Sessions |-> None]
  /\ closed = FALSE
  /\ workers = 0
  /\ runtime = [r \in Runtimes |-> NewRuntime]
  /\ closer = IdleCloser
  /\ finals = [r \in Runtimes |-> 0]
  /\ detached = [s \in Sessions |-> "none"]
  /\ leaked = 0

-----------------------------------------------------------------------------
(* Locked regions shared by several operations.                            *)

Cred(k) == CredentialOf[caller[k].s]

Goto(k, pc) == caller' = [caller EXCEPT ![k].pc = pc]

(* A caller returns; a deferred function gives its start gate back.        *)
Return(k) ==
  /\ caller' = [caller EXCEPT ![k] = IdleCaller]
  /\ gate' = [s \in Sessions |-> IF gate[s] = k THEN None ELSE gate[s]]

(* Removing runtimes from the maps: every binding of them goes with them.  *)
Mutant_Detach(rs) ==
  /\ owner' = [c \in Credentials |-> IF owner[c] \in rs THEN None ELSE owner[c]]
  /\ UNCHANGED <<binding, detached>>
Detach(rs) ==
  /\ owner' = [c \in Credentials |-> IF owner[c] \in rs THEN None ELSE owner[c]]
  /\ binding' = [s \in Sessions |-> IF binding[s] \in rs THEN None ELSE binding[s]]
  /\ detached' = [s \in Sessions |->
                    IF binding[s] \in rs THEN status[s] ELSE detached[s]]

(* failRuntime empties Bindings under the lock and keeps the Session IDs;  *)
(* Close keeps the map for itself, out of every lookup by Session.         *)
Detached(r, who) ==
  [runtime[r] EXCEPT !.phase = "detached", !.by = who,
                     !.left = runtime[r].sessions, !.sessions = {}]

(* runtime.finalizing is not set yet.                                      *)
Mutant_MayFinalize(r) == runtime[r].phase \in {"live", "finalize", "killed"}
MayFinalize(r) == runtime[r].phase = "live"

(* failRuntime's locked region: a second call on the same runtime returns. *)
FailRuntime(r, who) ==
  /\ MayFinalize(r)
  /\ runtime' = [runtime EXCEPT ![r] = Detached(r, who)]
  /\ Detach({r})

Bind(k, r) == binding' = [binding EXCEPT ![caller[k].s] = r]

-----------------------------------------------------------------------------
(* start *)

(* Start: the credential revision is read, then the row is inserted.       *)
BeginStart(k, s) ==
  /\ caller[k].pc = "idle"
  /\ s \notin Reserved
  /\ status[s] = "none"
  /\ status' = [status EXCEPT ![s] = "starting"]
  /\ caller' = [caller EXCEPT ![k] = [IdleCaller EXCEPT !.pc = "lock", !.s = s,
                                        !.rev = revision[CredentialOf[s]]]]
  /\ UNCHANGED <<threadId, revision, writer, owner, binding, gate, closed,
                 workers, runtime, closer, crashes, history>>

(* sessions.start of a selected profile: the row is inserted with the      *)
(* consumed preview, or found again by a retry, then StartReserved runs.   *)
BeginReserved(k, s) ==
  /\ caller[k].pc = "idle"
  /\ s \in Reserved
  /\ status[s] \in {"none", "starting"}
  /\ status' = [status EXCEPT ![s] = "starting"]
  /\ caller' = [caller EXCEPT ![k] = [IdleCaller EXCEPT !.pc = "gate", !.s = s,
                                        !.rev = revision[CredentialOf[s]]]]
  /\ UNCHANGED <<threadId, revision, writer, owner, binding, gate, closed,
                 workers, runtime, closer, crashes, history>>

Mutant_GateFree(s) == TRUE
GateFree(s) == gate[s] = None

EnterGate(k) ==
  /\ caller[k].pc = "gate"
  /\ GateFree(caller[k].s)
  /\ gate' = [gate EXCEPT ![caller[k].s] = k]
  /\ Goto(k, "recheck")
  /\ UNCHANGED <<store, revision, writer, owner, binding, closed, workers,
                 runtime, closer, crashes, history>>

(* The wait for the owner of the gate ends with the caller's context.      *)
GateExpires(k) ==
  /\ caller[k].pc = "gate"
  /\ ~GateFree(caller[k].s)
  /\ Return(k)
  /\ UNCHANGED <<store, revision, writer, owner, binding, closed, workers,
                 runtime, closer, crashes, history>>

(* The elected owner reads the row again: only a starting one is started.  *)
Recheck(k) ==
  /\ caller[k].pc = "recheck"
  /\ IF status[caller[k].s] = "starting"
     THEN Goto(k, "lock") /\ UNCHANGED gate
     ELSE Return(k)
  /\ UNCHANGED <<store, revision, writer, owner, binding, closed, workers,
                 runtime, closer, crashes, history>>

(* Every refusal that leaves no runtime behind: discovery, a changed       *)
(* binary, a closed manager, another credential revision, the writer lock, *)
(* spawn, handshake, or thread/start on a shared runtime.                  *)
StartRefused(k) ==
  /\ caller[k].pc = "lock"
  /\ Goto(k, "failstart")
  /\ UNCHANGED <<store, revision, writer, owner, binding, gate, closed,
                 workers, runtime, closer, crashes, history>>

(* Materializer.Acquire creates the lock file exclusively.                 *)
Mutant_WriterFree(c) == TRUE
WriterFree(c) == writer[c] = None

(* No runtime yet: acquire the writer, spawn, handshake, thread/start, and *)
(* count the three pumps that the end of this start will launch.           *)
StartCreated(k, r) ==
  /\ caller[k].pc = "lock"
  /\ ~closed
  /\ owner[Cred(k)] = None
  /\ WriterFree(Cred(k))
  /\ Fresh(r)
  /\ runtime' = [runtime EXCEPT ![r] =
       [NewRuntime EXCEPT !.phase = "live", !.cred = Cred(k),
          !.rev = caller[k].rev, !.sessions = {caller[k].s}, !.child = "alive"]]
  /\ writer' = [writer EXCEPT ![Cred(k)] = r]
  /\ owner' = [owner EXCEPT ![Cred(k)] = r]
  /\ Bind(k, r)
  /\ workers' = workers + 3
  /\ caller' = [caller EXCEPT ![k].pc = "setthread", ![k].created = TRUE,
                                 ![k].rt = r]
  /\ UNCHANGED <<store, revision, gate, closed, closer, crashes, finals,
                 detached, leaked>>

(* As StartCreated, but thread/start fails: the runtime leaves the map in  *)
(* the same locked region and this caller finalizes it.                    *)
StartThreadFails(k, r) ==
  /\ caller[k].pc = "lock"
  /\ ~closed
  /\ owner[Cred(k)] = None
  /\ WriterFree(Cred(k))
  /\ Fresh(r)
  /\ runtime' = [runtime EXCEPT ![r] =
       [NewRuntime EXCEPT !.phase = "finalize", !.by = "start",
          !.cred = Cred(k), !.rev = caller[k].rev, !.child = "alive"]]
  /\ writer' = [writer EXCEPT ![Cred(k)] = r]
  /\ caller' = [caller EXCEPT ![k].pc = "finwait", ![k].rt = r]
  /\ UNCHANGED <<store, revision, owner, binding, gate, closed, workers,
                 closer, crashes, history>>

(* The credential has a runtime of the same revision: a new thread on it.  *)
StartShared(k) ==
  LET r == owner[Cred(k)] IN
  /\ caller[k].pc = "lock"
  /\ ~closed
  /\ r # None
  /\ runtime[r].rev = caller[k].rev
  /\ runtime[r].child = "alive"
  /\ runtime' = [runtime EXCEPT ![r].sessions = @ \cup {caller[k].s}]
  /\ Bind(k, r)
  /\ Goto(k, "setthread")
  /\ UNCHANGED <<store, revision, writer, owner, gate, closed, workers,
                 closer, crashes, finals, detached, leaked>>

FinalWait(k) ==
  /\ caller[k].pc = "finwait"
  /\ runtime[caller[k].rt].phase = "final"
  /\ Goto(k, "failstart")
  /\ UNCHANGED <<store, revision, writer, owner, binding, gate, closed,
                 workers, runtime, closer, crashes, history>>

Mutant_FailStart(k) ==
  /\ caller[k].pc = "failstart"
  /\ Return(k)
  /\ UNCHANGED <<store, revision, writer, owner, binding, closed, workers,
                 runtime, closer, crashes, history>>
FailStart(k) ==
  /\ caller[k].pc = "failstart"
  /\ Transition(caller[k].s, "starting", "failed")
  /\ Return(k)
  /\ UNCHANGED <<threadId, revision, writer, owner, binding, closed, workers,
                 runtime, closer, crashes, history>>

(* SetSessionProviderSessionID: once, and only while starting.             *)
SetThread(k) ==
  /\ caller[k].pc = "setthread"
  /\ status[caller[k].s] = "starting"
  /\ ~threadId[caller[k].s]
  /\ threadId' = [threadId EXCEPT ![caller[k].s] = TRUE]
  /\ Goto(k, "torunning")
  /\ UNCHANGED <<status, revision, writer, owner, binding, gate, closed,
                 workers, runtime, closer, crashes, history>>

Mutant_Launched == {"event", "lease"}
Launched == Pumps

(* starting -> running, then the creator of a runtime launches its pumps.  *)
ToRunning(k) ==
  LET s == caller[k].s IN
  /\ caller[k].pc = "torunning"
  /\ TransitionAllowed(s, "starting", "running")
  /\ Transition(s, "starting", "running")
  /\ runtime' = IF caller[k].created
                 THEN [runtime EXCEPT ![caller[k].rt].pumps = Launched]
                 ELSE runtime
  /\ Return(k)
  /\ UNCHANGED <<threadId, revision, writer, owner, binding, closed, workers,
                 closer, crashes, history>>

(* Either store call fails: its CAS is refused, the request context is     *)
(* cancelled or SQLite reports an error.  The pumps already counted in     *)
(* workers are never launched.                                             *)
StartAborts(k) ==
  /\ caller[k].pc \in {"setthread", "torunning"}
  /\ caller' = [caller EXCEPT ![k].pc = "release", ![k].target = "failed"]
  /\ leaked' = leaked + (IF caller[k].created THEN 1 ELSE 0)
  /\ UNCHANGED <<store, revision, writer, owner, binding, gate, closed,
                 workers, runtime, closer, crashes, finals, detached>>

-----------------------------------------------------------------------------
(* Stop and kill of one Session, and releaseBinding                        *)

(* Manager.Stop/Kill answer terminal rows (and Stop a stopping one) before *)
(* RuntimeManager.Stop is reached; an unbound Session is not_found there.  *)
BeginStop(k, s, target) ==
  /\ caller[k].pc = "idle"
  /\ status[s] \in (IF target = "exited" THEN Active \ {"stopping"} ELSE Active)
  /\ binding[s] # None
  /\ caller' = [caller EXCEPT ![k] = [IdleCaller EXCEPT !.pc = "interrupt",
                                        !.s = s, !.target = target]]
  /\ UNCHANGED <<store, revision, writer, owner, binding, gate, closed,
                 workers, runtime, closer, crashes, history>>

(* turn/interrupt outside the lock; its failure only refuses a stop.       *)
Interrupt(k) ==
  /\ caller[k].pc = "interrupt"
  /\ \/ Goto(k, "release") /\ UNCHANGED gate
     \/ caller[k].target = "exited" /\ Return(k)
  /\ UNCHANGED <<store, revision, writer, owner, binding, closed, workers,
                 runtime, closer, crashes, history>>

LastBinding(r, s) == runtime[r].sessions = {s}

(* releaseBinding's locked region: the last binding takes its runtime.     *)
Release(k) ==
  LET s == caller[k].s
      r == binding[s]
      last == LastBinding(r, s)
  IN
  /\ caller[k].pc = "release"
  /\ r # None
  /\ detached' = [detached EXCEPT ![s] = status[s]]
  /\ binding' = [binding EXCEPT ![s] = None]
  /\ runtime' = [runtime EXCEPT ![r] =
       [runtime[r] EXCEPT !.sessions = @ \ {s},
                          !.phase = IF last THEN "detached" ELSE @,
                          !.by = IF last THEN "release" ELSE @]]
  /\ owner' = [owner EXCEPT ![CredentialOf[s]] = IF last THEN None ELSE @]
  /\ caller' = [caller EXCEPT ![k].pc = "relread",
                              ![k].rt = IF last THEN r ELSE None]
  /\ UNCHANGED <<store, revision, writer, gate, closed, workers, closer,
                 crashes, finals, leaked>>

(* Another goroutine removed the binding first.                            *)
ReleaseMissed(k) ==
  /\ caller[k].pc = "release"
  /\ binding[caller[k].s] = None
  /\ Return(k)
  /\ UNCHANGED <<store, revision, writer, owner, binding, closed, workers,
                 runtime, closer, crashes, history>>

ReleaseRead(k) ==
  LET st == status[caller[k].s] IN
  /\ caller[k].pc = "relread"
  /\ caller' = [caller EXCEPT ![k].read = st,
       ![k].pc = IF st \in Terminal THEN "relfin"
                 ELSE IF caller[k].target = "exited" /\ st # "stopping"
                      THEN "relstop" ELSE "relcas"]
  /\ UNCHANGED <<store, revision, writer, owner, binding, gate, closed,
                 workers, runtime, closer, crashes, history>>

Mutant_ReleaseStopping(k) ==
  /\ caller[k].pc = "relstop"
  /\ Transition(caller[k].s, caller[k].read, "stopping")
  /\ Goto(k, "relcas")
  /\ UNCHANGED <<threadId, revision, writer, owner, binding, gate, closed,
                 workers, runtime, closer, crashes, history>>
ReleaseStopping(k) ==
  /\ caller[k].pc = "relstop"
  /\ Transition(caller[k].s, caller[k].read, "stopping")
  /\ caller' = [caller EXCEPT ![k].pc = "relcas", ![k].read = "stopping"]
  /\ UNCHANGED <<threadId, revision, writer, owner, binding, gate, closed,
                 workers, runtime, closer, crashes, history>>

ReleaseTransition(k) ==
  /\ caller[k].pc = "relcas"
  /\ Transition(caller[k].s, caller[k].read, caller[k].target)
  /\ Goto(k, "relfin")
  /\ UNCHANGED <<threadId, revision, writer, owner, binding, gate, closed,
                 workers, runtime, closer, crashes, history>>

(* The last release calls finalize and returns when it is done.            *)
ReleaseFinalize(k) ==
  /\ caller[k].pc = "relfin"
  /\ caller[k].rt # None
  /\ runtime[caller[k].rt].phase = "detached"
  /\ runtime' = [runtime EXCEPT ![caller[k].rt].phase = "finalize"]
  /\ UNCHANGED <<store, revision, writer, owner, binding, gate, closed,
                 workers, caller, closer, crashes, history>>

ReleaseReturn(k) ==
  /\ caller[k].pc = "relfin"
  /\ IF caller[k].rt = None THEN TRUE ELSE runtime[caller[k].rt].phase = "final"
  /\ Return(k)
  /\ UNCHANGED <<store, revision, writer, owner, binding, closed, workers,
                 runtime, closer, crashes, history>>

(* Input: turn/start is called outside the lock on the runtime found under *)
(* it.  An answer, a refusal or a timeout changes no runtime; an answer    *)
(* that does not decode fails the runtime, whatever became of the binding. *)
(* The state of the binding is CodexTurns's: an input that a running stop  *)
(* would refuse is let through here.                                       *)
BeginInput(k, s) ==
  /\ caller[k].pc = "idle"
  /\ status[s] = "running"
  /\ binding[s] # None
  /\ caller' = [caller EXCEPT ![k] = [IdleCaller EXCEPT !.pc = "turn", !.s = s,
                                        !.rt = binding[s]]]
  /\ UNCHANGED <<store, revision, writer, owner, binding, gate, closed,
                 workers, runtime, closer, crashes, history>>

InputAnswered(k) ==
  /\ caller[k].pc = "turn"
  /\ Return(k)
  /\ UNCHANGED <<store, revision, writer, owner, binding, closed, workers,
                 runtime, closer, crashes, history>>

InputFault(k) ==
  /\ caller[k].pc = "turn"
  /\ FailRuntime(caller[k].rt, "input")
  /\ Goto(k, "failwait")
  /\ UNCHANGED <<store, revision, writer, gate, closed, workers, closer,
                 crashes, finals, leaked>>

InputReturn(k) ==
  /\ caller[k].pc = "failwait"
  /\ runtime[caller[k].rt].phase = "final"
  /\ Return(k)
  /\ UNCHANGED <<store, revision, writer, owner, binding, closed, workers,
                 runtime, closer, crashes, history>>

-----------------------------------------------------------------------------
(* Pumps, failRuntime and finalize                                         *)

(* A pump gives the runtime up: the event pump on a broken stream or an    *)
(* unroutable event, the lease pump on a failed refresh, the waiter when   *)
(* the child has exited.                                                   *)
PumpFails(r, p) ==
  /\ p \in runtime[r].pumps
  /\ p = "wait" => runtime[r].child = "gone"
  /\ FailRuntime(r, p)
  /\ UNCHANGED <<store, revision, writer, gate, closed, workers, caller,
                 closer, crashes, finals, leaked>>

PumpsLeft(r, p) == runtime[r].pumps \ {p}

Mutant_WorkersDone == workers
WorkersDone == workers - 1

(* A pump ends (workers.Done) once the runtime is no longer live; the one  *)
(* that runs failRuntime only when finalize has returned.                  *)
PumpExits(r, p) ==
  /\ p \in runtime[r].pumps
  /\ runtime[r].phase # "live"
  /\ p = runtime[r].by => runtime[r].phase = "final"
  /\ p = "wait" => runtime[r].child = "gone"
  /\ runtime' = [runtime EXCEPT ![r].pumps = PumpsLeft(r, p)]
  /\ workers' = WorkersDone
  /\ UNCHANGED <<store, revision, writer, owner, binding, gate, closed,
                 caller, closer, crashes, history>>

(* Close handles its runtimes one after the other.                         *)
InTeardown(r) ==
  /\ runtime[r].phase = "detached"
  /\ runtime[r].by # "release"
  /\ runtime[r].by = "close" => closer.cur = r

(* failRuntime and Close: read a Session, later CAS it to failed.          *)
TeardownRead(r, s) ==
  /\ InTeardown(r)
  /\ runtime[r].readId = None
  /\ s \in runtime[r].left
  /\ runtime' = [runtime EXCEPT ![r] =
       [runtime[r] EXCEPT !.left = @ \ {s}, !.read = status[s],
                          !.readId = IF status[s] \in Terminal THEN None ELSE s]]
  /\ UNCHANGED <<store, revision, writer, owner, binding, gate, closed,
                 workers, caller, closer, crashes, history>>

TeardownTransition(r) ==
  /\ InTeardown(r)
  /\ runtime[r].readId # None
  /\ Transition(runtime[r].readId, runtime[r].read, "failed")
  /\ runtime' = [runtime EXCEPT ![r].readId = None]
  /\ UNCHANGED <<threadId, revision, writer, owner, binding, gate, closed,
                 workers, caller, closer, crashes, history>>

TeardownFinalize(r) ==
  /\ InTeardown(r)
  /\ runtime[r].left = {}
  /\ runtime[r].readId = None
  /\ runtime' = [runtime EXCEPT ![r].phase = "finalize"]
  /\ UNCHANGED <<store, revision, writer, owner, binding, gate, closed,
                 workers, caller, closer, crashes, history>>

(* finalize: close the client and kill the child ...                       *)
FinalizeKill(r) ==
  /\ runtime[r].phase = "finalize"
  /\ runtime' = [runtime EXCEPT ![r].phase = "killed",
                   ![r].child = IF @ = "alive" THEN "killed" ELSE @]
  /\ finals' = [finals EXCEPT ![r] = @ + 1]
  /\ UNCHANGED <<store, revision, writer, owner, binding, gate, closed,
                 workers, caller, closer, crashes, detached, leaked>>

(* ... then ObserveAndCommit (a changed auth file becomes the next         *)
(* revision, an ambiguous one is quarantined) and give the writer back.    *)
(* An expired or unreadable lock is not removed before the next Recover.   *)
FinalizeCommit(r) ==
  LET c == runtime[r].cred IN
  /\ runtime[r].phase = "killed"
  /\ runtime' = [runtime EXCEPT ![r].phase = "final"]
  /\ \E released \in BOOLEAN :
       writer' = [writer EXCEPT ![c] = IF released /\ @ = r THEN None ELSE @]
  /\ \E changed \in BOOLEAN :
       /\ changed => revision[c] < MaxRevision
       /\ revision' = [revision EXCEPT ![c] = IF changed THEN @ + 1 ELSE @]
  /\ UNCHANGED <<store, owner, binding, gate, closed, workers, caller,
                 closer, crashes, history>>

ChildExits(r) ==
  /\ runtime[r].child \in {"alive", "killed"}
  /\ runtime' = [runtime EXCEPT ![r].child = "gone"]
  /\ UNCHANGED <<store, revision, writer, owner, binding, gate, closed,
                 workers, caller, closer, crashes, history>>

-----------------------------------------------------------------------------
(* Close at daemon shutdown, and a restart after a crash                   *)

LiveRuntimes == {owner[c] : c \in Credentials} \ {None}

CloseLock ==
  /\ closer.pc = "idle"
  /\ closed' = TRUE
  /\ runtime' = [r \in Runtimes |->
       IF r \in LiveRuntimes THEN Detached(r, "close") ELSE runtime[r]]
  /\ Detach(LiveRuntimes)
  /\ closer' = [pc |-> "closing", todo |-> LiveRuntimes, cur |-> None]
  /\ UNCHANGED <<store, revision, writer, gate, workers, caller, crashes,
                 finals, leaked>>

CloseTake(r) ==
  /\ closer.pc = "closing"
  /\ closer.cur = None
  /\ r \in closer.todo
  /\ closer' = [closer EXCEPT !.cur = r, !.todo = @ \ {r}]
  /\ UNCHANGED <<store, revision, writer, owner, binding, gate, closed,
                 workers, runtime, caller, crashes, history>>

CloseFinalized ==
  /\ closer.pc = "closing"
  /\ closer.cur # None
  /\ runtime[closer.cur].phase = "final"
  /\ closer' = [closer EXCEPT !.cur = None]
  /\ UNCHANGED <<store, revision, writer, owner, binding, gate, closed,
                 workers, runtime, caller, crashes, history>>

(* workers.Wait() returns, then Close, then the daemon process ends.       *)
CloseReturn ==
  /\ closer.pc = "closing"
  /\ closer.cur = None
  /\ closer.todo = {}
  /\ workers = 0
  /\ closer' = [closer EXCEPT !.pc = "done"]
  /\ UNCHANGED <<store, revision, writer, owner, binding, gate, closed,
                 workers, runtime, caller, crashes, history>>

(* The daemon dies (or has exited) and starts again: memory is lost, the   *)
(* rows stay, Recover removes every writer lock.  Children of the old      *)
(* process are not this daemon's any more.                                 *)
Restart ==
  /\ crashes < MaxCrashes
  /\ crashes' = crashes + 1
  /\ owner' = [c \in Credentials |-> None]
  /\ binding' = [s \in Sessions |-> None]
  /\ runtime' = [r \in Runtimes |->
       IF runtime[r].phase = "none" THEN runtime[r]
       ELSE [NewRuntime EXCEPT !.phase = "final", !.cred = runtime[r].cred,
                               !.child = "gone"]]
  /\ writer' = [c \in Credentials |-> None]
  /\ gate' = [s \in Sessions |-> None]
  /\ closed' = FALSE
  /\ workers' = 0
  /\ leaked' = 0
  /\ detached' = [s \in Sessions |-> "none"]
  /\ caller' = [k \in Callers |-> IF caller[k] = AbsentCaller THEN AbsentCaller
                                                          ELSE IdleCaller]
  /\ closer' = IdleCloser
  /\ UNCHANGED <<store, revision, finals>>

-----------------------------------------------------------------------------
Start(k) ==
  \/ \E s \in Sessions : BeginStart(k, s) \/ BeginReserved(k, s)
  \/ EnterGate(k) \/ GateExpires(k) \/ Recheck(k)
  \/ StartRefused(k) \/ StartShared(k) \/ FinalWait(k) \/ FailStart(k)
  \/ \E r \in Runtimes : StartCreated(k, r) \/ StartThreadFails(k, r)
  \/ SetThread(k) \/ ToRunning(k) \/ StartAborts(k)

Stop(k) ==
  \/ \E s \in Sessions, target \in {"exited", "killed"} : BeginStop(k, s, target)
  \/ Interrupt(k) \/ Release(k) \/ ReleaseMissed(k) \/ ReleaseRead(k)
  \/ ReleaseStopping(k) \/ ReleaseTransition(k) \/ ReleaseFinalize(k)
  \/ ReleaseReturn(k)

Input(k) ==
  \/ \E s \in Sessions : BeginInput(k, s)
  \/ InputAnswered(k) \/ InputFault(k) \/ InputReturn(k)

Teardown(r) ==
  \/ \E s \in Sessions : TeardownRead(r, s)
  \/ TeardownTransition(r) \/ TeardownFinalize(r)
  \/ FinalizeKill(r) \/ FinalizeCommit(r)

Close ==
  \/ CloseLock \/ CloseFinalized \/ CloseReturn
  \/ \E r \in Runtimes : CloseTake(r)

Up == closer.pc # "done"

Next ==
  \/ \E k \in Callers : Up /\ (Start(k) \/ Stop(k) \/ Input(k))
  \/ \E r \in Runtimes : Up /\ Teardown(r)
  \/ \E r \in Runtimes, p \in Pumps : Up /\ (PumpFails(r, p) \/ PumpExits(r, p))
  \/ \E r \in Runtimes : ChildExits(r)
  \/ Close
  \/ Restart

Spec == Init /\ [][Next]_vars

(* Scheduling: a caller inside an operation, a pump, failRuntime, finalize *)
(* and Close are goroutines the Go scheduler keeps running, and a killed   *)
(* child exits.  No client is obliged to call, no live child to crash, no  *)
(* operator to stop the daemon.                                            *)
CallerStep(k) == caller[k].pc # "idle" /\ (Start(k) \/ Stop(k) \/ Input(k))

PumpStep(r) == \E p \in Pumps :
  PumpExits(r, p) \/ (p = "wait" /\ PumpFails(r, p))

CloseStep == closer.pc = "closing" /\ Close

Fairness ==
  /\ \A k \in Callers : WF_vars(Up /\ CallerStep(k))
  /\ \A r \in Runtimes :
       /\ WF_vars(Up /\ Teardown(r))
       /\ WF_vars(Up /\ PumpStep(r))
       /\ WF_vars(runtime[r].child = "killed" /\ ChildExits(r))
  /\ WF_vars(CloseStep)

FairSpec == Spec /\ Fairness

-----------------------------------------------------------------------------
(* Every variable has its type; in particular the WaitGroup counter never  *)
(* goes below zero (sync.WaitGroup panics there).                          *)
TypeOK ==
  /\ status \in [Sessions -> Statuses]
  /\ threadId \in [Sessions -> BOOLEAN]
  /\ revision \in [Credentials -> Nat]
  /\ writer \in [Credentials -> Runtimes \cup {None}]
  /\ owner \in [Credentials -> Runtimes \cup {None}]
  /\ binding \in [Sessions -> Runtimes \cup {None}]
  /\ gate \in [Sessions -> Callers \cup {None}]
  /\ closed \in BOOLEAN
  /\ workers \in Nat
  /\ runtime \in [Runtimes -> RuntimeRecord]
  /\ caller \in [Callers -> CallerRecord]
  /\ closer \in [pc: {"idle", "closing", "done"}, todo: SUBSET Runtimes,
                 cur: Runtimes \cup {None}]
  /\ crashes \in Nat
  /\ finals \in [Runtimes -> Nat]
  /\ detached \in [Sessions -> Statuses]
  /\ leaked \in Nat

(* RuntimeManager.bindings, RuntimeManager.runtimes and the Bindings of    *)
(* each CredentialRuntime never disagree outside the lock: a bound Session *)
(* is in the Bindings of the live runtime that its credential maps to, and *)
(* no runtime that left the map keeps a binding.  A live runtime has a     *)
(* Session: neither the last release nor a failed first start leaves an    *)
(* app-server child that nobody would stop.                                *)
RegistryConsistent ==
  /\ \A s \in Sessions, r \in Runtimes :
       binding[s] = r <=> s \in runtime[r].sessions
  /\ \A c \in Credentials, r \in Runtimes :
       owner[c] = r <=> runtime[r].phase = "live" /\ runtime[r].cred = c
  /\ \A r \in Runtimes : \A s \in runtime[r].sessions :
       runtime[r].phase = "live" /\ CredentialOf[s] = runtime[r].cred
  /\ \A r \in Runtimes : runtime[r].phase = "live" => runtime[r].sessions # {}

(* Last release, crash fan-out, a failed start and Close race to finalize  *)
(* a runtime; it is finalized at most once.                                *)
FinalizeOnce == \A r \in Runtimes : finals[r] <= 1

(* Until finalize has committed the credential and given the writer back,  *)
(* no second child is spawned on the same credential.                      *)
SingleWriter ==
  \A r, q \in Runtimes :
    /\ runtime[r].phase \in {"live", "detached", "finalize", "killed"}
    /\ runtime[q].phase \in {"live", "detached", "finalize", "killed"}
    /\ runtime[r].cred = runtime[q].cred
    => r = q

Quiescent ==
  /\ \A k \in Callers : caller[k].pc \in {"idle", "out"}
  /\ \A r \in Runtimes : runtime[r].phase \in {"none", "live", "final"}

(* When all operations have ended, a Session whose binding was removed     *)
(* while it was running or stopping is in a terminal status: some          *)
(* compare-and-swap of the racing teardowns has won.                       *)
DetachedIsTerminal ==
  Quiescent => \A s \in Sessions :
    detached[s] \in {"running", "stopping"} => status[s] \in Terminal

(* The start gate and the second read of the row behind it: a caller about *)
(* to spend a thread/start is the only one inside a start of that Session, *)
(* and the Session has no binding yet.                                     *)
StartExclusive ==
  \A k \in Callers : caller[k].pc = "lock" =>
    /\ binding[caller[k].s] = None
    /\ \A j \in Callers \ {k} :
         ~(caller[j].s = caller[k].s /\ caller[j].pc \in StartPCs)

(* A running Session whose child has exited becomes terminal, unless the   *)
(* daemon ends first.                                                      *)
CrashFanout ==
  \A s \in Sessions :
    /\ status[s] = "running" /\ binding[s] # None
    /\ runtime[binding[s]].child = "gone"
    ~> status[s] \in Terminal \/ closer.pc = "done" \/ crashes > 0

(* A start that reached the manager leaves the starting status, unless the *)
(* daemon ends first.                                                      *)
StartSettles ==
  \A k \in Callers, s \in Sessions :
    caller[k].s = s /\ status[s] = "starting"
    ~> status[s] # "starting" \/ closer.pc = "done" \/ crashes > 0

(* Close returns unless a start that created a runtime failed after it had *)
(* counted the pumps.                                                      *)
CloseReturnsUnlessLeaked ==
  closer.pc = "closing" ~> closer.pc # "closing" \/ leaked > 0

=============================================================================
