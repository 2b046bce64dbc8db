------------------------ MODULE CodexRuntimeProofs ------------------------
(***************************************************************************)
(* Proofs about CodexRuntime for any number of Sessions, credentials,      *)
(* concurrent callers, runtimes and restarts: the maps of the manager and  *)
(* the Bindings of the runtimes agree, a runtime is finalized at most      *)
(* once, a credential has one writer, a start excludes every other start   *)
(* of its Session, a Session that lost its binding reaches a terminal      *)
(* status, and sync.WaitGroup never goes below zero.                       *)
(*                                                                         *)
(* None of these is inductive alone.  IInv adds what each goroutine knows  *)
(* between two locked regions: which start owns a bound Session, which     *)
(* caller or teardown has still to settle a detached one, and which pumps  *)
(* the counter has been promised.                                          *)
(*                                                                         *)
(* The second part looks inside one live runtime (module CodexTurns,       *)
(* instantiated below): turns agree with the app-server, and no event of a *)
(* bound Session fails the runtime.                                        *)
(***************************************************************************)
EXTENDS CodexRuntime, CodexTurnState, Sequences, FiniteSetTheorems, TLAPS

(* Inside Stop or releaseBinding.                                          *)
StopPCs == {"interrupt", "release", "relread", "relstop", "relcas", "relfin"}
(* The statuses a releaseBinding may be asked for.                         *)
Targets == {"exited", "killed", "failed"}
(* Phases in which the runtime still holds its credential's writer.        *)
Busy == {"live", "detached", "finalize", "killed"}

(* A start that has counted its three pumps and has still to launch them.  *)
Owes(c) == c.created /\ c.pc \in {"setthread", "torunning"}

(* What the locals of a caller hold at each of its program points.         *)
CallerFits(c) ==
  /\ c.pc \notin {"idle", "out"} => c.s \in Sessions
  /\ c.pc \in {"gate", "recheck"} => c.s \in Reserved
  /\ c.pc \in {"gate", "recheck", "lock"} => ~c.created
  /\ c.pc \in {"finwait", "turn", "failwait"} \/ Owes(c) => c.rt \in Runtimes
  /\ c.pc \in StopPCs => c.target \in Targets
  /\ c.pc = "interrupt" => c.target # "failed"
  /\ c.pc = "relstop" => c.target = "exited" /\ c.read \notin Terminal
  /\ c.pc = "relcas" /\ c.target = "exited" => c.read = "stopping"

(* Every variable has its type and every caller its locals.                *)
Shape == TypeOK /\ \A k \in Callers : CallerFits(caller[k])

(* A runtime holds the writer lock from its creation to its commit.        *)
WriterHeld ==
  \A r \in Runtimes :
    /\ runtime[r].phase # "none" => runtime[r].cred \in Credentials
    /\ runtime[r].phase \in Busy => writer[runtime[r].cred] = r

(* finalize is counted when it kills the child, once.                      *)
KillCounted ==
  \A r \in Runtimes :
    /\ runtime[r].phase \in {"none", "live", "detached", "finalize"} => finals[r] = 0
    /\ finals[r] <= 1

(* Inside start, the release of a failed start included.                   *)
InStart(c) == c.pc \in StartPCs \/ (c.pc = "release" /\ c.target = "failed")
(* Inside start, past the locked region that bound the Session.            *)
Bound(c) == c.pc \in {"setthread", "torunning"} \/ (c.pc = "release" /\ c.target = "failed")

(* Nobody is working for a Session that has no row.                        *)
Unstarted ==
  \A s \in Sessions : status[s] = "none" =>
    /\ binding[s] = None
    /\ \A k \in Callers : caller[k].s # s

(* Inside the start of a reserved Session the caller owns its gate.        *)
GateHeld ==
  \A k \in Callers : InStart(caller[k]) /\ caller[k].s \in Reserved
                     => gate[caller[k].s] = k

(* No two callers are inside a start of the same Session.                  *)
OneStart ==
  \A j, k \in Callers :
    InStart(caller[j]) /\ InStart(caller[k]) /\ caller[j].s = caller[k].s => j = k

(* A start that is about to bind its Session finds it unbound.             *)
LockUnbound == \A k \in Callers : caller[k].pc = "lock" => binding[caller[k].s] = None

(* A starting row that is already bound belongs to a start still running:  *)
(* the second read behind the gate never admits such a row.                *)
StartingIsOwned ==
  \A s \in Sessions : status[s] = "starting" /\ binding[s] # None =>
    \E k \in Callers : caller[k].s = s /\ Bound(caller[k])

(* A releaseBinding that has still to compare-and-swap s with success.     *)
CallerSettles(c, s) ==
  /\ c.s = s
  /\ \/ c.pc = "relread"
     \/ c.pc \in {"relstop", "relcas"} /\ c.read = status[s]

(* A failRuntime or Close that has still to do so.                         *)
TeardownSettles(rt, s) ==
  /\ rt.phase = "detached" /\ rt.by # "release"
  /\ s \in rt.left \/ (rt.readId = s /\ rt.read = status[s])

(* A Session detached while running or stopping is terminal, or somebody   *)
(* whose read is not stale has still to make it so.                        *)
Settled ==
  \A s \in Sessions : detached[s] \in {"running", "stopping"} =>
    /\ status[s] \notin {"none", "starting"}
    /\ \/ status[s] \in Terminal
       \/ \E k \in Callers : CallerSettles(caller[k], s)
       \/ \E r \in Runtimes : TeardownSettles(runtime[r], s)

(* Inside releaseBinding, past its locked region.                          *)
ReleasePCs == {"relread", "relstop", "relcas", "relfin"}

(* The runtime that a last release took is torn down by no one else.       *)
ReleaseOwns ==
  \A k \in Callers : caller[k].pc \in ReleasePCs /\ caller[k].rt # None =>
    /\ runtime[caller[k].rt].phase \notin {"none", "live"}
    /\ runtime[caller[k].rt].by = "release"

(* What DetachedIsTerminal rests on.                                       *)
SettleInv == Settled /\ ReleaseOwns

(* Pump p of runtime r runs, or a start has promised to launch it.         *)
OwedPumps(r, p) == p \in runtime[r].pumps \/ \E k \in Callers : Owes(caller[k]) /\ caller[k].rt = r
(* The pumps that workers.Done will still be called for.                   *)
Counted == {rp \in Runtimes \X Pumps : OwedPumps(rp[1], rp[2])}

(* The WaitGroup counts every one of them, and a start that owes pumps is  *)
(* the only one to owe them and has launched none.                         *)
WorkersCover ==
  /\ Cardinality(Counted) <= workers
  /\ \A k \in Callers : Owes(caller[k]) =>
       /\ runtime[caller[k].rt].pumps = {}
       /\ runtime[caller[k].rt].phase # "none"
       /\ \A j \in Callers : Owes(caller[j]) /\ caller[j].rt = caller[k].rt => j = k
  /\ \A r \in Runtimes : runtime[r].phase = "none" => runtime[r].pumps = {}

(* What the theorems about the registry rest on.                           *)
RegistryInv == RegistryConsistent /\ WriterHeld /\ KillCounted

(* What StartExclusive rests on.                                           *)
StartInv == Unstarted /\ GateHeld /\ OneStart /\ LockUnbound /\ StartingIsOwned

(* The inductive invariant.                                                *)
IInv == Shape /\ RegistryInv /\ StartInv /\ SettleInv /\ WorkersCover

(* Replacing one caller's record by a fitting one keeps the shape.         *)
LEMMA CallerUpdate ==
  ASSUME TypeOK, NEW k \in Callers, NEW c \in CallerRecord, CallerFits(c),
         \A j \in Callers : CallerFits(caller[j]),
         caller' = [caller EXCEPT ![k] = c]
  PROVE  /\ caller' \in [Callers -> CallerRecord]
         /\ \A j \in Callers : CallerFits(caller'[j])
  BY DEF TypeOK

(* A return keeps the shape of callers and gates.                          *)
LEMMA ReturnShape ==
  ASSUME Shape, NEW k \in Callers, Return(k)
  PROVE  /\ caller' \in [Callers -> CallerRecord]
         /\ \A j \in Callers : CallerFits(caller'[j])
         /\ gate' \in [Sessions -> Callers \cup {None}]
<1>1. IdleCaller \in CallerRecord
  BY DEF IdleCaller, CallerRecord, PCs, Statuses
<1>2. CallerFits(IdleCaller)
  BY DEF CallerFits, Owes, IdleCaller, StopPCs
<1>3. gate' \in [Sessions -> Callers \cup {None}]
  BY DEF Return, Shape, TypeOK
<1> QED BY <1>1, <1>2, <1>3, CallerUpdate DEF Return, Shape

(* So does a jump to a program point that the locals fit.                  *)
LEMMA GotoShape ==
  ASSUME Shape, NEW k \in Callers, NEW pc \in PCs, Goto(k, pc),
         CallerFits([caller[k] EXCEPT !.pc = pc])
  PROVE  /\ caller' \in [Callers -> CallerRecord]
         /\ \A j \in Callers : CallerFits(caller'[j])
<1>1. [caller[k] EXCEPT !.pc = pc] \in CallerRecord
  BY DEF Shape, TypeOK, CallerRecord
<1> QED BY <1>1, CallerUpdate DEF Goto, Shape, TypeOK

(* The first step of a start keeps the shape.                              *)
LEMMA BeginShape ==
  ASSUME Shape, NEW k \in Callers, NEW s \in Sessions,
         BeginStart(k, s) \/ BeginReserved(k, s)
  PROVE  Shape'
<1> USE RuntimeAssumption
<1>0. status' \in [Sessions -> Statuses]
  BY DEF BeginStart, BeginReserved, Shape, TypeOK, Statuses, Active
<1>1. revision[CredentialOf[s]] \in Nat
  BY DEF Shape, TypeOK
<1>2. \A pc \in {"lock", "gate"} :
        [IdleCaller EXCEPT !.pc = pc, !.s = s, !.rev = revision[CredentialOf[s]]] \in CallerRecord
  BY <1>1 DEF IdleCaller, CallerRecord, PCs, Statuses
<1>3. /\ caller' \in [Callers -> CallerRecord]
      /\ \A j \in Callers : CallerFits(caller'[j])
  <2>1. CASE BeginStart(k, s)
    <3>1. CallerFits([IdleCaller EXCEPT !.pc = "lock", !.s = s, !.rev = revision[CredentialOf[s]]])
      BY DEF CallerFits, Owes, IdleCaller, StopPCs
    <3> QED BY <2>1, <3>1, <1>2, CallerUpdate DEF BeginStart, Shape
  <2>2. CASE BeginReserved(k, s)
    <3>1. CallerFits([IdleCaller EXCEPT !.pc = "gate", !.s = s, !.rev = revision[CredentialOf[s]]])
      BY <2>2 DEF BeginReserved, CallerFits, Owes, IdleCaller, StopPCs
    <3> QED BY <2>2, <3>1, <1>2, CallerUpdate DEF BeginReserved, Shape
  <2> QED BY <2>1, <2>2
<1> QED BY <1>0, <1>3 DEF Shape, TypeOK, BeginStart, BeginReserved, store, history

(* Replacing one runtime's record keeps the type.                          *)
LEMMA RuntimeUpdate ==
  ASSUME TypeOK, NEW r \in Runtimes, NEW x \in RuntimeRecord,
         runtime' = [runtime EXCEPT ![r] = x]
  PROVE  runtime' \in [Runtimes -> RuntimeRecord]
  BY DEF TypeOK

(* The steps of start that touch no runtime keep the shape.                *)
LEMMA StartCallerShape ==
  ASSUME Shape, NEW k \in Callers,
         EnterGate(k) \/ GateExpires(k) \/ Recheck(k) \/ StartRefused(k) \/ FinalWait(k)
           \/ FailStart(k) \/ SetThread(k) \/ StartAborts(k)
  PROVE  Shape'
<1>1. CASE EnterGate(k)
  BY <1>1, GotoShape DEF EnterGate, Shape, TypeOK, PCs, CallerFits, Owes, CallerRecord, StopPCs, store, history
<1>2. CASE GateExpires(k)
  BY <1>2, ReturnShape DEF GateExpires, Shape, TypeOK, store, history
<1>3. CASE Recheck(k)
  <2>1. /\ caller' \in [Callers -> CallerRecord]
        /\ \A j \in Callers : CallerFits(caller'[j])
        /\ gate' \in [Sessions -> Callers \cup {None}]
    <3>1. CASE Goto(k, "lock") /\ UNCHANGED gate
      <4>1. caller[k] \in CallerRecord /\ CallerFits(caller[k]) /\ caller[k].pc = "recheck"
        BY <1>3 DEF Recheck, Shape, TypeOK
      <4>2. CallerFits([caller[k] EXCEPT !.pc = "lock"])
        BY <4>1 DEF CallerFits, Owes, CallerRecord, StopPCs
      <4>3. "lock" \in PCs
        BY DEF PCs
      <4> QED BY <3>1, <4>2, <4>3, GotoShape DEF Shape, TypeOK
    <3>2. CASE Return(k)
      BY <3>2, ReturnShape
    <3> QED BY <1>3, <3>1, <3>2 DEF Recheck
  <2> QED BY <1>3, <2>1 DEF Recheck, Shape, TypeOK, store, history
<1>4. CASE StartRefused(k)
  BY <1>4, GotoShape DEF StartRefused, Shape, TypeOK, PCs, CallerFits, Owes, CallerRecord, StopPCs, store, history
<1>5. CASE FinalWait(k)
  BY <1>5, GotoShape DEF FinalWait, Shape, TypeOK, PCs, CallerFits, Owes, CallerRecord, StopPCs, store, history
<1>6. CASE FailStart(k)
  <2>1. status' \in [Sessions -> Statuses]
    BY <1>6 DEF FailStart, Transition, Statuses, Terminal, Shape, TypeOK
  <2> QED BY <1>6, <2>1, ReturnShape DEF FailStart, Shape, TypeOK, history
<1>7. CASE SetThread(k)
  BY <1>7, GotoShape DEF SetThread, Shape, TypeOK, PCs, CallerFits, Owes, CallerRecord, StopPCs, history
<1>8. CASE StartAborts(k)
  <2> DEFINE c == [caller[k] EXCEPT !.pc = "release", !.target = "failed"]
  <2>1. caller' = [caller EXCEPT ![k] = c]
    BY <1>8 DEF StartAborts, Shape, TypeOK
  <2>2. c \in CallerRecord
    <3>1. caller[k] \in CallerRecord
      BY DEF Shape, TypeOK
    <3> QED BY <3>1 DEF CallerRecord, PCs, Statuses, Terminal
  <2>3. CallerFits(c)
    BY <1>8 DEF StartAborts, Shape, TypeOK, CallerRecord, Owes, CallerFits, StopPCs, Targets
  <2>4. leaked' \in Nat
    BY <1>8 DEF StartAborts, Shape, TypeOK
  <2> HIDE DEF c
  <2>5. /\ caller' \in [Callers -> CallerRecord]
        /\ \A j \in Callers : CallerFits(caller'[j])
    BY <2>1, <2>2, <2>3, CallerUpdate DEF Shape
  <2> QED BY <1>8, <2>4, <2>5 DEF StartAborts, Shape, TypeOK, store
<1> QED BY <1>1, <1>2, <1>3, <1>4, <1>5, <1>6, <1>7, <1>8

(* Creating a runtime keeps the shape.                                     *)
LEMMA StartRuntimeShape ==
  ASSUME Shape, NEW k \in Callers, NEW r \in Runtimes,
         StartCreated(k, r) \/ StartThreadFails(k, r)
  PROVE  Shape'
<1> USE RuntimeAssumption
<1>0. caller[k].pc = "lock" /\ caller[k].s \in Sessions /\ Cred(k) \in Credentials
      /\ caller[k].rev \in Nat
  BY DEF StartCreated, StartThreadFails, Shape, TypeOK, CallerFits, Owes, CallerRecord, Cred
<1>1. CASE StartCreated(k, r)
  <2> DEFINE c == [caller[k] EXCEPT !.pc = "setthread", !.created = TRUE, !.rt = r]
             x == [NewRuntime EXCEPT !.phase = "live", !.cred = Cred(k),
                     !.rev = caller[k].rev, !.sessions = {caller[k].s}, !.child = "alive"]
  <2>1. caller' = [caller EXCEPT ![k] = c] /\ runtime' = [runtime EXCEPT ![r] = x]
    BY <1>1 DEF StartCreated, Shape, TypeOK
  <2>2. c \in CallerRecord
    <3>1. caller[k] \in CallerRecord
      BY DEF Shape, TypeOK
    <3> QED BY <3>1 DEF CallerRecord, PCs
  <2>3. CallerFits(c)
    BY <1>0, <1>1 DEF Shape, TypeOK, CallerRecord, Owes, CallerFits, StopPCs, Targets
  <2>4. x \in RuntimeRecord
    BY <1>0 DEF NewRuntime, RuntimeRecord, Phases, Statuses, Pumps
  <2> HIDE DEF c, x
  <2>5. /\ caller' \in [Callers -> CallerRecord]
        /\ \A j \in Callers : CallerFits(caller'[j])
    BY <2>1, <2>2, <2>3, CallerUpdate DEF Shape
  <2>6. runtime' \in [Runtimes -> RuntimeRecord]
    BY <2>1, <2>4, RuntimeUpdate DEF Shape
  <2>7. /\ writer' \in [Credentials -> Runtimes \cup {None}]
        /\ owner' \in [Credentials -> Runtimes \cup {None}]
        /\ binding' \in [Sessions -> Runtimes \cup {None}]
        /\ workers' \in Nat
    BY <1>0, <1>1 DEF StartCreated, Bind, Shape, TypeOK
  <2> QED BY <1>1, <2>5, <2>6, <2>7 DEF StartCreated, Shape, TypeOK, store
<1>2. CASE StartThreadFails(k, r)
  <2> DEFINE c == [caller[k] EXCEPT !.pc = "finwait", !.rt = r]
             x == [NewRuntime EXCEPT !.phase = "finalize", !.by = "start",
                     !.cred = Cred(k), !.rev = caller[k].rev, !.child = "alive"]
  <2>1. caller' = [caller EXCEPT ![k] = c] /\ runtime' = [runtime EXCEPT ![r] = x]
    BY <1>2 DEF StartThreadFails, Shape, TypeOK
  <2>2. c \in CallerRecord
    <3>1. caller[k] \in CallerRecord
      BY DEF Shape, TypeOK
    <3> QED BY <3>1 DEF CallerRecord, PCs
  <2>3. CallerFits(c)
    BY <1>0, <1>2 DEF Shape, TypeOK, CallerRecord, Owes, CallerFits, StopPCs, Targets
  <2>4. x \in RuntimeRecord
    BY <1>0 DEF NewRuntime, RuntimeRecord, Phases, Statuses, Pumps
  <2> HIDE DEF c, x
  <2>5. /\ caller' \in [Callers -> CallerRecord]
        /\ \A j \in Callers : CallerFits(caller'[j])
    BY <2>1, <2>2, <2>3, CallerUpdate DEF Shape
  <2>6. runtime' \in [Runtimes -> RuntimeRecord]
    BY <2>1, <2>4, RuntimeUpdate DEF Shape
  <2>7. writer' \in [Credentials -> Runtimes \cup {None}]
    BY <1>0, <1>2 DEF StartThreadFails, Shape, TypeOK
  <2> QED BY <1>2, <2>5, <2>6, <2>7 DEF StartThreadFails, Shape, TypeOK, store, history
<1> QED BY <1>1, <1>2

(* Sharing a runtime and the end of a start keep the shape.                *)
LEMMA StartRestShape ==
  ASSUME Shape, NEW k \in Callers, StartShared(k) \/ ToRunning(k)
  PROVE  Shape'
<1> USE RuntimeAssumption
<1>0. caller[k].s \in Sessions /\ Cred(k) \in Credentials
  BY DEF StartShared, ToRunning, Shape, TypeOK, CallerFits, Owes, CallerRecord, Cred
<1>1. CASE StartShared(k)
  <2> DEFINE r == owner[Cred(k)]
             x == [runtime[r] EXCEPT !.sessions = @ \cup {caller[k].s}]
  <2>0. r \in Runtimes
    BY <1>0, <1>1 DEF StartShared, Shape, TypeOK
  <2>1. runtime' = [runtime EXCEPT ![r] = x]
    BY <1>1 DEF StartShared, Shape, TypeOK
  <2>2. x \in RuntimeRecord
    <3>1. runtime[r] \in RuntimeRecord
      BY <2>0 DEF Shape, TypeOK
    <3> QED BY <1>0, <3>1 DEF RuntimeRecord
  <2>3. binding' \in [Sessions -> Runtimes \cup {None}]
    BY <1>0, <1>1, <2>0 DEF StartShared, Bind, Shape, TypeOK
  <2>4. /\ caller' \in [Callers -> CallerRecord]
        /\ \A j \in Callers : CallerFits(caller'[j])
    <3>1. caller[k] \in CallerRecord /\ CallerFits(caller[k]) /\ caller[k].pc = "lock"
      BY <1>1 DEF StartShared, Shape, TypeOK
    <3>2. CallerFits([caller[k] EXCEPT !.pc = "setthread"])
      BY <3>1 DEF CallerFits, Owes, CallerRecord, StopPCs
    <3>3. "setthread" \in PCs /\ Goto(k, "setthread")
      BY <1>1 DEF StartShared, PCs
    <3> QED BY <3>2, <3>3, GotoShape
  <2>6. UNCHANGED <<status, threadId, revision, writer, owner, gate, closed, workers, closer, crashes, finals, detached, leaked>>
    BY <1>1 DEF StartShared, store
  <2> HIDE DEF x, r
  <2>5. runtime' \in [Runtimes -> RuntimeRecord]
    BY <2>0, <2>1, <2>2, RuntimeUpdate DEF Shape
  <2> QED BY <2>3, <2>4, <2>5, <2>6 DEF Shape, TypeOK
<1>2. CASE ToRunning(k)
  <2>1. status' \in [Sessions -> Statuses]
    BY <1>0, <1>2 DEF ToRunning, Transition, Statuses, Active, Shape, TypeOK
  <2>2. runtime' \in [Runtimes -> RuntimeRecord]
    <3>1. CASE caller[k].created
      <4> DEFINE r == caller[k].rt
                 x == [runtime[r] EXCEPT !.pumps = Launched]
      <4>1. r \in Runtimes
        BY <1>2, <3>1 DEF ToRunning, Shape, CallerFits, Owes
      <4>2. x \in RuntimeRecord
        <5>1. runtime[r] \in RuntimeRecord
          BY <4>1 DEF Shape, TypeOK
        <5> QED BY <5>1 DEF RuntimeRecord, Launched
      <4>3. runtime' = [runtime EXCEPT ![r] = x]
        BY <1>2, <3>1 DEF ToRunning, Shape, TypeOK
      <4> HIDE DEF x, r
      <4> QED BY <4>1, <4>2, <4>3, RuntimeUpdate DEF Shape
    <3> QED BY <1>2, <3>1 DEF ToRunning, Shape, TypeOK
  <2>3. /\ caller' \in [Callers -> CallerRecord]
        /\ \A j \in Callers : CallerFits(caller'[j])
        /\ gate' \in [Sessions -> Callers \cup {None}]
    BY <1>2, ReturnShape DEF ToRunning
  <2> QED BY <1>2, <2>1, <2>2, <2>3 DEF ToRunning, Shape, TypeOK, history
<1> QED BY <1>1, <1>2

(* The steps of Stop outside the locked region keep the shape.             *)
LEMMA StopShape ==
  ASSUME Shape, NEW k \in Callers,
         Interrupt(k) \/ ReleaseMissed(k) \/ ReleaseRead(k) \/ ReleaseStopping(k)
           \/ ReleaseTransition(k) \/ ReleaseFinalize(k) \/ ReleaseReturn(k)
  PROVE  Shape'
<1>0. caller[k] \in CallerRecord /\ CallerFits(caller[k])
  BY DEF Shape, TypeOK
<1>1. CASE Interrupt(k)
  <2>1. CASE Goto(k, "release") /\ UNCHANGED gate
    <3>1. CallerFits([caller[k] EXCEPT !.pc = "release"])
      BY <1>0, <1>1 DEF Interrupt, CallerFits, Owes, StopPCs, CallerRecord
    <3>2. "release" \in PCs
      BY DEF PCs
    <3> QED BY <1>1, <2>1, <3>1, <3>2, GotoShape DEF Interrupt, Shape, TypeOK, store, history
  <2>2. CASE Return(k)
    BY <1>1, <2>2, ReturnShape DEF Interrupt, Shape, TypeOK, store, history
  <2> QED BY <1>1, <2>1, <2>2 DEF Interrupt
<1>2. CASE ReleaseMissed(k)
  BY <1>2, ReturnShape DEF ReleaseMissed, Shape, TypeOK, store, history
<1>3. CASE ReleaseRead(k)
  <2> DEFINE st == status[caller[k].s]
             pc == IF st \in Terminal THEN "relfin"
                   ELSE IF caller[k].target = "exited" /\ st # "stopping"
                        THEN "relstop" ELSE "relcas"
             c == [caller[k] EXCEPT !.read = st, !.pc = pc]
  <2>1. caller' = [caller EXCEPT ![k] = c]
    BY <1>3 DEF ReleaseRead, Shape, TypeOK
  <2>2. caller[k].s \in Sessions
    BY <1>0, <1>3 DEF ReleaseRead, CallerFits
  <2>3. st \in Statuses /\ pc \in PCs
    BY <2>2 DEF Shape, TypeOK, PCs
  <2>4. c \in CallerRecord
    BY <1>0, <2>3 DEF CallerRecord
  <2>5. CallerFits(c)
    BY <1>0, <1>3, <2>2, <2>3 DEF ReleaseRead, CallerFits, Owes, CallerRecord, StopPCs, Statuses
  <2> HIDE DEF c
  <2>6. /\ caller' \in [Callers -> CallerRecord]
        /\ \A j \in Callers : CallerFits(caller'[j])
    BY <2>1, <2>4, <2>5, CallerUpdate DEF Shape
  <2> QED BY <1>3, <2>6 DEF ReleaseRead, Shape, TypeOK, store, history
<1>4. CASE ReleaseStopping(k)
  <2> DEFINE c == [caller[k] EXCEPT !.pc = "relcas", !.read = "stopping"]
  <2>1. caller' = [caller EXCEPT ![k] = c]
    BY <1>4 DEF ReleaseStopping, Shape, TypeOK
  <2>2. c \in CallerRecord
    BY <1>0 DEF CallerRecord, PCs, Statuses, Active
  <2>3. CallerFits(c)
    BY <1>0, <1>4 DEF ReleaseStopping, CallerFits, Owes, CallerRecord, StopPCs
  <2> HIDE DEF c
  <2>4. /\ caller' \in [Callers -> CallerRecord]
        /\ \A j \in Callers : CallerFits(caller'[j])
    BY <2>1, <2>2, <2>3, CallerUpdate DEF Shape
  <2>5. status' \in [Sessions -> Statuses]
    BY <1>4 DEF ReleaseStopping, Transition, Shape, TypeOK, Statuses, Active
  <2> QED BY <1>4, <2>4, <2>5 DEF ReleaseStopping, Shape, TypeOK, history
<1>5. CASE ReleaseTransition(k)
  <2>1. caller[k].target \in Statuses
    BY <1>0 DEF CallerRecord
  <2>2. status' \in [Sessions -> Statuses]
    BY <1>5, <2>1 DEF ReleaseTransition, Transition, Shape, TypeOK
  <2>3. CallerFits([caller[k] EXCEPT !.pc = "relfin"])
    BY <1>0, <1>5 DEF ReleaseTransition, CallerFits, Owes, StopPCs, CallerRecord
  <2>4. "relfin" \in PCs
    BY DEF PCs
  <2> QED BY <1>5, <2>2, <2>3, <2>4, GotoShape DEF ReleaseTransition, Shape, TypeOK, history
<1>6. CASE ReleaseFinalize(k)
  <2> DEFINE r == caller[k].rt
             x == [runtime[r] EXCEPT !.phase = "finalize"]
  <2>1. r \in Runtimes
    BY <1>0, <1>6 DEF ReleaseFinalize, CallerRecord
  <2>2. runtime[r] \in RuntimeRecord
    BY <2>1 DEF Shape, TypeOK
  <2>3. x \in RuntimeRecord
    BY <2>2 DEF RuntimeRecord, Phases
  <2>4. runtime' = [runtime EXCEPT ![r] = x]
    BY <1>6 DEF ReleaseFinalize, Shape, TypeOK
  <2> HIDE DEF r, x
  <2>5. runtime' \in [Runtimes -> RuntimeRecord]
    BY <2>1, <2>3, <2>4, RuntimeUpdate DEF Shape
  <2> QED BY <1>6, <2>5 DEF ReleaseFinalize, Shape, TypeOK, store, history
<1>7. CASE ReleaseReturn(k)
  BY <1>7, ReturnShape DEF ReleaseReturn, Shape, TypeOK, store, history
<1> QED BY <1>1, <1>2, <1>3, <1>4, <1>5, <1>6, <1>7

(* releaseBinding's locked region keeps the shape.                         *)
LEMMA ReleaseShape ==
  ASSUME Shape, NEW k \in Callers, Release(k)
  PROVE  Shape'
<1> DEFINE s == caller[k].s
           r == binding[s]
           last == LastBinding(r, s)
           c == [caller[k] EXCEPT !.pc = "relread", !.rt = IF last THEN r ELSE None]
           x == [runtime[r] EXCEPT !.sessions = @ \ {s},
                   !.phase = IF last THEN "detached" ELSE @,
                   !.by = IF last THEN "release" ELSE @]
<1>0. caller[k] \in CallerRecord /\ CallerFits(caller[k])
  BY DEF Shape, TypeOK
<1>1. s \in Sessions /\ r \in Runtimes
  BY <1>0 DEF Release, CallerFits, Shape, TypeOK
<1>2. caller' = [caller EXCEPT ![k] = c]
  BY DEF Release, Shape, TypeOK
<1>21. runtime' = [runtime EXCEPT ![r] = x]
  BY DEF Release
<1>3. c \in CallerRecord
  BY <1>0, <1>1 DEF CallerRecord, PCs
<1>4. CallerFits(c)
  <2>1. caller[k].target \in Targets /\ caller[k].pc = "release"
    BY <1>0 DEF Release, CallerFits, Owes, StopPCs
  <2> QED BY <1>0, <1>1, <2>1 DEF CallerFits, Owes, StopPCs, CallerRecord
<1>5. x \in RuntimeRecord
  <2>1. runtime[r] \in RuntimeRecord
    BY <1>1 DEF Shape, TypeOK
  <2> QED BY <2>1 DEF RuntimeRecord, Phases
<1>6. /\ detached' \in [Sessions -> Statuses]
      /\ binding' \in [Sessions -> Runtimes \cup {None}]
      /\ owner' \in [Credentials -> Runtimes \cup {None}]
  BY <1>1 DEF Release, Shape, TypeOK
<1>7. UNCHANGED <<status, threadId, revision, writer, gate, closed, workers, closer, crashes, finals, leaked>>
  BY DEF Release, store
<1> HIDE DEF c, x, r, s, last
<1>8. /\ caller' \in [Callers -> CallerRecord]
      /\ \A j \in Callers : CallerFits(caller'[j])
  BY <1>2, <1>3, <1>4, CallerUpdate DEF Shape
<1>9. runtime' \in [Runtimes -> RuntimeRecord]
  BY <1>1, <1>21, <1>5, RuntimeUpdate DEF Shape
<1> QED BY <1>6, <1>7, <1>8, <1>9 DEF Shape, TypeOK

(* Beginning a stop or an input and the ends of Input keep the shape.      *)
LEMMA InputShape ==
  ASSUME Shape, NEW k \in Callers,
         \/ \E s \in Sessions, target \in {"exited", "killed"} : BeginStop(k, s, target)
         \/ \E s \in Sessions : BeginInput(k, s)
         \/ InputAnswered(k) \/ InputReturn(k)
  PROVE  Shape'
<1>1. ASSUME NEW s \in Sessions, NEW target \in {"exited", "killed"}, BeginStop(k, s, target)
      PROVE  Shape'
  <2> DEFINE c == [IdleCaller EXCEPT !.pc = "interrupt", !.s = s, !.target = target]
  <2>1. c \in CallerRecord
    BY DEF IdleCaller, CallerRecord, PCs, Statuses, Terminal
  <2>2. CallerFits(c)
    BY DEF IdleCaller, CallerFits, Owes, Targets
  <2>3. caller' = [caller EXCEPT ![k] = c]
    BY <1>1 DEF BeginStop
  <2> HIDE DEF c
  <2>4. /\ caller' \in [Callers -> CallerRecord]
        /\ \A j \in Callers : CallerFits(caller'[j])
    BY <2>1, <2>2, <2>3, CallerUpdate DEF Shape
  <2> QED BY <1>1, <2>4 DEF BeginStop, Shape, TypeOK, store, history
<1>2. ASSUME NEW s \in Sessions, BeginInput(k, s) PROVE Shape'
  <2> DEFINE c == [IdleCaller EXCEPT !.pc = "turn", !.s = s, !.rt = binding[s]]
  <2>0. binding[s] \in Runtimes
    BY <1>2 DEF BeginInput, Shape, TypeOK
  <2>1. c \in CallerRecord
    BY <2>0 DEF IdleCaller, CallerRecord, PCs, Statuses
  <2>2. CallerFits(c)
    BY <2>0 DEF IdleCaller, CallerFits, Owes, StopPCs
  <2>3. caller' = [caller EXCEPT ![k] = c]
    BY <1>2 DEF BeginInput
  <2> HIDE DEF c
  <2>4. /\ caller' \in [Callers -> CallerRecord]
        /\ \A j \in Callers : CallerFits(caller'[j])
    BY <2>1, <2>2, <2>3, CallerUpdate DEF Shape
  <2> QED BY <1>2, <2>4 DEF BeginInput, Shape, TypeOK, store, history
<1>3. CASE InputAnswered(k)
  BY <1>3, ReturnShape DEF InputAnswered, Shape, TypeOK, store, history
<1>4. CASE InputReturn(k)
  BY <1>4, ReturnShape DEF InputReturn, Shape, TypeOK, store, history
<1> QED BY <1>1, <1>2, <1>3, <1>4

(* Detaching runtimes keeps the types of the maps.                         *)
LEMMA DetachShape ==
  ASSUME Shape, NEW rs, Detach(rs)
  PROVE  /\ owner' \in [Credentials -> Runtimes \cup {None}]
         /\ binding' \in [Sessions -> Runtimes \cup {None}]
         /\ detached' \in [Sessions -> Statuses]
  BY DEF Detach, Shape, TypeOK

(* What a detached runtime's record holds.                                 *)
LEMMA DetachedRecord ==
  ASSUME Shape, NEW r \in Runtimes, NEW who \in Pumps \cup {"input", "close"}
  PROVE  /\ Detached(r, who) \in RuntimeRecord
         /\ Detached(r, who).phase = "detached"
         /\ Detached(r, who).by = who
         /\ Detached(r, who).left = runtime[r].sessions
         /\ Detached(r, who).sessions = {}
         /\ Detached(r, who).cred = runtime[r].cred
         /\ Detached(r, who).pumps = runtime[r].pumps
<1>1. runtime[r] \in RuntimeRecord
  BY DEF Shape, TypeOK
<1> QED BY <1>1 DEF Detached, RuntimeRecord, Phases, Pumps

(* failRuntime's locked region keeps the types.                            *)
LEMMA FailShape ==
  ASSUME Shape, NEW r \in Runtimes, NEW who \in Pumps \cup {"input", "close"},
         FailRuntime(r, who)
  PROVE  /\ runtime' \in [Runtimes -> RuntimeRecord]
         /\ owner' \in [Credentials -> Runtimes \cup {None}]
         /\ binding' \in [Sessions -> Runtimes \cup {None}]
         /\ detached' \in [Sessions -> Statuses]
<1>1. runtime' \in [Runtimes -> RuntimeRecord]
  BY DetachedRecord, RuntimeUpdate DEF FailRuntime, Shape
<1> QED BY <1>1, DetachShape DEF FailRuntime

(* A fault met by Input or by a pump keeps the shape.                      *)
LEMMA FaultShape ==
  ASSUME Shape,
         \/ \E k \in Callers : InputFault(k)
         \/ \E r \in Runtimes, p \in Pumps : PumpFails(r, p)
  PROVE  Shape'
<1>1. ASSUME NEW k \in Callers, InputFault(k) PROVE Shape'
  <2>0. caller[k] \in CallerRecord /\ CallerFits(caller[k]) /\ caller[k].pc = "turn"
    BY <1>1 DEF InputFault, Shape, TypeOK
  <2>1. caller[k].rt \in Runtimes
    BY <2>0 DEF CallerFits
  <2>2. CallerFits([caller[k] EXCEPT !.pc = "failwait"]) /\ "failwait" \in PCs
    BY <2>0, <2>1 DEF CallerFits, CallerRecord, Owes, StopPCs, PCs
  <2>3. /\ caller' \in [Callers -> CallerRecord]
        /\ \A j \in Callers : CallerFits(caller'[j])
    BY <1>1, <2>2, GotoShape DEF InputFault
  <2>4. /\ runtime' \in [Runtimes -> RuntimeRecord]
        /\ owner' \in [Credentials -> Runtimes \cup {None}]
        /\ binding' \in [Sessions -> Runtimes \cup {None}]
        /\ detached' \in [Sessions -> Statuses]
    BY <1>1, <2>1, FailShape DEF InputFault
  <2> QED BY <1>1, <2>3, <2>4 DEF InputFault, Shape, TypeOK, store
<1>2. ASSUME NEW r \in Runtimes, NEW p \in Pumps, PumpFails(r, p) PROVE Shape'
  <2>4. /\ runtime' \in [Runtimes -> RuntimeRecord]
        /\ owner' \in [Credentials -> Runtimes \cup {None}]
        /\ binding' \in [Sessions -> Runtimes \cup {None}]
        /\ detached' \in [Sessions -> Statuses]
    BY <1>2, FailShape DEF PumpFails
  <2> QED BY <1>2, <2>4 DEF PumpFails, Shape, TypeOK, store
<1> QED BY <1>1, <1>2

(* Teardown, finalize and the exit of a child keep the shape.              *)
LEMMA TeardownShape ==
  ASSUME Shape, NEW r \in Runtimes,
         Teardown(r) \/ ChildExits(r)
  PROVE  Shape'
<1> USE RuntimeAssumption
<1>0. runtime[r] \in RuntimeRecord
  BY DEF Shape, TypeOK
<1>1. ASSUME NEW s \in Sessions, TeardownRead(r, s) PROVE Shape'
  <2> DEFINE x == [runtime[r] EXCEPT !.left = @ \ {s}, !.read = status[s],
                     !.readId = IF status[s] \in Terminal THEN None ELSE s]
  <2>1. status[s] \in Statuses
    BY DEF Shape, TypeOK
  <2>2. x \in RuntimeRecord
    BY <1>0, <2>1 DEF RuntimeRecord
  <2>3. runtime' = [runtime EXCEPT ![r] = x]
    BY <1>1 DEF TeardownRead
  <2> HIDE DEF x
  <2>4. runtime' \in [Runtimes -> RuntimeRecord]
    BY <2>2, <2>3, RuntimeUpdate DEF Shape
  <2> QED BY <1>1, <2>4 DEF TeardownRead, Shape, TypeOK, store, history
<1>2. CASE TeardownTransition(r)
  <2>1. [runtime[r] EXCEPT !.readId = None] \in RuntimeRecord
    BY <1>0 DEF RuntimeRecord
  <2>2. runtime' \in [Runtimes -> RuntimeRecord]
    BY <1>2, <2>1, RuntimeUpdate DEF TeardownTransition, Shape
  <2>3. status' \in [Sessions -> Statuses]
    BY <1>2 DEF TeardownTransition, Transition, Statuses, Terminal, Shape, TypeOK
  <2> QED BY <1>2, <2>2, <2>3 DEF TeardownTransition, Shape, TypeOK, history
<1>3. CASE TeardownFinalize(r)
  <2>1. [runtime[r] EXCEPT !.phase = "finalize"] \in RuntimeRecord
    BY <1>0 DEF RuntimeRecord, Phases
  <2>2. runtime' \in [Runtimes -> RuntimeRecord]
    BY <1>3, <2>1, RuntimeUpdate DEF TeardownFinalize, Shape
  <2> QED BY <1>3, <2>2 DEF TeardownFinalize, Shape, TypeOK, store, history
<1>4. CASE FinalizeKill(r)
  <2> DEFINE ch == IF runtime[r].child = "alive" THEN "killed" ELSE runtime[r].child
             x == [runtime[r] EXCEPT !.phase = "killed", !.child = ch]
  <2>2. runtime' = [runtime EXCEPT ![r] = x]
    BY <1>4 DEF FinalizeKill
  <2>0. ch \in {"none", "alive", "killed", "gone"}
    BY <1>0 DEF RuntimeRecord
  <2> HIDE DEF ch
  <2>1. x \in RuntimeRecord
    BY <1>0, <2>0 DEF RuntimeRecord, Phases
  <2>3. finals' \in [Runtimes -> Nat]
    BY <1>4 DEF FinalizeKill, Shape, TypeOK
  <2> HIDE DEF x
  <2>4. runtime' \in [Runtimes -> RuntimeRecord]
    BY <2>1, <2>2, RuntimeUpdate DEF Shape
  <2> QED BY <1>4, <2>3, <2>4 DEF FinalizeKill, Shape, TypeOK, store
<1>5. CASE FinalizeCommit(r)
  <2>1. [runtime[r] EXCEPT !.phase = "final"] \in RuntimeRecord
    BY <1>0 DEF RuntimeRecord, Phases
  <2>2. runtime' \in [Runtimes -> RuntimeRecord]
    BY <1>5, <2>1, RuntimeUpdate DEF FinalizeCommit, Shape
  <2>3. writer' \in [Credentials -> Runtimes \cup {None}]
    BY <1>5 DEF FinalizeCommit, Shape, TypeOK
  <2>4. revision' \in [Credentials -> Nat]
    <3>1. PICK changed \in BOOLEAN :
            revision' = [revision EXCEPT ![runtime[r].cred] = IF changed THEN @ + 1 ELSE @]
      BY <1>5 DEF FinalizeCommit
    <3>2. revision \in [Credentials -> Nat]
      BY DEF Shape, TypeOK
    <3>3. \A n \in Nat : n + 1 \in Nat
      OBVIOUS
    <3> QED BY <3>1, <3>2, <3>3
  <2> QED BY <1>5, <2>2, <2>3, <2>4 DEF FinalizeCommit, Shape, TypeOK, store, history
<1>6. CASE ChildExits(r)
  <2>1. [runtime[r] EXCEPT !.child = "gone"] \in RuntimeRecord
    BY <1>0 DEF RuntimeRecord
  <2>2. runtime' \in [Runtimes -> RuntimeRecord]
    BY <1>6, <2>1, RuntimeUpdate DEF ChildExits, Shape
  <2> QED BY <1>6, <2>2 DEF ChildExits, Shape, TypeOK, store, history
<1> QED BY <1>1, <1>2, <1>3, <1>4, <1>5, <1>6 DEF Teardown

(* Close and a restart keep the shape.                                     *)
LEMMA CloseShape ==
  ASSUME Shape, Close \/ Restart
  PROVE  Shape'
<1> USE RuntimeAssumption
<1>1. CASE CloseLock
  <2>1. runtime' \in [Runtimes -> RuntimeRecord]
    <3>1. \A r \in Runtimes : Detached(r, "close") \in RuntimeRecord
      BY DetachedRecord
    <3> QED BY <1>1, <3>1 DEF CloseLock, Shape, TypeOK
  <2>2. LiveRuntimes \subseteq Runtimes
    BY DEF LiveRuntimes, Shape, TypeOK
  <2>3. closer' \in [pc: {"idle", "closing", "done"}, todo: SUBSET Runtimes,
                     cur: Runtimes \cup {None}]
    BY <1>1, <2>2 DEF CloseLock
  <2>4. /\ owner' \in [Credentials -> Runtimes \cup {None}]
        /\ binding' \in [Sessions -> Runtimes \cup {None}]
        /\ detached' \in [Sessions -> Statuses]
    BY <1>1, DetachShape DEF CloseLock
  <2> QED BY <1>1, <2>1, <2>3, <2>4 DEF CloseLock, Shape, TypeOK, store
<1>2. CASE CloseFinalized
  BY <1>2 DEF CloseFinalized, Shape, TypeOK, store, history
<1>3. CASE CloseReturn
  BY <1>3 DEF CloseReturn, Shape, TypeOK, store, history
<1>4. ASSUME NEW r \in Runtimes, CloseTake(r) PROVE Shape'
  BY <1>4 DEF CloseTake, Shape, TypeOK, store, history
<1>5. CASE Restart
  <2>1. \A r \in Runtimes :
          [NewRuntime EXCEPT !.phase = "final", !.cred = runtime[r].cred, !.child = "gone"]
            \in RuntimeRecord
    BY DEF Shape, TypeOK, NewRuntime, RuntimeRecord, Phases, Statuses, Pumps
  <2>2. runtime' \in [Runtimes -> RuntimeRecord]
    BY <1>5, <2>1 DEF Restart, Shape, TypeOK
  <2>3. IdleCaller \in CallerRecord /\ AbsentCaller \in CallerRecord
    BY DEF IdleCaller, AbsentCaller, CallerRecord, PCs, Statuses
  <2>4. CallerFits(IdleCaller) /\ CallerFits(AbsentCaller)
    BY DEF IdleCaller, AbsentCaller, CallerFits, Owes, StopPCs
  <2>5. /\ caller' \in [Callers -> CallerRecord]
        /\ \A j \in Callers : CallerFits(caller'[j])
    BY <1>5, <2>3, <2>4 DEF Restart
  <2>6. /\ owner' \in [Credentials -> Runtimes \cup {None}]
        /\ binding' \in [Sessions -> Runtimes \cup {None}]
        /\ writer' \in [Credentials -> Runtimes \cup {None}]
        /\ gate' \in [Sessions -> Callers \cup {None}]
        /\ detached' \in [Sessions -> Statuses]
    BY <1>5 DEF Restart, Statuses
  <2>8. workers' \in Nat /\ leaked' \in Nat /\ crashes' \in Nat
    <3>1. crashes \in Nat
      BY DEF Shape, TypeOK
    <3>2. workers' = 0 /\ leaked' = 0 /\ crashes' = crashes + 1
      BY <1>5 DEF Restart
    <3> QED BY <3>1, <3>2
  <2>9. closed' \in BOOLEAN
    BY <1>5 DEF Restart
  <2>7. closer' \in [pc: {"idle", "closing", "done"}, todo: SUBSET Runtimes,
                     cur: Runtimes \cup {None}]
    BY <1>5 DEF Restart, IdleCloser
  <2> QED BY <1>5, <2>2, <2>5, <2>6, <2>7, <2>8, <2>9 DEF Restart, Shape, TypeOK, store
<1> QED BY <1>1, <1>2, <1>3, <1>4, <1>5 DEF Close

(* A jump changes the program point of one caller and nothing else.        *)
LEMMA GotoFacts ==
  ASSUME Shape, NEW k \in Callers, NEW pc, Goto(k, pc)
  PROVE  /\ caller'[k].pc = pc
         /\ caller'[k].s = caller[k].s
         /\ caller'[k].rt = caller[k].rt
         /\ caller'[k].created = caller[k].created
         /\ caller'[k].target = caller[k].target
         /\ caller'[k].read = caller[k].read
         /\ \A j \in Callers : j # k => caller'[j] = caller[j]
<1>1. caller \in [Callers -> CallerRecord] /\ caller[k] \in CallerRecord
  BY DEF Shape, TypeOK
<1>2. caller' = [caller EXCEPT ![k] = [caller[k] EXCEPT !.pc = pc]]
  BY DEF Goto
<1> QED BY <1>1, <1>2 DEF CallerRecord

(* A return leaves the caller idle and gives back only its own gates.      *)
LEMMA ReturnFacts ==
  ASSUME Shape, NEW k \in Callers, Return(k)
  PROVE  /\ caller'[k].pc = "idle"
         /\ caller'[k].s = None
         /\ caller'[k].created = FALSE
         /\ \A j \in Callers : j # k => caller'[j] = caller[j]
         /\ \A s \in Sessions : gate'[s] = IF gate[s] = k THEN None ELSE gate[s]
  BY DEF Shape, TypeOK, Return, IdleCaller

(* A step that leaves the maps, the locks and the runtimes' Sessions alone *)
(* keeps RegistryInv, the end of a teardown included.                      *)
LEMMA RegistryFrame ==
  ASSUME Shape, RegistryInv, UNCHANGED <<writer, owner, binding, finals>>,
         \A r \in Runtimes :
           /\ runtime'[r].cred = runtime[r].cred
           /\ runtime'[r].sessions = runtime[r].sessions
           /\ \/ runtime'[r].phase = runtime[r].phase
              \/ runtime[r].phase = "detached" /\ runtime'[r].phase = "finalize"
  PROVE  RegistryInv'
<1>1. RegistryConsistent'
  BY DEF RegistryInv, RegistryConsistent
<1>2. WriterHeld'
  BY DEF RegistryInv, WriterHeld, Busy
<1>3. KillCounted'
  BY DEF RegistryInv, KillCounted
<1> QED BY <1>1, <1>2, <1>3 DEF RegistryInv

(* Detaching live runtimes together with all their bindings keeps it.      *)
LEMMA RegistryDetach ==
  ASSUME Shape, RegistryInv, NEW rs \in SUBSET Runtimes, Detach(rs),
         UNCHANGED <<writer, finals>>,
         \A r \in rs : /\ runtime[r].phase = "live"
                       /\ runtime'[r].phase = "detached"
                       /\ runtime'[r].cred = runtime[r].cred
                       /\ runtime'[r].sessions = {},
         \A r \in Runtimes \ rs : runtime'[r] = runtime[r]
  PROVE  RegistryInv'
<1> USE RuntimeAssumption
<1>0. /\ \A s \in Sessions : binding'[s] = IF binding[s] \in rs THEN None ELSE binding[s]
      /\ \A c \in Credentials : owner'[c] = IF owner[c] \in rs THEN None ELSE owner[c]
      /\ None \notin Runtimes
  BY DEF Detach, Runtimes
<1>1. RegistryConsistent'
  <2>1. \A s \in Sessions, r \in Runtimes : binding'[s] = r <=> s \in runtime'[r].sessions
    BY <1>0 DEF RegistryInv, RegistryConsistent
  <2>2. \A c \in Credentials, r \in Runtimes :
          owner'[c] = r <=> runtime'[r].phase = "live" /\ runtime'[r].cred = c
    BY <1>0 DEF RegistryInv, RegistryConsistent
  <2>3. \A r \in Runtimes : \A s \in runtime'[r].sessions :
          runtime'[r].phase = "live" /\ CredentialOf[s] = runtime'[r].cred
    BY DEF RegistryInv, RegistryConsistent
  <2>4. \A r \in Runtimes : runtime'[r].phase = "live" => runtime'[r].sessions # {}
    BY DEF RegistryInv, RegistryConsistent
  <2> QED BY <2>1, <2>2, <2>3, <2>4 DEF RegistryConsistent
<1>2. WriterHeld'
  BY DEF RegistryInv, WriterHeld, Busy
<1>3. KillCounted'
  BY DEF RegistryInv, KillCounted
<1> QED BY <1>1, <1>2, <1>3 DEF RegistryInv

(* So does creating a runtime: the writer lock is free, hence no runtime   *)
(* of the credential is busy, and the Session is unbound.                  *)
LEMMA RegistryCreate ==
  ASSUME Shape, RegistryInv, StartInv, NEW k \in Callers, NEW r \in Runtimes,
         StartCreated(k, r) \/ StartThreadFails(k, r)
  PROVE  RegistryInv'
<1> USE RuntimeAssumption
<1> DEFINE s == caller[k].s
           c == CredentialOf[s]
<1>0. /\ caller[k].pc = "lock" /\ s \in Sessions /\ c \in Credentials
      /\ Cred(k) = c /\ writer[c] = None /\ owner[c] = None
      /\ runtime[r].phase = "none" /\ binding[s] = None
      /\ None \notin Runtimes
  BY DEF StartCreated, StartThreadFails, Fresh, WriterFree, Cred, Shape, CallerFits,
         StartInv, LockUnbound, Runtimes
<1>1. \A q \in Runtimes : runtime[q].phase \in Busy => runtime[q].cred # c
  BY <1>0 DEF RegistryInv, WriterHeld
<1>2. \A q \in Runtimes : s \notin runtime[q].sessions
  BY <1>0 DEF RegistryInv, RegistryConsistent
<1>3. \A t \in Sessions : binding[t] # r
  BY <1>0 DEF RegistryInv, RegistryConsistent
<1>4. \A d \in Credentials : owner[d] # r
  BY <1>0 DEF RegistryInv, RegistryConsistent
<1>5. finals[r] = 0
  BY <1>0 DEF RegistryInv, KillCounted
<1>6. CASE StartCreated(k, r)
  <2>1. /\ runtime'[r].phase = "live" /\ runtime'[r].cred = c
        /\ runtime'[r].sessions = {s}
        /\ \A q \in Runtimes : q # r => runtime'[q] = runtime[q]
    BY <1>0, <1>6 DEF StartCreated, NewRuntime, Shape, TypeOK
  <2>2. /\ binding'[s] = r /\ \A t \in Sessions : t # s => binding'[t] = binding[t]
        /\ owner'[c] = r /\ \A d \in Credentials : d # c => owner'[d] = owner[d]
        /\ writer'[c] = r /\ \A d \in Credentials : d # c => writer'[d] = writer[d]
        /\ finals' = finals
    BY <1>0, <1>6 DEF StartCreated, Bind, Shape, TypeOK
  <2> HIDE DEF s, c
  <2>3. \A t \in Sessions, q \in Runtimes : binding'[t] = q <=> t \in runtime'[q].sessions
    BY <1>2, <1>3, <2>1, <2>2 DEF RegistryInv, RegistryConsistent
  <2>4. \A d \in Credentials, q \in Runtimes :
          owner'[d] = q <=> runtime'[q].phase = "live" /\ runtime'[q].cred = d
    BY <1>0, <1>1, <1>4, <2>1, <2>2 DEF RegistryInv, RegistryConsistent, Busy
  <2>5. \A q \in Runtimes : \A t \in runtime'[q].sessions :
          runtime'[q].phase = "live" /\ CredentialOf[t] = runtime'[q].cred
    BY <2>1 DEF RegistryInv, RegistryConsistent, c
  <2>6. \A q \in Runtimes : runtime'[q].phase = "live" => runtime'[q].sessions # {}
    BY <2>1 DEF RegistryInv, RegistryConsistent
  <2>7. RegistryConsistent'
    BY <2>3, <2>4, <2>5, <2>6 DEF RegistryConsistent
  <2>8. WriterHeld'
    BY <1>0, <1>1, <2>1, <2>2 DEF RegistryInv, WriterHeld, Busy
  <2>9. KillCounted'
    BY <1>5, <2>1, <2>2 DEF RegistryInv, KillCounted
  <2> QED BY <2>7, <2>8, <2>9 DEF RegistryInv
<1>7. CASE StartThreadFails(k, r)
  <2>1. /\ runtime'[r].phase = "finalize" /\ runtime'[r].cred = c
        /\ runtime'[r].sessions = {}
        /\ \A q \in Runtimes : q # r => runtime'[q] = runtime[q]
    BY <1>0, <1>7 DEF StartThreadFails, NewRuntime, Shape, TypeOK
  <2>2. /\ binding' = binding /\ owner' = owner
        /\ writer'[c] = r /\ \A d \in Credentials : d # c => writer'[d] = writer[d]
        /\ finals' = finals
    BY <1>0, <1>7 DEF StartThreadFails, Shape, TypeOK, history
  <2> HIDE DEF s, c
  <2>7. RegistryConsistent'
    BY <1>3, <1>4, <2>1, <2>2 DEF RegistryInv, RegistryConsistent
  <2>8. WriterHeld'
    BY <1>0, <1>1, <2>1, <2>2 DEF RegistryInv, WriterHeld, Busy
  <2>9. KillCounted'
    BY <1>5, <2>1, <2>2 DEF RegistryInv, KillCounted
  <2> QED BY <2>7, <2>8, <2>9 DEF RegistryInv
<1> QED BY <1>6, <1>7

(* So does binding one more Session to the credential's live runtime.      *)
LEMMA RegistryShared ==
  ASSUME Shape, RegistryInv, StartInv, NEW k \in Callers, StartShared(k)
  PROVE  RegistryInv'
<1> USE RuntimeAssumption
<1> DEFINE s == caller[k].s
           c == CredentialOf[s]
           r == owner[c]
<1>0. /\ s \in Sessions /\ c \in Credentials /\ Cred(k) = c /\ binding[s] = None
      /\ None \notin Runtimes
  <2>1. caller[k].pc = "lock"
    BY DEF StartShared
  <2>2. s \in Sessions
    BY <2>1 DEF Shape, CallerFits
  <2> QED BY <2>1, <2>2 DEF Cred, StartInv, LockUnbound, Runtimes
<1>1. r \in Runtimes
  BY <1>0 DEF StartShared, Shape, TypeOK
<1>2. runtime[r].phase = "live" /\ runtime[r].cred = c
  BY <1>0, <1>1 DEF RegistryInv, RegistryConsistent
<1>3. runtime' = [runtime EXCEPT ![r] = [runtime[r] EXCEPT !.sessions = @ \cup {s}]]
  BY <1>0 DEF StartShared
<1>4. /\ binding'[s] = r /\ \A t \in Sessions : t # s => binding'[t] = binding[t]
      /\ UNCHANGED <<owner, writer, finals>>
  BY <1>0 DEF StartShared, Bind, Shape, TypeOK
<1>5. runtime[r] \in RuntimeRecord /\ runtime \in [Runtimes -> RuntimeRecord]
  BY <1>1 DEF Shape, TypeOK
<1> HIDE DEF s, c, r
<1>6. /\ runtime'[r].phase = "live" /\ runtime'[r].cred = c
      /\ runtime'[r].sessions = runtime[r].sessions \cup {s}
      /\ \A q \in Runtimes : q # r => runtime'[q] = runtime[q]
  BY <1>1, <1>2, <1>3, <1>5 DEF RuntimeRecord
<1>7. \A t \in Sessions, q \in Runtimes : binding'[t] = q <=> t \in runtime'[q].sessions
  BY <1>0, <1>1, <1>4, <1>6 DEF RegistryInv, RegistryConsistent
<1>8. \A d \in Credentials, q \in Runtimes :
        owner'[d] = q <=> runtime'[q].phase = "live" /\ runtime'[q].cred = d
  BY <1>2, <1>4, <1>6 DEF RegistryInv, RegistryConsistent
<1>9. \A q \in Runtimes : \A t \in runtime'[q].sessions :
        runtime'[q].phase = "live" /\ CredentialOf[t] = runtime'[q].cred
  BY <1>2, <1>6 DEF RegistryInv, RegistryConsistent, c
<1>10. \A q \in Runtimes : runtime'[q].phase = "live" => runtime'[q].sessions # {}
  BY <1>6 DEF RegistryInv, RegistryConsistent
<1>11. RegistryConsistent'
  BY <1>7, <1>8, <1>9, <1>10 DEF RegistryConsistent
<1>12. WriterHeld' /\ KillCounted'
  BY <1>2, <1>4, <1>6 DEF RegistryInv, WriterHeld, KillCounted
<1> QED BY <1>11, <1>12 DEF RegistryInv

(* What releaseBinding's locked region changes.                            *)
LEMMA ReleaseFacts ==
  ASSUME Shape, RegistryInv, NEW k \in Callers, Release(k)
  PROVE  LET s == caller[k].s
             r == binding[s]
         IN
         /\ s \in Sessions /\ r \in Runtimes
         /\ runtime[r].phase = "live" /\ runtime[r].cred = CredentialOf[s]
         /\ \A q \in Runtimes : q # r => runtime'[q] = runtime[q]
         /\ runtime'[r].cred = runtime[r].cred
         /\ runtime'[r].pumps = runtime[r].pumps
         /\ runtime'[r].sessions = runtime[r].sessions \ {s}
         /\ IF runtime[r].sessions = {s}
            THEN runtime'[r].phase = "detached" /\ runtime'[r].by = "release"
            ELSE runtime'[r].phase = "live"
         /\ caller'[k].pc = "relread" /\ caller'[k].s = s
         /\ caller'[k].rt = IF runtime[r].sessions = {s} THEN r ELSE None
         /\ \A j \in Callers : j # k => caller'[j] = caller[j]
         /\ binding'[s] = None /\ \A t \in Sessions : t # s => binding'[t] = binding[t]
         /\ owner' = [owner EXCEPT ![CredentialOf[s]] =
                        IF runtime[r].sessions = {s} THEN None ELSE @]
         /\ detached'[s] = status[s]
         /\ \A t \in Sessions : t # s => detached'[t] = detached[t]
<1> DEFINE s == caller[k].s
           r == binding[s]
<1>0. caller[k] \in CallerRecord /\ CallerFits(caller[k])
  BY DEF Shape, TypeOK
<1>1. s \in Sessions /\ r \in Runtimes
  BY <1>0 DEF Release, CallerFits, Shape, TypeOK
<1>2. s \in runtime[r].sessions
  BY <1>1 DEF RegistryInv, RegistryConsistent
<1>3. runtime[r].phase = "live" /\ runtime[r].cred = CredentialOf[s]
  BY <1>1, <1>2 DEF RegistryInv, RegistryConsistent
<1>4. runtime[r] \in RuntimeRecord /\ runtime \in [Runtimes -> RuntimeRecord]
      /\ caller \in [Callers -> CallerRecord]
  BY <1>1 DEF Shape, TypeOK
<1> DEFINE last == runtime[r].sessions = {s}
<1>5. runtime' = [runtime EXCEPT ![r] =
       [runtime[r] EXCEPT !.sessions = @ \ {s},
                          !.phase = IF last THEN "detached" ELSE @,
                          !.by = IF last THEN "release" ELSE @]]
  BY DEF Release, LastBinding
<1>6. /\ \A q \in Runtimes : q # r => runtime'[q] = runtime[q]
      /\ runtime'[r].cred = runtime[r].cred
      /\ runtime'[r].pumps = runtime[r].pumps
      /\ runtime'[r].sessions = runtime[r].sessions \ {s}
      /\ runtime'[r].phase = IF last THEN "detached" ELSE runtime[r].phase
      /\ runtime'[r].by = IF last THEN "release" ELSE runtime[r].by
  BY <1>1, <1>4, <1>5 DEF RuntimeRecord
<1>7. caller' = [caller EXCEPT ![k] =
        [caller[k] EXCEPT !.pc = "relread", !.rt = IF last THEN r ELSE None]]
  BY DEF Release, LastBinding
<1>8. /\ caller'[k].pc = "relread" /\ caller'[k].s = s
      /\ caller'[k].rt = IF last THEN r ELSE None
      /\ \A j \in Callers : j # k => caller'[j] = caller[j]
  BY <1>0, <1>4, <1>7 DEF CallerRecord
<1>9. /\ binding'[s] = None /\ \A t \in Sessions : t # s => binding'[t] = binding[t]
      /\ detached'[s] = status[s]
      /\ \A t \in Sessions : t # s => detached'[t] = detached[t]
  BY <1>1 DEF Release, Shape, TypeOK
<1>10. owner' = [owner EXCEPT ![CredentialOf[s]] = IF last THEN None ELSE @]
  BY DEF Release, LastBinding
<1> QED BY <1>1, <1>3, <1>6, <1>8, <1>9, <1>10

(* A release keeps it: the last binding takes its runtime off the map.     *)
LEMMA RegistryRelease ==
  ASSUME Shape, RegistryInv, NEW k \in Callers, Release(k)
  PROVE  RegistryInv'
<1> USE RuntimeAssumption
<1> DEFINE s == caller[k].s
           r == binding[s]
           c == CredentialOf[s]
<1>0. /\ s \in Sessions /\ r \in Runtimes
      /\ runtime[r].phase = "live" /\ runtime[r].cred = c
      /\ \A q \in Runtimes : q # r => runtime'[q] = runtime[q]
      /\ runtime'[r].cred = runtime[r].cred
      /\ runtime'[r].sessions = runtime[r].sessions \ {s}
      /\ IF runtime[r].sessions = {s}
         THEN runtime'[r].phase = "detached" ELSE runtime'[r].phase = "live"
      /\ binding'[s] = None /\ \A t \in Sessions : t # s => binding'[t] = binding[t]
      /\ owner' = [owner EXCEPT ![c] = IF runtime[r].sessions = {s} THEN None ELSE @]
  BY ReleaseFacts
<1>1. c \in Credentials /\ None \notin Runtimes
  BY <1>0 DEF Runtimes
<1>2. /\ owner'[c] = IF runtime[r].sessions = {s} THEN None ELSE owner[c]
      /\ \A d \in Credentials : d # c => owner'[d] = owner[d]
  BY <1>0, <1>1 DEF Shape, TypeOK
<1>3. UNCHANGED <<writer, finals>>
  BY DEF Release
<1>4. runtime[r].sessions \subseteq Sessions
  BY <1>0 DEF Shape, TypeOK, RuntimeRecord
<1> HIDE DEF s, r, c
<1>7. \A t \in Sessions, q \in Runtimes : binding'[t] = q <=> t \in runtime'[q].sessions
  <2>1. binding[s] = r
    BY DEF r
  <2> QED BY <1>0, <1>1, <2>1 DEF RegistryInv, RegistryConsistent
<1>8. \A d \in Credentials, q \in Runtimes :
        owner'[d] = q <=> runtime'[q].phase = "live" /\ runtime'[q].cred = d
  <2>1. owner[c] = r
    BY <1>0, <1>1 DEF RegistryInv, RegistryConsistent
  <2> QED BY <1>0, <1>1, <1>2, <2>1 DEF RegistryInv, RegistryConsistent
<1>9. \A q \in Runtimes : \A t \in runtime'[q].sessions :
        runtime'[q].phase = "live" /\ CredentialOf[t] = runtime'[q].cred
  BY <1>0 DEF RegistryInv, RegistryConsistent
<1>10. \A q \in Runtimes : runtime'[q].phase = "live" => runtime'[q].sessions # {}
  <2>1. s \in runtime[r].sessions
    BY <1>0 DEF RegistryInv, RegistryConsistent, r
  <2> QED BY <1>0, <2>1 DEF RegistryInv, RegistryConsistent
<1>11. RegistryConsistent'
  BY <1>7, <1>8, <1>9, <1>10 DEF RegistryConsistent
<1>12. WriterHeld'
  BY <1>0, <1>3 DEF RegistryInv, WriterHeld, Busy
<1>13. KillCounted'
  BY <1>0, <1>3 DEF RegistryInv, KillCounted
<1> QED BY <1>11, <1>12, <1>13 DEF RegistryInv

(* What failRuntime's locked region changes.                               *)
LEMMA FailFacts ==
  ASSUME Shape, NEW r \in Runtimes, NEW who \in Pumps \cup {"input", "close"},
         FailRuntime(r, who)
  PROVE  /\ runtime[r].phase = "live"
         /\ runtime'[r].phase = "detached"
         /\ runtime'[r].by = who
         /\ runtime'[r].left = runtime[r].sessions
         /\ runtime'[r].cred = runtime[r].cred
         /\ runtime'[r].sessions = {}
         /\ runtime'[r].pumps = runtime[r].pumps
         /\ \A q \in Runtimes : q # r => runtime'[q] = runtime[q]
         /\ Detach({r})
<1>1. runtime' = [runtime EXCEPT ![r] = Detached(r, who)]
  BY DEF FailRuntime
<1>2. /\ runtime'[r] = Detached(r, who)
      /\ \A q \in Runtimes : q # r => runtime'[q] = runtime[q]
  BY <1>1 DEF Shape, TypeOK
<1> QED BY <1>2, DetachedRecord DEF FailRuntime, MayFinalize

(* failRuntime keeps RegistryInv.                                          *)
LEMMA RegistryFail ==
  ASSUME Shape, RegistryInv, NEW r \in Runtimes, NEW who \in Pumps \cup {"input", "close"},
         FailRuntime(r, who), UNCHANGED <<writer, finals>>
  PROVE  RegistryInv'
<1>1. \A q \in {r} : /\ runtime[q].phase = "live"
                     /\ runtime'[q].phase = "detached"
                     /\ runtime'[q].cred = runtime[q].cred
                     /\ runtime'[q].sessions = {}
  BY FailFacts
<1>2. Detach({r}) /\ {r} \in SUBSET Runtimes
  BY FailFacts
<1>3. \A q \in Runtimes \ {r} : runtime'[q] = runtime[q]
  BY FailFacts
<1> QED BY <1>1, <1>2, <1>3, RegistryDetach

(* What the locked region of Close changes.                                *)
LEMMA CloseFacts ==
  ASSUME Shape, RegistryInv, CloseLock
  PROVE  /\ LiveRuntimes \in SUBSET Runtimes
         /\ Detach(LiveRuntimes)
         /\ \A r \in LiveRuntimes : /\ runtime[r].phase = "live"
                                    /\ runtime'[r].phase = "detached"
                                    /\ runtime'[r].by = "close"
                                    /\ runtime'[r].left = runtime[r].sessions
                                    /\ runtime'[r].cred = runtime[r].cred
                                    /\ runtime'[r].sessions = {}
                                    /\ runtime'[r].pumps = runtime[r].pumps
         /\ \A r \in Runtimes \ LiveRuntimes : runtime'[r] = runtime[r]
<1>1. LiveRuntimes \in SUBSET Runtimes
  BY DEF LiveRuntimes, Shape, TypeOK
<1>2. \A r \in LiveRuntimes : runtime[r].phase = "live"
  BY <1>1 DEF LiveRuntimes, RegistryInv, RegistryConsistent
<1>3. \A r \in LiveRuntimes : runtime'[r] = Detached(r, "close")
  BY <1>1 DEF CloseLock
<1>4. \A r \in Runtimes \ LiveRuntimes : runtime'[r] = runtime[r]
  BY DEF CloseLock
<1> QED BY <1>1, <1>2, <1>3, <1>4, DetachedRecord DEF CloseLock

(* Close keeps RegistryInv.                                                *)
LEMMA RegistryClose ==
  ASSUME Shape, RegistryInv, CloseLock
  PROVE  RegistryInv'
<1>1. UNCHANGED <<writer, finals>>
  BY DEF CloseLock
<1> QED BY <1>1, CloseFacts, RegistryDetach

(* finalize keeps RegistryInv: it is counted once, and the writer lock it  *)
(* gives back is its own.                                                  *)
LEMMA RegistryFinalize ==
  ASSUME Shape, RegistryInv, NEW r \in Runtimes, FinalizeKill(r) \/ FinalizeCommit(r)
  PROVE  RegistryInv'
<1>0. runtime[r] \in RuntimeRecord /\ runtime \in [Runtimes -> RuntimeRecord]
  BY DEF Shape, TypeOK
<1>1. CASE FinalizeKill(r)
  <2>1. /\ runtime[r].phase = "finalize" /\ runtime'[r].phase = "killed"
        /\ runtime'[r].cred = runtime[r].cred /\ runtime'[r].sessions = runtime[r].sessions
        /\ \A q \in Runtimes : q # r => runtime'[q] = runtime[q]
    BY <1>0, <1>1 DEF FinalizeKill, RuntimeRecord
  <2>2. UNCHANGED <<owner, binding, writer>>
    BY <1>1 DEF FinalizeKill
  <2>3. RegistryConsistent'
    BY <2>1, <2>2 DEF RegistryInv, RegistryConsistent
  <2>4. WriterHeld'
    BY <2>1, <2>2 DEF RegistryInv, WriterHeld, Busy
  <2>5. KillCounted'
    <3>1. finals[r] = 0
      BY <2>1 DEF RegistryInv, KillCounted
    <3>2. finals'[r] = 1 /\ \A q \in Runtimes : q # r => finals'[q] = finals[q]
      BY <1>1, <3>1 DEF FinalizeKill, Shape, TypeOK
    <3> QED BY <2>1, <3>2 DEF RegistryInv, KillCounted
  <2> QED BY <2>3, <2>4, <2>5 DEF RegistryInv
<1>2. CASE FinalizeCommit(r)
  <2>1. /\ runtime[r].phase = "killed" /\ runtime'[r].phase = "final"
        /\ runtime'[r].cred = runtime[r].cred /\ runtime'[r].sessions = runtime[r].sessions
        /\ \A q \in Runtimes : q # r => runtime'[q] = runtime[q]
    BY <1>0, <1>2 DEF FinalizeCommit, RuntimeRecord
  <2>2. UNCHANGED <<owner, binding, finals>>
    BY <1>2 DEF FinalizeCommit, history
  <2>3. RegistryConsistent'
    BY <2>1, <2>2 DEF RegistryInv, RegistryConsistent
  <2>4. WriterHeld'
    <3>1. PICK released \in BOOLEAN :
            writer' = [writer EXCEPT ![runtime[r].cred] = IF released /\ @ = r THEN None ELSE @]
      BY <1>2 DEF FinalizeCommit
    <3>2. \A c \in Credentials : writer[c] # r => writer'[c] = writer[c]
      BY <3>1 DEF Shape, TypeOK
    <3> QED BY <2>1, <3>2 DEF RegistryInv, WriterHeld, Busy
  <2>5. KillCounted'
    BY <2>1, <2>2 DEF RegistryInv, KillCounted
  <2> QED BY <2>3, <2>4, <2>5 DEF RegistryInv
<1> QED BY <1>1, <1>2

(* A restart keeps RegistryInv.                                            *)
LEMMA RegistryRestart ==
  ASSUME Shape, RegistryInv, Restart
  PROVE  RegistryInv'
<1> USE RuntimeAssumption
<1>1. \A r \in Runtimes :
        /\ runtime'[r].sessions = {}
        /\ IF runtime[r].phase = "none" THEN runtime'[r].phase = "none"
           ELSE runtime'[r].phase = "final" /\ runtime'[r].cred = runtime[r].cred
  <2>1. \A r \in Runtimes : runtime[r].phase = "none" => runtime[r].sessions = {}
    BY DEF RegistryInv, RegistryConsistent
  <2> QED BY <2>1 DEF Restart, NewRuntime
<1>2. /\ \A s \in Sessions : binding'[s] = None
      /\ \A c \in Credentials : owner'[c] = None
  BY DEF Restart
<1>6. None \notin Runtimes
  BY DEF Runtimes
<1>5. finals' = finals
  BY DEF Restart
<1>3. RegistryConsistent'
  BY <1>1, <1>2, <1>6 DEF RegistryConsistent
<1>4. WriterHeld' /\ KillCounted'
  BY <1>1, <1>5 DEF RegistryInv, WriterHeld, KillCounted, Busy
<1> QED BY <1>3, <1>4 DEF RegistryInv

(* No row becomes new or starting again and no Session gets a binding.     *)
RowsKept ==
  \A s \in Sessions :
    /\ status'[s] \in {"none", "starting"} => status'[s] = status[s]
    /\ binding'[s] \in {None, binding[s]}

(* TransitionSession to any status after starting does not bring a row     *)
(* back.                                                                   *)
LEMMA TransitionKeeps ==
  ASSUME Shape, NEW s, NEW expected, NEW next, next \notin {"none", "starting"},
         Transition(s, expected, next)
  PROVE  \A t \in Sessions : status'[t] \in {"none", "starting"} => status'[t] = status[t]
  BY DEF Transition, Shape, TypeOK

(* A step of a goroutine that is no caller keeps StartInv.                 *)
LEMMA StartFrame ==
  ASSUME Shape, StartInv, RowsKept, UNCHANGED <<caller, gate>>
  PROVE  StartInv'
<1> USE RuntimeAssumption
<1>0. \A k \in Callers : caller[k].pc = "lock" => caller[k].s \in Sessions
  BY DEF Shape, CallerFits
<1>1. Unstarted'
  BY DEF StartInv, Unstarted, RowsKept
<1>2. GateHeld' /\ OneStart'
  BY DEF StartInv, GateHeld, OneStart
<1>3. LockUnbound'
  BY <1>0 DEF StartInv, LockUnbound, RowsKept
<1>4. StartingIsOwned'
  BY DEF StartInv, StartingIsOwned, RowsKept
<1> QED BY <1>1, <1>2, <1>3, <1>4 DEF StartInv

(* A caller's step that neither enters a start nor binds a Session keeps   *)
(* StartInv, provided that a start which ends leaves its Session unbound   *)
(* or past starting.                                                       *)
LEMMA StartKept ==
  ASSUME Shape, StartInv, RowsKept, NEW k \in Callers,
         \A j \in Callers : j # k => caller'[j] = caller[j],
         \A s \in Sessions : gate'[s] = gate[s] \/ (gate[s] = k /\ ~InStart(caller'[k])),
         InStart(caller'[k]) => InStart(caller[k]) /\ caller'[k].s = caller[k].s,
         caller'[k].pc = "lock" => caller[k].pc = "lock",
         \/ caller'[k].s \in {caller[k].s, None}
         \/ caller'[k].s \in Sessions /\ status[caller'[k].s] # "none",
         Bound(caller[k]) => \/ Bound(caller'[k]) /\ caller'[k].s = caller[k].s
                             \/ status'[caller[k].s] # "starting"
                             \/ binding'[caller[k].s] = None
  PROVE  StartInv'
<1> USE RuntimeAssumption
<1>0. \A j \in Callers : caller[j].pc = "lock" => caller[j].s \in Sessions /\ InStart(caller[j])
  BY DEF Shape, CallerFits, InStart, StartPCs
<1>1. Unstarted'
  <2> SUFFICES ASSUME NEW s \in Sessions, status'[s] = "none"
               PROVE  binding'[s] = None /\ \A j \in Callers : caller'[j].s # s
    BY DEF Unstarted
  <2>1. status[s] = "none"
    BY DEF RowsKept
  <2>2. binding[s] = None /\ \A j \in Callers : caller[j].s # s
    BY <2>1 DEF StartInv, Unstarted
  <2>3. caller'[k].s # s
    BY <2>1, <2>2
  <2> QED BY <2>2, <2>3 DEF RowsKept
<1>2. GateHeld'
  <2> SUFFICES ASSUME NEW j \in Callers, InStart(caller'[j]), caller'[j].s \in Reserved
               PROVE  gate'[caller'[j].s] = j
    BY DEF GateHeld
  <2>1. InStart(caller[j]) /\ caller'[j].s = caller[j].s
    OBVIOUS
  <2>2. gate[caller[j].s] = j /\ caller[j].s \in Sessions
    BY <2>1 DEF StartInv, GateHeld
  <2> QED BY <2>1, <2>2
<1>3. OneStart'
  BY DEF StartInv, OneStart
<1>4. LockUnbound'
  <2> SUFFICES ASSUME NEW j \in Callers, caller'[j].pc = "lock"
               PROVE  binding'[caller'[j].s] = None
    BY DEF LockUnbound
  <2>1. caller[j].pc = "lock" /\ caller'[j].s = caller[j].s
    <3>1. CASE j = k
      BY <3>1 DEF InStart, StartPCs
    <3> QED BY <3>1
  <2>2. caller[j].s \in Sessions /\ binding[caller[j].s] = None
    BY <1>0, <2>1 DEF StartInv, LockUnbound
  <2> QED BY <2>1, <2>2 DEF RowsKept
<1>5. StartingIsOwned'
  <2> SUFFICES ASSUME NEW s \in Sessions, status'[s] = "starting", binding'[s] # None
               PROVE  \E j \in Callers : caller'[j].s = s /\ Bound(caller'[j])
    BY DEF StartingIsOwned
  <2>1. status[s] = "starting" /\ binding[s] # None
    BY DEF RowsKept
  <2>2. PICK j \in Callers : caller[j].s = s /\ Bound(caller[j])
    BY <2>1 DEF StartInv, StartingIsOwned
  <2> QED BY <2>2
<1> QED BY <1>1, <1>2, <1>3, <1>4, <1>5 DEF StartInv

(* A return keeps StartInv under the same proviso.                         *)
LEMMA StartReturns ==
  ASSUME Shape, StartInv, RowsKept, NEW k \in Callers, Return(k),
         Bound(caller[k]) => \/ status'[caller[k].s] # "starting"
                             \/ binding'[caller[k].s] = None
  PROVE  StartInv'
<1>1. ~InStart(caller'[k]) /\ caller'[k].pc # "lock"
  BY ReturnFacts DEF InStart, StartPCs
<1> QED BY <1>1, ReturnFacts, StartKept

(* So does a jump that stays inside start or outside it.                   *)
LEMMA StartGoes ==
  ASSUME Shape, StartInv, RowsKept, UNCHANGED gate, NEW k \in Callers, NEW pc, Goto(k, pc),
         caller[k].pc # "release", pc \notin {"lock", "release"},
         pc \in StartPCs => caller[k].pc \in StartPCs,
         caller[k].pc \in {"setthread", "torunning"} => pc \in {"setthread", "torunning"}
  PROVE  StartInv'
<1>1. InStart(caller'[k]) => InStart(caller[k])
  BY GotoFacts DEF InStart
<1>2. Bound(caller[k]) => Bound(caller'[k])
  BY GotoFacts DEF Bound
<1> QED BY <1>1, <1>2, GotoFacts, StartKept

(* A new start keeps StartInv: nobody works for a Session without a row.   *)
LEMMA StartBegins ==
  ASSUME Shape, StartInv, NEW k \in Callers, NEW s \in Sessions,
         BeginStart(k, s) \/ BeginReserved(k, s)
  PROVE  StartInv'
<1> USE RuntimeAssumption
<1>1. /\ \A j \in Callers : j # k => caller'[j] = caller[j]
      /\ caller'[k].s = s /\ caller'[k].pc \in {"lock", "gate"} /\ caller[k].pc = "idle"
      /\ status'[s] = "starting" /\ \A t \in Sessions : t # s => status'[t] = status[t]
      /\ UNCHANGED <<binding, gate>>
  <2>1. \E pc \in {"lock", "gate"} :
          caller' = [caller EXCEPT ![k] = [IdleCaller EXCEPT !.pc = pc, !.s = s,
                                             !.rev = revision[CredentialOf[s]]]]
    BY DEF BeginStart, BeginReserved
  <2>2. /\ \A j \in Callers : j # k => caller'[j] = caller[j]
        /\ caller'[k].s = s /\ caller'[k].pc \in {"lock", "gate"}
    BY <2>1 DEF IdleCaller, Shape, TypeOK
  <2>3. /\ status'[s] = "starting" /\ \A t \in Sessions : t # s => status'[t] = status[t]
        /\ caller[k].pc = "idle"
        /\ UNCHANGED <<binding, gate>>
    BY DEF BeginStart, BeginReserved, Shape, TypeOK
  <2> QED BY <2>2, <2>3
<1>2. ~InStart(caller[k]) /\ ~Bound(caller[k])
  BY <1>1 DEF InStart, Bound, StartPCs
<1>3. ~Bound(caller'[k])
  BY <1>1 DEF Bound
<1>4. Unstarted'
  BY <1>1 DEF StartInv, Unstarted
<1>5. StartingIsOwned'
  <2> SUFFICES ASSUME NEW t \in Sessions, status'[t] = "starting", binding'[t] # None
               PROVE  \E j \in Callers : caller'[j].s = t /\ Bound(caller'[j])
    BY DEF StartingIsOwned
  <2>1. status[t] = "starting"
    <3>1. CASE t = s
      <4>1. status[s] # "none"
        BY <1>1, <3>1 DEF StartInv, Unstarted
      <4> QED BY <3>1, <4>1 DEF BeginStart, BeginReserved
    <3> QED BY <1>1, <3>1
  <2>2. PICK j \in Callers : caller[j].s = t /\ Bound(caller[j])
    BY <1>1, <2>1 DEF StartInv, StartingIsOwned
  <2> QED BY <1>1, <1>2, <2>2
<1>6. CASE BeginStart(k, s)
  <2>1. /\ \A j \in Callers : caller[j].s # s
        /\ binding[s] = None /\ s \notin Reserved
    BY <1>6 DEF BeginStart, StartInv, Unstarted
  <2>2. GateHeld' /\ OneStart' /\ LockUnbound'
    BY <1>1, <2>1 DEF StartInv, GateHeld, OneStart, LockUnbound
  <2> QED BY <1>4, <1>5, <2>2 DEF StartInv
<1>7. CASE BeginReserved(k, s)
  <2>1. ~InStart(caller'[k]) /\ caller'[k].pc # "lock"
    BY <1>7 DEF BeginReserved, IdleCaller, Shape, TypeOK, InStart, StartPCs
  <2>2. GateHeld' /\ OneStart' /\ LockUnbound'
    BY <1>1, <2>1 DEF StartInv, GateHeld, OneStart, LockUnbound
  <2> QED BY <1>4, <1>5, <2>2 DEF StartInv
<1> QED BY <1>6, <1>7

(* Taking the gate keeps StartInv: a free gate means no start is inside.   *)
LEMMA StartEnters ==
  ASSUME Shape, StartInv, NEW k \in Callers, EnterGate(k)
  PROVE  StartInv'
<1> USE RuntimeAssumption
<1> DEFINE s == caller[k].s
<1>1. caller[k].pc = "gate" /\ s \in Reserved /\ s \in Sessions /\ gate[s] = None
  BY DEF EnterGate, GateFree, Shape, CallerFits
<1>2. /\ caller'[k].pc = "recheck" /\ caller'[k].s = s
      /\ \A j \in Callers : j # k => caller'[j] = caller[j]
  BY GotoFacts DEF EnterGate
<1>3. gate'[s] = k /\ \A t \in Sessions : t # s => gate'[t] = gate[t]
  BY <1>1 DEF EnterGate, Shape, TypeOK
<1>4. UNCHANGED <<status, binding>>
  BY DEF EnterGate, store
<1>5. \A j \in Callers : InStart(caller[j]) => caller[j].s # s
  BY <1>1 DEF StartInv, GateHeld
<1>6. ~Bound(caller[k]) /\ ~InStart(caller[k])
  BY <1>1 DEF Bound, InStart, StartPCs
<1> HIDE DEF s
<1>7. Unstarted'
  BY <1>2, <1>4 DEF StartInv, Unstarted, s
<1>8. GateHeld'
  BY <1>2, <1>3, <1>5 DEF StartInv, GateHeld
<1>9. OneStart'
  BY <1>2, <1>5 DEF StartInv, OneStart
<1>10. LockUnbound'
  BY <1>2, <1>4 DEF StartInv, LockUnbound
<1>11. StartingIsOwned'
  BY <1>2, <1>4, <1>6 DEF StartInv, StartingIsOwned
<1> QED BY <1>7, <1>8, <1>9, <1>10, <1>11 DEF StartInv

(* The second read of the row keeps StartInv: a bound starting row would   *)
(* belong to another start behind the same gate.                           *)
LEMMA StartRechecks ==
  ASSUME Shape, StartInv, NEW k \in Callers, Recheck(k)
  PROVE  StartInv'
<1> USE RuntimeAssumption
<1> DEFINE s == caller[k].s
<1>1. caller[k].pc = "recheck" /\ s \in Sessions
  BY DEF Recheck, Shape, CallerFits
<1>2. UNCHANGED <<status, binding>> /\ RowsKept
  BY DEF Recheck, store, RowsKept
<1>3. InStart(caller[k]) /\ ~Bound(caller[k])
  BY <1>1 DEF InStart, Bound, StartPCs
<1>4. CASE status[s] = "starting"
  <2>1. Goto(k, "lock") /\ gate' = gate
    BY <1>4 DEF Recheck
  <2>2. binding[s] = None
    <3> SUFFICES ASSUME binding[s] # None PROVE FALSE
      OBVIOUS
    <3>1. PICK j \in Callers : caller[j].s = s /\ Bound(caller[j])
      BY <1>1, <1>4 DEF StartInv, StartingIsOwned
    <3>2. InStart(caller[j])
      BY <3>1 DEF Bound, InStart, StartPCs
    <3> QED BY <1>3, <3>1, <3>2 DEF StartInv, OneStart
  <2>3. /\ caller'[k].pc = "lock" /\ caller'[k].s = s
        /\ \A j \in Callers : j # k => caller'[j] = caller[j]
    BY <2>1, GotoFacts
  <2> HIDE DEF s
  <2>4. Unstarted'
    BY <1>2, <2>3 DEF StartInv, Unstarted, s
  <2>5. GateHeld' /\ OneStart'
    BY <1>3, <2>1, <2>3 DEF StartInv, GateHeld, OneStart, s
  <2>6. LockUnbound'
    BY <1>2, <2>2, <2>3 DEF StartInv, LockUnbound
  <2>7. StartingIsOwned'
    BY <1>2, <1>3, <2>3 DEF StartInv, StartingIsOwned
  <2> QED BY <2>4, <2>5, <2>6, <2>7 DEF StartInv
<1>5. CASE status[s] # "starting"
  BY <1>2, <1>3, <1>5, StartReturns DEF Recheck
<1> QED BY <1>4, <1>5

(* Binding a Session keeps StartInv: its start becomes the owner of the    *)
(* row.                                                                    *)
LEMMA StartBinds ==
  ASSUME Shape, StartInv, NEW k \in Callers, NEW r, caller[k].pc = "lock", Bind(k, r),
         UNCHANGED <<status, gate>>,
         caller'[k].pc = "setthread", caller'[k].s = caller[k].s,
         \A j \in Callers : j # k => caller'[j] = caller[j]
  PROVE  StartInv'
<1> USE RuntimeAssumption
<1> DEFINE s == caller[k].s
<1>1. s \in Sessions /\ status[s] # "none"
  BY DEF Shape, CallerFits, StartInv, Unstarted
<1>2. binding'[s] = r /\ \A t \in Sessions : t # s => binding'[t] = binding[t]
  BY <1>1 DEF Bind, Shape, TypeOK
<1>3. InStart(caller[k]) /\ Bound(caller'[k])
  BY DEF InStart, Bound, StartPCs
<1>4. \A j \in Callers : j # k /\ InStart(caller[j]) => caller[j].s # s
  BY <1>3 DEF StartInv, OneStart
<1>5. \A j \in Callers : caller[j].pc = "lock" => InStart(caller[j]) /\ caller[j].s \in Sessions
  BY DEF InStart, StartPCs, Shape, CallerFits
<1> HIDE DEF s
<1>6. Unstarted'
  BY <1>1, <1>2 DEF StartInv, Unstarted, s
<1>7. GateHeld' /\ OneStart'
  BY <1>3 DEF StartInv, GateHeld, OneStart
<1>8. LockUnbound'
  BY <1>2, <1>4, <1>5 DEF StartInv, LockUnbound
<1>9. StartingIsOwned'
  <2>1. ~Bound(caller[k])
    BY DEF Bound
  <2> QED BY <1>2, <1>3, <2>1 DEF StartInv, StartingIsOwned, s
<1> QED BY <1>6, <1>7, <1>8, <1>9 DEF StartInv

(* No teardown of failRuntime or Close moves.                              *)
TeardownKept ==
  \A r \in Runtimes : runtime[r].phase = "detached" /\ runtime[r].by # "release" =>
    /\ runtime'[r].phase = "detached"
    /\ runtime'[r].by = runtime[r].by
    /\ runtime'[r].left = runtime[r].left
    /\ runtime'[r].readId = runtime[r].readId
    /\ runtime'[r].read = runtime[r].read

(* A runtime that has stopped being live stays so, by the same hand.       *)
StoppedKept ==
  \A r \in Runtimes : runtime[r].phase \notin {"none", "live"} =>
    /\ runtime'[r].phase \notin {"none", "live"}
    /\ runtime'[r].by = runtime[r].by

(* No row past starting moves.                                             *)
StatusKept ==
  \A s \in Sessions : status[s] \notin {"none", "starting"} => status'[s] = status[s]

(* Steps that start no release keep ReleaseOwns.                           *)
LEMMA OwnsKept ==
  ASSUME Shape, ReleaseOwns, StoppedKept,
         \A j \in Callers : caller'[j].pc \in ReleasePCs =>
           caller[j].pc \in ReleasePCs /\ caller'[j].rt = caller[j].rt
  PROVE  ReleaseOwns'
<1> SUFFICES ASSUME NEW k \in Callers, caller'[k].pc \in ReleasePCs, caller'[k].rt # None
             PROVE  /\ runtime'[caller'[k].rt].phase \notin {"none", "live"}
                    /\ runtime'[caller'[k].rt].by = "release"
  BY DEF ReleaseOwns
<1>1. caller[k].pc \in ReleasePCs /\ caller'[k].rt = caller[k].rt
  OBVIOUS
<1>2. caller[k].rt \in Runtimes
  BY <1>1 DEF Shape, TypeOK, CallerRecord
<1> QED BY <1>1, <1>2 DEF ReleaseOwns, StoppedKept

(* Steps that detach nothing and move no settling goroutine keep Settled.  *)
LEMMA SettledKept ==
  ASSUME Shape, Settled, TeardownKept, StatusKept,
         \A s \in Sessions : detached'[s] \in {"running", "stopping"} =>
           detached'[s] = detached[s],
         \A j \in Callers : caller[j].pc \in {"relread", "relstop", "relcas"} =>
           caller'[j] = caller[j]
  PROVE  Settled'
<1> SUFFICES ASSUME NEW s \in Sessions, detached'[s] \in {"running", "stopping"}
             PROVE  /\ status'[s] \notin {"none", "starting"}
                    /\ \/ status'[s] \in Terminal
                       \/ \E k \in Callers : CallerSettles(caller[k], s)'
                       \/ \E r \in Runtimes : TeardownSettles(runtime[r], s)'
  BY DEF Settled
<1>1. /\ status[s] \notin {"none", "starting"}
      /\ \/ status[s] \in Terminal
         \/ \E k \in Callers : CallerSettles(caller[k], s)
         \/ \E r \in Runtimes : TeardownSettles(runtime[r], s)
  BY DEF Settled
<1>2. status'[s] = status[s]
  BY <1>1 DEF StatusKept
<1>3. ASSUME NEW k \in Callers, CallerSettles(caller[k], s)
      PROVE  CallerSettles(caller[k], s)'
  BY <1>2, <1>3 DEF CallerSettles
<1>4. ASSUME NEW r \in Runtimes, TeardownSettles(runtime[r], s)
      PROVE  TeardownSettles(runtime[r], s)'
  BY <1>2, <1>4 DEF TeardownSettles, TeardownKept
<1> QED BY <1>1, <1>2, <1>3, <1>4

(* There are three pumps for each of finitely many runtimes.               *)
LEMMA PumpsFinite ==
  /\ IsFiniteSet(Pumps) /\ Cardinality(Pumps) = 3
  /\ IsFiniteSet(Runtimes)
  /\ IsFiniteSet(Runtimes \X Pumps)
<1>1. IsFiniteSet(Runtimes)
  BY RuntimeAssumption, FS_Interval DEF Runtimes
<1>2. IsFiniteSet({"event"}) /\ Cardinality({"event"}) = 1
  BY FS_Singleton
<1>3. IsFiniteSet({"event", "lease"}) /\ Cardinality({"event", "lease"}) = 2
  <2>1. {"event", "lease"} = {"event"} \cup {"lease"} /\ "lease" \notin {"event"}
    OBVIOUS
  <2> QED BY <1>2, <2>1, FS_AddElement
<1>4. IsFiniteSet(Pumps) /\ Cardinality(Pumps) = 3
  <2>1. Pumps = {"event", "lease"} \cup {"wait"} /\ "wait" \notin {"event", "lease"}
    BY DEF Pumps
  <2> QED BY <1>3, <2>1, FS_AddElement
<1> QED BY <1>1, <1>4, FS_Product

(* Finitely many pumps are counted.                                        *)
LEMMA CountedFinite == IsFiniteSet(Counted) /\ Cardinality(Counted) \in Nat
<1>1. Counted \subseteq Runtimes \X Pumps
  BY DEF Counted
<1> QED BY <1>1, PumpsFinite, FS_Subset, FS_CardinalityType

(* A step that launches, ends and promises no pump keeps WorkersCover.     *)
LEMMA WorkersKept ==
  ASSUME Shape, WorkersCover, workers' = workers,
         \A r \in Runtimes : /\ runtime'[r].pumps = runtime[r].pumps
                             /\ runtime'[r].phase = "none" => runtime[r].phase = "none",
         \A j \in Callers : Owes(caller'[j]) =>
           Owes(caller[j]) /\ caller'[j].rt = caller[j].rt
  PROVE  WorkersCover'
<1>1. Counted' \subseteq Counted
  BY DEF Counted, OwedPumps
<1>2. Cardinality(Counted') <= Cardinality(Counted)
  BY <1>1, CountedFinite, FS_Subset
<1>3. Cardinality(Counted') \in Nat
  BY <1>1, CountedFinite, FS_Subset, FS_CardinalityType
<1>4. Cardinality(Counted') <= workers'
  BY <1>2, <1>3, CountedFinite DEF WorkersCover, Shape, TypeOK
<1>5. \A j \in Callers : Owes(caller[j]) => caller[j].rt \in Runtimes
  BY DEF Shape, CallerFits
<1> QED BY <1>4, <1>5 DEF WorkersCover

(* A step of one caller that changes no runtime keeps all but StartInv.    *)
LEMMA QuietStep ==
  ASSUME IInv, NEW k \in Callers, StatusKept,
         UNCHANGED <<writer, owner, binding, workers, runtime, finals, detached>>,
         \A j \in Callers : j # k => caller'[j] = caller[j],
         caller[k].pc \notin {"relread", "relstop", "relcas"},
         caller'[k].pc \notin ReleasePCs,
         Owes(caller'[k]) => Owes(caller[k]) /\ caller'[k].rt = caller[k].rt
  PROVE  RegistryInv' /\ SettleInv' /\ WorkersCover'
<1>1. RegistryInv'
  BY RegistryFrame DEF IInv
<1>2. TeardownKept /\ StoppedKept
  BY DEF TeardownKept, StoppedKept
<1>3. Settled'
  BY <1>2, SettledKept DEF IInv, SettleInv
<1>4. ReleaseOwns'
  BY <1>2, OwnsKept DEF IInv, SettleInv
<1>5. WorkersCover'
  BY WorkersKept DEF IInv
<1> QED BY <1>1, <1>3, <1>4, <1>5 DEF SettleInv

(* In particular a return,                                                 *)
LEMMA QuietReturn ==
  ASSUME IInv, NEW k \in Callers, StatusKept, Return(k),
         UNCHANGED <<writer, owner, binding, workers, runtime, finals, detached>>,
         caller[k].pc \notin {"relread", "relstop", "relcas"}
  PROVE  RegistryInv' /\ SettleInv' /\ WorkersCover'
<1>1. /\ \A j \in Callers : j # k => caller'[j] = caller[j]
      /\ caller'[k].pc = "idle"
  BY ReturnFacts DEF IInv
<1>2. ~Owes(caller'[k]) /\ caller'[k].pc \notin ReleasePCs
  BY <1>1 DEF Owes, ReleasePCs
<1> QED BY <1>1, <1>2, QuietStep

(* and a jump.                                                             *)
LEMMA QuietGoto ==
  ASSUME IInv, NEW k \in Callers, NEW pc, StatusKept, Goto(k, pc),
         UNCHANGED <<writer, owner, binding, workers, runtime, finals, detached>>,
         caller[k].pc \notin {"relread", "relstop", "relcas"},
         pc \notin ReleasePCs,
         pc \in {"setthread", "torunning"} => caller[k].pc \in {"setthread", "torunning"}
  PROVE  RegistryInv' /\ SettleInv' /\ WorkersCover'
<1>1. /\ \A j \in Callers : j # k => caller'[j] = caller[j]
      /\ caller'[k].pc = pc /\ caller'[k].rt = caller[k].rt
      /\ caller'[k].created = caller[k].created
  BY GotoFacts DEF IInv
<1>2. Owes(caller'[k]) => Owes(caller[k])
  BY <1>1 DEF Owes
<1> QED BY <1>1, <1>2, QuietStep

(* The steps of start that touch no runtime preserve the invariant.        *)
LEMMA StartQuiet ==
  ASSUME IInv, NEW k \in Callers,
         \/ \E s \in Sessions : BeginStart(k, s) \/ BeginReserved(k, s)
         \/ EnterGate(k) \/ GateExpires(k) \/ Recheck(k) \/ StartRefused(k) \/ FinalWait(k)
         \/ FailStart(k) \/ SetThread(k) \/ StartAborts(k)
  PROVE  IInv'
<1>0. Shape /\ StartInv
  BY DEF IInv
<1>1. ASSUME NEW s \in Sessions, BeginStart(k, s) \/ BeginReserved(k, s) PROVE IInv'
  <2>1. \E pc \in {"lock", "gate"} :
          caller' = [caller EXCEPT ![k] = [IdleCaller EXCEPT !.pc = pc, !.s = s,
                                             !.rev = revision[CredentialOf[s]]]]
    BY <1>1 DEF BeginStart, BeginReserved
  <2>2. /\ \A j \in Callers : j # k => caller'[j] = caller[j]
        /\ caller'[k].pc \in {"lock", "gate"}
    BY <1>0, <2>1 DEF IdleCaller, Shape, TypeOK
  <2>3. ~Owes(caller'[k]) /\ caller'[k].pc \notin ReleasePCs
    BY <2>2 DEF Owes, ReleasePCs
  <2>4. caller[k].pc = "idle" /\ StatusKept
    BY <1>0, <1>1 DEF BeginStart, BeginReserved, StatusKept, Shape, TypeOK
  <2>5. UNCHANGED <<writer, owner, binding, workers, runtime, finals, detached>>
    BY <1>1 DEF BeginStart, BeginReserved, history
  <2>6. RegistryInv' /\ SettleInv' /\ WorkersCover'
    BY <2>2, <2>3, <2>4, <2>5, QuietStep
  <2> QED BY <1>0, <1>1, <2>6, BeginShape, StartBegins DEF IInv
<1>2. CASE EnterGate(k)
  <2>1. Goto(k, "recheck") /\ caller[k].pc = "gate" /\ StatusKept
    BY <1>2 DEF EnterGate, store, StatusKept
  <2>2. UNCHANGED <<writer, owner, binding, workers, runtime, finals, detached>>
    BY <1>2 DEF EnterGate, history
  <2>3. RegistryInv' /\ SettleInv' /\ WorkersCover'
    BY <2>1, <2>2, QuietGoto DEF ReleasePCs
  <2> QED BY <1>0, <1>2, <2>3, StartCallerShape, StartEnters DEF IInv
<1>3. CASE GateExpires(k)
  <2>1. Return(k) /\ caller[k].pc = "gate" /\ StatusKept /\ RowsKept
    BY <1>3 DEF GateExpires, store, StatusKept, RowsKept
  <2>2. UNCHANGED <<writer, owner, binding, workers, runtime, finals, detached>>
    BY <1>3 DEF GateExpires, history
  <2>3. RegistryInv' /\ SettleInv' /\ WorkersCover'
    BY <2>1, <2>2, QuietReturn
  <2>4. StartInv'
    BY <1>0, <2>1, StartReturns DEF Bound
  <2> QED BY <1>0, <1>3, <2>3, <2>4, StartCallerShape DEF IInv
<1>4. CASE Recheck(k)
  <2>1. caller[k].pc = "recheck" /\ StatusKept
    BY <1>4 DEF Recheck, store, StatusKept
  <2>2. UNCHANGED <<writer, owner, binding, workers, runtime, finals, detached>>
    BY <1>4 DEF Recheck, history
  <2>3. Goto(k, "lock") \/ Return(k)
    BY <1>4 DEF Recheck
  <2>4. RegistryInv' /\ SettleInv' /\ WorkersCover'
    BY <2>1, <2>2, <2>3, QuietReturn, QuietGoto DEF ReleasePCs
  <2> QED BY <1>0, <1>4, <2>4, StartCallerShape, StartRechecks DEF IInv
<1>5. CASE StartRefused(k)
  <2>1. Goto(k, "failstart") /\ caller[k].pc = "lock" /\ StatusKept /\ RowsKept /\ gate' = gate
    BY <1>5 DEF StartRefused, store, StatusKept, RowsKept
  <2>2. UNCHANGED <<writer, owner, binding, workers, runtime, finals, detached>>
    BY <1>5 DEF StartRefused, history
  <2>3. RegistryInv' /\ SettleInv' /\ WorkersCover'
    BY <2>1, <2>2, QuietGoto DEF ReleasePCs
  <2>4. StartInv'
    BY <1>0, <2>1, StartGoes DEF StartPCs
  <2> QED BY <1>0, <1>5, <2>3, <2>4, StartCallerShape DEF IInv
<1>6. CASE FinalWait(k)
  <2>1. Goto(k, "failstart") /\ caller[k].pc = "finwait" /\ StatusKept /\ RowsKept /\ gate' = gate
    BY <1>6 DEF FinalWait, store, StatusKept, RowsKept
  <2>2. UNCHANGED <<writer, owner, binding, workers, runtime, finals, detached>>
    BY <1>6 DEF FinalWait, history
  <2>3. RegistryInv' /\ SettleInv' /\ WorkersCover'
    BY <2>1, <2>2, QuietGoto DEF ReleasePCs
  <2>4. StartInv'
    BY <1>0, <2>1, StartGoes DEF StartPCs
  <2> QED BY <1>0, <1>6, <2>3, <2>4, StartCallerShape DEF IInv
<1>7. CASE FailStart(k)
  <2>1. Return(k) /\ caller[k].pc = "failstart" /\ Transition(caller[k].s, "starting", "failed")
    BY <1>7 DEF FailStart
  <2>2. UNCHANGED <<writer, owner, binding, workers, runtime, finals, detached>>
    BY <1>7 DEF FailStart, history
  <2>3. StatusKept
    BY <1>0, <2>1 DEF StatusKept, Transition, TransitionAllowed, Shape, TypeOK
  <2>4. RowsKept
    BY <1>0, <2>1, <2>2, TransitionKeeps DEF RowsKept
  <2>5. RegistryInv' /\ SettleInv' /\ WorkersCover'
    BY <2>1, <2>2, <2>3, QuietReturn
  <2>6. StartInv'
    BY <1>0, <2>1, <2>4, StartReturns DEF Bound
  <2> QED BY <1>0, <1>7, <2>5, <2>6, StartCallerShape DEF IInv
<1>8. CASE SetThread(k)
  <2>1. Goto(k, "torunning") /\ caller[k].pc = "setthread" /\ StatusKept /\ RowsKept /\ gate' = gate
    BY <1>8 DEF SetThread, StatusKept, RowsKept
  <2>2. UNCHANGED <<writer, owner, binding, workers, runtime, finals, detached>>
    BY <1>8 DEF SetThread, history
  <2>3. RegistryInv' /\ SettleInv' /\ WorkersCover'
    BY <2>1, <2>2, QuietGoto DEF ReleasePCs
  <2>4. StartInv'
    BY <1>0, <2>1, StartGoes DEF StartPCs
  <2> QED BY <1>0, <1>8, <2>3, <2>4, StartCallerShape DEF IInv
<1>9. CASE StartAborts(k)
  <2>0. caller \in [Callers -> CallerRecord] /\ caller[k] \in CallerRecord
    BY <1>0 DEF Shape, TypeOK
  <2>1. caller' = [caller EXCEPT ![k] = [caller[k] EXCEPT !.pc = "release", !.target = "failed"]]
    BY <1>9 DEF StartAborts
  <2>2. /\ \A j \in Callers : j # k => caller'[j] = caller[j]
        /\ caller'[k].pc = "release" /\ caller'[k].target = "failed"
        /\ caller'[k].s = caller[k].s
    BY <2>0, <2>1 DEF CallerRecord
  <2>3. /\ caller[k].pc \in {"setthread", "torunning"} /\ StatusKept /\ RowsKept /\ gate' = gate
        /\ UNCHANGED <<writer, owner, binding, workers, runtime, finals, detached>>
    BY <1>9 DEF StartAborts, store, StatusKept, RowsKept
  <2>4. ~Owes(caller'[k]) /\ caller'[k].pc \notin ReleasePCs
    BY <2>2 DEF Owes, ReleasePCs
  <2>5. RegistryInv' /\ SettleInv' /\ WorkersCover'
    BY <2>2, <2>3, <2>4, QuietStep
  <2>6. InStart(caller[k]) /\ Bound(caller'[k])
    BY <2>2, <2>3 DEF InStart, Bound, StartPCs
  <2>7. StartInv'
    BY <1>0, <2>2, <2>3, <2>6, StartKept
  <2> QED BY <1>0, <1>9, <2>5, <2>7, StartCallerShape DEF IInv
<1> QED BY <1>1, <1>2, <1>3, <1>4, <1>5, <1>6, <1>7, <1>8, <1>9

(* Creating a runtime preserves it; three pumps are promised and counted.  *)
LEMMA CreateStep ==
  ASSUME IInv, NEW k \in Callers, NEW r \in Runtimes,
         StartCreated(k, r) \/ StartThreadFails(k, r)
  PROVE  IInv'
<1>0. /\ Shape /\ StartInv /\ RegistryInv /\ Settled /\ ReleaseOwns /\ WorkersCover
      /\ caller \in [Callers -> CallerRecord] /\ caller[k] \in CallerRecord
      /\ runtime \in [Runtimes -> RuntimeRecord] /\ workers \in Nat
  BY DEF IInv, SettleInv, Shape, TypeOK
<1>1. caller[k].pc = "lock" /\ runtime[r].phase = "none" /\ status' = status /\ detached' = detached
  BY DEF StartCreated, StartThreadFails, Fresh, store, history
<1>2. runtime[r].pumps = {}
  BY <1>0, <1>1 DEF WorkersCover
<1>3. \A j \in Callers : Owes(caller[j]) => caller[j].rt \in Runtimes /\ caller[j].rt # r
  BY <1>0, <1>1 DEF WorkersCover, Shape, CallerFits
<1>4. CASE StartCreated(k, r)
  <2>1. caller' = [caller EXCEPT ![k] =
          [caller[k] EXCEPT !.pc = "setthread", !.created = TRUE, !.rt = r]]
    BY <1>4 DEF StartCreated
  <2>2. /\ caller'[k].pc = "setthread" /\ caller'[k].rt = r /\ caller'[k].created
        /\ caller'[k].s = caller[k].s
        /\ \A j \in Callers : j # k => caller'[j] = caller[j]
    BY <1>0, <2>1 DEF CallerRecord
  <2>3. /\ runtime'[r].pumps = {} /\ runtime'[r].phase = "live"
        /\ \A q \in Runtimes : q # r => runtime'[q] = runtime[q]
    BY <1>0, <1>4 DEF StartCreated, NewRuntime
  <2>4. StartInv'
    <3>1. Bind(k, r) /\ UNCHANGED <<status, gate>>
      BY <1>4 DEF StartCreated, store
    <3> QED BY <1>0, <1>1, <2>2, <3>1, StartBinds
  <2>5. TeardownKept /\ StoppedKept /\ StatusKept
    BY <1>1, <2>3 DEF TeardownKept, StoppedKept, StatusKept
  <2>6. Settled'
    BY <1>0, <1>1, <2>2, <2>5, SettledKept
  <2>7. ReleaseOwns'
    BY <1>0, <2>2, <2>5, OwnsKept DEF ReleasePCs
  <2>8. WorkersCover'
    <3>1. workers' = workers + 3
      BY <1>4 DEF StartCreated
    <3>2. Counted' \subseteq Counted \cup ({r} \X Pumps)
      BY <1>2, <2>2, <2>3 DEF Counted, OwedPumps, Owes
    <3>3. IsFiniteSet({r} \X Pumps) /\ Cardinality({r} \X Pumps) = 3
      <4>1. IsFiniteSet({r}) /\ Cardinality({r}) = 1
        BY FS_Singleton
      <4>2. IsFiniteSet({r} \X Pumps) /\ Cardinality({r} \X Pumps) = 1 * 3
        BY <4>1, PumpsFinite, FS_Product
      <4> QED BY <4>2
    <3> DEFINE U == Counted \cup ({r} \X Pumps)
    <3>4. IsFiniteSet(U) /\ Cardinality(U) <= Cardinality(Counted) + 3 /\ Cardinality(U) \in Nat
      <4>1. IsFiniteSet(U) /\ Cardinality(U) = Cardinality(Counted) + Cardinality({r} \X Pumps)
                                - Cardinality(Counted \cap ({r} \X Pumps))
        BY <3>3, CountedFinite, FS_Union
      <4>2. Cardinality(Counted \cap ({r} \X Pumps)) \in Nat
        BY CountedFinite, FS_Intersection, FS_CardinalityType
      <4> QED BY <3>3, <4>1, <4>2, CountedFinite, FS_CardinalityType
    <3>5. Cardinality(Counted') <= Cardinality(U) /\ Cardinality(Counted') \in Nat
      BY <3>2, <3>4, FS_Subset, FS_CardinalityType
    <3>6. Cardinality(Counted') <= workers'
      BY <1>0, <3>1, <3>4, <3>5, CountedFinite DEF WorkersCover
    <3> QED BY <1>0, <1>3, <2>2, <2>3, <3>6 DEF WorkersCover
  <2> QED BY <1>0, <1>4, <2>4, <2>6, <2>7, <2>8, StartRuntimeShape, RegistryCreate
          DEF IInv, SettleInv
<1>5. CASE StartThreadFails(k, r)
  <2>1. caller' = [caller EXCEPT ![k] = [caller[k] EXCEPT !.pc = "finwait", !.rt = r]]
    BY <1>5 DEF StartThreadFails
  <2>2. /\ caller'[k].pc = "finwait" /\ caller'[k].s = caller[k].s
        /\ \A j \in Callers : j # k => caller'[j] = caller[j]
    BY <1>0, <2>1 DEF CallerRecord
  <2>3. /\ runtime'[r].pumps = {} /\ runtime'[r].phase = "finalize"
        /\ \A q \in Runtimes : q # r => runtime'[q] = runtime[q]
    BY <1>0, <1>5 DEF StartThreadFails, NewRuntime
  <2>4. StartInv'
    <3>1. RowsKept /\ gate' = gate
      BY <1>1, <1>5 DEF StartThreadFails, RowsKept
    <3>2. InStart(caller[k]) /\ ~Bound(caller[k])
      BY <1>1 DEF InStart, Bound, StartPCs
    <3> QED BY <1>0, <2>2, <3>1, <3>2, StartKept
  <2>5. TeardownKept /\ StoppedKept /\ StatusKept
    BY <1>1, <2>3 DEF TeardownKept, StoppedKept, StatusKept
  <2>6. Settled'
    BY <1>0, <1>1, <2>2, <2>5, SettledKept
  <2>7. ReleaseOwns'
    BY <1>0, <2>2, <2>5, OwnsKept DEF ReleasePCs
  <2>8. WorkersCover'
    <3>1. workers' = workers
      BY <1>5 DEF StartThreadFails
    <3>2. ~Owes(caller'[k])
      BY <2>2 DEF Owes
    <3> QED BY <1>0, <1>2, <2>2, <2>3, <3>1, <3>2, WorkersKept
  <2> QED BY <1>0, <1>5, <2>4, <2>6, <2>7, <2>8, StartRuntimeShape, RegistryCreate
          DEF IInv, SettleInv
<1> QED BY <1>4, <1>5

(* Sharing a runtime preserves it.                                         *)
LEMMA SharedStep ==
  ASSUME IInv, NEW k \in Callers, StartShared(k)
  PROVE  IInv'
<1> DEFINE r == owner[Cred(k)]
<1>0. /\ Shape /\ StartInv /\ RegistryInv /\ Settled /\ ReleaseOwns /\ WorkersCover
      /\ runtime \in [Runtimes -> RuntimeRecord] /\ caller[k].pc = "lock"
  BY DEF IInv, SettleInv, Shape, TypeOK, StartShared
<1>1. ~caller[k].created
  BY <1>0 DEF Shape, CallerFits
<1>2. /\ caller'[k].pc = "setthread" /\ caller'[k].s = caller[k].s
      /\ caller'[k].created = caller[k].created
      /\ \A j \in Callers : j # k => caller'[j] = caller[j]
  BY <1>0, GotoFacts DEF StartShared
<1>3. runtime' = [runtime EXCEPT ![r] = [runtime[r] EXCEPT !.sessions = @ \cup {caller[k].s}]]
  BY DEF StartShared
<1>4. Bind(k, r) /\ UNCHANGED <<status, gate, workers, detached>>
  BY DEF StartShared, store
<1> HIDE DEF r
<1>5. \A q \in Runtimes :
        /\ runtime'[q].phase = runtime[q].phase /\ runtime'[q].by = runtime[q].by
        /\ runtime'[q].left = runtime[q].left /\ runtime'[q].readId = runtime[q].readId
        /\ runtime'[q].read = runtime[q].read /\ runtime'[q].pumps = runtime[q].pumps
  BY <1>0, <1>3 DEF RuntimeRecord
<1>6. StartInv'
  BY <1>0, <1>2, <1>4, StartBinds
<1>7. TeardownKept /\ StoppedKept /\ StatusKept
  BY <1>4, <1>5 DEF TeardownKept, StoppedKept, StatusKept
<1>8. Settled'
  BY <1>0, <1>2, <1>4, <1>7, SettledKept
<1>9. ReleaseOwns'
  BY <1>0, <1>2, <1>7, OwnsKept DEF ReleasePCs
<1>10. WorkersCover'
  <2>1. ~Owes(caller'[k])
    BY <1>1, <1>2 DEF Owes
  <2> QED BY <1>0, <1>2, <1>4, <1>5, <2>1, WorkersKept
<1> QED BY <1>0, <1>6, <1>8, <1>9, <1>10, StartRestShape, RegistryShared DEF IInv, SettleInv

(* The end of a start preserves it: the promised pumps are launched.       *)
LEMMA RunningStep ==
  ASSUME IInv, NEW k \in Callers, ToRunning(k)
  PROVE  IInv'
<1> DEFINE r == caller[k].rt
<1>0. /\ Shape /\ StartInv /\ RegistryInv /\ Settled /\ ReleaseOwns /\ WorkersCover
      /\ runtime \in [Runtimes -> RuntimeRecord] /\ caller[k].pc = "torunning"
      /\ workers \in Nat /\ caller[k].s \in Sessions
  BY DEF IInv, SettleInv, Shape, TypeOK, ToRunning, CallerFits
<1>1. Return(k) /\ Transition(caller[k].s, "starting", "running") /\ status[caller[k].s] = "starting"
  BY DEF ToRunning, TransitionAllowed
<1>2. UNCHANGED <<writer, owner, binding, workers, finals, detached>>
  BY DEF ToRunning, history
<1>3. /\ caller'[k].pc = "idle"
      /\ \A j \in Callers : j # k => caller'[j] = caller[j]
  BY <1>0, <1>1, ReturnFacts
<1>4. ~Owes(caller'[k]) /\ caller'[k].pc \notin ReleasePCs
  BY <1>3 DEF Owes, ReleasePCs
<1>5. /\ status'[caller[k].s] = "running"
      /\ \A t \in Sessions : t # caller[k].s => status'[t] = status[t]
  BY <1>0, <1>1 DEF Transition, TransitionAllowed, Transitions, Shape, TypeOK
<1>6. StatusKept /\ RowsKept
  BY <1>1, <1>2, <1>5 DEF StatusKept, RowsKept
<1>7. StartInv'
  BY <1>0, <1>1, <1>5, <1>6, StartReturns
<1>8. CASE ~caller[k].created
  <2>1. runtime' = runtime
    BY <1>8 DEF ToRunning
  <2>2. RegistryInv' /\ SettleInv' /\ WorkersCover'
    BY <1>0, <1>1, <1>2, <1>6, <2>1, QuietReturn
  <2> QED BY <1>0, <1>7, <2>2, StartRestShape DEF IInv
<1>9. CASE caller[k].created
  <2>0. Owes(caller[k]) /\ r \in Runtimes
    BY <1>0, <1>9 DEF Owes, Shape, CallerFits
  <2>1. runtime' = [runtime EXCEPT ![r] = [runtime[r] EXCEPT !.pumps = Pumps]]
    BY <1>9 DEF ToRunning, Launched
  <2>2. /\ \A q \in Runtimes :
             /\ runtime'[q].phase = runtime[q].phase /\ runtime'[q].by = runtime[q].by
             /\ runtime'[q].left = runtime[q].left /\ runtime'[q].readId = runtime[q].readId
             /\ runtime'[q].read = runtime[q].read /\ runtime'[q].cred = runtime[q].cred
             /\ runtime'[q].sessions = runtime[q].sessions
        /\ \A q \in Runtimes : q # r => runtime'[q] = runtime[q]
    BY <1>0, <2>1 DEF RuntimeRecord
  <2>3. TeardownKept /\ StoppedKept
    BY <2>2 DEF TeardownKept, StoppedKept
  <2>4. Settled'
    BY <1>0, <1>2, <1>3, <1>6, <2>3, SettledKept
  <2>5. ReleaseOwns'
    BY <1>0, <1>3, <1>4, <2>3, OwnsKept
  <2>6. RegistryInv'
    BY <1>0, <1>2, <2>2, RegistryFrame
  <2>7. WorkersCover'
    <3>1. runtime[r].phase # "none" /\ \A j \in Callers : j # k /\ Owes(caller[j]) => caller[j].rt # r
      BY <1>0, <2>0 DEF WorkersCover
    <3>2. Counted' \subseteq Counted
      BY <1>3, <1>4, <2>0, <2>2 DEF Counted, OwedPumps
    <3>3. Cardinality(Counted') <= Cardinality(Counted) /\ Cardinality(Counted') \in Nat
      BY <3>2, CountedFinite, FS_Subset, FS_CardinalityType
    <3>4. Cardinality(Counted') <= workers'
      BY <1>0, <1>2, <3>3, CountedFinite DEF WorkersCover
    <3>5. \A j \in Callers : Owes(caller[j]) => caller[j].rt \in Runtimes
      BY <1>0 DEF Shape, CallerFits
    <3> QED BY <1>0, <1>3, <1>4, <2>2, <3>1, <3>4, <3>5 DEF WorkersCover
  <2> QED BY <1>0, <1>7, <2>4, <2>5, <2>6, <2>7, StartRestShape DEF IInv, SettleInv
<1> QED BY <1>8, <1>9

(* Beginning and ending Stop and Input preserve it.                        *)
LEMMA StopQuiet ==
  ASSUME IInv, NEW k \in Callers,
         \/ \E s \in Sessions, target \in {"exited", "killed"} : BeginStop(k, s, target)
         \/ \E s \in Sessions : BeginInput(k, s)
         \/ Interrupt(k) \/ ReleaseMissed(k) \/ ReleaseReturn(k)
         \/ InputAnswered(k) \/ InputReturn(k)
  PROVE  IInv'
<1> DEFINE Still == UNCHANGED <<writer, owner, binding, workers, runtime, finals, detached>>
<1>0. Shape /\ StartInv
  BY DEF IInv
<1>1. ASSUME NEW s \in Sessions, caller'[k].pc \in {"interrupt", "turn"}, caller'[k].s = s,
             \A j \in Callers : j # k => caller'[j] = caller[j],
             status[s] # "none", caller[k].pc = "idle", Still, status' = status, gate' = gate
      PROVE  RegistryInv' /\ SettleInv' /\ WorkersCover' /\ StartInv'
  <2>2. /\ ~Owes(caller'[k]) /\ ~InStart(caller'[k]) /\ caller'[k].pc \notin ReleasePCs
        /\ ~Bound(caller[k])
    BY <1>1 DEF Owes, InStart, StartPCs, ReleasePCs, Bound
  <2>3. StatusKept /\ RowsKept
    BY <1>1 DEF StatusKept, RowsKept
  <2>4. StartInv'
    BY <1>0, <1>1, <2>2, <2>3, StartKept
  <2> QED BY <1>1, <2>2, <2>3, <2>4, QuietStep
<1>2. ASSUME NEW s \in Sessions, NEW target \in {"exited", "killed"}, BeginStop(k, s, target)
      PROVE  IInv'
  <2> DEFINE c == [IdleCaller EXCEPT !.pc = "interrupt", !.s = s, !.target = target]
  <2>1. c.pc = "interrupt" /\ c.s = s
    BY DEF IdleCaller
  <2>2. /\ status[s] # "none" /\ caller[k].pc = "idle" /\ Still /\ status' = status
        /\ gate' = gate /\ caller' = [caller EXCEPT ![k] = c]
    BY <1>2 DEF BeginStop, store, history, Active
  <2> HIDE DEF c
  <2>4. /\ caller'[k].pc \in {"interrupt", "turn"} /\ caller'[k].s = s
        /\ \A j \in Callers : j # k => caller'[j] = caller[j]
    BY <1>0, <2>1, <2>2 DEF Shape, TypeOK
  <2>3. RegistryInv' /\ SettleInv' /\ WorkersCover' /\ StartInv'
    BY <1>1, <2>2, <2>4
  <2> QED BY <1>0, <1>2, <2>3, InputShape DEF IInv
<1>3. ASSUME NEW s \in Sessions, BeginInput(k, s) PROVE IInv'
  <2> DEFINE c == [IdleCaller EXCEPT !.pc = "turn", !.s = s, !.rt = binding[s]]
  <2>1. c.pc = "turn" /\ c.s = s
    BY DEF IdleCaller
  <2>2. /\ status[s] # "none" /\ caller[k].pc = "idle" /\ Still /\ status' = status
        /\ gate' = gate /\ caller' = [caller EXCEPT ![k] = c]
    BY <1>3 DEF BeginInput, store, history
  <2> HIDE DEF c
  <2>4. /\ caller'[k].pc \in {"interrupt", "turn"} /\ caller'[k].s = s
        /\ \A j \in Callers : j # k => caller'[j] = caller[j]
    BY <1>0, <2>1, <2>2 DEF Shape, TypeOK
  <2>3. RegistryInv' /\ SettleInv' /\ WorkersCover' /\ StartInv'
    BY <1>1, <2>2, <2>4
  <2> QED BY <1>0, <1>3, <2>3, InputShape DEF IInv
<1>4. ASSUME Return(k), Still, status' = status,
             caller[k].pc \notin {"relread", "relstop", "relcas"},
             Bound(caller[k]) => binding[caller[k].s] = None
      PROVE  RegistryInv' /\ SettleInv' /\ WorkersCover' /\ StartInv'
  <2>1. StatusKept /\ RowsKept
    BY <1>4 DEF StatusKept, RowsKept
  <2> QED BY <1>0, <1>4, <2>1, QuietReturn, StartReturns
<1>5. CASE Interrupt(k)
  <2>1. caller[k].pc = "interrupt" /\ Still /\ status' = status
    BY <1>5 DEF Interrupt, store, history
  <2>2. caller[k].target # "failed"
    BY <1>0, <2>1 DEF Shape, CallerFits
  <2>3. CASE Goto(k, "release") /\ gate' = gate
    <3>1. StatusKept /\ RowsKept
      BY <2>1 DEF StatusKept, RowsKept
    <3>2. RegistryInv' /\ SettleInv' /\ WorkersCover'
      BY <2>1, <2>3, <3>1, QuietGoto DEF ReleasePCs
    <3>3. /\ caller'[k].pc = "release" /\ caller'[k].target = caller[k].target
          /\ caller'[k].s = caller[k].s
          /\ \A j \in Callers : j # k => caller'[j] = caller[j]
      BY <1>0, <2>3, GotoFacts
    <3>4. ~InStart(caller'[k]) /\ ~Bound(caller[k])
      BY <2>1, <2>2, <3>3 DEF InStart, Bound, StartPCs
    <3>5. StartInv'
      BY <1>0, <2>3, <3>1, <3>3, <3>4, StartKept
    <3> QED BY <1>0, <1>5, <3>2, <3>5, StopShape DEF IInv
  <2>4. CASE Return(k)
    <3>1. RegistryInv' /\ SettleInv' /\ WorkersCover' /\ StartInv'
      BY <1>4, <2>1, <2>4 DEF Bound
    <3> QED BY <1>0, <1>5, <3>1, StopShape DEF IInv
  <2> QED BY <1>5, <2>3, <2>4 DEF Interrupt
<1>6. CASE ReleaseMissed(k)
  <2>1. /\ Return(k) /\ Still /\ status' = status /\ caller[k].pc = "release"
        /\ binding[caller[k].s] = None
    BY <1>6 DEF ReleaseMissed, store, history
  <2>2. RegistryInv' /\ SettleInv' /\ WorkersCover' /\ StartInv'
    BY <1>4, <2>1
  <2> QED BY <1>0, <1>6, <2>2, StopShape DEF IInv
<1>7. CASE ReleaseReturn(k)
  <2>1. Return(k) /\ Still /\ status' = status /\ caller[k].pc = "relfin"
    BY <1>7 DEF ReleaseReturn, store, history
  <2>2. RegistryInv' /\ SettleInv' /\ WorkersCover' /\ StartInv'
    BY <1>4, <2>1 DEF Bound
  <2> QED BY <1>0, <1>7, <2>2, StopShape DEF IInv
<1>8. CASE InputAnswered(k)
  <2>1. Return(k) /\ Still /\ status' = status /\ caller[k].pc = "turn"
    BY <1>8 DEF InputAnswered, store, history
  <2>2. RegistryInv' /\ SettleInv' /\ WorkersCover' /\ StartInv'
    BY <1>4, <2>1 DEF Bound
  <2> QED BY <1>0, <1>8, <2>2, InputShape DEF IInv
<1>9. CASE InputReturn(k)
  <2>1. Return(k) /\ Still /\ status' = status /\ caller[k].pc = "failwait"
    BY <1>9 DEF InputReturn, store, history
  <2>2. RegistryInv' /\ SettleInv' /\ WorkersCover' /\ StartInv'
    BY <1>4, <2>1 DEF Bound
  <2> QED BY <1>0, <1>9, <2>2, InputShape DEF IInv
<1> QED BY <1>2, <1>3, <1>5, <1>6, <1>7, <1>8, <1>9

(* releaseBinding's locked region preserves it: the caller that detached   *)
(* the Session has still to settle it.                                     *)
LEMMA ReleaseStep ==
  ASSUME IInv, NEW k \in Callers, Release(k)
  PROVE  IInv'
<1> DEFINE s == caller[k].s
           r == binding[s]
<1>0. /\ Shape /\ StartInv /\ RegistryInv /\ Settled /\ ReleaseOwns /\ WorkersCover
      /\ caller[k].pc = "release"
  BY DEF IInv, SettleInv, Release
<1>1. /\ s \in Sessions /\ r \in Runtimes
      /\ runtime[r].phase = "live"
      /\ \A q \in Runtimes : q # r => runtime'[q] = runtime[q]
      /\ runtime'[r].pumps = runtime[r].pumps
      /\ IF runtime[r].sessions = {s}
         THEN runtime'[r].phase = "detached" /\ runtime'[r].by = "release"
         ELSE runtime'[r].phase = "live"
      /\ caller'[k].pc = "relread" /\ caller'[k].s = s
      /\ caller'[k].rt = IF runtime[r].sessions = {s} THEN r ELSE None
      /\ \A j \in Callers : j # k => caller'[j] = caller[j]
      /\ binding'[s] = None /\ \A t \in Sessions : t # s => binding'[t] = binding[t]
      /\ detached'[s] = status[s]
      /\ \A t \in Sessions : t # s => detached'[t] = detached[t]
  BY <1>0, ReleaseFacts
<1>2. UNCHANGED <<status, gate, workers>>
  BY DEF Release, store
<1> HIDE DEF r
<1>3. StartInv'
  <2>1. RowsKept
    BY <1>1, <1>2 DEF RowsKept
  <2>2. ~InStart(caller'[k])
    BY <1>1 DEF InStart, StartPCs
  <2> QED BY <1>0, <1>1, <1>2, <2>1, <2>2, StartKept
<1>4. TeardownKept /\ StoppedKept /\ StatusKept
  BY <1>1, <1>2 DEF TeardownKept, StoppedKept, StatusKept
<1>5. Settled'
  <2> SUFFICES ASSUME NEW t \in Sessions, detached'[t] \in {"running", "stopping"}
               PROVE  /\ status'[t] \notin {"none", "starting"}
                      /\ \/ status'[t] \in Terminal
                         \/ \E j \in Callers : CallerSettles(caller[j], t)'
                         \/ \E q \in Runtimes : TeardownSettles(runtime[q], t)'
    BY DEF Settled
  <2>1. CASE t = s
    <3>1. CallerSettles(caller[k], t)'
      BY <1>1, <2>1 DEF CallerSettles
    <3> QED BY <1>1, <1>2, <2>1, <3>1
  <2>2. CASE t # s
    <3>1. /\ status[t] \notin {"none", "starting"}
          /\ \/ status[t] \in Terminal
             \/ \E j \in Callers : CallerSettles(caller[j], t)
             \/ \E q \in Runtimes : TeardownSettles(runtime[q], t)
      BY <1>0, <1>1, <2>2 DEF Settled
    <3>2. ASSUME NEW j \in Callers, CallerSettles(caller[j], t) PROVE CallerSettles(caller[j], t)'
      BY <1>0, <1>1, <1>2, <3>2 DEF CallerSettles
    <3>3. ASSUME NEW q \in Runtimes, TeardownSettles(runtime[q], t)
          PROVE  TeardownSettles(runtime[q], t)'
      BY <1>2, <1>4, <3>3 DEF TeardownSettles, TeardownKept
    <3> QED BY <1>2, <3>1, <3>2, <3>3
  <2> QED BY <2>1, <2>2
<1>6. ReleaseOwns'
  <2> SUFFICES ASSUME NEW j \in Callers, caller'[j].pc \in ReleasePCs, caller'[j].rt # None
               PROVE  /\ runtime'[caller'[j].rt].phase \notin {"none", "live"}
                      /\ runtime'[caller'[j].rt].by = "release"
    BY DEF ReleaseOwns
  <2>1. CASE j = k
    BY <1>1, <2>1
  <2>2. CASE j # k
    <3>1. caller'[j] = caller[j] /\ caller[j].rt \in Runtimes
      BY <1>0, <1>1, <2>2 DEF Shape, TypeOK, CallerRecord
    <3> QED BY <1>0, <1>4, <3>1 DEF ReleaseOwns, StoppedKept
  <2> QED BY <2>1, <2>2
<1>7. WorkersCover'
  <2>1. ~Owes(caller'[k])
    BY <1>1 DEF Owes
  <2> QED BY <1>0, <1>1, <1>2, <2>1, WorkersKept
<1> QED BY <1>0, <1>3, <1>5, <1>6, <1>7, ReleaseShape, RegistryRelease DEF IInv, SettleInv

(* releaseBinding's read and compare-and-swaps preserve it: a swap is      *)
(* refused only when another goroutine has moved the row, and then that    *)
(* one or a third still settles it.                                        *)
LEMMA CasStep ==
  ASSUME IInv, NEW k \in Callers,
         ReleaseRead(k) \/ ReleaseStopping(k) \/ ReleaseTransition(k)
  PROVE  IInv'
<1> DEFINE s == caller[k].s
<1>0. /\ Shape /\ StartInv /\ RegistryInv /\ Settled /\ ReleaseOwns /\ WorkersCover
      /\ caller \in [Callers -> CallerRecord] /\ caller[k] \in CallerRecord
      /\ CallerFits(caller[k])
  BY DEF IInv, SettleInv, Shape, TypeOK
<1>1. /\ caller[k].pc \in {"relread", "relstop", "relcas"} /\ s \in Sessions
      /\ UNCHANGED <<writer, owner, binding, gate, workers, runtime, finals, detached>>
  BY <1>0 DEF ReleaseRead, ReleaseStopping, ReleaseTransition, CallerFits, history
<1>2. /\ \A j \in Callers : j # k => caller'[j] = caller[j]
      /\ caller'[k].s = s /\ caller'[k].rt = caller[k].rt
      /\ caller'[k].pc \in {"relstop", "relcas", "relfin"}
  <2>1. CASE ReleaseRead(k)
    <3> DEFINE st == status[caller[k].s]
               pc == IF st \in Terminal THEN "relfin"
                     ELSE IF caller[k].target = "exited" /\ st # "stopping"
                          THEN "relstop" ELSE "relcas"
    <3>1. caller' = [caller EXCEPT ![k] = [caller[k] EXCEPT !.read = st, !.pc = pc]]
      BY <2>1 DEF ReleaseRead
    <3>2. pc \in {"relstop", "relcas", "relfin"}
      OBVIOUS
    <3> HIDE DEF pc, st
    <3> QED BY <1>0, <3>1, <3>2 DEF CallerRecord
  <2>2. CASE ReleaseStopping(k)
    <3>1. caller' = [caller EXCEPT ![k] = [caller[k] EXCEPT !.pc = "relcas", !.read = "stopping"]]
      BY <2>2 DEF ReleaseStopping
    <3> QED BY <1>0, <3>1 DEF CallerRecord
  <2>3. CASE ReleaseTransition(k)
    BY <1>0, <2>3, GotoFacts DEF ReleaseTransition
  <2> QED BY <2>1, <2>2, <2>3
<1>3. RegistryInv'
  BY <1>0, <1>1, RegistryFrame
<1>4. ~Owes(caller'[k]) /\ ~InStart(caller'[k]) /\ ~Bound(caller[k]) /\ caller[k].pc \in ReleasePCs
  BY <1>1, <1>2 DEF Owes, InStart, Bound, StartPCs, ReleasePCs
<1>5. ReleaseOwns'
  <2>1. StoppedKept
    BY <1>1 DEF StoppedKept
  <2> QED BY <1>0, <1>2, <1>4, <2>1, OwnsKept
<1>6. WorkersCover'
  BY <1>0, <1>1, <1>2, <1>4, WorkersKept
<1>7. /\ \A t \in Sessions : status'[t] \in {"none", "starting"} => status'[t] = status[t]
      /\ \A t \in Sessions : t # s => status'[t] = status[t]
  <2>1. CASE ReleaseRead(k)
    BY <2>1 DEF ReleaseRead, store
  <2>2. CASE ReleaseStopping(k)
    BY <1>0, <2>2 DEF ReleaseStopping, Transition, Shape, TypeOK
  <2>3. CASE ReleaseTransition(k)
    <3>1. caller[k].target \notin {"none", "starting"}
      BY <1>0, <2>3 DEF ReleaseTransition, CallerFits, StopPCs, Targets
    <3> QED BY <1>0, <2>3, <3>1 DEF ReleaseTransition, Transition, Shape, TypeOK
  <2> QED BY <2>1, <2>2, <2>3
<1>8. StartInv'
  <2>1. RowsKept
    BY <1>1, <1>7 DEF RowsKept
  <2>2. caller'[k].pc # "lock"
    BY <1>2
  <2> QED BY <1>0, <1>1, <1>2, <1>4, <2>1, <2>2, StartKept
<1>9. Settled'
  <2> SUFFICES ASSUME NEW t \in Sessions, detached'[t] \in {"running", "stopping"}
               PROVE  /\ status'[t] \notin {"none", "starting"}
                      /\ \/ status'[t] \in Terminal
                         \/ \E j \in Callers : CallerSettles(caller[j], t)'
                         \/ \E q \in Runtimes : TeardownSettles(runtime[q], t)'
    BY DEF Settled
  <2>1. /\ status[t] \notin {"none", "starting"}
        /\ \/ status[t] \in Terminal
           \/ \E j \in Callers : CallerSettles(caller[j], t)
           \/ \E q \in Runtimes : TeardownSettles(runtime[q], t)
    BY <1>0, <1>1 DEF Settled
  <2>2. status'[t] \notin {"none", "starting"}
    BY <1>7, <2>1
  <2>3. CASE /\ status'[t] = status[t]
             /\ CallerSettles(caller[k], t) => CallerSettles(caller[k], t)'
    <3>1. ASSUME NEW j \in Callers, CallerSettles(caller[j], t) PROVE CallerSettles(caller[j], t)'
      BY <1>2, <2>3, <3>1 DEF CallerSettles
    <3>2. ASSUME NEW q \in Runtimes, TeardownSettles(runtime[q], t)
          PROVE  TeardownSettles(runtime[q], t)'
      BY <1>1, <2>3, <3>2 DEF TeardownSettles
    <3> QED BY <2>1, <2>2, <2>3, <3>1, <3>2
  <2>4. CASE t # s
    BY <1>7, <2>3, <2>4 DEF CallerSettles
  <2>5. CASE t = s /\ ReleaseRead(k)
    <3>1. status' = status
      BY <2>5 DEF ReleaseRead, store
    <3>2. CASE status[s] \in Terminal
      BY <2>2, <2>5, <3>1, <3>2
    <3>3. CASE status[s] \notin Terminal
      <4> DEFINE pc == IF caller[k].target = "exited" /\ status[s] # "stopping"
                       THEN "relstop" ELSE "relcas"
      <4>1. caller' = [caller EXCEPT ![k] = [caller[k] EXCEPT !.read = status[s], !.pc = pc]]
        BY <2>5, <3>3 DEF ReleaseRead
      <4>2. pc \in {"relstop", "relcas"}
        OBVIOUS
      <4> HIDE DEF pc
      <4>3. caller'[k].read = status[s] /\ caller'[k].pc \in {"relstop", "relcas"}
        BY <1>0, <4>1, <4>2 DEF CallerRecord
      <4>4. CallerSettles(caller[k], t)'
        BY <1>2, <2>5, <3>1, <4>3 DEF CallerSettles
      <4> QED BY <2>2, <4>4
    <3> QED BY <3>2, <3>3
  <2>6. CASE t = s /\ ReleaseStopping(k)
    <3>1. caller' = [caller EXCEPT ![k] = [caller[k] EXCEPT !.pc = "relcas", !.read = "stopping"]]
      BY <2>6 DEF ReleaseStopping
    <3>2. caller'[k].read = "stopping" /\ caller'[k].pc = "relcas"
      BY <1>0, <3>1 DEF CallerRecord
    <3>3. Transition(s, caller[k].read, "stopping") /\ caller[k].pc = "relstop"
      BY <2>6 DEF ReleaseStopping
    <3>4. status'[s] \in {status[s], "stopping"}
      BY <1>0, <1>1, <3>3 DEF Transition, Shape, TypeOK
    <3>5. CASE status'[s] = "stopping"
      <4>1. CallerSettles(caller[k], t)'
        BY <1>2, <2>6, <3>2, <3>5 DEF CallerSettles
      <4> QED BY <2>2, <4>1
    <3>6. CASE status'[s] # "stopping"
      <4>1. ~TransitionAllowed(s, caller[k].read, "stopping")
        BY <1>0, <1>1, <3>3, <3>6 DEF Transition, Shape, TypeOK
      <4>2. status[s] \in {"running", "stopping"} \cup Terminal
        BY <1>1, <2>1, <2>6, <1>0 DEF Shape, TypeOK, Statuses, Active
      <4>3. CASE status[s] \in Terminal
        BY <2>2, <2>6, <3>4, <3>6, <4>3
      <4>4. CASE status[s] \in {"running", "stopping"}
        <5>1. status[s] = "running"
          BY <3>4, <3>6, <4>4
        <5>2. caller[k].read # status[s]
          BY <4>1, <5>1 DEF TransitionAllowed, Transitions
        <5>3. ~CallerSettles(caller[k], t)
          BY <2>6, <3>3, <5>2 DEF CallerSettles
        <5> QED BY <2>3, <2>6, <3>4, <3>6, <5>3
      <4> QED BY <4>2, <4>3, <4>4
    <3> QED BY <3>5, <3>6
  <2>7. CASE t = s /\ ReleaseTransition(k)
    <3>1. Transition(s, caller[k].read, caller[k].target) /\ caller[k].pc = "relcas"
      BY <2>7 DEF ReleaseTransition
    <3>2. caller[k].target \in Terminal
      BY <1>0, <3>1 DEF CallerFits, StopPCs, Targets, Terminal
    <3>3. CASE TransitionAllowed(s, caller[k].read, caller[k].target)
      <4>1. status'[s] = caller[k].target
        BY <1>0, <1>1, <3>1, <3>3 DEF Transition, Shape, TypeOK
      <4> QED BY <2>2, <2>7, <3>2, <4>1
    <3>4. CASE ~TransitionAllowed(s, caller[k].read, caller[k].target)
      <4>1. status'[s] = status[s]
        BY <1>0, <1>1, <3>1, <3>4 DEF Transition, Shape, TypeOK
      <4>2. CASE status[s] \in Terminal
        BY <2>2, <2>7, <4>1, <4>2
      <4>3. CASE status[s] \in {"running", "stopping"}
        <5>1. caller[k].read = status[s] => TransitionAllowed(s, caller[k].read, caller[k].target)
          <6> SUFFICES ASSUME caller[k].read = status[s]
                       PROVE  TransitionAllowed(s, caller[k].read, caller[k].target)
            OBVIOUS
          <6>1. caller[k].target = "exited" => caller[k].read = "stopping"
            BY <1>0, <3>1 DEF CallerFits
          <6>2. <<caller[k].read, caller[k].target>> \in Transitions
            BY <3>2, <4>3, <6>1 DEF Transitions, Terminal
          <6> QED BY <6>2 DEF TransitionAllowed
        <5>2. ~CallerSettles(caller[k], t)
          BY <2>7, <3>1, <3>4, <5>1 DEF CallerSettles
        <5> QED BY <2>3, <2>7, <4>1, <5>2
      <4>4. status[s] \in {"running", "stopping"} \cup Terminal
        BY <1>1, <2>1, <2>7, <1>0 DEF Shape, TypeOK, Statuses, Active
      <4> QED BY <4>2, <4>3, <4>4
    <3> QED BY <3>3, <3>4
  <2> QED BY <2>4, <2>5, <2>6, <2>7
<1> QED BY <1>0, <1>3, <1>5, <1>6, <1>8, <1>9, StopShape DEF IInv, SettleInv

(* Detaching runtimes keeps Settled: their Sessions are left to the        *)
(* teardown.                                                               *)
LEMMA DetachSettled ==
  ASSUME Shape, RegistryInv, Settled, NEW rs \in SUBSET Runtimes, Detach(rs),
         \A r \in rs : /\ runtime[r].phase = "live"
                       /\ runtime'[r].phase = "detached"
                       /\ runtime'[r].by # "release"
                       /\ runtime'[r].left = runtime[r].sessions,
         \A r \in Runtimes \ rs : runtime'[r] = runtime[r],
         status' = status,
         \A j \in Callers : caller[j].pc \in {"relread", "relstop", "relcas"} =>
           caller'[j] = caller[j]
  PROVE  Settled'
<1> SUFFICES ASSUME NEW s \in Sessions, detached'[s] \in {"running", "stopping"}
             PROVE  /\ status'[s] \notin {"none", "starting"}
                    /\ \/ status'[s] \in Terminal
                       \/ \E k \in Callers : CallerSettles(caller[k], s)'
                       \/ \E r \in Runtimes : TeardownSettles(runtime[r], s)'
  BY DEF Settled
<1>1. detached'[s] = IF binding[s] \in rs THEN status[s] ELSE detached[s]
  BY DEF Detach
<1>2. CASE binding[s] \in rs
  <2>1. PICK r \in rs : binding[s] = r
    BY <1>2
  <2>2. s \in runtime[r].sessions
    BY <2>1 DEF RegistryInv, RegistryConsistent
  <2>3. TeardownSettles(runtime[r], s)'
    BY <2>2 DEF TeardownSettles
  <2> QED BY <1>1, <1>2, <2>3
<1>3. CASE binding[s] \notin rs
  <2>1. /\ status[s] \notin {"none", "starting"}
        /\ \/ status[s] \in Terminal
           \/ \E k \in Callers : CallerSettles(caller[k], s)
           \/ \E r \in Runtimes : TeardownSettles(runtime[r], s)
    BY <1>1, <1>3 DEF Settled
  <2>2. ASSUME NEW k \in Callers, CallerSettles(caller[k], s) PROVE CallerSettles(caller[k], s)'
    BY <2>2 DEF CallerSettles
  <2>3. ASSUME NEW r \in Runtimes, TeardownSettles(runtime[r], s)
        PROVE  TeardownSettles(runtime[r], s)'
    <3>1. r \notin rs
      BY <2>3 DEF TeardownSettles
    <3> QED BY <2>3, <3>1 DEF TeardownSettles
  <2> QED BY <2>1, <2>2, <2>3
<1> QED BY <1>2, <1>3

(* It also keeps the other parts.                                          *)
LEMMA DetachRest ==
  ASSUME Shape, StartInv, ReleaseOwns, WorkersCover, NEW rs \in SUBSET Runtimes, Detach(rs),
         \A r \in rs : /\ runtime[r].phase = "live"
                       /\ runtime'[r].phase = "detached"
                       /\ runtime'[r].pumps = runtime[r].pumps,
         \A r \in Runtimes \ rs : runtime'[r] = runtime[r],
         UNCHANGED <<status, gate, workers>>,
         \/ caller' = caller
         \/ \E k \in Callers : caller[k].pc = "turn" /\ Goto(k, "failwait")
  PROVE  StartInv' /\ ReleaseOwns' /\ WorkersCover'
<1>1. StoppedKept
  BY DEF StoppedKept
<1>2. RowsKept
  BY DEF RowsKept, Detach
<1>3. StartInv'
  <2>1. CASE caller' = caller
    BY <1>2, <2>1, StartFrame
  <2>2. ASSUME NEW k \in Callers, caller[k].pc = "turn", Goto(k, "failwait") PROVE StartInv'
    BY <1>2, <2>2, StartGoes DEF StartPCs
  <2> QED BY <2>1, <2>2
<1>4. \A j \in Callers : /\ caller'[j].rt = caller[j].rt
                         /\ \/ caller'[j].pc = caller[j].pc
                            \/ caller'[j].pc = "failwait"
                         /\ caller'[j].created = caller[j].created
  BY GotoFacts
<1>5. ReleaseOwns'
  BY <1>1, <1>4, OwnsKept DEF ReleasePCs
<1>6. WorkersCover'
  BY <1>4, WorkersKept DEF Owes
<1> QED BY <1>3, <1>5, <1>6

(* failRuntime preserves the invariant,                                    *)
LEMMA FailStep ==
  ASSUME IInv, NEW r \in Runtimes, NEW who \in Pumps \cup {"input"}, FailRuntime(r, who),
         UNCHANGED <<status, gate, workers, writer, finals>>,
         \/ caller' = caller
         \/ \E k \in Callers : caller[k].pc = "turn" /\ Goto(k, "failwait")
  PROVE  RegistryInv' /\ StartInv' /\ SettleInv' /\ WorkersCover'
<1>0. Shape /\ RegistryInv /\ StartInv /\ Settled /\ ReleaseOwns /\ WorkersCover
  BY DEF IInv, SettleInv
<1>1. /\ runtime[r].phase = "live"
      /\ runtime'[r].phase = "detached"
      /\ runtime'[r].by = who
      /\ runtime'[r].left = runtime[r].sessions
      /\ runtime'[r].pumps = runtime[r].pumps
      /\ \A q \in Runtimes : q # r => runtime'[q] = runtime[q]
      /\ Detach({r})
  BY <1>0, FailFacts
<1>2. {r} \in SUBSET Runtimes /\ who # "release"
  BY DEF Pumps
<1>3. \A j \in Callers : caller[j].pc \in {"relread", "relstop", "relcas"} => caller'[j] = caller[j]
  BY <1>0, GotoFacts
<1>4. RegistryInv'
  BY <1>0, RegistryFail
<1>5. /\ \A q \in {r} : /\ runtime[q].phase = "live"
                        /\ runtime'[q].phase = "detached"
                        /\ runtime'[q].by # "release"
                        /\ runtime'[q].left = runtime[q].sessions
                        /\ runtime'[q].pumps = runtime[q].pumps
      /\ \A q \in Runtimes \ {r} : runtime'[q] = runtime[q]
  BY <1>1, <1>2
<1>6. Settled'
  BY <1>0, <1>1, <1>2, <1>3, <1>5, DetachSettled
<1>7. StartInv' /\ ReleaseOwns' /\ WorkersCover'
  BY <1>0, <1>1, <1>2, <1>5, DetachRest
<1> QED BY <1>4, <1>6, <1>7 DEF SettleInv

(* called from Input or from a pump.                                       *)
LEMMA FaultStep ==
  ASSUME IInv,
         \/ \E k \in Callers : InputFault(k)
         \/ \E r \in Runtimes, p \in Pumps : PumpFails(r, p)
  PROVE  IInv'
<1>0. Shape
  BY DEF IInv
<1>1. ASSUME NEW k \in Callers, InputFault(k) PROVE IInv'
  <2>1. caller[k].rt \in Runtimes /\ caller[k].pc = "turn"
    BY <1>0, <1>1 DEF InputFault, Shape, CallerFits
  <2>2. FailRuntime(caller[k].rt, "input") /\ Goto(k, "failwait")
    BY <1>1 DEF InputFault
  <2>3. UNCHANGED <<status, gate, workers, writer, finals>>
    BY <1>1 DEF InputFault, store
  <2>4. RegistryInv' /\ StartInv' /\ SettleInv' /\ WorkersCover'
    BY <2>1, <2>2, <2>3, FailStep
  <2> QED BY <1>0, <1>1, <2>4, FaultShape DEF IInv
<1>2. ASSUME NEW r \in Runtimes, NEW p \in Pumps, PumpFails(r, p) PROVE IInv'
  <2>1. FailRuntime(r, p) /\ caller' = caller
    BY <1>2 DEF PumpFails
  <2>2. UNCHANGED <<status, gate, workers, writer, finals>>
    BY <1>2 DEF PumpFails, store
  <2>3. RegistryInv' /\ StartInv' /\ SettleInv' /\ WorkersCover'
    BY <2>1, <2>2, FailStep
  <2> QED BY <1>0, <1>2, <2>3, FaultShape DEF IInv
<1> QED BY <1>1, <1>2

(* A step that changes runtimes alone keeps the parts about callers.       *)
LEMMA RuntimeOnly ==
  ASSUME IInv, UNCHANGED <<caller, gate, status, detached, workers, binding>>,
         TeardownKept, StoppedKept,
         \A r \in Runtimes : /\ runtime'[r].pumps = runtime[r].pumps
                             /\ runtime'[r].phase = "none" => runtime[r].phase = "none"
  PROVE  StartInv' /\ SettleInv' /\ WorkersCover'
<1>0. Shape /\ StartInv /\ Settled /\ ReleaseOwns /\ WorkersCover
  BY DEF IInv, SettleInv
<1>1. StatusKept /\ RowsKept
  BY DEF StatusKept, RowsKept
<1>2. StartInv'
  BY <1>0, <1>1, StartFrame
<1>3. Settled'
  BY <1>0, <1>1, SettledKept
<1>4. ReleaseOwns'
  BY <1>0, OwnsKept
<1>5. WorkersCover'
  BY <1>0, WorkersKept
<1> QED BY <1>2, <1>3, <1>4, <1>5 DEF SettleInv

(* finalize and the exit of a child preserve the invariant; the last       *)
(* release finalizes only the runtime it took.                             *)
LEMMA FinalizeStep ==
  ASSUME IInv, NEW r \in Runtimes,
         \/ FinalizeKill(r) \/ FinalizeCommit(r) \/ ChildExits(r)
         \/ \E k \in Callers : ReleaseFinalize(k) /\ caller[k].rt = r
  PROVE  IInv'
<1>0. /\ Shape /\ RegistryInv /\ ReleaseOwns
      /\ runtime[r] \in RuntimeRecord /\ runtime \in [Runtimes -> RuntimeRecord]
  BY DEF IInv, SettleInv, Shape, TypeOK
<1> DEFINE Still == UNCHANGED <<caller, gate, status, detached, workers, binding>>
           Same(q) == /\ runtime'[q].by = runtime[q].by /\ runtime'[q].left = runtime[q].left
                      /\ runtime'[q].readId = runtime[q].readId
                      /\ runtime'[q].read = runtime[q].read
                      /\ runtime'[q].pumps = runtime[q].pumps
                      /\ runtime'[q].cred = runtime[q].cred
                      /\ runtime'[q].sessions = runtime[q].sessions
<1>1. ASSUME Still, \A q \in Runtimes : Same(q),
             \A q \in Runtimes : q # r => runtime'[q] = runtime[q],
             \/ runtime'[r].phase = runtime[r].phase
             \/ /\ runtime[r].phase \in {"finalize", "killed"}
                   \/ (runtime[r].phase = "detached" /\ runtime[r].by = "release")
                /\ runtime'[r].phase \in {"finalize", "killed", "final"}
      PROVE  StartInv' /\ SettleInv' /\ WorkersCover'
  <2>1. TeardownKept
    BY <1>1 DEF TeardownKept
  <2>2. StoppedKept
    BY <1>1 DEF StoppedKept
  <2>3. \A q \in Runtimes : /\ runtime'[q].pumps = runtime[q].pumps
                            /\ runtime'[q].phase = "none" => runtime[q].phase = "none"
    BY <1>1
  <2> QED BY <1>1, <2>1, <2>2, <2>3, RuntimeOnly
<1>2. CASE FinalizeKill(r)
  <2>1. /\ \A q \in Runtimes : Same(q)
        /\ \A q \in Runtimes : q # r => runtime'[q] = runtime[q]
        /\ runtime[r].phase = "finalize" /\ runtime'[r].phase = "killed"
    BY <1>0, <1>2 DEF FinalizeKill, RuntimeRecord
  <2>2. Still
    BY <1>2 DEF FinalizeKill, store
  <2>3. StartInv' /\ SettleInv' /\ WorkersCover'
    BY <1>1, <2>1, <2>2
  <2> QED BY <1>0, <1>2, <2>3, RegistryFinalize, TeardownShape DEF IInv, Teardown
<1>3. CASE FinalizeCommit(r)
  <2>1. /\ \A q \in Runtimes : Same(q)
        /\ \A q \in Runtimes : q # r => runtime'[q] = runtime[q]
        /\ runtime[r].phase = "killed" /\ runtime'[r].phase = "final"
    BY <1>0, <1>3 DEF FinalizeCommit, RuntimeRecord
  <2>2. Still
    BY <1>3 DEF FinalizeCommit, store, history
  <2>3. StartInv' /\ SettleInv' /\ WorkersCover'
    BY <1>1, <2>1, <2>2
  <2> QED BY <1>0, <1>3, <2>3, RegistryFinalize, TeardownShape DEF IInv, Teardown
<1>4. CASE ChildExits(r)
  <2>1. /\ \A q \in Runtimes : Same(q)
        /\ \A q \in Runtimes : q # r => runtime'[q] = runtime[q]
        /\ \A q \in Runtimes : runtime'[q].phase = runtime[q].phase
    BY <1>0, <1>4 DEF ChildExits, RuntimeRecord
  <2>2. Still /\ UNCHANGED <<writer, owner, finals>>
    BY <1>4 DEF ChildExits, store, history
  <2>3. StartInv' /\ SettleInv' /\ WorkersCover'
    BY <1>1, <2>1, <2>2
  <2>4. RegistryInv'
    BY <1>0, <2>1, <2>2, RegistryFrame
  <2> QED BY <1>0, <1>4, <2>3, <2>4, TeardownShape DEF IInv
<1>5. ASSUME NEW k \in Callers, ReleaseFinalize(k), caller[k].rt = r PROVE IInv'
  <2>1. /\ \A q \in Runtimes : Same(q)
        /\ \A q \in Runtimes : q # r => runtime'[q] = runtime[q]
        /\ runtime[r].phase = "detached" /\ runtime'[r].phase = "finalize"
    BY <1>0, <1>5 DEF ReleaseFinalize, RuntimeRecord
  <2>2. Still /\ UNCHANGED <<writer, owner, finals>>
    BY <1>5 DEF ReleaseFinalize, store, history
  <2>3. runtime[r].by = "release"
    BY <1>0, <1>5 DEF ReleaseFinalize, ReleaseOwns, ReleasePCs
  <2>4. StartInv' /\ SettleInv' /\ WorkersCover'
    BY <1>1, <2>1, <2>2, <2>3
  <2>5. RegistryInv'
    <3>1. \A q \in Runtimes : \/ runtime'[q].phase = runtime[q].phase
                              \/ runtime[q].phase = "detached" /\ runtime'[q].phase = "finalize"
      BY <2>1
    <3> QED BY <1>0, <2>1, <2>2, <3>1, RegistryFrame
  <2> QED BY <1>0, <1>5, <2>4, <2>5, StopShape DEF IInv
<1> QED BY <1>2, <1>3, <1>4, <1>5

(* failRuntime's and Close's reads and swaps preserve it.                  *)
LEMMA TeardownStep ==
  ASSUME IInv, NEW r \in Runtimes,
         \/ \E s \in Sessions : TeardownRead(r, s)
         \/ TeardownTransition(r) \/ TeardownFinalize(r)
  PROVE  IInv'
<1> USE RuntimeAssumption
<1>0. /\ Shape /\ RegistryInv /\ StartInv /\ Settled /\ ReleaseOwns /\ WorkersCover
      /\ runtime[r] \in RuntimeRecord /\ runtime \in [Runtimes -> RuntimeRecord]
  BY DEF IInv, SettleInv, Shape, TypeOK
<1>1. /\ runtime[r].phase = "detached" /\ runtime[r].by # "release"
      /\ \A q \in Runtimes : q # r => runtime'[q] = runtime[q]
      /\ runtime'[r].by = runtime[r].by
      /\ runtime'[r].pumps = runtime[r].pumps
      /\ runtime'[r].cred = runtime[r].cred
      /\ runtime'[r].sessions = runtime[r].sessions
      /\ runtime'[r].phase \in {"detached", "finalize"}
  <2>1. ASSUME NEW s \in Sessions, TeardownRead(r, s)
        PROVE  /\ runtime[r].phase = "detached" /\ runtime[r].by # "release"
               /\ \A q \in Runtimes : q # r => runtime'[q] = runtime[q]
               /\ runtime'[r].by = runtime[r].by
               /\ runtime'[r].pumps = runtime[r].pumps
               /\ runtime'[r].cred = runtime[r].cred
               /\ runtime'[r].sessions = runtime[r].sessions
               /\ runtime'[r].phase \in {"detached", "finalize"}
    <3>1. runtime' = [runtime EXCEPT ![r] =
            [runtime[r] EXCEPT !.left = @ \ {s}, !.read = status[s],
               !.readId = IF status[s] \in Terminal THEN None ELSE s]]
      BY <2>1 DEF TeardownRead
    <3>2. runtime[r].phase = "detached" /\ runtime[r].by # "release"
      BY <2>1 DEF TeardownRead, InTeardown
    <3> QED BY <1>0, <3>1, <3>2 DEF RuntimeRecord
  <2>2. CASE TeardownTransition(r)
    BY <1>0, <2>2 DEF TeardownTransition, InTeardown, RuntimeRecord
  <2>3. CASE TeardownFinalize(r)
    BY <1>0, <2>3 DEF TeardownFinalize, InTeardown, RuntimeRecord
  <2> QED BY <2>1, <2>2, <2>3
<1>2. UNCHANGED <<caller, gate, detached, workers, binding, writer, owner, finals>>
  BY DEF TeardownRead, TeardownTransition, TeardownFinalize, history
<1>3. RegistryInv'
  <2>1. \A q \in Runtimes :
           /\ runtime'[q].cred = runtime[q].cred
           /\ runtime'[q].sessions = runtime[q].sessions
           /\ \/ runtime'[q].phase = runtime[q].phase
              \/ runtime[q].phase = "detached" /\ runtime'[q].phase = "finalize"
    BY <1>1
  <2> QED BY <1>0, <1>2, <2>1, RegistryFrame
<1>4. StoppedKept
  BY <1>1 DEF StoppedKept
<1>5. ReleaseOwns'
  BY <1>0, <1>2, <1>4, OwnsKept
<1>6. WorkersCover'
  BY <1>0, <1>1, <1>2, WorkersKept
<1>7. \/ status' = status
      \/ TeardownTransition(r) /\ Transition(runtime[r].readId, runtime[r].read, "failed")
  BY DEF TeardownRead, TeardownTransition, TeardownFinalize, store
<1>8. \A t \in Sessions : /\ status'[t] \in {"none", "starting"} => status'[t] = status[t]
                          /\ status'[t] \in {status[t], "failed"}
  BY <1>0, <1>7 DEF Transition, Shape, TypeOK
<1>9. StartInv'
  <2>1. RowsKept
    BY <1>2, <1>8 DEF RowsKept
  <2> QED BY <1>0, <1>2, <2>1, StartFrame
<1>10. Settled'
  <2> SUFFICES ASSUME NEW t \in Sessions, detached'[t] \in {"running", "stopping"}
               PROVE  /\ status'[t] \notin {"none", "starting"}
                      /\ \/ status'[t] \in Terminal
                         \/ \E j \in Callers : CallerSettles(caller[j], t)'
                         \/ \E q \in Runtimes : TeardownSettles(runtime[q], t)'
    BY DEF Settled
  <2>1. /\ status[t] \notin {"none", "starting"}
        /\ \/ status[t] \in Terminal
           \/ \E j \in Callers : CallerSettles(caller[j], t)
           \/ \E q \in Runtimes : TeardownSettles(runtime[q], t)
    BY <1>0, <1>2 DEF Settled
  <2>2. status'[t] \notin {"none", "starting"}
    BY <1>8, <2>1
  <2>3. CASE status'[t] = "failed"
    BY <2>2, <2>3 DEF Terminal
  <2>4. CASE status'[t] = status[t] /\ status[t] # "failed"
    <3>1. ASSUME NEW j \in Callers, CallerSettles(caller[j], t) PROVE CallerSettles(caller[j], t)'
      BY <1>2, <2>4, <3>1 DEF CallerSettles
    <3>2. ASSUME NEW q \in Runtimes, q # r, TeardownSettles(runtime[q], t)
          PROVE  TeardownSettles(runtime[q], t)'
      BY <1>1, <2>4, <3>2 DEF TeardownSettles
    <3>3. ASSUME TeardownSettles(runtime[r], t)
          PROVE  status[t] \in Terminal \/ TeardownSettles(runtime[r], t)'
      <4>1. t \in runtime[r].left \/ (runtime[r].readId = t /\ runtime[r].read = status[t])
        BY <3>3 DEF TeardownSettles
      <4>2. ASSUME NEW s \in Sessions, TeardownRead(r, s)
            PROVE  status[t] \in Terminal \/ TeardownSettles(runtime[r], t)'
        <5>1. runtime' = [runtime EXCEPT ![r] =
                [runtime[r] EXCEPT !.left = @ \ {s}, !.read = status[s],
                   !.readId = IF status[s] \in Terminal THEN None ELSE s]]
          BY <4>2 DEF TeardownRead
        <5>2. /\ runtime'[r].left = runtime[r].left \ {s} /\ runtime'[r].read = status[s]
              /\ runtime'[r].readId = IF status[s] \in Terminal THEN None ELSE s
              /\ runtime'[r].phase = runtime[r].phase
          BY <1>0, <5>1 DEF RuntimeRecord
        <5>3. t \in runtime[r].left
          BY <4>1, <4>2 DEF TeardownRead
        <5>4. CASE t = s
          BY <1>1, <2>4, <5>2, <5>4 DEF TeardownSettles
        <5>5. CASE t # s
          BY <1>1, <5>2, <5>3, <5>5 DEF TeardownSettles
        <5> QED BY <5>4, <5>5
      <4>3. CASE TeardownTransition(r)
        <5>1. /\ runtime'[r].left = runtime[r].left
              /\ runtime'[r].phase = runtime[r].phase
          BY <1>0, <4>3 DEF TeardownTransition, RuntimeRecord
        <5>2. CASE t \in runtime[r].left
          BY <1>1, <5>1, <5>2 DEF TeardownSettles
        <5>3. CASE runtime[r].readId = t /\ runtime[r].read = status[t]
          <6>1. Transition(t, status[t], "failed")
            BY <4>3, <5>3 DEF TeardownTransition
          <6>2. ~TransitionAllowed(t, status[t], "failed")
            BY <1>0, <2>4, <6>1 DEF Transition, Shape, TypeOK
          <6>3. status[t] \notin {"running", "stopping"}
            BY <6>2 DEF TransitionAllowed, Transitions
          <6> QED BY <1>0, <2>1, <6>3 DEF Shape, TypeOK, Statuses, Active
        <5> QED BY <4>1, <5>2, <5>3
      <4>4. CASE TeardownFinalize(r)
        BY <4>1, <4>4 DEF TeardownFinalize
      <4> QED BY <4>2, <4>3, <4>4
    <3> QED BY <2>1, <2>2, <2>4, <3>1, <3>2, <3>3
  <2> QED BY <1>8, <2>3, <2>4
<1> QED BY <1>0, <1>3, <1>5, <1>6, <1>9, <1>10, TeardownShape DEF IInv, SettleInv, Teardown

(* A pump that ends was counted: the counter stays a natural number.       *)
LEMMA PumpExitStep ==
  ASSUME IInv, NEW r \in Runtimes, NEW p \in Pumps, PumpExits(r, p)
  PROVE  IInv'
<1>0. /\ Shape /\ RegistryInv /\ StartInv /\ Settled /\ ReleaseOwns /\ WorkersCover
      /\ runtime[r] \in RuntimeRecord /\ runtime \in [Runtimes -> RuntimeRecord]
      /\ workers \in Nat
  BY DEF IInv, SettleInv, Shape, TypeOK
<1>1. /\ p \in runtime[r].pumps /\ workers' = workers - 1
      /\ runtime' = [runtime EXCEPT ![r] = [runtime[r] EXCEPT !.pumps = @ \ {p}]]
  BY DEF PumpExits, PumpsLeft, WorkersDone
<1>2. /\ runtime'[r].pumps = runtime[r].pumps \ {p}
      /\ \A q \in Runtimes : q # r => runtime'[q] = runtime[q]
      /\ \A q \in Runtimes :
             /\ runtime'[q].phase = runtime[q].phase /\ runtime'[q].by = runtime[q].by
             /\ runtime'[q].left = runtime[q].left /\ runtime'[q].readId = runtime[q].readId
             /\ runtime'[q].read = runtime[q].read /\ runtime'[q].cred = runtime[q].cred
             /\ runtime'[q].sessions = runtime[q].sessions
  BY <1>0, <1>1 DEF RuntimeRecord
<1>3. UNCHANGED <<caller, gate, status, detached, binding, writer, owner, finals>>
  BY DEF PumpExits, store, history
<1>4. \A k \in Callers : Owes(caller[k]) => caller[k].rt # r /\ caller[k].rt \in Runtimes
  BY <1>0, <1>1 DEF WorkersCover, Shape, CallerFits
<1>5. <<r, p>> \in Counted /\ Counted' = Counted \ {<<r, p>>}
  <2>1. <<r, p>> \in Counted
    BY <1>1 DEF Counted, OwedPumps
  <2>2. ASSUME NEW rp \in Runtimes \X Pumps
        PROVE  OwedPumps(rp[1], rp[2])' <=> OwedPumps(rp[1], rp[2]) /\ rp # <<r, p>>
    <3>1. rp[1] \in Runtimes /\ rp[2] \in Pumps /\ rp = <<rp[1], rp[2]>>
      OBVIOUS
    <3>2. CASE rp[1] = r
      BY <1>2, <1>3, <1>4, <3>1, <3>2 DEF OwedPumps
    <3>3. CASE rp[1] # r
      BY <1>2, <1>3, <3>1, <3>3 DEF OwedPumps
    <3> QED BY <3>2, <3>3
  <2> QED BY <2>1, <2>2 DEF Counted
<1>6. Cardinality(Counted') = Cardinality(Counted) - 1 /\ Cardinality(Counted') \in Nat
  BY <1>5, CountedFinite, FS_RemoveElement, FS_CardinalityType
<1>7. workers' \in Nat /\ Cardinality(Counted') <= workers'
  BY <1>0, <1>1, <1>6, CountedFinite DEF WorkersCover
<1>8. WorkersCover'
  BY <1>0, <1>2, <1>3, <1>4, <1>7 DEF WorkersCover
<1>9. Shape'
  <2>1. [runtime[r] EXCEPT !.pumps = @ \ {p}] \in RuntimeRecord
    BY <1>0 DEF RuntimeRecord
  <2>2. runtime' \in [Runtimes -> RuntimeRecord]
    BY <1>0, <1>1, <2>1, RuntimeUpdate DEF Shape
  <2> QED BY <1>0, <1>7, <2>2 DEF PumpExits, Shape, TypeOK, store, history
<1>10. RegistryInv'
  BY <1>0, <1>2, <1>3, RegistryFrame
<1>11. TeardownKept /\ StoppedKept /\ StatusKept /\ RowsKept
  BY <1>2, <1>3 DEF TeardownKept, StoppedKept, StatusKept, RowsKept
<1>12. StartInv' /\ Settled' /\ ReleaseOwns'
  BY <1>0, <1>3, <1>11, StartFrame, SettledKept, OwnsKept
<1> QED BY <1>8, <1>9, <1>10, <1>12 DEF IInv, SettleInv

(* Close preserves the invariant.                                          *)
LEMMA CloseStepInv ==
  ASSUME IInv, Close
  PROVE  IInv'
<1>0. Shape /\ RegistryInv /\ StartInv /\ Settled /\ ReleaseOwns /\ WorkersCover
  BY DEF IInv, SettleInv
<1>1. CASE CloseLock
  <2>1. UNCHANGED <<status, gate, workers, caller>>
    BY <1>1 DEF CloseLock, store
  <2>2. Settled'
    BY <1>0, <1>1, <2>1, CloseFacts, DetachSettled
  <2>3. StartInv' /\ ReleaseOwns' /\ WorkersCover'
    BY <1>0, <1>1, <2>1, CloseFacts, DetachRest
  <2> QED BY <1>0, <1>1, <2>2, <2>3, CloseShape, RegistryClose DEF IInv, SettleInv
<1>2. CASE CloseFinalized \/ CloseReturn \/ \E r \in Runtimes : CloseTake(r)
  <2>1. UNCHANGED <<caller, gate, status, detached, workers, binding, writer, owner, finals, runtime>>
    BY <1>2 DEF CloseFinalized, CloseReturn, CloseTake, store, history
  <2>2. TeardownKept /\ StoppedKept
    BY <2>1 DEF TeardownKept, StoppedKept
  <2>3. StartInv' /\ SettleInv' /\ WorkersCover'
    BY <2>1, <2>2, RuntimeOnly
  <2>4. RegistryInv'
    BY <1>0, <2>1, RegistryFrame
  <2> QED BY <1>0, <2>3, <2>4, CloseShape DEF IInv
<1> QED BY <1>1, <1>2 DEF Close

(* A restart preserves it.                                                 *)
LEMMA RestartStep ==
  ASSUME IInv, Restart
  PROVE  IInv'
<1> USE RuntimeAssumption
<1>0. Shape /\ RegistryInv /\ WorkersCover /\ StartInv
  BY DEF IInv
<1>1. \A k \in Callers : caller'[k].pc \in {"idle", "out"} /\ caller'[k].s = None
  BY DEF Restart, IdleCaller, AbsentCaller
<1>2. \A k \in Callers : /\ ~InStart(caller'[k]) /\ ~Owes(caller'[k])
                         /\ caller'[k].pc # "lock" /\ caller'[k].pc \notin ReleasePCs
  BY <1>1 DEF InStart, StartPCs, Owes, ReleasePCs
<1>3. /\ \A s \in Sessions : binding'[s] = None /\ detached'[s] = "none"
      /\ status' = status
  BY DEF Restart, store
<1>4. StartInv'
  <2>1. Unstarted'
    BY <1>1, <1>3 DEF Unstarted
  <2>2. GateHeld' /\ OneStart' /\ LockUnbound'
    BY <1>2 DEF GateHeld, OneStart, LockUnbound
  <2>3. StartingIsOwned'
    BY <1>3 DEF StartingIsOwned
  <2> QED BY <2>1, <2>2, <2>3 DEF StartInv
<1>5. Settled' /\ ReleaseOwns'
  BY <1>2, <1>3 DEF Settled, ReleaseOwns
<1>6. \A r \in Runtimes : runtime'[r].pumps = {}
  BY <1>0 DEF Restart, NewRuntime, WorkersCover
<1>7. WorkersCover'
  <2>1. Counted' = {}
    BY <1>2, <1>6 DEF Counted, OwedPumps
  <2>2. Cardinality(Counted') = 0
    BY <2>1, FS_EmptySet
  <2>3. workers' = 0
    BY DEF Restart
  <2>4. Cardinality(Counted') <= workers'
    BY <2>2, <2>3
  <2> QED BY <1>2, <1>6, <2>4 DEF WorkersCover
<1> QED BY <1>0, <1>4, <1>5, <1>7, CloseShape, RegistryRestart DEF IInv, SettleInv

(* The initial states satisfy the invariant.                               *)
LEMMA InitIInv == Init => IInv
<1> SUFFICES ASSUME Init PROVE IInv
  OBVIOUS
<1> USE RuntimeAssumption
<1>0. PICK sc \in Scenarios :
       /\ status = [s \in Sessions |-> IF s \in sc.sessions THEN "none" ELSE "exited"]
       /\ threadId = [s \in Sessions |-> s \notin sc.sessions]
       /\ caller = [k \in Callers |-> IF k \in sc.callers THEN IdleCaller ELSE AbsentCaller]
       /\ revision = [c \in Credentials |-> sc.revision]
       /\ crashes = sc.crashes
  BY DEF Init
<1>1. sc.revision \in Nat /\ sc.crashes \in Nat
  BY <1>0
<1>2. IdleCaller \in CallerRecord /\ AbsentCaller \in CallerRecord
  BY DEF IdleCaller, AbsentCaller, CallerRecord, PCs, Statuses
<1>3. CallerFits(IdleCaller) /\ CallerFits(AbsentCaller)
  BY DEF IdleCaller, AbsentCaller, CallerFits, Owes, StopPCs
<1>4. NewRuntime \in RuntimeRecord
  BY DEF NewRuntime, RuntimeRecord, Phases, Statuses, Pumps
<1>5. Shape
  <2>1. caller \in [Callers -> CallerRecord] /\ \A k \in Callers : CallerFits(caller[k])
    BY <1>0, <1>2, <1>3
  <2>2. /\ status \in [Sessions -> Statuses] /\ threadId \in [Sessions -> BOOLEAN]
        /\ revision \in [Credentials -> Nat] /\ crashes \in Nat
    BY <1>0, <1>1 DEF Statuses, Terminal
  <2>3. runtime \in [Runtimes -> RuntimeRecord]
    BY <1>4 DEF Init
  <2>4. /\ writer \in [Credentials -> Runtimes \cup {None}]
        /\ owner \in [Credentials -> Runtimes \cup {None}]
        /\ binding \in [Sessions -> Runtimes \cup {None}]
        /\ gate \in [Sessions -> Callers \cup {None}]
        /\ closed \in BOOLEAN
        /\ workers \in Nat /\ leaked \in Nat
        /\ finals \in [Runtimes -> Nat]
        /\ detached \in [Sessions -> Statuses]
    BY DEF Init, Statuses
  <2>5. closer \in [pc: {"idle", "closing", "done"}, todo: SUBSET Runtimes,
                    cur: Runtimes \cup {None}]
    BY DEF Init, IdleCloser
  <2> QED BY <2>1, <2>2, <2>3, <2>4, <2>5 DEF Shape, TypeOK
<1>6. \A r \in Runtimes : /\ runtime[r].phase = "none" /\ runtime[r].sessions = {}
                          /\ runtime[r].pumps = {} /\ finals[r] = 0
  BY DEF Init, NewRuntime
<1>7. /\ \A s \in Sessions : binding[s] = None /\ detached[s] = "none"
      /\ \A c \in Credentials : owner[c] = None
      /\ None \notin Runtimes
  BY DEF Init, Runtimes
<1>8. RegistryInv
  <2>1. RegistryConsistent
    BY <1>6, <1>7 DEF RegistryConsistent
  <2>2. WriterHeld /\ KillCounted
    BY <1>6 DEF WriterHeld, KillCounted, Busy
  <2> QED BY <2>1, <2>2 DEF RegistryInv
<1>9. \A k \in Callers : /\ caller[k].pc \in {"idle", "out"} /\ caller[k].s = None
  BY <1>0 DEF IdleCaller, AbsentCaller
<1>10. \A k \in Callers : /\ ~InStart(caller[k]) /\ ~Owes(caller[k])
                          /\ caller[k].pc # "lock" /\ caller[k].pc \notin ReleasePCs
  BY <1>9 DEF InStart, StartPCs, Owes, ReleasePCs
<1>11. StartInv
  <2>1. Unstarted
    BY <1>7, <1>9 DEF Unstarted
  <2>2. GateHeld /\ OneStart /\ LockUnbound /\ StartingIsOwned
    BY <1>7, <1>10 DEF GateHeld, OneStart, LockUnbound, StartingIsOwned
  <2> QED BY <2>1, <2>2 DEF StartInv
<1>12. SettleInv
  BY <1>7, <1>10 DEF SettleInv, Settled, ReleaseOwns
<1>13. WorkersCover
  <2>1. Counted = {}
    BY <1>6, <1>10 DEF Counted, OwedPumps
  <2>2. Cardinality(Counted) = 0 /\ workers = 0
    BY <2>1, FS_EmptySet DEF Init
  <2>3. Cardinality(Counted) <= workers
    BY <2>2
  <2> QED BY <1>6, <1>10, <2>3 DEF WorkersCover
<1> QED BY <1>5, <1>8, <1>11, <1>12, <1>13 DEF IInv

(* Every step preserves it.                                                *)
LEMMA NextIInv == IInv /\ [Next]_vars => IInv'
<1> SUFFICES ASSUME IInv, [Next]_vars PROVE IInv'
  OBVIOUS
<1>1. ASSUME NEW k \in Callers, Start(k) PROVE IInv'
  <2>1. CASE \/ \E s \in Sessions : BeginStart(k, s) \/ BeginReserved(k, s)
             \/ EnterGate(k) \/ GateExpires(k) \/ Recheck(k) \/ StartRefused(k) \/ FinalWait(k)
             \/ FailStart(k) \/ SetThread(k) \/ StartAborts(k)
    BY <2>1, StartQuiet
  <2>2. ASSUME NEW r \in Runtimes, StartCreated(k, r) \/ StartThreadFails(k, r) PROVE IInv'
    BY <2>2, CreateStep
  <2> QED BY <1>1, <2>1, <2>2, SharedStep, RunningStep DEF Start
<1>2. ASSUME NEW k \in Callers, Stop(k) \/ Input(k) PROVE IInv'
  <2>1. CASE \/ \E s \in Sessions, target \in {"exited", "killed"} : BeginStop(k, s, target)
             \/ \E s \in Sessions : BeginInput(k, s)
             \/ Interrupt(k) \/ ReleaseMissed(k) \/ ReleaseReturn(k)
             \/ InputAnswered(k) \/ InputReturn(k)
    BY <2>1, StopQuiet
  <2>2. CASE ReleaseFinalize(k)
    <3>1. caller[k].rt \in Runtimes
      BY <2>2 DEF ReleaseFinalize, IInv, Shape, TypeOK, CallerRecord
    <3> QED BY <2>2, <3>1, FinalizeStep
  <2>3. CASE InputFault(k)
    BY <2>3, FaultStep
  <2> QED BY <1>2, <2>1, <2>2, <2>3, ReleaseStep, CasStep DEF Stop, Input
<1>3. ASSUME NEW r \in Runtimes, Teardown(r) \/ ChildExits(r) PROVE IInv'
  BY <1>3, TeardownStep, FinalizeStep DEF Teardown
<1>4. ASSUME NEW r \in Runtimes, NEW p \in Pumps, PumpFails(r, p) \/ PumpExits(r, p)
      PROVE  IInv'
  BY <1>4, FaultStep, PumpExitStep
<1>5. CASE UNCHANGED vars
  <2>1. Shape'
    BY <1>5 DEF vars, IInv, Shape, TypeOK
  <2>2. RegistryInv'
    BY <1>5, RegistryFrame DEF vars, IInv
  <2>3. TeardownKept /\ StoppedKept
    BY <1>5 DEF vars, TeardownKept, StoppedKept
  <2>4. StartInv' /\ SettleInv' /\ WorkersCover'
    BY <1>5, <2>3, RuntimeOnly DEF vars
  <2> QED BY <2>1, <2>2, <2>4 DEF IInv
<1> QED BY <1>1, <1>2, <1>3, <1>4, <1>5, CloseStepInv, RestartStep DEF Next

(* The inductive invariant of the RuntimeManager.                          *)
THEOREM RuntimeInvariant == Spec => []IInv
  BY InitIInv, NextIInv, PTL DEF Spec

(* Every state is well typed; in particular RuntimeManager.workers, a      *)
(* sync.WaitGroup that panics below zero, never gets there, although       *)
(* starts that fail count pumps that are never launched.                   *)
THEOREM RuntimeTypeCorrect == Spec => []TypeOK
<1>1. IInv => TypeOK
  BY DEF IInv, Shape
<1> QED BY RuntimeInvariant, <1>1, PTL

(* bindings, runtimes and the Bindings of each CredentialRuntime agree in  *)
(* every state, and every live runtime has a Session, whatever starts,     *)
(* stops, crashes, faults and Close interleave.                            *)
THEOREM RegistryAgrees == Spec => []RegistryConsistent
<1>1. IInv => RegistryConsistent
  BY DEF IInv, RegistryInv
<1> QED BY RuntimeInvariant, <1>1, PTL

(* A runtime is finalized at most once, however last release, pumps,       *)
(* Input, a failed start and Close race for it.                            *)
THEOREM FinalizedOnce == Spec => []FinalizeOnce
<1>1. IInv => FinalizeOnce
  BY DEF IInv, RegistryInv, KillCounted, FinalizeOnce
<1> QED BY RuntimeInvariant, <1>1, PTL

(* Two runtimes of a credential are never between creation and commit at   *)
(* the same time.                                                          *)
THEOREM OneWriter == Spec => []SingleWriter
<1>1. IInv => SingleWriter
  BY DEF IInv, RegistryInv, WriterHeld, Busy, SingleWriter
<1> QED BY RuntimeInvariant, <1>1, PTL

(* A caller about to spend a thread/start is alone in the start of its     *)
(* Session, and the Session is unbound.                                    *)
THEOREM StartsExclude == Spec => []StartExclusive
<1>1. IInv => StartExclusive
  <2> SUFFICES ASSUME IInv, NEW k \in Callers, caller[k].pc = "lock"
               PROVE  /\ binding[caller[k].s] = None
                      /\ \A j \in Callers \ {k} :
                           ~(caller[j].s = caller[k].s /\ caller[j].pc \in StartPCs)
    BY DEF StartExclusive
  <2>1. \A j \in Callers : caller[j].pc \in StartPCs => InStart(caller[j])
    BY DEF InStart
  <2>2. InStart(caller[k])
    BY DEF InStart, StartPCs
  <2> QED BY <2>1, <2>2 DEF IInv, StartInv, LockUnbound, OneStart
<1> QED BY RuntimeInvariant, <1>1, PTL

(* When all operations have ended, every Session that lost its binding     *)
(* while running or stopping is terminal: of the racing compare-and-swaps  *)
(* one has won.                                                            *)
THEOREM DetachedSettles == Spec => []DetachedIsTerminal
<1>1. IInv => DetachedIsTerminal
  <2> SUFFICES ASSUME IInv, Quiescent, NEW s \in Sessions,
                      detached[s] \in {"running", "stopping"}
               PROVE  status[s] \in Terminal
    BY DEF DetachedIsTerminal
  <2>1. \A k \in Callers : ~CallerSettles(caller[k], s)
    BY DEF Quiescent, CallerSettles
  <2>2. \A r \in Runtimes : ~TeardownSettles(runtime[r], s)
    BY DEF Quiescent, TeardownSettles
  <2> QED BY <2>1, <2>2 DEF IInv, SettleInv, Settled
<1> QED BY RuntimeInvariant, <1>1, PTL

-----------------------------------------------------------------------------
(***************************************************************************)
(* Turns and event routing of one runtime (module CodexTurns), the other   *)
(* half of providers/codex/runtime.go, for any set of Sessions and any     *)
(* bound on turns and on the queue.                                        *)
(***************************************************************************)
CONSTANTS MaxTurns, MaxQueue

Routing == INSTANCE CodexTurns

(* What waits for thread s in the queue q: an event; the end of its turn;  *)
(* nothing that a retired thread would not absorb.                         *)
EventWaits(q, s) == \E i \in 1..Len(q) : q[i].s = s
CompletionWaits(q, s) ==
  \E i \in 1..Len(q) : q[i].s = s /\ q[i].method = "turn/completed"
OnlyAbsorbable(q, s) ==
  \A i \in 1..Len(q) : q[i].s = s => q[i].method \in {"delta", "turn/completed"}

(* The pump has not routed the end of the last turn yet.                   *)
TurnOpen(q, th, s) == th.turn # Routing!NoTurn \/ CompletionWaits(q, s)

(* The queue holds events of one turn per thread, its last, and the end of *)
(* that turn behind all others.                                            *)
WireOrder(q, th, s) ==
  /\ th.turn \in {Routing!NoTurn, th.last}
  /\ \A i \in 1..Len(q) : q[i].s = s =>
       /\ th.started
       /\ q[i].method = "thread/started" => q[i].turn = Routing!NoTurn
       /\ q[i].method # "thread/started" =>
            /\ q[i].turn = th.last
            /\ th.last # Routing!NoTurn
            /\ TurnOpen(q, th, s)
       /\ q[i].method = "turn/completed" =>
            /\ th.turn = Routing!NoTurn
            /\ \A j \in 1..Len(q) : q[j].s = s => j <= i

(* What the request inside SessionService.mu is doing with Session s.      *)
Role(s) == IF request.s = s THEN request.pc ELSE "idle"

(* The active turn of a binding, by what is known of the last turn: open   *)
(* or not, and the answer of turn/start handled or not.                    *)
BindingFollows(s) ==
  s \in bound =>
    /\ server[s].started
    /\ completed[s] <= server[s].last
    /\ TurnOpen(inbound, server[s], s) => completed[s] # server[s].last
    /\ state[s] = "running" \/ Role(s) \in {"interrupt", "release"}
    /\ Role(s) = "call" =>
         active[s] = Routing!Starting /\ ~TurnOpen(inbound, server[s], s)
    /\ Role(s) = "answer" =>
         /\ request.turn = server[s].last
         /\ TurnOpen(inbound, server[s], s) =>
              active[s] \in {Routing!Starting, server[s].last}
         /\ ~TurnOpen(inbound, server[s], s) =>
              active[s] = Routing!NoTurn /\ completed[s] = server[s].last
    /\ Role(s) \notin {"call", "answer"} =>
         /\ TurnOpen(inbound, server[s], s) => active[s] = server[s].last
         /\ ~TurnOpen(inbound, server[s], s) => active[s] = Routing!NoTurn

(* A thread that was released in time: all that it still sends is the rest *)
(* of the interrupted turn under which it is retired.                      *)
RetiredAbsorbs(s) ==
  life = "live" /\ s \notin bound /\ s \notin exposed =>
    /\ OnlyAbsorbable(inbound, s)
    /\ EventWaits(inbound, s) \/ server[s].turn # Routing!NoTurn =>
         retired[s] = server[s].last
    /\ server[s].turn # Routing!NoTurn => server[s].interrupted

(* A thread that was not started has no turns.                             *)
ThreadFresh(s) ==
  ~server[s].started =>
    /\ server[s].turn = Routing!NoTurn /\ server[s].last = 0
    /\ active[s] = Routing!NoTurn /\ completed[s] = Routing!NoTurn
    /\ state[s] = "running"

ThreadFits(s) ==
  /\ WireOrder(inbound, server[s], s)
  /\ BindingFollows(s)
  /\ RetiredAbsorbs(s)
  /\ ThreadFresh(s)

(* A request is on a bound Session while the runtime lives.                *)
RequestBound ==
  /\ request.pc # "idle" =>
       request.s \in Sessions /\ (life = "live" => request.s \in bound)
  /\ life # "live" => bound = {}

(* TurnsAgree and OnlyExposedFail speak of an empty queue and of the event *)
(* at its head; what makes them hold is an invariant of everything that    *)
(* still waits behind.                                                     *)
RoutingInv ==
  /\ Routing!TypeOK
  /\ RequestBound
  /\ OnlyExposedFail
  /\ \A s \in Sessions : ThreadFits(s)

(* What Append does to a queue of events, index by index.                  *)
LEMMA AppendedAt ==
  ASSUME NEW q \in Seq(Routing!Event), NEW e \in Routing!Event
  PROVE  /\ Append(q, e) \in Seq(Routing!Event)
         /\ Len(Append(q, e)) = Len(q) + 1 /\ Len(q) \in Nat
         /\ \A i \in 1..Len(q) : Append(q, e)[i] = q[i]
         /\ Append(q, e)[Len(q) + 1] = e
OBVIOUS

(* What Tail does to a queue of events, index by index.                    *)
LEMMA TailAt ==
  ASSUME NEW q \in Seq(Routing!Event), q # <<>>
  PROVE  /\ Tail(q) \in Seq(Routing!Event)
         /\ Len(q) \in Nat /\ Len(q) > 0 /\ Len(Tail(q)) = Len(q) - 1
         /\ \A i \in 1..(Len(q) - 1) : Tail(q)[i] = q[i + 1]
         /\ Head(q) = q[1]
         /\ Head(q) \in Routing!Event
OBVIOUS

(* An event of another thread changes nothing for s when it is queued.     *)
LEMMA AppendOther ==
  ASSUME NEW q \in Seq(Routing!Event), NEW e \in Routing!Event, NEW s, e.s # s
  PROVE  /\ EventWaits(Append(q, e), s) <=> EventWaits(q, s)
         /\ CompletionWaits(Append(q, e), s) <=> CompletionWaits(q, s)
         /\ OnlyAbsorbable(q, s) => OnlyAbsorbable(Append(q, e), s)
         /\ \A th : WireOrder(q, th, s) => WireOrder(Append(q, e), th, s)
<1> DEFINE r == Append(q, e)
<1>1. /\ Len(r) = Len(q) + 1 /\ Len(q) \in Nat
      /\ \A i \in 1..Len(q) : r[i] = q[i]
      /\ r[Len(q) + 1] = e
  BY AppendedAt
<1> HIDE DEF r
<1>2. \A i \in 1..Len(r) : r[i].s = s => i \in 1..Len(q) /\ r[i] = q[i]
  BY <1>1
<1>3. \A i \in 1..Len(q) : i \in 1..Len(r)
  BY <1>1
<1>4. CompletionWaits(r, s) <=> CompletionWaits(q, s)
  BY <1>1, <1>2, <1>3 DEF CompletionWaits
<1>5. (EventWaits(r, s) <=> EventWaits(q, s)) /\ (OnlyAbsorbable(q, s) => OnlyAbsorbable(r, s))
  BY <1>1, <1>2, <1>3 DEF EventWaits, OnlyAbsorbable
<1>6. ASSUME NEW th, WireOrder(q, th, s) PROVE WireOrder(r, th, s)
  BY <1>2, <1>4, <1>6 DEF WireOrder, TurnOpen
<1> QED BY <1>4, <1>5, <1>6 DEF r

(* An event of s is queued.                                                *)
LEMMA AppendOwn ==
  ASSUME NEW q \in Seq(Routing!Event), NEW e \in Routing!Event, NEW s, e.s = s
  PROVE  /\ EventWaits(Append(q, e), s)
         /\ CompletionWaits(Append(q, e), s) <=>
              CompletionWaits(q, s) \/ e.method = "turn/completed"
         /\ OnlyAbsorbable(q, s) /\ e.method \in {"delta", "turn/completed"} =>
              OnlyAbsorbable(Append(q, e), s)
<1> DEFINE r == Append(q, e)
<1>1. /\ Len(r) = Len(q) + 1 /\ Len(q) \in Nat
      /\ \A i \in 1..Len(q) : r[i] = q[i]
      /\ r[Len(q) + 1] = e
  BY AppendedAt
<1> HIDE DEF r
<1>2. \A i \in 1..Len(r) : r[i] = e \/ (i \in 1..Len(q) /\ r[i] = q[i])
  BY <1>1
<1>3. (\A i \in 1..Len(q) : i \in 1..Len(r)) /\ Len(q) + 1 \in 1..Len(r)
  BY <1>1
<1>4. CompletionWaits(r, s) <=> CompletionWaits(q, s) \/ e.method = "turn/completed"
  BY <1>1, <1>2, <1>3 DEF CompletionWaits
<1>5. EventWaits(r, s)
  BY <1>1, <1>3 DEF EventWaits
<1>6. OnlyAbsorbable(q, s) /\ e.method \in {"delta", "turn/completed"} => OnlyAbsorbable(r, s)
  BY <1>1, <1>2 DEF OnlyAbsorbable
<1> QED BY <1>4, <1>5, <1>6 DEF r

(* thread/started is the first event of a thread.                          *)
LEMMA WireThreadStarts ==
  ASSUME NEW q \in Seq(Routing!Event), NEW e \in Routing!Event, NEW s, NEW th, NEW ti,
         WireOrder(q, th, s), ~th.started, e.s = s,
         e.method = "thread/started", e.turn = Routing!NoTurn,
         ti.started, ti.turn = th.turn, ti.last = th.last
  PROVE  WireOrder(Append(q, e), ti, s)
<1> DEFINE r == Append(q, e)
<1>1. /\ Len(r) = Len(q) + 1 /\ Len(q) \in Nat
      /\ \A i \in 1..Len(q) : r[i] = q[i]
      /\ r[Len(q) + 1] = e
  BY AppendedAt
<1> HIDE DEF r
<1>2. \A i \in 1..Len(r) : r[i].s = s => r[i] = e
  BY <1>1 DEF WireOrder
<1> QED BY <1>2 DEF WireOrder, r

(* A turn starts when the previous one is not open.                        *)
LEMMA WireTurnStarts ==
  ASSUME NEW q \in Seq(Routing!Event), NEW e \in Routing!Event, NEW s, NEW th, NEW ti,
         WireOrder(q, th, s), ~TurnOpen(q, th, s), e.s = s,
         e.method = "turn/started", e.turn = ti.last, ti.last # Routing!NoTurn,
         ti.started, ti.turn = ti.last
  PROVE  WireOrder(Append(q, e), ti, s)
<1> DEFINE r == Append(q, e)
<1>1. /\ Len(r) = Len(q) + 1 /\ Len(q) \in Nat
      /\ \A i \in 1..Len(q) : r[i] = q[i]
      /\ r[Len(q) + 1] = e
  BY AppendedAt
<1> HIDE DEF r
<1>2. \A i \in 1..Len(r) : r[i].s = s =>
        r[i] = e \/ (r[i].method = "thread/started" /\ r[i].turn = Routing!NoTurn)
  BY <1>1 DEF WireOrder
<1> QED BY <1>2 DEF WireOrder, TurnOpen, r

(* The running turn sends an event other than its end.                     *)
LEMMA WireTurnSends ==
  ASSUME NEW q \in Seq(Routing!Event), NEW e \in Routing!Event, NEW s, NEW th,
         WireOrder(q, th, s), th.started, th.turn # Routing!NoTurn, e.s = s,
         e.method \in {"delta", "approval"}, e.turn = th.turn
  PROVE  WireOrder(Append(q, e), th, s)
<1> DEFINE r == Append(q, e)
<1>1. /\ Len(r) = Len(q) + 1 /\ Len(q) \in Nat
      /\ \A i \in 1..Len(q) : r[i] = q[i]
      /\ r[Len(q) + 1] = e
  BY AppendedAt
<1> HIDE DEF r
<1>2. \A i \in 1..Len(r) : r[i] = e \/ (i \in 1..Len(q) /\ r[i] = q[i])
  BY <1>1
<1>3. \A i \in 1..Len(r) : r[i].s = s => r[i].method # "turn/completed"
  BY <1>2 DEF WireOrder
<1> QED BY <1>2, <1>3 DEF WireOrder, TurnOpen, r

(* The running turn ends.                                                  *)
LEMMA WireTurnEnds ==
  ASSUME NEW q \in Seq(Routing!Event), NEW e \in Routing!Event, NEW s, NEW th, NEW ti,
         WireOrder(q, th, s), th.started, th.turn # Routing!NoTurn, e.s = s,
         e.method = "turn/completed", e.turn = th.turn,
         ti.started, ti.turn = Routing!NoTurn, ti.last = th.last
  PROVE  WireOrder(Append(q, e), ti, s)
<1> DEFINE r == Append(q, e)
<1>1. /\ Len(r) = Len(q) + 1 /\ Len(q) \in Nat
      /\ \A i \in 1..Len(q) : r[i] = q[i]
      /\ r[Len(q) + 1] = e
  BY AppendedAt
<1> HIDE DEF r
<1>2. \A i \in 1..Len(r) :
        (i = Len(q) + 1 /\ r[i] = e) \/ (i \in 1..Len(q) /\ r[i] = q[i])
  BY <1>1
<1>3. \A i \in 1..Len(r) : r[i].s = s /\ r[i].method = "turn/completed" => i = Len(q) + 1
  BY <1>2 DEF WireOrder
<1>4. \A j \in 1..Len(r) : j <= Len(q) + 1
  BY <1>1
<1>5. CompletionWaits(r, s)
  BY <1>1 DEF CompletionWaits
<1>6. \A i \in 1..Len(r) : r[i].s = s /\ r[i].method # "thread/started" => r[i].turn = th.last
  BY <1>2 DEF WireOrder
<1>7. \A i \in 1..Len(r) : r[i].s = s /\ r[i].method = "thread/started" => r[i].turn = Routing!NoTurn
  BY <1>2 DEF WireOrder
<1>8. th.last # Routing!NoTurn
  BY DEF WireOrder
<1> QED BY <1>3, <1>4, <1>5, <1>6, <1>7, <1>8 DEF WireOrder, TurnOpen, r

(* Dropping the first event keeps the order of the others, unless it was   *)
(* the end of the turn of s.                                               *)
LEMMA TailWire ==
  ASSUME NEW q \in Seq(Routing!Event), q # <<>>, NEW s, NEW th, WireOrder(q, th, s),
         CompletionWaits(Tail(q), s) <=> CompletionWaits(q, s)
  PROVE  WireOrder(Tail(q), th, s)
<1> DEFINE r == Tail(q)
<1>1. /\ Len(q) \in Nat /\ Len(q) > 0 /\ Len(r) = Len(q) - 1
      /\ \A i \in 1..(Len(q) - 1) : r[i] = q[i + 1]
  BY TailAt
<1>0. CompletionWaits(r, s) <=> CompletionWaits(q, s)
  OBVIOUS
<1> HIDE DEF r
<1>2. \A i \in 1..Len(r) : i + 1 \in 1..Len(q) /\ r[i] = q[i + 1]
  BY <1>1
<1>3. ASSUME NEW i \in 1..Len(r), r[i].s = s
      PROVE  /\ th.started
             /\ r[i].method = "thread/started" => r[i].turn = Routing!NoTurn
             /\ r[i].method # "thread/started" =>
                  r[i].turn = th.last /\ th.last # Routing!NoTurn /\ TurnOpen(r, th, s)
             /\ r[i].method = "turn/completed" => th.turn = Routing!NoTurn
  <2>1. i + 1 \in 1..Len(q) /\ r[i] = q[i + 1] /\ q[i + 1].s = s
    BY <1>2, <1>3
  <2> QED BY <1>0, <2>1 DEF WireOrder, TurnOpen
<1>4. ASSUME NEW i \in 1..Len(r), NEW j \in 1..Len(r), r[i].s = s, r[j].s = s,
             r[i].method = "turn/completed"
      PROVE  j <= i
  <2>1. i + 1 \in 1..Len(q) /\ j + 1 \in 1..Len(q) /\ r[i] = q[i + 1] /\ r[j] = q[j + 1]
    BY <1>2
  <2>2. j + 1 <= i + 1
    BY <1>4, <2>1 DEF WireOrder
  <2> QED BY <2>2
<1>5. th.turn \in {Routing!NoTurn, th.last}
  BY DEF WireOrder
<1> QED BY <1>3, <1>4, <1>5 DEF WireOrder, r

(* The pump takes an event of another thread.                              *)
LEMMA TailOther ==
  ASSUME NEW q \in Seq(Routing!Event), q # <<>>, NEW s, Head(q).s # s
  PROVE  /\ EventWaits(Tail(q), s) <=> EventWaits(q, s)
         /\ CompletionWaits(Tail(q), s) <=> CompletionWaits(q, s)
         /\ OnlyAbsorbable(q, s) => OnlyAbsorbable(Tail(q), s)
         /\ \A th : WireOrder(q, th, s) => WireOrder(Tail(q), th, s)
<1> DEFINE r == Tail(q)
<1>1. /\ Len(q) \in Nat /\ Len(q) > 0 /\ Len(r) = Len(q) - 1
      /\ \A i \in 1..(Len(q) - 1) : r[i] = q[i + 1]
      /\ Head(q) = q[1]
  BY TailAt
<1> HIDE DEF r
<1>2. \A i \in 1..Len(r) : i + 1 \in 1..Len(q) /\ r[i] = q[i + 1]
  BY <1>1
<1>3. \A i \in 1..Len(q) : q[i].s = s => i - 1 \in 1..Len(r) /\ r[i - 1] = q[i]
  BY <1>1
<1>4. CompletionWaits(r, s) <=> CompletionWaits(q, s)
  BY <1>2, <1>3 DEF CompletionWaits
<1>5. EventWaits(r, s) <=> EventWaits(q, s)
  BY <1>2, <1>3 DEF EventWaits
<1>6. OnlyAbsorbable(q, s) => OnlyAbsorbable(r, s)
  BY <1>2 DEF OnlyAbsorbable
<1>7. ASSUME NEW th, WireOrder(q, th, s) PROVE WireOrder(r, th, s)
  BY <1>4, <1>7, TailWire DEF r
<1> QED BY <1>4, <1>5, <1>6, <1>7 DEF r

(* The pump takes an event of s; behind the end of a turn nothing waits.   *)
LEMMA TailOwn ==
  ASSUME NEW q \in Seq(Routing!Event), q # <<>>, NEW s, NEW th, Head(q).s = s,
         WireOrder(q, th, s)
  PROVE  /\ WireOrder(Tail(q), th, s)
         /\ OnlyAbsorbable(q, s) => OnlyAbsorbable(Tail(q), s)
         /\ EventWaits(q, s)
         /\ Head(q).method # "turn/completed" =>
              (CompletionWaits(Tail(q), s) <=> CompletionWaits(q, s))
         /\ Head(q).method = "turn/completed" =>
              /\ ~EventWaits(Tail(q), s)
              /\ ~TurnOpen(Tail(q), th, s)
<1> DEFINE r == Tail(q)
<1>1. /\ Len(q) \in Nat /\ Len(q) > 0 /\ Len(r) = Len(q) - 1
      /\ \A i \in 1..(Len(q) - 1) : r[i] = q[i + 1]
      /\ Head(q) = q[1]
  BY TailAt
<1> HIDE DEF r
<1>2. \A i \in 1..Len(r) : i + 1 \in 1..Len(q) /\ r[i] = q[i + 1]
  BY <1>1
<1>3. \A i \in 1..Len(q) : i = 1 \/ (i - 1 \in 1..Len(r) /\ r[i - 1] = q[i])
  BY <1>1
<1>4. 1 \in 1..Len(q)
  BY <1>1
<1>5. OnlyAbsorbable(q, s) => OnlyAbsorbable(r, s)
  BY <1>2 DEF OnlyAbsorbable
<1>6. EventWaits(q, s)
  BY <1>1, <1>4 DEF EventWaits
<1>7. CASE Head(q).method = "turn/completed"
  <2>1. th.turn = Routing!NoTurn /\ \A j \in 1..Len(q) : q[j].s = s => j <= 1
    BY <1>1, <1>4, <1>7 DEF WireOrder
  <2>2. \A i \in 1..Len(r) : r[i].s # s
    <3>1. ASSUME NEW i \in 1..Len(r), r[i].s = s PROVE FALSE
      <4>1. q[i + 1].s = s /\ i + 1 \in 1..Len(q)
        BY <1>2, <3>1
      <4>2. i + 1 <= 1
        BY <2>1, <4>1
      <4> QED BY <4>2
    <3> QED BY <3>1
  <2>3. ~EventWaits(r, s) /\ ~CompletionWaits(r, s)
    BY <2>2 DEF EventWaits, CompletionWaits
  <2>4. WireOrder(r, th, s)
    BY <2>2 DEF WireOrder
  <2> QED BY <1>5, <1>6, <1>7, <2>1, <2>3, <2>4 DEF TurnOpen, r
<1>8. CASE Head(q).method # "turn/completed"
  <2>1. CompletionWaits(r, s) <=> CompletionWaits(q, s)
    BY <1>1, <1>2, <1>3, <1>8 DEF CompletionWaits
  <2>2. WireOrder(r, th, s)
    BY <2>1, TailWire DEF r
  <2> QED BY <1>5, <1>6, <1>8, <2>1, <2>2 DEF r
<1> QED BY <1>7, <1>8

(* At first no thread exists and nothing waits.                            *)
LEMMA RoutingInit == MaxTurns \in Nat /\ Routing!Init => RoutingInv
<1> SUFFICES ASSUME MaxTurns \in Nat, Routing!Init PROVE RoutingInv
  OBVIOUS
<1> USE DEF Routing!Init, Routing!NoTurn, Routing!Idle
<1>1. Routing!TypeOK
  BY DEF Routing!TypeOK, Routing!Thread, Routing!PCs, Routing!Turns
<1>2. RequestBound /\ OnlyExposedFail
  BY DEF RequestBound, OnlyExposedFail
<1>3. ASSUME NEW s \in Sessions PROVE ThreadFits(s)
  <2>1. inbound = <<>> /\ Len(inbound) = 0
    OBVIOUS
  <2>2. ~EventWaits(inbound, s) /\ ~CompletionWaits(inbound, s)
    BY <2>1 DEF EventWaits, CompletionWaits
  <2>3. OnlyAbsorbable(inbound, s) /\ WireOrder(inbound, server[s], s)
    BY <2>1 DEF OnlyAbsorbable, WireOrder
  <2> QED BY <2>2, <2>3 DEF ThreadFits, BindingFollows, RetiredAbsorbs, ThreadFresh
<1> QED BY <1>1, <1>2, <1>3 DEF RoutingInv

(* Notify queues an event.                                                 *)
LEMMA NotifyType ==
  ASSUME Routing!TypeOK, NEW m \in Routing!Methods, NEW s \in Sessions,
         NEW n \in Routing!Turns \cup {Routing!NoTurn}, Routing!Notify(m, s, n)
  PROVE  inbound' \in Seq(Routing!Event)
<1>1. [method |-> m, s |-> s, turn |-> n] \in Routing!Event
  BY DEF Routing!Event
<1> QED BY <1>1, AppendedAt DEF Routing!TypeOK, Routing!Notify

(* The server starts, interrupts or ends a turn of one thread.             *)
LEMMA ThreadUpdate ==
  ASSUME Routing!TypeOK, NEW s \in Sessions
  PROVE  /\ [server EXCEPT ![s].started = TRUE] \in [Sessions -> Routing!Thread]
         /\ [server EXCEPT ![s].interrupted = TRUE] \in [Sessions -> Routing!Thread]
         /\ [server EXCEPT ![s].turn = Routing!NoTurn] \in [Sessions -> Routing!Thread]
<1>1. server \in [Sessions -> Routing!Thread]
  BY DEF Routing!TypeOK
<1>2. [server EXCEPT ![s].started = TRUE] \in [Sessions -> Routing!Thread]
  BY <1>1 DEF Routing!Thread
<1>3. [server EXCEPT ![s].interrupted = TRUE] \in [Sessions -> Routing!Thread]
  BY <1>1 DEF Routing!Thread
<1>4. [server EXCEPT ![s].turn = Routing!NoTurn] \in [Sessions -> Routing!Thread]
  BY <1>1 DEF Routing!Thread
<1> QED BY <1>2, <1>3, <1>4

(* The requests keep the types.                                            *)
LEMMA RequestType ==
  ASSUME MaxTurns \in Nat, RoutingInv,
         \/ \E s \in Sessions : Routing!BeginInput(s)
         \/ Routing!InputRefused \/ Routing!ServerStarts \/ Routing!InputAnswer
         \/ \E s \in Sessions, kill \in BOOLEAN : Routing!BeginStop(s, kill)
         \/ Routing!Interrupt \/ Routing!Release
  PROVE  Routing!TypeOK'
<1> USE DEF RoutingInv, RequestBound, Routing!TypeOK, Routing!NoTurn, Routing!Starting,
            Routing!PCs, Routing!Idle, Routing!marks, Routing!binds
<1>1. ASSUME NEW s \in Sessions, Routing!BeginInput(s) PROVE Routing!TypeOK'
  BY <1>1 DEF Routing!BeginInput
<1>2. CASE Routing!InputRefused
  BY <1>2 DEF Routing!InputRefused
<1>3. CASE Routing!ServerStarts
  <2> DEFINE s == request.s
             n == server[s].last + 1
  <2>1. s \in Sessions /\ n \in Routing!Turns /\ n \in 0..MaxTurns
    BY <1>3 DEF Routing!ServerStarts, Routing!Turns
  <2>2. Routing!Notify("turn/started", s, n)
    BY <1>3 DEF Routing!ServerStarts
  <2>3. /\ server' = [server EXCEPT ![s] = [started |-> TRUE, turn |-> n, last |-> n,
                                             interrupted |-> FALSE]]
        /\ request' = [request EXCEPT !.pc = "answer", !.turn = n]
        /\ UNCHANGED <<bound, state, active, completed, retired, life, exposed>>
    BY <1>3 DEF Routing!ServerStarts
  <2> HIDE DEF n
  <2>4. inbound' \in Seq(Routing!Event)
    BY <2>1, <2>2, NotifyType DEF Routing!Methods
  <2>5. server' \in [Sessions -> Routing!Thread]
    BY <2>1, <2>3 DEF Routing!Thread
  <2>6. /\ request' \in [pc: Routing!PCs, s: Sessions \cup {None},
                         turn: Routing!Turns \cup {Routing!NoTurn, Routing!Starting}, kill: BOOLEAN]
        /\ request'.pc = "answer"
    BY <2>1, <2>3
  <2> QED BY <2>3, <2>4, <2>5, <2>6
<1>4. CASE Routing!InputAnswer
  <2>1. request.s \in Sessions
    BY <1>4 DEF Routing!InputAnswer
  <2>2. Routing!AnsweredTurn(request.s, request.turn) \in Routing!Turns \cup {Routing!NoTurn, Routing!Starting}
    BY DEF Routing!AnsweredTurn
  <2>3. active' \in [Sessions -> Routing!Turns \cup {Routing!NoTurn, Routing!Starting}]
    BY <1>4, <2>1, <2>2 DEF Routing!InputAnswer
  <2> QED BY <1>4, <2>3 DEF Routing!InputAnswer
<1>5. ASSUME NEW s \in Sessions, NEW kill \in BOOLEAN, Routing!BeginStop(s, kill)
      PROVE  Routing!TypeOK'
  <2>1. request' \in [pc: Routing!PCs, s: Sessions \cup {None},
                      turn: Routing!Turns \cup {Routing!NoTurn, Routing!Starting}, kill: BOOLEAN]
    BY <1>5 DEF Routing!BeginStop, Routing!Interruptible
  <2>2. request'.pc = "interrupt" => request'.turn \in Routing!Turns
    BY <1>5 DEF Routing!BeginStop, Routing!Interruptible
  <2> QED BY <1>5, <2>1, <2>2 DEF Routing!BeginStop
<1>6. CASE Routing!Interrupt
  <2>1. request.s \in Sessions
    BY <1>6 DEF Routing!Interrupt
  <2>2. server' \in [Sessions -> Routing!Thread]
    <3>1. server' = server \/ server' = [server EXCEPT ![request.s].interrupted = TRUE]
      BY <1>6 DEF Routing!Interrupt
    <3>2. [server EXCEPT ![request.s].interrupted = TRUE] \in [Sessions -> Routing!Thread]
      BY <2>1, ThreadUpdate
    <3> QED BY <3>1, <3>2
  <2>3. state' \in [Sessions -> {"running", "stopping"}]
    BY <1>6, <2>1 DEF Routing!Interrupt
  <2>4. request' = [request EXCEPT !.pc = "release"] \/ request' = Routing!Idle
    BY <1>6 DEF Routing!Interrupt
  <2>5. /\ request' \in [pc: Routing!PCs, s: Sessions \cup {None},
                         turn: Routing!Turns \cup {Routing!NoTurn, Routing!Starting}, kill: BOOLEAN]
        /\ request'.pc # "interrupt"
    <3>1. CASE request' = [request EXCEPT !.pc = "release"]
      BY <3>1
    <3>2. CASE request' = Routing!Idle
      BY <3>2
    <3> QED BY <2>4, <3>1, <3>2
  <2> QED BY <1>6, <2>2, <2>3, <2>5 DEF Routing!Interrupt
<1>7. CASE Routing!Release
  <2>1. request.s \in Sessions
    BY <1>7 DEF Routing!Release
  <2>2. Routing!RetiredTurn(request.s) \in Routing!Turns \cup {Routing!NoTurn}
    BY <2>1 DEF Routing!RetiredTurn
  <2>3. retired' \in [Sessions -> Routing!Turns \cup {Routing!NoTurn}]
    BY <1>7, <2>1, <2>2 DEF Routing!Release
  <2>4. bound' \subseteq Sessions /\ exposed' \subseteq Sessions
    BY <1>7, <2>1 DEF Routing!Release
  <2>5. life' \in {"live", "final", "failed"}
    BY <1>7 DEF Routing!Release
  <2> QED BY <1>7, <2>3, <2>4, <2>5 DEF Routing!Release
<1> QED BY <1>1, <1>2, <1>3, <1>4, <1>5, <1>6, <1>7

(* The server and the pump keep the types.                                 *)
LEMMA PumpType ==
  ASSUME MaxTurns \in Nat, RoutingInv,
         \/ \E s \in Sessions : \/ Routing!Start(s) \/ Routing!RetiredExpires(s)
                                \/ Routing!ServerDelta(s) \/ Routing!ServerApproval(s)
                                \/ Routing!ServerCompletes(s)
         \/ Routing!Route \/ Routing!RouteRetired \/ Routing!RouteFails
  PROVE  Routing!TypeOK'
<1> USE DEF RoutingInv, RequestBound, Routing!TypeOK, Routing!NoTurn, Routing!Starting,
            Routing!marks, Routing!binds
<1>1. ASSUME NEW s \in Sessions, Routing!Start(s) PROVE Routing!TypeOK'
  <2>1. inbound' \in Seq(Routing!Event)
    BY <1>1, NotifyType DEF Routing!Start, Routing!Methods
  <2>2. server' \in [Sessions -> Routing!Thread]
    BY <1>1, ThreadUpdate DEF Routing!Start
  <2> QED BY <1>1, <2>1, <2>2 DEF Routing!Start
<1>2. ASSUME NEW s \in Sessions, Routing!RetiredExpires(s) PROVE Routing!TypeOK'
  BY <1>2 DEF Routing!RetiredExpires
<1>3. ASSUME NEW s \in Sessions,
             Routing!ServerDelta(s) \/ Routing!ServerApproval(s) \/ Routing!ServerCompletes(s)
      PROVE  Routing!TypeOK'
  <2>1. server[s].turn \in Routing!Turns \cup {Routing!NoTurn}
    BY DEF Routing!Thread
  <2>2. inbound' \in Seq(Routing!Event)
    BY <1>3, <2>1, NotifyType
    DEF Routing!ServerDelta, Routing!ServerApproval, Routing!ServerCompletes, Routing!Methods
  <2>3. server' \in [Sessions -> Routing!Thread]
    <3>1. server' = server \/ server' = [server EXCEPT ![s].turn = Routing!NoTurn]
      BY <1>3 DEF Routing!ServerDelta, Routing!ServerApproval, Routing!ServerCompletes
    <3>2. [server EXCEPT ![s].turn = Routing!NoTurn] \in [Sessions -> Routing!Thread]
      BY ThreadUpdate
    <3> QED BY <3>1, <3>2
  <2> QED BY <1>3, <2>2, <2>3 DEF Routing!ServerDelta, Routing!ServerApproval, Routing!ServerCompletes
<1>4. CASE Routing!Route
  <2> DEFINE e == Head(inbound)
  <2>1. e \in Routing!Event /\ inbound' \in Seq(Routing!Event)
    BY <1>4, TailAt DEF Routing!Route
  <2>2. e.s \in Sessions /\ e.turn \in Routing!Turns \cup {Routing!NoTurn}
    BY <2>1 DEF Routing!Event
  <2>3. active' \in [Sessions -> Routing!Turns \cup {Routing!NoTurn, Routing!Starting}]
    BY <1>4, <2>2 DEF Routing!Route
  <2>4. completed' \in [Sessions -> Routing!Turns \cup {Routing!NoTurn}]
    BY <1>4, <2>2 DEF Routing!Route
  <2> QED BY <1>4, <2>1, <2>3, <2>4 DEF Routing!Route
<1>5. CASE Routing!RouteRetired
  <2>1. inbound' \in Seq(Routing!Event)
    BY <1>5, TailAt DEF Routing!RouteRetired
  <2>2. retired' \in [Sessions -> Routing!Turns \cup {Routing!NoTurn}]
    BY <1>5 DEF Routing!RouteRetired
  <2> QED BY <1>5, <2>1, <2>2 DEF Routing!RouteRetired
<1>6. CASE Routing!RouteFails
  <2>1. <<>> \in Seq(Routing!Event)
    OBVIOUS
  <2> QED BY <1>6, <2>1 DEF Routing!RouteFails
<1> QED BY <1>1, <1>2, <1>3, <1>4, <1>5, <1>6

(* A step leaves what waits for thread t as it was.                        *)
QueueCalm(t) ==
  /\ EventWaits(inbound', t) <=> EventWaits(inbound, t)
  /\ CompletionWaits(inbound', t) <=> CompletionWaits(inbound, t)
  /\ OnlyAbsorbable(inbound, t) => OnlyAbsorbable(inbound', t)
  /\ \A th : WireOrder(inbound, th, t) => WireOrder(inbound', th, t)

(* A step leaves the binding and the thread of t as they were.             *)
ThreadCalm(t) ==
  /\ server'[t] = server[t] /\ active'[t] = active[t] /\ completed'[t] = completed[t]
  /\ state'[t] = state[t] /\ retired'[t] = retired[t]
  /\ t \in bound' <=> t \in bound
  /\ life' = "live" => life = "live"
  /\ t \in exposed => t \in exposed'

(* A step that neither changes nor serves t keeps what is known of t.      *)
LEMMA CalmFits ==
  ASSUME NEW t \in Sessions, ThreadFits(t), QueueCalm(t), ThreadCalm(t), Role(t)' = Role(t),
         Role(t) = "answer" => request'.turn = request.turn
  PROVE  ThreadFits(t)'
<1>1. /\ WireOrder(inbound', server[t], t)
      /\ TurnOpen(inbound', server[t], t) <=> TurnOpen(inbound, server[t], t)
  BY DEF ThreadFits, QueueCalm, TurnOpen
<1>2. WireOrder(inbound, server[t], t)'
  BY <1>1 DEF ThreadCalm
<1>3. BindingFollows(t)'
  BY <1>1 DEF ThreadFits, ThreadCalm, BindingFollows
<1>4. RetiredAbsorbs(t)'
  BY DEF ThreadFits, QueueCalm, ThreadCalm, RetiredAbsorbs
<1>5. ThreadFresh(t)'
  BY DEF ThreadFits, ThreadCalm, ThreadFresh
<1> QED BY <1>2, <1>3, <1>4, <1>5 DEF ThreadFits

(* A queue that does not change is calm for every thread.                  *)
LEMMA SameCalm == ASSUME NEW t, inbound' = inbound PROVE QueueCalm(t)
BY DEF QueueCalm

(* Queueing an event is calm for every other thread.                       *)
LEMMA NotifyCalm ==
  ASSUME Routing!TypeOK, NEW m \in Routing!Methods, NEW s \in Sessions,
         NEW n \in Routing!Turns \cup {Routing!NoTurn}, Routing!Notify(m, s, n),
         NEW t, t # s
  PROVE  QueueCalm(t)
<1> DEFINE e == [method |-> m, s |-> s, turn |-> n]
<1>1. e \in Routing!Event /\ e.s # t
  BY DEF Routing!Event
<1>2. inbound' = Append(inbound, e) /\ inbound \in Seq(Routing!Event)
  BY DEF Routing!Notify, Routing!TypeOK
<1> HIDE DEF e
<1> QED BY <1>1, <1>2, AppendOther DEF QueueCalm

(* Routing an event is calm for every other thread.                        *)
LEMMA TailCalm ==
  ASSUME Routing!TypeOK, inbound # <<>>, inbound' = Tail(inbound), NEW t, Head(inbound).s # t
  PROVE  QueueCalm(t)
<1>1. inbound \in Seq(Routing!Event)
  BY DEF Routing!TypeOK
<1> QED BY <1>1, TailOther DEF QueueCalm

(* An open turn has a number.                                              *)
LEMMA OpenHasTurn ==
  ASSUME NEW q, NEW th, NEW s, WireOrder(q, th, s), TurnOpen(q, th, s)
  PROVE  th.last # Routing!NoTurn
BY DEF WireOrder, TurnOpen, CompletionWaits

(* thread/start binds a Session whose thread has sent nothing.             *)
LEMMA StartStep ==
  ASSUME RoutingInv, NEW s \in Sessions, Routing!Start(s), NEW t \in Sessions
  PROVE  ThreadFits(t)'
<1> DEFINE e == [method |-> "thread/started", s |-> s, turn |-> Routing!NoTurn]
<1>1. /\ inbound \in Seq(Routing!Event) /\ Routing!TypeOK
      /\ ThreadFits(s) /\ ThreadFits(t)
      /\ server \in [Sessions -> Routing!Thread]
  BY DEF RoutingInv, Routing!TypeOK
<1>2. /\ life = "live" /\ request.pc = "idle" /\ ~server[s].started
      /\ server' = [server EXCEPT ![s].started = TRUE]
      /\ Routing!Notify("thread/started", s, Routing!NoTurn)
      /\ inbound' = Append(inbound, e)
      /\ bound' = bound \cup {s}
      /\ UNCHANGED <<state, active, completed, retired, request, life, exposed>>
  BY DEF Routing!Start, Routing!Notify, Routing!marks
<1>3. /\ e \in Routing!Event /\ e.s = s /\ e.method = "thread/started"
      /\ e.turn = Routing!NoTurn
  BY DEF Routing!Event, Routing!Methods
<1> HIDE DEF e
<1>4. Role(t)' = Role(t)
  BY <1>2 DEF Role
<1>5. CASE t # s
  <2>1. QueueCalm(t)
    BY <1>1, <1>2, <1>5, NotifyCalm DEF Routing!Methods
  <2>2. ThreadCalm(t)
    BY <1>1, <1>2, <1>5 DEF ThreadCalm
  <2> QED BY <1>1, <1>2, <1>4, <2>1, <2>2, CalmFits
<1>6. CASE t = s
  <2>1. /\ server'[s].started /\ server'[s].turn = server[s].turn
        /\ server'[s].last = server[s].last
    BY <1>1, <1>2 DEF Routing!Thread
  <2>2. /\ WireOrder(inbound, server[s], s)
        /\ server[s].turn = Routing!NoTurn /\ server[s].last = 0
        /\ active[s] = Routing!NoTurn /\ completed[s] = Routing!NoTurn /\ state[s] = "running"
    BY <1>1, <1>2 DEF ThreadFits, ThreadFresh
  <2>3. WireOrder(inbound', server'[s], s)
    BY <1>1, <1>2, <1>3, <2>1, <2>2, WireThreadStarts
  <2>4. ~CompletionWaits(inbound, s)
    BY <1>2, <2>2 DEF WireOrder, CompletionWaits
  <2>5. ~CompletionWaits(inbound', s)
    BY <1>1, <1>2, <1>3, <2>4, AppendOwn
  <2>6. ~TurnOpen(inbound', server'[s], s)
    BY <2>1, <2>2, <2>5 DEF TurnOpen
  <2>7. Role(s)' = "idle"
    BY <1>2 DEF Role
  <2>8. BindingFollows(s)'
    BY <1>2, <2>1, <2>2, <2>6, <2>7 DEF BindingFollows, Routing!NoTurn
  <2>9. RetiredAbsorbs(s)' /\ ThreadFresh(s)'
    BY <1>2, <2>1 DEF RetiredAbsorbs, ThreadFresh
  <2> QED BY <1>6, <2>3, <2>8, <2>9 DEF ThreadFits
<1> QED BY <1>5, <1>6

(* Input begins only when the last turn is no longer open.                 *)
LEMMA BeginInputStep ==
  ASSUME RoutingInv, NEW s \in Sessions, Routing!BeginInput(s), NEW t \in Sessions
  PROVE  ThreadFits(t)'
<1>1. /\ Routing!TypeOK /\ ThreadFits(s) /\ ThreadFits(t)
      /\ active \in [Sessions -> Routing!Turns \cup {Routing!NoTurn, Routing!Starting}]
  BY DEF RoutingInv, Routing!TypeOK
<1>2. /\ request.pc = "idle" /\ s \in bound /\ state[s] = "running"
      /\ active[s] = Routing!NoTurn
      /\ active' = [active EXCEPT ![s] = Routing!Starting]
      /\ request'.pc = "call" /\ request'.s = s
      /\ UNCHANGED <<bound, state, completed, retired, inbound, server, life, exposed>>
  BY DEF Routing!BeginInput, Routing!Idle, Routing!marks
<1>3. QueueCalm(t)
  BY <1>2, SameCalm
<1>4. CASE t # s
  <2>1. ThreadCalm(t)
    BY <1>1, <1>2, <1>4 DEF ThreadCalm
  <2>2. Role(t)' = "idle" /\ Role(t) = "idle"
    BY <1>2, <1>4 DEF Role
  <2> QED BY <1>1, <1>3, <2>1, <2>2, CalmFits
<1>5. CASE t = s
  <2>1. Role(s) = "idle" /\ Role(s)' = "call"
    BY <1>2 DEF Role
  <2>2. ~TurnOpen(inbound, server[s], s)
    BY <1>1, <1>2, <2>1, OpenHasTurn DEF ThreadFits, BindingFollows
  <2>3. active'[s] = Routing!Starting
    BY <1>1, <1>2
  <2>4. BindingFollows(s)'
    BY <1>1, <1>2, <2>1, <2>2, <2>3 DEF ThreadFits, BindingFollows
  <2>5. WireOrder(inbound, server[s], s)' /\ RetiredAbsorbs(s)' /\ ThreadFresh(s)'
    BY <1>1, <1>2 DEF ThreadFits, RetiredAbsorbs, BindingFollows, ThreadFresh
  <2> QED BY <1>5, <2>4, <2>5 DEF ThreadFits
<1> QED BY <1>4, <1>5

(* A refused turn/start takes the mark back.                               *)
LEMMA InputRefusedStep ==
  ASSUME RoutingInv, Routing!InputRefused, NEW t \in Sessions
  PROVE  ThreadFits(t)'
<1> DEFINE s == request.s
<1>1. /\ Routing!TypeOK /\ ThreadFits(t) /\ s \in Sessions
      /\ active \in [Sessions -> Routing!Turns \cup {Routing!NoTurn, Routing!Starting}]
  BY DEF RoutingInv, RequestBound, Routing!TypeOK, Routing!InputRefused
<1>2. /\ request.pc = "call" /\ request'.pc = "idle"
      /\ active' = [active EXCEPT ![s] =
                      IF s \in bound /\ active[s] = Routing!Starting THEN Routing!NoTurn ELSE active[s]]
      /\ UNCHANGED <<bound, state, completed, retired, inbound, server, life, exposed>>
  BY DEF Routing!InputRefused, Routing!Idle, Routing!marks
<1>3. QueueCalm(t)
  BY <1>2, SameCalm
<1>4. CASE t # s
  <2>1. ThreadCalm(t)
    BY <1>1, <1>2, <1>4 DEF ThreadCalm
  <2>2. Role(t)' = "idle" /\ Role(t) = "idle"
    BY <1>2, <1>4 DEF Role
  <2> QED BY <1>1, <1>3, <2>1, <2>2, CalmFits
<1>5. CASE t = s
  <2>1. Role(s) = "call" /\ Role(t)' = "idle"
    BY <1>2 DEF Role
  <2>2. BindingFollows(t)'
    <3>1. CASE t \notin bound
      BY <1>2, <3>1 DEF BindingFollows
    <3>2. CASE t \in bound
      <4>1. active'[t] = Routing!NoTurn /\ ~TurnOpen(inbound, server[t], t)
        BY <1>1, <1>2, <1>5, <2>1, <3>2 DEF ThreadFits, BindingFollows
      <4> QED BY <1>1, <1>2, <1>5, <2>1, <3>2, <4>1 DEF ThreadFits, BindingFollows
    <3> QED BY <3>1, <3>2
  <2>3. WireOrder(inbound, server[t], t)' /\ RetiredAbsorbs(t)'
    BY <1>1, <1>2 DEF ThreadFits, RetiredAbsorbs
  <2>4. ThreadFresh(t)'
    <3>1. ~server[t].started => t \notin bound
      BY <1>1 DEF ThreadFits, BindingFollows
    <3> QED BY <1>1, <1>2, <1>5, <3>1 DEF ThreadFits, ThreadFresh
  <2> QED BY <2>2, <2>3, <2>4 DEF ThreadFits
<1> QED BY <1>4, <1>5

(* turn/start is accepted: the previous turn is over, so the new one is    *)
(* the only turn of its thread in the queue.                               *)
LEMMA ServerStartsStep ==
  ASSUME RoutingInv, Routing!ServerStarts, NEW t \in Sessions
  PROVE  ThreadFits(t)'
<1> DEFINE s == request.s
           n == server[s].last + 1
           e == [method |-> "turn/started", s |-> s, turn |-> n]
<1>1. /\ Routing!TypeOK /\ inbound \in Seq(Routing!Event)
      /\ server \in [Sessions -> Routing!Thread] /\ s \in Sessions
  BY DEF RoutingInv, RequestBound, Routing!TypeOK, Routing!ServerStarts
<1>2. /\ request.pc = "call" /\ life = "live" /\ n \in Routing!Turns
      /\ server' = [server EXCEPT ![s] = [started |-> TRUE, turn |-> n, last |-> n,
                                           interrupted |-> FALSE]]
      /\ Routing!Notify("turn/started", s, n)
      /\ inbound' = Append(inbound, e)
      /\ UNCHANGED <<bound, state, active, completed, retired, life, exposed>>
  BY DEF Routing!ServerStarts, Routing!Notify, Routing!binds, Routing!marks
<1>3. request'.s = s /\ request'.pc = "answer" /\ request'.turn = n
  BY <1>1 DEF Routing!ServerStarts, Routing!TypeOK
<1>4. n = server[s].last + 1 /\ server[s].last \in Int /\ n # Routing!NoTurn
  BY <1>1, <1>2 DEF Routing!Thread, Routing!Turns, Routing!NoTurn
<1>5. ThreadFits(s) /\ ThreadFits(t) /\ s \in bound
  BY <1>1, <1>2 DEF RoutingInv, RequestBound
<1> HIDE DEF n
<1>6. /\ e \in Routing!Event /\ e.s = s /\ e.method = "turn/started" /\ e.turn = n
  BY <1>1, <1>2 DEF Routing!Event, Routing!Methods
<1> HIDE DEF e
<1>7. CASE t # s
  <2>1. QueueCalm(t)
    BY <1>1, <1>2, <1>7, NotifyCalm DEF Routing!Methods
  <2>2. ThreadCalm(t)
    BY <1>1, <1>2, <1>7 DEF ThreadCalm
  <2>3. Role(t)' = "idle" /\ Role(t) = "idle"
    BY <1>3, <1>7 DEF Role
  <2> QED BY <1>5, <2>1, <2>2, <2>3, CalmFits
<1>8. CASE t = s
  <2>1. /\ server'[s].started /\ server'[s].turn = n /\ server'[s].last = n
    BY <1>1, <1>2
  <2>2. Role(s) = "call" /\ Role(t)' = "answer"
    BY <1>2, <1>3, <1>8 DEF Role
  <2>3. /\ ~TurnOpen(inbound, server[s], s) /\ active[s] = Routing!Starting
        /\ completed[s] <= server[s].last /\ state[s] = "running"
    BY <1>5, <2>2 DEF ThreadFits, BindingFollows
  <2>4. WireOrder(inbound', server'[s], s)
    <3>1. WireOrder(inbound, server[s], s)
      BY <1>5 DEF ThreadFits
    <3> QED BY <1>1, <1>2, <1>4, <1>6, <2>1, <2>3, <3>1, WireTurnStarts
  <2>5. TurnOpen(inbound', server'[s], s)
    BY <1>4, <2>1 DEF TurnOpen
  <2>6. completed[s] <= n /\ completed[s] # n
    <3>1. completed[s] \in Int
      BY <1>1 DEF Routing!TypeOK, Routing!Turns, Routing!NoTurn
    <3> QED BY <1>4, <2>3, <3>1
  <2>7. BindingFollows(t)'
    BY <1>2, <1>3, <1>5, <1>8, <2>1, <2>2, <2>3, <2>5, <2>6 DEF BindingFollows
  <2>8. RetiredAbsorbs(t)' /\ ThreadFresh(t)'
    BY <1>2, <1>5, <1>8, <2>1 DEF RetiredAbsorbs, ThreadFresh
  <2> QED BY <1>8, <2>4, <2>7, <2>8 DEF ThreadFits
<1> QED BY <1>7, <1>8

(* The caller handles the answer: the turn is active unless the pump has   *)
(* routed its end.                                                         *)
LEMMA InputAnswerStep ==
  ASSUME RoutingInv, Routing!InputAnswer, NEW t \in Sessions
  PROVE  ThreadFits(t)'
<1> DEFINE s == request.s
<1>1. /\ Routing!TypeOK /\ ThreadFits(t) /\ s \in Sessions
      /\ active \in [Sessions -> Routing!Turns \cup {Routing!NoTurn, Routing!Starting}]
  BY DEF RoutingInv, RequestBound, Routing!TypeOK, Routing!InputAnswer
<1>2. /\ request.pc = "answer" /\ request'.pc = "idle"
      /\ active' = [active EXCEPT ![s] =
                      IF s \in bound /\ state[s] = "running"
                      THEN Routing!AnsweredTurn(s, request.turn) ELSE active[s]]
      /\ UNCHANGED <<bound, state, completed, retired, inbound, server, life, exposed>>
  BY DEF Routing!InputAnswer, Routing!Idle, Routing!marks
<1>3. QueueCalm(t)
  BY <1>2, SameCalm
<1>4. CASE t # s
  <2>1. ThreadCalm(t)
    BY <1>1, <1>2, <1>4 DEF ThreadCalm
  <2>2. Role(t)' = "idle" /\ Role(t) = "idle"
    BY <1>2, <1>4 DEF Role
  <2> QED BY <1>1, <1>3, <2>1, <2>2, CalmFits
<1>5. CASE t = s
  <2>1. Role(t) = "answer" /\ Role(t)' = "idle"
    BY <1>2, <1>5 DEF Role
  <2>2. BindingFollows(t)'
    <3>1. CASE t \notin bound
      BY <1>2, <3>1 DEF BindingFollows
    <3>2. CASE t \in bound
      <4>1. state[t] = "running" /\ request.turn = server[t].last
        BY <1>1, <2>1, <3>2 DEF ThreadFits, BindingFollows
      <4>2. active'[t] = IF completed[t] = server[t].last THEN Routing!NoTurn ELSE server[t].last
        BY <1>1, <1>2, <1>5, <3>2, <4>1 DEF Routing!AnsweredTurn
      <4>3. /\ TurnOpen(inbound, server[t], t) => active'[t] = server[t].last
            /\ ~TurnOpen(inbound, server[t], t) => active'[t] = Routing!NoTurn
        BY <1>1, <2>1, <3>2, <4>2 DEF ThreadFits, BindingFollows
      <4> QED BY <1>1, <1>2, <2>1, <3>2, <4>1, <4>3 DEF ThreadFits, BindingFollows
    <3> QED BY <3>1, <3>2
  <2>3. WireOrder(inbound, server[t], t)' /\ RetiredAbsorbs(t)'
    BY <1>1, <1>2 DEF ThreadFits, RetiredAbsorbs
  <2>4. ThreadFresh(t)'
    <3>1. ~server[t].started => t \notin bound
      BY <1>1 DEF ThreadFits, BindingFollows
    <3> QED BY <1>1, <1>2, <1>5, <3>1 DEF ThreadFits, ThreadFresh
  <2> QED BY <2>2, <2>3, <2>4 DEF ThreadFits
<1> QED BY <1>4, <1>5

(* Stop and kill mark the binding before they call the server.             *)
LEMMA BeginStopStep ==
  ASSUME RoutingInv, NEW s \in Sessions, NEW kill \in BOOLEAN, Routing!BeginStop(s, kill),
         NEW t \in Sessions
  PROVE  ThreadFits(t)'
<1>1. /\ Routing!TypeOK /\ ThreadFits(t)
      /\ state \in [Sessions -> {"running", "stopping"}]
  BY DEF RoutingInv, Routing!TypeOK
<1>2. /\ request.pc = "idle" /\ s \in bound
      /\ state' = [state EXCEPT ![s] = "stopping"]
      /\ request'.s = s /\ request'.pc \in {"interrupt", "release"}
      /\ UNCHANGED <<bound, active, completed, retired, inbound, server, life, exposed>>
  BY DEF Routing!BeginStop, Routing!marks
<1>3. QueueCalm(t)
  BY <1>2, SameCalm
<1>4. CASE t # s
  <2>1. ThreadCalm(t)
    BY <1>1, <1>2, <1>4 DEF ThreadCalm
  <2>2. Role(t)' = "idle" /\ Role(t) = "idle"
    BY <1>2, <1>4 DEF Role
  <2> QED BY <1>1, <1>3, <2>1, <2>2, CalmFits
<1>5. CASE t = s
  <2>1. Role(t) = "idle" /\ Role(t)' \in {"interrupt", "release"}
    BY <1>2, <1>5 DEF Role
  <2>2. BindingFollows(t)'
    BY <1>1, <1>2, <1>5, <2>1 DEF ThreadFits, BindingFollows
  <2>3. WireOrder(inbound, server[t], t)' /\ RetiredAbsorbs(t)'
    BY <1>1, <1>2 DEF ThreadFits, RetiredAbsorbs
  <2>4. ThreadFresh(t)'
    BY <1>1, <1>2, <1>5 DEF ThreadFits, BindingFollows, ThreadFresh
  <2> QED BY <2>2, <2>3, <2>4 DEF ThreadFits
<1> QED BY <1>4, <1>5

(* turn/interrupt is answered or refused.                                  *)
LEMMA InterruptStep ==
  ASSUME RoutingInv, Routing!Interrupt, NEW t \in Sessions
  PROVE  ThreadFits(t)'
<1> DEFINE s == request.s
<1>1. /\ Routing!TypeOK /\ ThreadFits(t) /\ s \in Sessions
      /\ state \in [Sessions -> {"running", "stopping"}]
      /\ server \in [Sessions -> Routing!Thread]
      /\ DOMAIN request = {"pc", "s", "turn", "kill"}
  BY DEF RoutingInv, RequestBound, Routing!TypeOK, Routing!Interrupt
<1>2. /\ request.pc = "interrupt"
      /\ UNCHANGED <<bound, active, completed, retired, inbound, life, exposed>>
  BY DEF Routing!Interrupt, Routing!marks
<1>3. \/ /\ request'.pc = "release" /\ request'.s = s /\ state' = state
         /\ server' = server \/ server' = [server EXCEPT ![s].interrupted = TRUE]
      \/ /\ request'.pc = "idle" /\ server' = server
         /\ state' = [state EXCEPT ![s] = IF s \in bound THEN "running" ELSE state[s]]
  BY <1>1 DEF Routing!Interrupt, Routing!Idle, Routing!TypeOK
<1>4. QueueCalm(t)
  BY <1>2, SameCalm
<1>5. CASE t # s
  <2>1. server'[t] = server[t] /\ state'[t] = state[t]
    BY <1>1, <1>3, <1>5
  <2>2. ThreadCalm(t)
    BY <1>2, <2>1 DEF ThreadCalm
  <2>3. Role(t)' = "idle" /\ Role(t) = "idle"
    BY <1>2, <1>3, <1>5 DEF Role
  <2> QED BY <1>1, <1>4, <2>2, <2>3, CalmFits
<1>6. CASE t = s
  <2>1. /\ server'[t].started = server[t].started /\ server'[t].turn = server[t].turn
        /\ server'[t].last = server[t].last
        /\ server[t].interrupted => server'[t].interrupted
    BY <1>1, <1>3, <1>6 DEF Routing!Thread
  <2>2. Role(t) = "interrupt" /\ Role(t)' \in {"release", "idle"}
    BY <1>2, <1>3, <1>6 DEF Role
  <2>3. t \in bound => state'[t] = "running" \/ Role(t)' = "release"
    BY <1>1, <1>3, <1>6 DEF Role
  <2>4. TurnOpen(inbound', server'[t], t) <=> TurnOpen(inbound, server[t], t)
    BY <1>2, <2>1 DEF TurnOpen
  <2>5. WireOrder(inbound', server'[t], t)
    BY <1>1, <1>2, <2>1, <2>4 DEF ThreadFits, WireOrder
  <2>6. BindingFollows(t)'
    BY <1>1, <1>2, <2>1, <2>2, <2>3, <2>4 DEF ThreadFits, BindingFollows
  <2>7. RetiredAbsorbs(t)'
    BY <1>1, <1>2, <2>1 DEF ThreadFits, RetiredAbsorbs
  <2>8. ThreadFresh(t)'
    <3>1. state[t] = "running" => state'[t] = "running"
      BY <1>1, <1>3, <1>6
    <3> QED BY <1>1, <1>2, <2>1, <3>1 DEF ThreadFits, ThreadFresh
  <2> QED BY <2>5, <2>6, <2>7, <2>8 DEF ThreadFits
<1> QED BY <1>5, <1>6

(* releaseBinding: unless an event that is not absorbed can still come,    *)
(* all that comes belongs to the turn under which the thread is retired.   *)
LEMMA ReleaseTurnStep ==
  ASSUME RoutingInv, Routing!Release, NEW t \in Sessions
  PROVE  ThreadFits(t)'
<1> DEFINE s == request.s
<1>1. /\ Routing!TypeOK /\ ThreadFits(t) /\ ThreadFits(s) /\ s \in Sessions
      /\ retired \in [Sessions -> Routing!Turns \cup {Routing!NoTurn}]
  BY DEF RoutingInv, RequestBound, Routing!TypeOK, Routing!Release
<1>2. /\ request.pc = "release" /\ request'.pc = "idle"
      /\ UNCHANGED <<state, active, completed, inbound, server>>
  BY DEF Routing!Release, Routing!Idle
<1>3. Role(s) = "release" /\ Role(t)' = "idle" /\ (t # s => Role(t) = "idle")
  BY <1>2 DEF Role
<1>4. QueueCalm(t)
  BY <1>2, SameCalm
<1>5. CASE s \notin bound
  <2>1. UNCHANGED <<retired, bound, life, exposed>>
    BY <1>5 DEF Routing!Release
  <2>2. CASE t # s
    <3>1. ThreadCalm(t)
      BY <1>2, <2>1 DEF ThreadCalm
    <3> QED BY <1>1, <1>3, <1>4, <2>2, <3>1, CalmFits
  <2>3. CASE t = s
    BY <1>1, <1>2, <1>5, <2>1, <2>3
    DEF ThreadFits, BindingFollows, RetiredAbsorbs, ThreadFresh
  <2> QED BY <2>2, <2>3
<1>6. CASE s \in bound
  <2>1. /\ retired' = [retired EXCEPT ![s] = Routing!RetiredTurn(s)]
        /\ bound' = bound \ {s}
        /\ life' = (IF bound = {s} THEN "final" ELSE life)
        /\ exposed \subseteq exposed'
        /\ s \notin exposed' =>
             /\ \A e \in Routing!Waiting(s) : e.method \in {"delta", "turn/completed"}
             /\ server[s].turn # Routing!NoTurn => server[s].interrupted
    BY <1>6 DEF Routing!Release
  <2>2. CASE t # s
    <3>1. ThreadCalm(t)
      BY <1>1, <1>2, <2>1, <2>2 DEF ThreadCalm
    <3> QED BY <1>1, <1>3, <1>4, <2>2, <3>1, CalmFits
  <2>3. CASE t = s
    <3>1. WireOrder(inbound, server[s], s)
      BY <1>1 DEF ThreadFits
    <3>2. ASSUME s \notin exposed'
          PROVE  /\ OnlyAbsorbable(inbound, s)
                 /\ EventWaits(inbound, s) \/ server[s].turn # Routing!NoTurn =>
                      retired'[s] = server[s].last
                 /\ server[s].turn # Routing!NoTurn => server[s].interrupted
      <4>1. OnlyAbsorbable(inbound, s)
        BY <2>1, <3>2 DEF OnlyAbsorbable, Routing!Waiting
      <4>2. EventWaits(inbound, s) => TurnOpen(inbound, server[s], s)
        BY <3>1, <4>1 DEF EventWaits, OnlyAbsorbable, WireOrder
      <4>3. server[s].turn # Routing!NoTurn => TurnOpen(inbound, server[s], s)
        BY DEF TurnOpen
      <4>4. TurnOpen(inbound, server[s], s) => active[s] = server[s].last
        BY <1>1, <1>3, <1>6 DEF ThreadFits, BindingFollows
      <4>5. server[s].last # Routing!Starting
        BY <1>1 DEF Routing!TypeOK, Routing!Thread, Routing!Starting
      <4>6. active[s] = server[s].last => retired'[s] = server[s].last
        BY <1>1, <2>1, <4>5 DEF Routing!RetiredTurn
      <4> QED BY <2>1, <3>2, <4>1, <4>2, <4>3, <4>4, <4>6
    <3>3. RetiredAbsorbs(t)'
      BY <1>2, <2>3, <3>2 DEF RetiredAbsorbs
    <3>4. BindingFollows(t)'
      BY <2>1, <2>3 DEF BindingFollows
    <3>5. WireOrder(inbound, server[t], t)' /\ ThreadFresh(t)'
      BY <1>1, <1>2 DEF ThreadFits, ThreadFresh
    <3> QED BY <3>3, <3>4, <3>5 DEF ThreadFits
  <2> QED BY <2>2, <2>3
<1> QED BY <1>5, <1>6

(* The retired entry expires: from then on the Session is exposed.         *)
LEMMA ExpiresStep ==
  ASSUME RoutingInv, NEW s \in Sessions, Routing!RetiredExpires(s), NEW t \in Sessions
  PROVE  ThreadFits(t)'
<1>1. /\ ThreadFits(t)
      /\ retired \in [Sessions -> Routing!Turns \cup {Routing!NoTurn}]
  BY DEF RoutingInv, Routing!TypeOK
<1>2. /\ retired' = [retired EXCEPT ![s] = Routing!NoTurn]
      /\ exposed' = exposed \cup {s}
      /\ UNCHANGED <<bound, state, active, completed, inbound, request, server, life>>
  BY DEF Routing!RetiredExpires
<1>3. QueueCalm(t) /\ Role(t)' = Role(t)
  BY <1>2, SameCalm DEF Role
<1>4. CASE t # s
  <2>1. ThreadCalm(t)
    BY <1>1, <1>2, <1>4 DEF ThreadCalm
  <2> QED BY <1>1, <1>2, <1>3, <2>1, CalmFits
<1>5. CASE t = s
  <2>1. RetiredAbsorbs(t)'
    BY <1>2, <1>5 DEF RetiredAbsorbs
  <2>2. BindingFollows(t)'
    BY <1>1, <1>2, <1>3 DEF ThreadFits, BindingFollows
  <2>3. WireOrder(inbound, server[t], t)' /\ ThreadFresh(t)'
    BY <1>1, <1>2 DEF ThreadFits, ThreadFresh
  <2> QED BY <2>1, <2>2, <2>3 DEF ThreadFits
<1> QED BY <1>4, <1>5

(* The running turn sends a delta or, unless interrupted, an Approval      *)
(* request.                                                                *)
LEMMA ServerSendsStep ==
  ASSUME RoutingInv, NEW s \in Sessions, NEW t \in Sessions,
         Routing!ServerDelta(s) \/ Routing!ServerApproval(s)
  PROVE  ThreadFits(t)'
<1>1. /\ Routing!TypeOK /\ inbound \in Seq(Routing!Event) /\ ThreadFits(s) /\ ThreadFits(t)
      /\ server[s].turn \in Routing!Turns \cup {Routing!NoTurn}
  BY DEF RoutingInv, Routing!TypeOK, Routing!Thread
<1>2. PICK m \in {"delta", "approval"} :
        /\ Routing!Notify(m, s, server[s].turn)
        /\ m = "approval" => ~server[s].interrupted
  BY DEF Routing!ServerDelta, Routing!ServerApproval
<1>3. /\ server[s].turn # Routing!NoTurn
      /\ UNCHANGED <<bound, state, active, completed, retired, request, server, life, exposed>>
  BY DEF Routing!ServerDelta, Routing!ServerApproval, Routing!binds, Routing!marks
<1> DEFINE e == [method |-> m, s |-> s, turn |-> server[s].turn]
<1>4. /\ e \in Routing!Event /\ e.s = s /\ e.method = m /\ e.turn = server[s].turn
      /\ inbound' = Append(inbound, e)
  BY <1>1, <1>2 DEF Routing!Event, Routing!Methods, Routing!Notify
<1> HIDE DEF e
<1>5. Role(t)' = Role(t) /\ ThreadCalm(t)
  BY <1>3 DEF Role, ThreadCalm
<1>6. CASE t # s
  <2>1. QueueCalm(t)
    BY <1>1, <1>2, <1>6, NotifyCalm DEF Routing!Methods
  <2> QED BY <1>1, <1>3, <1>5, <2>1, CalmFits
<1>7. CASE t = s
  <2>1. WireOrder(inbound, server[s], s) /\ server[s].started
    BY <1>1, <1>3 DEF ThreadFits, ThreadFresh
  <2>2. WireOrder(inbound', server[s], s)
    BY <1>1, <1>2, <1>3, <1>4, <2>1, WireTurnSends
  <2>3. TurnOpen(inbound, server[s], s) /\ TurnOpen(inbound', server[s], s)
    BY <1>3 DEF TurnOpen
  <2>4. BindingFollows(s)'
    BY <1>1, <1>3, <1>5, <1>7, <2>3 DEF ThreadFits, BindingFollows
  <2>5. RetiredAbsorbs(s)'
    <3> SUFFICES ASSUME life = "live", s \notin bound, s \notin exposed
                 PROVE  RetiredAbsorbs(s)'
      BY <1>3 DEF RetiredAbsorbs
    <3>1. /\ server[s].interrupted /\ retired[s] = server[s].last
          /\ OnlyAbsorbable(inbound, s)
      BY <1>1, <1>3 DEF ThreadFits, RetiredAbsorbs
    <3>2. e.method = "delta"
      BY <1>2, <1>4, <3>1
    <3>3. OnlyAbsorbable(inbound', s)
      BY <1>1, <1>4, <3>1, <3>2, AppendOwn
    <3> QED BY <1>3, <3>1, <3>3 DEF RetiredAbsorbs
  <2>6. ThreadFresh(s)'
    BY <1>1, <1>3 DEF ThreadFits, ThreadFresh
  <2> QED BY <1>3, <1>7, <2>2, <2>4, <2>5, <2>6 DEF ThreadFits
<1> QED BY <1>6, <1>7

(* The running turn ends; it stays open until the pump has routed its end. *)
LEMMA ServerCompletesStep ==
  ASSUME RoutingInv, NEW s \in Sessions, Routing!ServerCompletes(s), NEW t \in Sessions
  PROVE  ThreadFits(t)'
<1> DEFINE e == [method |-> "turn/completed", s |-> s, turn |-> server[s].turn]
<1>1. /\ Routing!TypeOK /\ inbound \in Seq(Routing!Event) /\ ThreadFits(s) /\ ThreadFits(t)
      /\ server \in [Sessions -> Routing!Thread]
      /\ server[s].turn \in Routing!Turns \cup {Routing!NoTurn}
  BY DEF RoutingInv, Routing!TypeOK, Routing!Thread
<1>2. /\ Routing!Notify("turn/completed", s, server[s].turn)
      /\ server[s].turn # Routing!NoTurn
      /\ server' = [server EXCEPT ![s].turn = Routing!NoTurn]
      /\ inbound' = Append(inbound, e)
      /\ UNCHANGED <<bound, state, active, completed, retired, request, life, exposed>>
  BY DEF Routing!ServerCompletes, Routing!Notify, Routing!binds, Routing!marks
<1>3. /\ e \in Routing!Event /\ e.s = s /\ e.method = "turn/completed" /\ e.turn = server[s].turn
  BY <1>1 DEF Routing!Event, Routing!Methods
<1> HIDE DEF e
<1>4. Role(t)' = Role(t)
  BY <1>2 DEF Role
<1>5. CASE t # s
  <2>1. QueueCalm(t)
    BY <1>1, <1>2, <1>5, NotifyCalm DEF Routing!Methods
  <2>2. ThreadCalm(t)
    BY <1>1, <1>2, <1>5 DEF ThreadCalm
  <2> QED BY <1>1, <1>2, <1>4, <2>1, <2>2, CalmFits
<1>6. CASE t = s
  <2>1. WireOrder(inbound, server[s], s) /\ server[s].started
    BY <1>1, <1>2 DEF ThreadFits, ThreadFresh
  <2>2. /\ server'[s].started = server[s].started /\ server'[s].turn = Routing!NoTurn
        /\ server'[s].last = server[s].last
    BY <1>1, <1>2 DEF Routing!Thread
  <2>3. WireOrder(inbound', server'[s], s)
    BY <1>1, <1>2, <1>3, <2>1, <2>2, WireTurnEnds
  <2>4. CompletionWaits(inbound', s)
    BY <1>1, <1>2, <1>3, AppendOwn
  <2>5. TurnOpen(inbound, server[s], s) /\ TurnOpen(inbound', server'[s], s)
    BY <1>2, <2>4 DEF TurnOpen
  <2>6. BindingFollows(s)'
    BY <1>1, <1>2, <1>4, <1>6, <2>2, <2>5 DEF ThreadFits, BindingFollows
  <2>7. RetiredAbsorbs(s)'
    <3> SUFFICES ASSUME life = "live", s \notin bound, s \notin exposed
                 PROVE  RetiredAbsorbs(s)'
      BY <1>2 DEF RetiredAbsorbs
    <3>1. retired[s] = server[s].last /\ OnlyAbsorbable(inbound, s)
      BY <1>1, <1>2 DEF ThreadFits, RetiredAbsorbs
    <3>2. OnlyAbsorbable(inbound', s)
      BY <1>1, <1>2, <1>3, <3>1, AppendOwn
    <3> QED BY <1>2, <2>2, <3>1, <3>2 DEF RetiredAbsorbs
  <2>8. ThreadFresh(s)'
    BY <2>1, <2>2 DEF ThreadFresh
  <2> QED BY <1>6, <2>3, <2>6, <2>7, <2>8 DEF ThreadFits
<1> QED BY <1>5, <1>6

(* routeInbound on a bound Session: turn/started and the end of the turn   *)
(* move the active turn to where the answer would have put it.             *)
LEMMA RouteStep ==
  ASSUME RoutingInv, Routing!Route, NEW t \in Sessions
  PROVE  ThreadFits(t)'
<1> DEFINE e == Head(inbound)
           s == e.s
<1>1. /\ Routing!TypeOK /\ inbound \in Seq(Routing!Event) /\ ThreadFits(t)
      /\ active \in [Sessions -> Routing!Turns \cup {Routing!NoTurn, Routing!Starting}]
      /\ completed \in [Sessions -> Routing!Turns \cup {Routing!NoTurn}]
  BY DEF RoutingInv, Routing!TypeOK
<1>2. /\ inbound # <<>> /\ inbound' = Tail(inbound) /\ s \in bound
      /\ active' = [active EXCEPT ![s] =
           CASE e.method = "turn/started" /\ active[s] \in {Routing!NoTurn, Routing!Starting} -> e.turn
             [] e.method = "turn/completed" -> Routing!NoTurn
             [] OTHER -> active[s]]
      /\ completed' = [completed EXCEPT ![s] =
                         IF e.method = "turn/completed" THEN e.turn ELSE completed[s]]
      /\ UNCHANGED <<bound, state, retired, request, server, life, exposed>>
  BY DEF Routing!Route, Routing!Routable, Routing!marks
<1>3. e \in Routing!Event /\ e = inbound[1] /\ 1 \in 1..Len(inbound) /\ s \in Sessions
  <2>1. e \in Routing!Event /\ e = inbound[1] /\ Len(inbound) \in Nat /\ Len(inbound) > 0
    BY <1>1, <1>2, TailAt
  <2> QED BY <2>1 DEF Routing!Event
<1>4. Role(t)' = Role(t)
  BY <1>2 DEF Role
<1> HIDE DEF e
<1>5. CASE t # s
  <2>1. QueueCalm(t)
    BY <1>1, <1>2, <1>5, TailCalm DEF e
  <2>2. ThreadCalm(t)
    BY <1>1, <1>2, <1>3, <1>5 DEF ThreadCalm
  <2> QED BY <1>1, <1>2, <1>4, <2>1, <2>2, CalmFits
<1>6. CASE t = s
  <2>1. WireOrder(inbound, server[t], t) /\ server'[t] = server[t] /\ t \in bound
    BY <1>1, <1>2, <1>6 DEF ThreadFits
  <2>2. /\ WireOrder(inbound', server'[t], t)
        /\ e.method # "turn/completed" =>
             (CompletionWaits(inbound', t) <=> CompletionWaits(inbound, t))
        /\ e.method = "turn/completed" => ~TurnOpen(inbound', server'[t], t)
    BY <1>1, <1>2, <1>6, <2>1, TailOwn DEF e
  <2>3. e.method # "thread/started" => e.turn = server[t].last /\ TurnOpen(inbound, server[t], t)
    BY <1>3, <1>6, <2>1 DEF WireOrder
  <2>4. BindingFollows(t)'
    <3>1. CASE e.method = "turn/completed"
      <4>1. /\ active'[t] = Routing!NoTurn /\ completed'[t] = server[t].last
            /\ Role(t) # "call"
        BY <1>1, <1>2, <1>3, <1>6, <2>1, <2>3, <3>1 DEF ThreadFits, BindingFollows
      <4>2. server[t].last <= server[t].last
        BY <1>3, <1>6 DEF RoutingInv, Routing!TypeOK, Routing!Thread
      <4> QED BY <1>1, <1>2, <1>4, <2>1, <2>2, <3>1, <4>1, <4>2 DEF ThreadFits, BindingFollows
    <3>2. CASE e.method # "turn/completed"
      <4>1. TurnOpen(inbound', server'[t], t) <=> TurnOpen(inbound, server[t], t)
        BY <2>1, <2>2, <3>2 DEF TurnOpen
      <4>2. completed'[t] = completed[t]
        BY <1>1, <1>2, <3>2, <1>3, <1>6
      <4>3. CASE e.method = "turn/started" /\ active[s] \in {Routing!NoTurn, Routing!Starting}
        <5>1. /\ active'[t] = server[t].last /\ TurnOpen(inbound, server[t], t)
          BY <1>1, <1>2, <1>3, <1>6, <2>3, <4>3
        <5> QED BY <1>1, <1>2, <1>4, <2>1, <4>1, <4>2, <5>1 DEF ThreadFits, BindingFollows
      <4>4. CASE ~(e.method = "turn/started" /\ active[s] \in {Routing!NoTurn, Routing!Starting})
        <5>1. active'[t] = active[t]
          BY <1>1, <1>2, <1>3, <1>6, <3>2, <4>4
        <5> QED BY <1>1, <1>2, <1>4, <2>1, <4>1, <4>2, <5>1 DEF ThreadFits, BindingFollows
      <4> QED BY <4>3, <4>4
    <3> QED BY <3>1, <3>2
  <2>5. RetiredAbsorbs(t)'
    BY <1>2, <2>1 DEF RetiredAbsorbs
  <2>6. ThreadFresh(t)'
    BY <1>1, <2>1 DEF ThreadFits, BindingFollows, ThreadFresh
  <2> QED BY <2>2, <2>4, <2>5, <2>6 DEF ThreadFits
<1> QED BY <1>5, <1>6

(* routeInbound on a retired thread: the entry goes with the end of the    *)
(* turn, when nothing more can come.                                       *)
LEMMA RouteRetiredStep ==
  ASSUME RoutingInv, Routing!RouteRetired, NEW t \in Sessions
  PROVE  ThreadFits(t)'
<1> DEFINE e == Head(inbound)
           s == e.s
<1>1. /\ Routing!TypeOK /\ inbound \in Seq(Routing!Event) /\ ThreadFits(t)
      /\ retired \in [Sessions -> Routing!Turns \cup {Routing!NoTurn}]
  BY DEF RoutingInv, Routing!TypeOK
<1>2. /\ inbound # <<>> /\ inbound' = Tail(inbound) /\ s \notin bound
      /\ retired' = [retired EXCEPT ![s] =
                       IF e.method = "turn/completed" THEN Routing!NoTurn ELSE retired[s]]
      /\ UNCHANGED <<bound, state, active, completed, request, server, life, exposed>>
  BY DEF Routing!RouteRetired, Routing!Absorbed, Routing!marks
<1>3. Role(t)' = Role(t)
  BY <1>2 DEF Role
<1> HIDE DEF e
<1>4. CASE t # s
  <2>1. QueueCalm(t)
    BY <1>1, <1>2, <1>4, TailCalm DEF e
  <2>2. ThreadCalm(t)
    BY <1>1, <1>2, <1>4 DEF ThreadCalm
  <2> QED BY <1>1, <1>2, <1>3, <2>1, <2>2, CalmFits
<1>5. CASE t = s
  <2>1. WireOrder(inbound, server[t], t) /\ server'[t] = server[t] /\ t \notin bound'
    BY <1>1, <1>2, <1>5 DEF ThreadFits
  <2>2. /\ WireOrder(inbound', server'[t], t)
        /\ OnlyAbsorbable(inbound, t) => OnlyAbsorbable(inbound', t)
        /\ EventWaits(inbound, t)
        /\ e.method = "turn/completed" =>
             ~EventWaits(inbound', t) /\ server[t].turn = Routing!NoTurn
    BY <1>1, <1>2, <1>5, <2>1, TailOwn DEF e, TurnOpen
  <2>3. e.method # "turn/completed" => retired'[t] = retired[t]
    BY <1>1, <1>2, <1>5
  <2>4. RetiredAbsorbs(t)'
    BY <1>1, <1>2, <2>1, <2>2, <2>3 DEF ThreadFits, RetiredAbsorbs
  <2>5. BindingFollows(t)' /\ ThreadFresh(t)'
    BY <1>1, <1>2, <2>1 DEF ThreadFits, BindingFollows, ThreadFresh
  <2> QED BY <2>2, <2>4, <2>5 DEF ThreadFits
<1> QED BY <1>4, <1>5

(* The event at the head of the queue is unroutable only when its thread   *)
(* is exposed.                                                             *)
LEMMA HeadRoutable ==
  ASSUME RoutingInv, life = "live", inbound # <<>>,
         ~Routing!Routable(Head(inbound)), ~Routing!Absorbed(Head(inbound))
  PROVE  Head(inbound).s \in exposed
<1> DEFINE e == Head(inbound)
           s == e.s
<1>1. e = inbound[1] /\ 1 \in 1..Len(inbound) /\ s \in Sessions
  <2>1. e \in Routing!Event /\ e = inbound[1] /\ Len(inbound) \in Nat /\ Len(inbound) > 0
    BY TailAt DEF RoutingInv, Routing!TypeOK
  <2> QED BY <2>1 DEF Routing!Event
<1>2. ThreadFits(s)
  BY <1>1 DEF RoutingInv
<1>3. ~Routing!Routable(e) /\ ~Routing!Absorbed(e)
  OBVIOUS
<1> HIDE DEF e
<1>4. /\ e.method = "thread/started" => e.turn = Routing!NoTurn
      /\ e.method # "thread/started" =>
           /\ e.turn = server[s].last /\ server[s].last # Routing!NoTurn
           /\ TurnOpen(inbound, server[s], s)
  BY <1>1, <1>2 DEF ThreadFits, WireOrder
<1>5. s \notin bound
  <2> SUFFICES ASSUME s \in bound PROVE FALSE
    OBVIOUS
  <2>1. /\ e.turn # Routing!NoTurn
        /\ active[s] \notin {Routing!NoTurn, Routing!Starting} /\ e.turn # active[s]
    BY <1>3 DEF Routing!Routable, Routing!UnknownTurn
  <2>2. TurnOpen(inbound, server[s], s) /\ e.turn = server[s].last
    BY <1>4, <2>1
  <2>3. active[s] \in {Routing!Starting, server[s].last}
    BY <1>2, <2>2 DEF ThreadFits, BindingFollows
  <2> QED BY <2>1, <2>2, <2>3
<1>6. ASSUME s \notin exposed PROVE FALSE
  <2>1. /\ e.method \in {"delta", "turn/completed"}
        /\ retired[s] = server[s].last
    BY <1>1, <1>2, <1>5, <1>6 DEF ThreadFits, RetiredAbsorbs, OnlyAbsorbable, EventWaits
  <2> QED BY <1>3, <1>4, <1>5, <2>1 DEF Routing!Absorbed
<1> QED BY <1>6 DEF e

(* failRuntime drops the bindings and the queue.                           *)
LEMMA RouteFailsStep ==
  ASSUME RoutingInv, Routing!RouteFails, NEW t \in Sessions
  PROVE  ThreadFits(t)'
<1>1. /\ life' = "failed" /\ bound' = {} /\ inbound' = <<>>
      /\ UNCHANGED <<state, active, completed, server>>
  BY DEF Routing!RouteFails
<1>2. ThreadFits(t)
  BY DEF RoutingInv
<1>3. WireOrder(inbound', server'[t], t)
  <2>1. Len(inbound') = 0
    BY <1>1
  <2> QED BY <1>1, <1>2, <2>1 DEF ThreadFits, WireOrder
<1>4. BindingFollows(t)' /\ RetiredAbsorbs(t)' /\ ThreadFresh(t)'
  BY <1>1, <1>2 DEF ThreadFits, BindingFollows, RetiredAbsorbs, ThreadFresh
<1> QED BY <1>3, <1>4 DEF ThreadFits

(* A request ends, or stays on its Session; the runtime fails only on the  *)
(* event of an exposed thread.                                             *)
LEMMA RequestStep ==
  ASSUME RoutingInv, Routing!Next
  PROVE  RequestBound' /\ OnlyExposedFail'
<1>1. ASSUME NEW s \in Sessions, Routing!Start(s) PROVE RequestBound' /\ OnlyExposedFail'
  BY <1>1 DEF RoutingInv, RequestBound, OnlyExposedFail, Routing!Start, Routing!marks
<1>2. ASSUME NEW s \in Sessions, Routing!BeginInput(s) PROVE RequestBound' /\ OnlyExposedFail'
  BY <1>2 DEF RoutingInv, RequestBound, OnlyExposedFail, Routing!BeginInput, Routing!Idle,
     Routing!marks
<1>3. CASE Routing!InputRefused \/ Routing!InputAnswer
  BY <1>3 DEF RoutingInv, RequestBound, OnlyExposedFail, Routing!InputRefused,
     Routing!InputAnswer, Routing!Idle, Routing!marks
<1>4. CASE Routing!ServerStarts
  <2>1. request'.s = request.s /\ request.pc = "call"
    BY <1>4 DEF RoutingInv, Routing!TypeOK, Routing!ServerStarts
  <2> QED BY <1>4, <2>1 DEF RoutingInv, RequestBound, OnlyExposedFail, Routing!ServerStarts,
          Routing!binds, Routing!marks
<1>5. ASSUME NEW s \in Sessions, NEW kill \in BOOLEAN, Routing!BeginStop(s, kill)
      PROVE  RequestBound' /\ OnlyExposedFail'
  BY <1>5 DEF RoutingInv, RequestBound, OnlyExposedFail, Routing!BeginStop, Routing!marks
<1>6. CASE Routing!Interrupt
  <2>1. request'.pc = "idle" \/ request'.s = request.s
    BY <1>6 DEF RoutingInv, Routing!TypeOK, Routing!Interrupt, Routing!Idle
  <2> QED BY <1>6, <2>1 DEF RoutingInv, RequestBound, OnlyExposedFail, Routing!Interrupt,
          Routing!marks
<1>7. CASE Routing!Release
  BY <1>7 DEF RoutingInv, RequestBound, OnlyExposedFail, Routing!Release, Routing!Idle
<1>8. ASSUME NEW s \in Sessions,
             \/ Routing!RetiredExpires(s) \/ Routing!ServerDelta(s) \/ Routing!ServerApproval(s)
             \/ Routing!ServerCompletes(s)
      PROVE  RequestBound' /\ OnlyExposedFail'
  BY <1>8 DEF RoutingInv, RequestBound, OnlyExposedFail, Routing!RetiredExpires,
     Routing!ServerDelta, Routing!ServerApproval, Routing!ServerCompletes, Routing!binds, Routing!marks
<1>9. CASE Routing!Route \/ Routing!RouteRetired
  BY <1>9 DEF RoutingInv, RequestBound, OnlyExposedFail, Routing!Route, Routing!RouteRetired,
     Routing!marks
<1>10. CASE Routing!RouteFails
  <2>1. Head(inbound).s \in exposed
    BY <1>10, HeadRoutable DEF Routing!RouteFails
  <2> QED BY <1>10, <2>1 DEF RoutingInv, RequestBound, OnlyExposedFail, Routing!RouteFails
<1> QED BY <1>1, <1>2, <1>3, <1>4, <1>5, <1>6, <1>7, <1>8, <1>9, <1>10 DEF Routing!Next

(* Every step keeps the types.                                             *)
LEMMA RoutingType ==
  ASSUME MaxTurns \in Nat, RoutingInv, Routing!Next PROVE Routing!TypeOK'
BY RequestType, PumpType DEF Routing!Next

(* Every step keeps what is known of each thread.                          *)
LEMMA ThreadStep ==
  ASSUME RoutingInv, Routing!Next, NEW t \in Sessions PROVE ThreadFits(t)'
BY StartStep, BeginInputStep, InputRefusedStep, ServerStartsStep, InputAnswerStep, BeginStopStep,
   InterruptStep, ReleaseTurnStep, ExpiresStep, ServerSendsStep, ServerCompletesStep, RouteStep,
   RouteRetiredStep, RouteFailsStep
DEF Routing!Next

(* The invariant is inductive.                                             *)
LEMMA RoutingStep == MaxTurns \in Nat /\ RoutingInv /\ [Routing!Next]_Routing!vars => RoutingInv'
<1> SUFFICES ASSUME MaxTurns \in Nat, RoutingInv, [Routing!Next]_Routing!vars PROVE RoutingInv'
  OBVIOUS
<1>1. CASE Routing!Next
  BY <1>1, RoutingType, RequestStep, ThreadStep DEF RoutingInv
<1>2. CASE UNCHANGED Routing!vars
  <2> USE <1>2 DEF Routing!vars
  <2>1. Routing!TypeOK' /\ RequestBound' /\ OnlyExposedFail'
    BY DEF RoutingInv, Routing!TypeOK, RequestBound, OnlyExposedFail
  <2>2. ASSUME NEW t \in Sessions PROVE ThreadFits(t)'
    <3>1. ThreadFits(t) /\ QueueCalm(t) /\ ThreadCalm(t) /\ Role(t)' = Role(t)
      BY SameCalm DEF RoutingInv, ThreadCalm, Role
    <3> QED BY <3>1, CalmFits
  <2> QED BY <2>1, <2>2 DEF RoutingInv
<1> QED BY <1>1, <1>2

(* The invariant holds in every behaviour, for every bound on turns.       *)
LEMMA RoutingAlways == MaxTurns \in Nat => (Routing!Spec => []RoutingInv)
<1> SUFFICES ASSUME MaxTurns \in Nat PROVE Routing!Spec => []RoutingInv
  OBVIOUS
<1>1. Routing!Init => RoutingInv
  BY RoutingInit
<1>2. RoutingInv /\ [Routing!Next]_Routing!vars => RoutingInv'
  BY RoutingStep
<1> QED BY <1>1, <1>2, PTL DEF Routing!Spec

(* Whenever the pump has caught up and no request is inside, the active    *)
(* turn of every binding is the turn the app-server runs: no order of the  *)
(* answer of turn/start and the notifications of the turn leaves a Session *)
(* busy, or free for a second turn, against the server.                    *)
THEOREM RoutingTurnsAgree == MaxTurns \in Nat => (Routing!Spec => []TurnsAgree)
<1> SUFFICES ASSUME MaxTurns \in Nat PROVE Routing!Spec => []TurnsAgree
  OBVIOUS
<1>1. RoutingInv => TurnsAgree
  <2> SUFFICES ASSUME RoutingInv, request.pc = "idle", inbound = <<>>, NEW s \in bound
               PROVE  active[s] = server[s].turn
    BY DEF TurnsAgree
  <2>1. s \in Sessions /\ ThreadFits(s)
    BY DEF RoutingInv, Routing!TypeOK
  <2>2. Role(s) = "idle"
    BY DEF Role
  <2>3. Len(inbound) = 0
    OBVIOUS
  <2>4. TurnOpen(inbound, server[s], s) <=> server[s].turn # Routing!NoTurn
    BY <2>3 DEF TurnOpen, CompletionWaits
  <2> QED BY <2>1, <2>2, <2>4 DEF ThreadFits, BindingFollows, WireOrder
<1>2. Routing!Spec => []RoutingInv
  BY RoutingAlways
<1> QED BY <1>1, <1>2, PTL

(* With a server that keeps its protocol the runtime fails only after some *)
(* thread was released while an event could come that it does not absorb,  *)
(* or its retired entry has expired.                                       *)
THEOREM RoutingOnlyExposedFail ==
  MaxTurns \in Nat => (Routing!Spec => []OnlyExposedFail)
<1> SUFFICES ASSUME MaxTurns \in Nat PROVE Routing!Spec => []OnlyExposedFail
  OBVIOUS
<1>1. RoutingInv => OnlyExposedFail
  BY DEF RoutingInv
<1>2. Routing!Spec => []RoutingInv
  BY RoutingAlways
<1> QED BY <1>1, <1>2, PTL

(* A step that fails the runtime does so on an event of an exposed thread: *)
(* no event of a bound Session, and none of a thread that was released in  *)
(* time, is ever unroutable.                                               *)
FailsOnExposed == life = "live" /\ life' = "failed" => Head(inbound).s \in exposed

(* failRuntime, which fails every Session that shares the app-server, is   *)
(* never caused by the events of a Session that is still bound.            *)
THEOREM RoutingFailsOnExposed ==
  MaxTurns \in Nat => (Routing!Spec => [][FailsOnExposed]_Routing!vars)
<1> SUFFICES ASSUME MaxTurns \in Nat PROVE Routing!Spec => [][FailsOnExposed]_Routing!vars
  OBVIOUS
<1>1. RoutingInv /\ [Routing!Next]_Routing!vars => [FailsOnExposed]_Routing!vars
  <2> SUFFICES ASSUME RoutingInv, Routing!Next, life = "live", life' = "failed"
               PROVE  Head(inbound).s \in exposed
    BY DEF FailsOnExposed
  <2>1. Routing!RouteFails
    BY DEF Routing!Next, Routing!Start, Routing!BeginInput, Routing!InputRefused, Routing!ServerStarts,
       Routing!InputAnswer, Routing!BeginStop, Routing!Interrupt, Routing!Release,
       Routing!RetiredExpires, Routing!ServerDelta, Routing!ServerApproval, Routing!ServerCompletes,
       Routing!Route, Routing!RouteRetired, Routing!binds, Routing!marks
  <2> QED BY <2>1, HeadRoutable DEF Routing!RouteFails
<1>2. Routing!Spec => []RoutingInv
  BY RoutingAlways
<1> QED BY <1>1, <1>2, PTL DEF Routing!Spec

(* turn/start reaches the app-server only while no turn of its thread runs *)
(* and the end of the previous one has been routed.                        *)
OneTurnAtATime ==
  request.pc = "call" /\ life = "live" =>
    server[request.s].turn = Routing!NoTurn /\ ~CompletionWaits(inbound, request.s)

(* Input, which checks only its own ActiveTurnID, never puts a second turn *)
(* on a thread.                                                            *)
THEOREM RoutingOneTurn == MaxTurns \in Nat => (Routing!Spec => []OneTurnAtATime)
<1> SUFFICES ASSUME MaxTurns \in Nat PROVE Routing!Spec => []OneTurnAtATime
  OBVIOUS
<1>1. RoutingInv => OneTurnAtATime
  <2> SUFFICES ASSUME RoutingInv, request.pc = "call", life = "live"
               PROVE  ~TurnOpen(inbound, server[request.s], request.s)
    BY DEF OneTurnAtATime, TurnOpen
  <2>1. request.s \in Sessions /\ request.s \in bound
    BY DEF RoutingInv, RequestBound
  <2>2. ThreadFits(request.s)
    BY <2>1 DEF RoutingInv
  <2>3. Role(request.s) = "call"
    BY DEF Role
  <2> QED BY <2>1, <2>2, <2>3 DEF ThreadFits, BindingFollows
<1>2. Routing!Spec => []RoutingInv
  BY RoutingAlways
<1> QED BY <1>1, <1>2, PTL

(* The variables of event routing keep their types, and turn/interrupt     *)
(* always names a turn.                                                    *)
THEOREM RoutingTypeCorrect == MaxTurns \in Nat => (Routing!Spec => []Routing!TypeOK)
<1> SUFFICES ASSUME MaxTurns \in Nat PROVE Routing!Spec => []Routing!TypeOK
  OBVIOUS
<1>1. RoutingInv => Routing!TypeOK
  BY DEF RoutingInv
<1>2. Routing!Spec => []RoutingInv
  BY RoutingAlways
<1> QED BY <1>1, <1>2, PTL

=============================================================================
