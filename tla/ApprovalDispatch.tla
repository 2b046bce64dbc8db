-------------------------- MODULE ApprovalDispatch --------------------------
(***************************************************************************)
(* Approval requests of Codex Sessions: routeInbound's Approval branch and *)
(* RespondApproval of internal/providers/codex/runtime.go, the approvals   *)
(* rows of internal/storage/repository.go (claim, complete, fail, expire)  *)
(* and the idempotency ledger of SessionService.withIdempotency.           *)
(*                                                                         *)
(* A response is claimed in the row, written to the Provider, and          *)
(* completed in the row; the daemon may die and the write or the store may *)
(* fail between any two of these.  The lease check is ControllerLease's.   *)
(***************************************************************************)
EXTENDS Integers

CONSTANTS
  Approvals,   \* Approval IDs of one Session, one Provider request each
  NoDecision,  \* no decision
  Keys,        \* idempotency keys the clients use
  NoKey,       \* no key
  Callers,     \* goroutines inside RespondApproval: one behind SessionService.mu
  NoCaller,    \* SessionService.mu is free
  MaxCrashes   \* bound: daemon restarts

Decisions == {"approve", "deny", "cancel"}

ASSUME ApprovalAssumption ==
  /\ NoDecision \notin Decisions
  /\ {"open", "unknown"} \cap (Decisions \cup {NoDecision}) = {}
  /\ NoKey \notin Keys
  /\ NoCaller \notin Callers
  /\ MaxCrashes \in Nat

VARIABLES
  row,       \* the approvals rows
  pending,   \* SessionBinding.Pending: the live Provider request ID is known
  inserting, \* requests routeInbound has noted and not yet inserted
  ledger,    \* idempotency records of approval.respond
  mutex,     \* holder of SessionService.mu
  caller,    \* program counter and locals of RespondApproval
  crashes,   \* daemon restarts so far
  received,  \* history: the last decision the Provider received
  writes     \* history: writes attempted per Approval

vars == <<row, pending, inserting, ledger, mutex, caller, crashes, received, writes>>

NoRow == [status |-> "none", response |-> "none", decision |-> NoDecision,
          key |-> NoKey]

Pending == [status |-> "pending", response |-> "idle", decision |-> NoDecision,
            key |-> NoKey]

Row == [status: {"none", "pending", "decided", "expired"},
        response: {"none", "idle", "dispatching", "written", "ambiguous"},
        decision: Decisions \cup {NoDecision}, key: Keys \cup {NoKey}]

Idle == [pc |-> "idle", a |-> NoDecision, d |-> NoDecision, key |-> NoKey]

PCs == {"claim", "write", "complete", "fail", "save"}

CallerState == {Idle} \cup
  [pc: PCs, a: Approvals, d: Decisions, key: Keys]

Init ==
  /\ row = [a \in Approvals |-> NoRow]
  /\ pending = {}
  /\ inserting = {}
  /\ ledger = {}
  /\ mutex = NoCaller
  /\ caller = [k \in Callers |-> Idle]
  /\ crashes = 0
  /\ received = [a \in Approvals |-> NoDecision]
  /\ writes = [a \in Approvals |-> 0]

Goto(k, pc) == caller' = [caller EXCEPT ![k].pc = pc] /\ UNCHANGED mutex

Return(k) == caller' = [caller EXCEPT ![k] = Idle] /\ mutex' = NoCaller

-----------------------------------------------------------------------------
(* routeInbound: the Provider's request ID is kept in memory ...           *)
Arrive(a) ==
  /\ row[a] = NoRow
  /\ a \notin pending \cup inserting
  /\ pending' = pending \cup {a}
  /\ inserting' = inserting \cup {a}
  /\ UNCHANGED <<row, ledger, mutex, caller, crashes, received, writes>>

(* ... and the row is inserted after the lock is given up, whether or not  *)
(* the binding is still there.                                             *)
CreateApproval(a) ==
  /\ a \in inserting
  /\ row' = [row EXCEPT ![a] = Pending]
  /\ inserting' = inserting \ {a}
  /\ UNCHANGED <<pending, ledger, mutex, caller, crashes, received, writes>>

(* The binding goes with a stop or a failed runtime; an insert that fails  *)
(* fails the runtime.                                                      *)
LoseBinding ==
  /\ pending # {}
  /\ pending' = {}
  /\ \E failed \in SUBSET inserting : inserting' = inserting \ failed
  /\ UNCHANGED <<row, ledger, mutex, caller, crashes, received, writes>>

-----------------------------------------------------------------------------
(* RespondApproval *)

Mutant_ServiceFree == TRUE
ServiceFree == mutex = NoCaller

(* withIdempotency and the checks of RespondApproval.  Only an idle row    *)
(* whose request ID is known goes on to a claim, and a written one is      *)
(* answered, and recorded, when the decision and the key are its own.      *)
(* Everything else is answered with no change of state.                    *)
RespondTo(k, a, d, key, pc) ==
  /\ caller[k].pc = "idle"
  /\ ServiceFree
  /\ \A r \in ledger : r.key # key
  /\ mutex' = k
  /\ caller' = [caller EXCEPT ![k] = [pc |-> pc, a |-> a, d |-> d, key |-> key]]
  /\ UNCHANGED <<row, pending, inserting, ledger, crashes, received, writes>>

Respond(k, a, d, key) ==
  /\ row[a] = Pending
  /\ a \in pending
  /\ RespondTo(k, a, d, key, "claim")

SameClaim(r, d, key) ==
  r.response \in {"dispatching", "written", "ambiguous"} /\ r.decision = d /\ r.key = key

RespondAgain(k, a, d, key) ==
  /\ row[a].response = "written"
  /\ SameClaim(row[a], d, key)
  /\ RespondTo(k, a, d, key, "save")

(* ClaimApprovalDispatch: a replay of the same claim passes, another one   *)
(* and a failed transaction are errors.  The claim may be stored and its   *)
(* read-back fail: then nothing is written, and the row stays in flight    *)
(* until the restart.                                                      *)
Claimed(r, d, key) ==
  IF r = Pending
  THEN [status |-> "pending", response |-> "dispatching", decision |-> d, key |-> key]
  ELSE r

ClaimApprovalDispatch(k) ==
  LET c == caller[k] IN
  /\ c.pc = "claim"
  /\ \/ /\ row[c.a] = Pending \/ SameClaim(row[c.a], c.d, c.key)
        /\ row' = [row EXCEPT ![c.a] = Claimed(@, c.d, c.key)]
        /\ Goto(k, "write") \/ Return(k)
     \/ Return(k) /\ UNCHANGED row
  /\ UNCHANGED <<pending, inserting, ledger, crashes, received, writes>>

(* RespondServerRequest: a successful write reached the Provider, a failed *)
(* one may have.  The request ID is forgotten either way.                  *)
Mutant_AfterWrite(ok) == "complete"
AfterWrite(ok) == IF ok THEN "complete" ELSE "fail"

Write(k) ==
  LET c == caller[k] IN
  /\ c.pc = "write"
  /\ \E ok, reached \in BOOLEAN :
       /\ ok => reached
       /\ received' = IF reached THEN [received EXCEPT ![c.a] = c.d] ELSE received
       /\ Goto(k, AfterWrite(ok))
  /\ writes' = [writes EXCEPT ![c.a] = @ + 1]
  /\ pending' = pending \ {c.a}
  /\ UNCHANGED <<row, inserting, ledger, crashes>>

InFlight(k) ==
  LET c == caller[k] IN
  row[c.a].response = "dispatching" /\ SameClaim(row[c.a], c.d, c.key)

(* CompleteApprovalDispatch: an error of the store makes it ambiguous,     *)
(* unless it is the read-back of a completion that was stored.             *)
Mutant_AfterComplete(ok) == "save"
AfterComplete(ok) == IF ok THEN "save" ELSE "fail"

CompleteApprovalDispatch(k) ==
  LET c == caller[k] IN
  /\ c.pc = "complete"
  /\ \E stored, ok \in BOOLEAN :
       /\ (stored => InFlight(k)) /\ (ok => stored)
       /\ row' = IF stored THEN [row EXCEPT ![c.a].status = "decided",
                                            ![c.a].response = "written"]
                           ELSE row
       /\ Goto(k, AfterComplete(ok))
  /\ UNCHANGED <<pending, inserting, ledger, crashes, received, writes>>

(* FailApprovalDispatch: its own failure leaves the row for the restart.   *)
FailApprovalDispatch(k) ==
  LET c == caller[k] IN
  /\ c.pc = "fail"
  /\ \/ /\ InFlight(k)
        /\ row' = [row EXCEPT ![c.a].status = "expired", ![c.a].response = "ambiguous"]
     \/ UNCHANGED row
  /\ Return(k)
  /\ UNCHANGED <<pending, inserting, ledger, crashes, received, writes>>

(* withIdempotency records the response of a success; a failure to record  *)
(* it is an error answer to a decision that was made.                      *)
SaveRecord(k) ==
  LET c == caller[k] IN
  /\ c.pc = "save"
  /\ \/ ledger' = ledger \cup {[key |-> c.key, a |-> c.a, d |-> c.d]}
     \/ UNCHANGED ledger
  /\ Return(k)
  /\ UNCHANGED <<row, pending, inserting, crashes, received, writes>>

-----------------------------------------------------------------------------
(* ExpirePendingApprovals of RecoverPendingApprovals.                      *)
Mutant_Recovered(r) ==
  IF r.status = "pending"
  THEN [r EXCEPT !.status = "expired", !.response = "ambiguous"] ELSE r
Recovered(r) ==
  IF r.status = "pending"
  THEN [r EXCEPT !.status = "expired", !.response = "ambiguous",
                 !.decision = IF @ = NoDecision THEN "cancel" ELSE @]
  ELSE r

Restart ==
  /\ crashes < MaxCrashes
  /\ crashes' = crashes + 1
  /\ row' = [a \in Approvals |-> Recovered(row[a])]
  /\ pending' = {}
  /\ inserting' = {}
  /\ mutex' = NoCaller
  /\ caller' = [k \in Callers |-> Idle]
  /\ UNCHANGED <<ledger, received, writes>>

Step(k) ==
  \/ ClaimApprovalDispatch(k) \/ Write(k) \/ CompleteApprovalDispatch(k)
  \/ FailApprovalDispatch(k) \/ SaveRecord(k)

Next ==
  \/ \E a \in Approvals : Arrive(a) \/ CreateApproval(a)
  \/ LoseBinding
  \/ \E k \in Callers, a \in Approvals, d \in Decisions, key \in Keys :
       Respond(k, a, d, key) \/ RespondAgain(k, a, d, key)
  \/ \E k \in Callers : Step(k)
  \/ Restart

Spec == Init /\ [][Next]_vars

-----------------------------------------------------------------------------
(* The CHECK constraint of migration 0005 on a row: an UPDATE that breaks  *)
(* it is refused, and at the restart that keeps the daemon from starting.  *)
RowCheck(r) ==
  \/ r = NoRow
  \/ r = Pending
  \/ /\ r.decision # NoDecision
     /\ <<r.response, r.status>> \in {<<"dispatching", "pending">>,
                                      <<"written", "decided">>, <<"ambiguous", "expired">>}

(* Every variable has its type and every row written by the claim, the     *)
(* completion, the failure and the recovery meets the table's CHECK.       *)
TypeOK ==
  /\ row \in [Approvals -> Row]
  /\ \A a \in Approvals : RowCheck(row[a])
  /\ pending \subseteq Approvals
  /\ inserting \subseteq Approvals
  /\ ledger \subseteq [key: Keys, a: Approvals, d: Decisions]
  /\ mutex \in Callers \cup {NoCaller}
  /\ caller \in [Callers -> CallerState]
  /\ crashes \in Nat
  /\ received \in [Approvals -> Decisions \cup {NoDecision}]
  /\ writes \in [Approvals -> Nat]

(* The Provider is never answered twice, over retries with the same or     *)
(* another key or decision, failed writes, failed completions and daemon   *)
(* restarts in the middle of a dispatch ("never automatically replayed").  *)
AtMostOneWrite == \A a \in Approvals : writes[a] <= 1

(* A recorded idempotent success repeats the decision the row shows.       *)
LedgerAgrees ==
  \A r \in ledger : row[r.a].status = "decided" /\ row[r.a].decision = r.d

Outcome(r) ==
  CASE r.status = "decided" -> r.decision
    [] r.status = "expired" -> "unknown"
    [] OTHER -> "open"

Contract == INSTANCE ApprovalContract WITH
  outcome <- [a \in Approvals |-> Outcome(row[a])]

(* The dispatch transaction implements the contract.                       *)
ContractSpec == Contract!Spec

=============================================================================
