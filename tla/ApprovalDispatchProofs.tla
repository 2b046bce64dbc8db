----------------------- MODULE ApprovalDispatchProofs -----------------------
(***************************************************************************)
(* Proofs about ApprovalDispatch for any number of Approvals, idempotency  *)
(* keys, concurrent callers and daemon restarts: the Provider is written   *)
(* to at most once, the ledger repeats the decision of the row, and the    *)
(* dispatch transaction implements ApprovalContract.                       *)
(*                                                                         *)
(* None of the three is inductive: what a caller may do next depends on    *)
(* the row it claimed being still as the claim left it, which is what      *)
(* Phases says, and that rests on SessionService.mu (Serial).              *)
(***************************************************************************)
EXTENDS ApprovalDispatch, TLAPS

(* A goroutine inside RespondApproval holds SessionService.mu.             *)
Serial == \A k \in Callers : caller[k].pc # "idle" => mutex = k

Dispatching(d, key) ==
  [status |-> "pending", response |-> "dispatching", decision |-> d, key |-> key]

(* The row is as the caller's last step left it.                           *)
Phase(c) ==
  /\ c.pc = "claim" => row[c.a] = Pending
  /\ c.pc \in {"write", "complete"} => row[c.a] = Dispatching(c.d, c.key)
  /\ c.pc = "fail" => row[c.a] = Dispatching(c.d, c.key) \/ row[c.a].response = "written"
  /\ c.pc = "write" => writes[c.a] = 0
  /\ c.pc = "complete" => received[c.a] = c.d
  /\ c.pc = "save" => row[c.a].status = "decided" /\ row[c.a].decision = c.d

Phases == \A k \in Callers : Phase(caller[k])

(* An unclaimed row was never written to the Provider, and a decided one   *)
(* shows what the Provider received.                                       *)
History ==
  \A a \in Approvals :
    /\ row[a].response \in {"none", "idle"} => writes[a] = 0
    /\ writes[a] = 0 => received[a] = NoDecision
    /\ writes[a] <= 1
    /\ row[a].status = "decided" => received[a] = row[a].decision
    /\ a \in inserting => row[a] = NoRow

IInv == TypeOK /\ Serial /\ Phases /\ History /\ LedgerAgrees

-----------------------------------------------------------------------------
(* The initial state satisfies the invariant.                              *)
LEMMA InitIInv == Init => IInv
<1> SUFFICES ASSUME Init PROVE IInv
  OBVIOUS
<1>1. TypeOK
  BY ApprovalAssumption
  DEF Init, TypeOK, Row, RowCheck, NoRow, CallerState, Idle, Decisions
<1>2. Serial /\ Phases
  BY DEF Init, Serial, Phases, Phase, Idle
<1>3. History /\ LedgerAgrees
  BY DEF Init, History, LedgerAgrees, NoRow
<1> QED
  BY <1>1, <1>2, <1>3 DEF IInv

(* A goroutine inside RespondApproval knows its Approval, decision and key. *)
LEMMA CallerTyped ==
  ASSUME TypeOK, NEW k \in Callers, caller[k].pc # "idle"
  PROVE  /\ caller[k].pc \in PCs
         /\ caller[k].a \in Approvals
         /\ caller[k].d \in Decisions
         /\ caller[k].key \in Keys
  BY DEF TypeOK, CallerState, Idle

(* Setting one field of a caller's record keeps it a caller's record.      *)
LEMMA GotoTyped ==
  ASSUME TypeOK, NEW k \in Callers, caller[k].pc # "idle", NEW pc \in PCs, Goto(k, pc)
  PROVE  /\ caller' \in [Callers -> CallerState]
         /\ caller'[k] = [pc |-> pc, a |-> caller[k].a, d |-> caller[k].d,
                          key |-> caller[k].key]
         /\ \A j \in Callers \ {k} : caller'[j] = caller[j]
         /\ mutex' = mutex
<1>1. caller[k] \in [pc: PCs, a: Approvals, d: Decisions, key: Keys]
  BY DEF TypeOK, CallerState, Idle
<1>2. caller'[k] = [pc |-> pc, a |-> caller[k].a, d |-> caller[k].d, key |-> caller[k].key]
  BY <1>1 DEF Goto, TypeOK
<1>3. \A j \in Callers \ {k} : caller'[j] = caller[j]
  BY DEF Goto, TypeOK
<1>4. \A j \in Callers : caller'[j] \in CallerState
  BY <1>1, <1>2, <1>3 DEF TypeOK, CallerState
<1>5. caller' \in [Callers -> CallerState]
  BY <1>4 DEF Goto, TypeOK
<1> QED
  BY <1>2, <1>3, <1>5 DEF Goto

(* A return leaves the caller idle and gives up the lock.                  *)
LEMMA ReturnTyped ==
  ASSUME TypeOK, NEW k \in Callers, Return(k)
  PROVE  /\ caller' \in [Callers -> CallerState]
         /\ caller'[k] = Idle
         /\ \A j \in Callers \ {k} : caller'[j] = caller[j]
         /\ mutex' = NoCaller
  BY DEF Return, TypeOK, CallerState

(* The caller that takes a step is alone: the others are idle.             *)
LEMMA Alone ==
  ASSUME Serial, NEW k \in Callers, caller[k].pc # "idle"
  PROVE  mutex = k /\ \A j \in Callers \ {k} : caller[j].pc = "idle"
  BY DEF Serial

(* Routing a request, losing the binding and a new call preserve the        *)
(* invariant.                                                              *)
LEMMA RoutingIInv ==
  ASSUME IInv, NEW a \in Approvals,
         Arrive(a) \/ CreateApproval(a) \/ LoseBinding
  PROVE  IInv'
<1> USE DEF IInv
<1>1. CASE Arrive(a)
  BY <1>1 DEF Arrive, TypeOK, Serial, Phases, Phase, History, LedgerAgrees
<1>2. CASE CreateApproval(a)
  <2>1. row[a] = NoRow /\ row' = [row EXCEPT ![a] = Pending]
    BY <1>2 DEF CreateApproval, History
  <2>2. TypeOK'
    BY <1>2, <2>1, ApprovalAssumption
    DEF CreateApproval, TypeOK, Row, RowCheck, Pending, Decisions
  <2>3. Serial'
    BY <1>2 DEF CreateApproval, Serial
  <2>4. Phases'
    <3> SUFFICES ASSUME NEW k \in Callers PROVE Phase(caller[k])'
      BY DEF Phases
    <3>1. CASE caller[k].pc = "idle"
      BY <1>2, <3>1 DEF CreateApproval, Phase
    <3>2. CASE caller[k].pc # "idle"
      <4>1. caller[k].a \in Approvals /\ caller[k].pc \in PCs
        BY <3>2, CallerTyped
      <4>2. caller[k].a # a
        <5>1. row[a].status = "none"
          BY <2>1 DEF NoRow
        <5>2. row[caller[k].a].status \in {"pending", "decided"}
          <6>1. Phase(caller[k])
            BY DEF Phases
          <6>2. CASE caller[k].pc = "claim"
            BY <6>1, <6>2 DEF Phase, Pending
          <6>3. CASE caller[k].pc \in {"write", "complete", "fail"}
            <7>1. \/ row[caller[k].a].status = "pending"
                  \/ row[caller[k].a].response = "written"
              BY <6>1, <6>3 DEF Phase, Dispatching
            <7>2. RowCheck(row[caller[k].a])
              BY <4>1 DEF TypeOK
            <7> QED
              BY <7>1, <7>2 DEF RowCheck, NoRow, Pending
          <6>4. CASE caller[k].pc = "save"
            BY <6>1, <6>4 DEF Phase
          <6> QED
            BY <4>1, <6>2, <6>3, <6>4 DEF PCs
        <5> QED
          BY <5>1, <5>2
      <4> QED
        BY <1>2, <2>1, <4>1, <4>2 DEF CreateApproval, Phases, Phase, TypeOK
    <3> QED
      BY <3>1, <3>2
  <2>5. History'
    BY <1>2, <2>1 DEF CreateApproval, History, TypeOK, NoRow, Pending
  <2>6. LedgerAgrees'
    BY <1>2, <2>1 DEF CreateApproval, LedgerAgrees, TypeOK, NoRow
  <2> QED
    BY <2>2, <2>3, <2>4, <2>5, <2>6
<1>3. CASE LoseBinding
  BY <1>3 DEF LoseBinding, TypeOK, Serial, Phases, Phase, History, LedgerAgrees
<1> QED
  BY <1>1, <1>2, <1>3

(* A new call of RespondApproval preserves the invariant.                  *)
LEMMA RespondIInv ==
  ASSUME IInv, NEW k \in Callers, NEW a \in Approvals, NEW d \in Decisions,
         NEW key \in Keys, Respond(k, a, d, key) \/ RespondAgain(k, a, d, key)
  PROVE  IInv'
<1> USE DEF IInv
<1>1. PICK pc \in {"claim", "save"} :
        /\ RespondTo(k, a, d, key, pc)
        /\ pc = "claim" => row[a] = Pending
        /\ pc = "save" => row[a].response = "written" /\ row[a].decision = d
  BY DEF Respond, RespondAgain, SameClaim
<1>2. /\ \A j \in Callers : caller[j].pc = "idle"
      /\ caller' = [caller EXCEPT ![k] = [pc |-> pc, a |-> a, d |-> d, key |-> key]]
      /\ mutex' = k
      /\ UNCHANGED <<row, pending, inserting, ledger, crashes, received, writes>>
  BY <1>1, ApprovalAssumption DEF RespondTo, ServiceFree, Serial
<1>3. TypeOK'
  <2>1. [pc |-> pc, a |-> a, d |-> d, key |-> key] \in CallerState
    BY DEF CallerState, PCs
  <2>2. caller' \in [Callers -> CallerState]
    BY <1>2, <2>1 DEF TypeOK
  <2> QED
    BY <1>2, <2>2 DEF TypeOK
<1>4. Serial'
  BY <1>2 DEF Serial, TypeOK
<1>5. Phases'
  <2>1. pc = "save" => row[a].status = "decided"
    BY <1>1 DEF TypeOK, RowCheck, NoRow, Pending
  <2>2. \A j \in Callers \ {k} : caller'[j] = caller[j]
    BY <1>2 DEF TypeOK
  <2>3. caller'[k] = [pc |-> pc, a |-> a, d |-> d, key |-> key]
    BY <1>2 DEF TypeOK
  <2>4. Phase(caller[k])'
    BY <1>1, <1>2, <2>1, <2>3 DEF Phase
  <2>5. \A j \in Callers \ {k} : Phase(caller[j])'
    BY <1>2, <2>2 DEF Phase
  <2> QED
    BY <2>4, <2>5 DEF Phases
<1>6. History' /\ LedgerAgrees'
  BY <1>2 DEF History, LedgerAgrees
<1> QED
  BY <1>3, <1>4, <1>5, <1>6

(* A step that moves one caller on under the lock keeps Serial and Phases   *)
(* when the row is as that caller expects it.                              *)
LEMMA GotoPhases ==
  ASSUME TypeOK, Serial, NEW k \in Callers, caller[k].pc # "idle",
         NEW pc \in PCs, Goto(k, pc), Phase(caller[k])'
  PROVE  Serial' /\ Phases'
<1>1. /\ mutex = k
      /\ \A j \in Callers \ {k} : caller[j].pc = "idle" /\ caller'[j] = caller[j]
  BY Alone, GotoTyped
<1>2. Serial'
  BY <1>1, GotoTyped DEF Serial
<1>3. \A j \in Callers \ {k} : Phase(caller[j])'
  BY <1>1 DEF Phase
<1> QED
  BY <1>2, <1>3 DEF Phases

(* So does a return, whatever it wrote.                                    *)
LEMMA ReturnPhases ==
  ASSUME TypeOK, Serial, NEW k \in Callers, caller[k].pc # "idle", Return(k)
  PROVE  Serial' /\ Phases'
<1>1. \A j \in Callers : caller'[j].pc = "idle"
  BY Alone, ReturnTyped DEF Idle
<1>2. \A j \in Callers : Phase(caller[j])'
  BY <1>1 DEF Phase
<1> QED
  BY <1>1, <1>2 DEF Serial, Phases

(* The claim preserves the invariant.                                      *)
LEMMA ClaimIInv ==
  ASSUME IInv, NEW k \in Callers, ClaimApprovalDispatch(k)
  PROVE  IInv'
<1> DEFINE c == caller[k]
<1> USE DEF IInv
<1>1. /\ c.pc = "claim"
      /\ UNCHANGED <<pending, inserting, ledger, crashes, received, writes>>
  BY DEF ClaimApprovalDispatch
<1>2. c.a \in Approvals /\ c.d \in Decisions /\ c.key \in Keys
  BY <1>1, CallerTyped
<1>3. row[c.a] = Pending /\ writes[c.a] = 0
  BY <1>1, <1>2 DEF Phases, Phase, History, Pending
<1>4. CASE /\ row' = [row EXCEPT ![c.a] = Claimed(@, c.d, c.key)]
           /\ Goto(k, "write") \/ Return(k)
  <2>1. row' = [row EXCEPT ![c.a] = Dispatching(c.d, c.key)]
    BY <1>3, <1>4 DEF Claimed, Dispatching
  <2>2. Dispatching(c.d, c.key) \in Row /\ RowCheck(Dispatching(c.d, c.key))
    BY <1>2, ApprovalAssumption DEF Row, RowCheck, Dispatching
  <2>3. "write" \in PCs
    BY DEF PCs
  <2>4. TypeOK'
    <3>1. caller' \in [Callers -> CallerState] /\ mutex' \in Callers \cup {NoCaller}
      <4>1. mutex \in Callers \cup {NoCaller} /\ caller[k].pc # "idle"
        BY <1>1 DEF TypeOK
      <4>2. CASE Goto(k, "write")
        BY <2>3, <4>1, <4>2, GotoTyped
      <4>3. CASE Return(k)
        BY <4>3, ReturnTyped
      <4> QED
        BY <1>4, <4>2, <4>3
    <3> QED
      BY <1>1, <1>2, <2>1, <2>2, <3>1 DEF TypeOK
  <2>5. ASSUME Goto(k, "write") PROVE Serial' /\ Phases'
    <3>1. caller'[k] = [pc |-> "write", a |-> c.a, d |-> c.d, key |-> c.key]
      BY <1>1, <2>3, <2>5, GotoTyped
    <3>2. row'[c.a] = Dispatching(c.d, c.key) /\ writes'[c.a] = 0
      BY <1>1, <1>2, <1>3, <2>1 DEF TypeOK
    <3>3. Phase(caller[k])'
      BY <3>1, <3>2 DEF Phase
    <3> QED
      BY <1>1, <2>3, <2>5, <3>3, GotoPhases
  <2>6. Serial' /\ Phases'
    BY <1>1, <1>4, <2>5, ReturnPhases
  <2>7. History'
    BY <1>1, <1>2, <1>3, <2>1 DEF History, TypeOK, Dispatching, NoRow, Pending
  <2>8. LedgerAgrees'
    BY <1>1, <1>2, <1>3, <2>1 DEF LedgerAgrees, TypeOK, Pending
  <2> QED
    BY <2>4, <2>6, <2>7, <2>8
<1>5. CASE Return(k) /\ UNCHANGED row
  <2>1. TypeOK'
    BY <1>1, <1>5, ReturnTyped DEF TypeOK
  <2>2. Serial' /\ Phases'
    BY <1>1, <1>5, ReturnPhases
  <2>3. History' /\ LedgerAgrees'
    BY <1>1, <1>5 DEF History, LedgerAgrees
  <2> QED
    BY <2>1, <2>2, <2>3
<1> QED
  BY <1>4, <1>5 DEF ClaimApprovalDispatch

(* The write preserves the invariant: it is the only one, so what the      *)
(* Provider received is this caller's decision.                            *)
LEMMA WriteIInv ==
  ASSUME IInv, NEW k \in Callers, Write(k)
  PROVE  IInv'
<1> DEFINE c == caller[k]
<1> USE DEF IInv
<1>1. /\ c.pc = "write"
      /\ writes' = [writes EXCEPT ![c.a] = @ + 1]
      /\ pending' = pending \ {c.a}
      /\ UNCHANGED <<row, inserting, ledger, crashes>>
  BY DEF Write
<1>2. c.a \in Approvals /\ c.d \in Decisions /\ c.key \in Keys
  BY <1>1, CallerTyped
<1>3. row[c.a] = Dispatching(c.d, c.key) /\ writes[c.a] = 0
  BY <1>1, <1>2 DEF Phases, Phase
<1>4. PICK ok \in BOOLEAN, reached \in BOOLEAN :
        /\ ok => reached
        /\ received' = IF reached THEN [received EXCEPT ![c.a] = c.d] ELSE received
        /\ Goto(k, AfterWrite(ok))
  BY DEF Write
<1>5. AfterWrite(ok) \in PCs /\ (AfterWrite(ok) = "complete" => ok)
  BY <1>4 DEF AfterWrite, PCs
<1>6. TypeOK'
  <2>1. received' \in [Approvals -> Decisions \cup {NoDecision}]
    BY <1>2, <1>4 DEF TypeOK
  <2>2. writes' \in [Approvals -> Nat]
    BY <1>1, <1>2 DEF TypeOK
  <2> QED
    BY <1>1, <1>4, <1>5, <2>1, <2>2, GotoTyped DEF TypeOK
<1>7. Phase(caller[k])'
  <2>1. caller'[k] = [pc |-> AfterWrite(ok), a |-> c.a, d |-> c.d, key |-> c.key]
    BY <1>1, <1>4, <1>5, GotoTyped
  <2>2. AfterWrite(ok) = "complete" => received'[c.a] = c.d
    BY <1>2, <1>4, <1>5 DEF TypeOK
  <2>3. AfterWrite(ok) \in {"complete", "fail"}
    BY DEF AfterWrite
  <2> QED
    BY <1>1, <1>3, <2>1, <2>2, <2>3 DEF Phase
<1>8. Serial' /\ Phases'
  BY <1>1, <1>4, <1>5, <1>7, GotoPhases
<1>9. History'
  <2>1. /\ \A a \in Approvals \ {c.a} : writes'[a] = writes[a] /\ received'[a] = received[a]
        /\ writes'[c.a] = 1
    BY <1>1, <1>2, <1>3, <1>4 DEF TypeOK
  <2>2. row[c.a].response = "dispatching" /\ row[c.a].status = "pending" /\ row[c.a] # NoRow
    BY <1>3 DEF Dispatching, NoRow
  <2> QED
    BY <1>1, <1>2, <2>1, <2>2 DEF History
<1>10. LedgerAgrees'
  BY <1>1 DEF LedgerAgrees
<1> QED
  BY <1>6, <1>8, <1>9, <1>10

(* The completion preserves the invariant.                                 *)
LEMMA CompleteIInv ==
  ASSUME IInv, NEW k \in Callers, CompleteApprovalDispatch(k)
  PROVE  IInv'
<1> DEFINE c == caller[k]
<1> USE DEF IInv
<1>1. /\ c.pc = "complete"
      /\ UNCHANGED <<pending, inserting, ledger, crashes, received, writes>>
  BY DEF CompleteApprovalDispatch
<1>2. c.a \in Approvals /\ c.d \in Decisions /\ c.key \in Keys
  BY <1>1, CallerTyped
<1>3. row[c.a] = Dispatching(c.d, c.key) /\ received[c.a] = c.d
  BY <1>1, <1>2 DEF Phases, Phase
<1>4. PICK stored \in BOOLEAN, ok \in BOOLEAN :
        /\ ok => stored
        /\ row' = IF stored THEN [row EXCEPT ![c.a].status = "decided",
                                             ![c.a].response = "written"]
                            ELSE row
        /\ Goto(k, AfterComplete(ok))
  BY DEF CompleteApprovalDispatch
<1>5. AfterComplete(ok) \in PCs
  BY DEF AfterComplete, PCs
<1> DEFINE decided == [status |-> "decided", response |-> "written",
                       decision |-> c.d, key |-> c.key]
<1>6. row' = IF stored THEN [row EXCEPT ![c.a] = decided] ELSE row
  BY <1>2, <1>3, <1>4 DEF TypeOK, Dispatching
<1>7. decided \in Row /\ RowCheck(decided)
  BY <1>2, ApprovalAssumption DEF Row, RowCheck
<1> HIDE DEF decided
<1>8. TypeOK'
  BY <1>1, <1>2, <1>4, <1>5, <1>6, <1>7, GotoTyped DEF TypeOK
<1>9. Phase(caller[k])'
  <2>1. caller'[k] = [pc |-> AfterComplete(ok), a |-> c.a, d |-> c.d, key |-> c.key]
    BY <1>1, <1>4, <1>5, GotoTyped
  <2>2. CASE stored
    <3>1. row'[c.a] = decided
      BY <1>2, <1>6, <2>2 DEF TypeOK
    <3> QED
      BY <2>1, <3>1 DEF Phase, AfterComplete, decided
  <2>3. CASE ~ stored
    BY <1>3, <1>4, <1>6, <2>1, <2>3 DEF Phase, AfterComplete
  <2> QED
    BY <2>2, <2>3
<1>10. Serial' /\ Phases'
  BY <1>1, <1>4, <1>5, <1>9, GotoPhases
<1>11. History' /\ LedgerAgrees'
  <2>1. CASE stored
    <3>1. /\ row'[c.a] = decided
          /\ \A a \in Approvals \ {c.a} : row'[a] = row[a]
      BY <1>2, <1>6, <2>1 DEF TypeOK
    <3>2. row[c.a].status = "pending" /\ row[c.a] # NoRow
      BY <1>3 DEF Dispatching, NoRow
    <3>3. History'
      BY <1>1, <1>2, <1>3, <3>1, <3>2 DEF History, decided
    <3>4. LedgerAgrees'
      BY <1>1, <1>2, <3>1, <3>2 DEF LedgerAgrees, TypeOK
    <3> QED
      BY <3>3, <3>4
  <2>2. CASE ~ stored
    BY <1>1, <1>6, <2>2 DEF History, LedgerAgrees
  <2> QED
    BY <2>1, <2>2
<1> QED
  BY <1>8, <1>10, <1>11

(* The recorded failure preserves the invariant.                           *)
LEMMA FailIInv ==
  ASSUME IInv, NEW k \in Callers, FailApprovalDispatch(k)
  PROVE  IInv'
<1> DEFINE c == caller[k]
<1> USE DEF IInv
<1>1. /\ c.pc = "fail"
      /\ Return(k)
      /\ UNCHANGED <<pending, inserting, ledger, crashes, received, writes>>
  BY DEF FailApprovalDispatch
<1>2. c.a \in Approvals /\ c.d \in Decisions /\ c.key \in Keys
  BY <1>1, CallerTyped
<1>3. row[c.a] = Dispatching(c.d, c.key) \/ row[c.a].response = "written"
  BY <1>1, <1>2 DEF Phases, Phase
<1> DEFINE given == [status |-> "expired", response |-> "ambiguous",
                     decision |-> c.d, key |-> c.key]
<1>4. \/ row' = row
      \/ row' = [row EXCEPT ![c.a] = given] /\ row[c.a] = Dispatching(c.d, c.key)
  BY <1>2, <1>3 DEF FailApprovalDispatch, InFlight, TypeOK, Dispatching
<1>5. given \in Row /\ RowCheck(given)
  BY <1>2, ApprovalAssumption DEF Row, RowCheck
<1>6. given.response = "ambiguous" /\ given.status = "expired"
  OBVIOUS
<1> HIDE DEF given
<1>7. TypeOK'
  BY <1>1, <1>2, <1>4, <1>5, ReturnTyped DEF TypeOK
<1>8. Serial' /\ Phases'
  BY <1>1, ReturnPhases
<1>9. History' /\ LedgerAgrees'
  <2>2. CASE row' = [row EXCEPT ![c.a] = given] /\ row[c.a] = Dispatching(c.d, c.key)
    <3>0. row[c.a].status = "pending" /\ row[c.a] # NoRow
      BY <2>2 DEF Dispatching, NoRow
    <3>1. row'[c.a] = given /\ \A a \in Approvals \ {c.a} : row'[a] = row[a]
      BY <1>2, <2>2 DEF TypeOK
    <3>2. History'
      BY <1>1, <1>2, <1>6, <3>0, <3>1 DEF History
    <3>3. LedgerAgrees'
      BY <1>1, <1>2, <3>0, <3>1 DEF LedgerAgrees, TypeOK
    <3> QED
      BY <3>2, <3>3
  <2>3. CASE row' = row
    BY <1>1, <2>3 DEF History, LedgerAgrees
  <2> QED
    BY <1>4, <2>2, <2>3
<1> QED
  BY <1>7, <1>8, <1>9

(* Recording the response preserves the invariant.                         *)
LEMMA SaveIInv ==
  ASSUME IInv, NEW k \in Callers, SaveRecord(k)
  PROVE  IInv'
<1> DEFINE c == caller[k]
<1> USE DEF IInv
<1>1. /\ c.pc = "save"
      /\ Return(k)
      /\ ledger' = ledger \cup {[key |-> c.key, a |-> c.a, d |-> c.d]} \/ ledger' = ledger
      /\ UNCHANGED <<row, pending, inserting, crashes, received, writes>>
  BY DEF SaveRecord
<1>2. c.a \in Approvals /\ c.d \in Decisions /\ c.key \in Keys
  BY <1>1, CallerTyped
<1>3. row[c.a].status = "decided" /\ row[c.a].decision = c.d
  BY <1>1, <1>2 DEF Phases, Phase
<1>4. TypeOK'
  BY <1>1, <1>2, ReturnTyped DEF TypeOK
<1>5. Serial' /\ Phases'
  BY <1>1, ReturnPhases
<1>6. History'
  BY <1>1 DEF History
<1>7. LedgerAgrees'
  BY <1>1, <1>3 DEF LedgerAgrees
<1> QED
  BY <1>4, <1>5, <1>6, <1>7

(* A row after the recovery: the pending ones are given up, and nothing    *)
(* else changes.                                                           *)
LEMMA RecoveredRow ==
  ASSUME NEW r \in Row, RowCheck(r)
  PROVE  /\ Recovered(r) \in Row
         /\ RowCheck(Recovered(r))
         /\ r.status # "pending" => Recovered(r) = r
         /\ r.status = "pending" => /\ Recovered(r).status = "expired"
                                    /\ Recovered(r).response = "ambiguous"
<1>1. CASE r.status # "pending"
  BY <1>1 DEF Recovered
<1>2. CASE r.status = "pending"
  <2>1. PICK d \in Decisions :
          Recovered(r) = [status |-> "expired", response |-> "ambiguous",
                          decision |-> d, key |-> r.key]
    BY <1>2 DEF Recovered, Row, Decisions
  <2> QED
    BY <1>2, <2>1, ApprovalAssumption DEF Row, RowCheck
<1> QED
  BY <1>1, <1>2

(* A daemon restart preserves the invariant.                               *)
LEMMA RestartIInv ==
  ASSUME IInv, Restart
  PROVE  IInv'
<1> USE DEF IInv
<1>1. /\ crashes' = crashes + 1
      /\ row' = [a \in Approvals |-> Recovered(row[a])]
      /\ pending' = {} /\ inserting' = {} /\ mutex' = NoCaller
      /\ caller' = [k \in Callers |-> Idle]
      /\ UNCHANGED <<ledger, received, writes>>
  BY DEF Restart
<1>2. \A a \in Approvals : row[a] \in Row /\ RowCheck(row[a])
  BY DEF TypeOK
<1>3. \A a \in Approvals :
        /\ row'[a] \in Row
        /\ RowCheck(row'[a])
        /\ row[a].status # "pending" => row'[a] = row[a]
        /\ row[a].status = "pending" => /\ row'[a].status = "expired"
                                        /\ row'[a].response = "ambiguous"
  BY <1>1, <1>2, RecoveredRow
<1>4. TypeOK'
  <2>1. caller' \in [Callers -> CallerState]
    BY <1>1 DEF CallerState
  <2>2. row' \in [Approvals -> Row] /\ \A a \in Approvals : RowCheck(row'[a])
    BY <1>1, <1>3
  <2> QED
    BY <1>1, <2>1, <2>2 DEF TypeOK, RowCheck, NoRow, Pending
<1>5. Serial' /\ Phases'
  BY <1>1 DEF Serial, Phases, Phase, Idle
<1>6. History'
  BY <1>1, <1>3 DEF History
<1>7. LedgerAgrees'
  BY <1>1, <1>3 DEF LedgerAgrees, TypeOK
<1> QED
  BY <1>4, <1>5, <1>6, <1>7

(* Every step preserves the invariant.                                     *)
LEMMA NextIInv == IInv /\ [Next]_vars => IInv'
<1> SUFFICES ASSUME IInv, [Next]_vars PROVE IInv'
  OBVIOUS
<1>1. ASSUME NEW a \in Approvals, Arrive(a) \/ CreateApproval(a) PROVE IInv'
  BY <1>1, RoutingIInv
<1>2. CASE LoseBinding
  <2>1. PICK a \in Approvals : TRUE
    BY <1>2 DEF LoseBinding, IInv, TypeOK
  <2> QED
    BY <1>2, <2>1, RoutingIInv
<1>3. ASSUME NEW k \in Callers, NEW a \in Approvals, NEW d \in Decisions, NEW key \in Keys,
             Respond(k, a, d, key) \/ RespondAgain(k, a, d, key)
      PROVE  IInv'
  BY <1>3, RespondIInv
<1>4. ASSUME NEW k \in Callers, Step(k) PROVE IInv'
  BY <1>4, ClaimIInv, WriteIInv, CompleteIInv, FailIInv, SaveIInv DEF Step
<1>5. CASE Restart
  BY <1>5, RestartIInv
<1>6. CASE UNCHANGED vars
  BY <1>6 DEF vars, IInv, TypeOK, Serial, Phases, Phase, History, LedgerAgrees, RowCheck
<1> QED
  BY <1>1, <1>2, <1>3, <1>4, <1>5, <1>6 DEF Next

(* The inductive invariant holds in every reachable state.                 *)
LEMMA DispatchInvariant == Spec => []IInv
  BY InitIInv, NextIInv, PTL DEF Spec

(* Every row the dispatch, its failure and the recovery write meets the    *)
(* CHECK constraint of the approvals table, so none of these updates is    *)
(* refused by it.                                                          *)
THEOREM RowsWellFormed == Spec => []TypeOK
<1>1. IInv => TypeOK
  BY DEF IInv
<1> QED
  BY <1>1, DispatchInvariant, PTL

(* RespondApproval writes at most one answer to the Provider, whatever the *)
(* retries, failed writes, failed completions and restarts.                *)
THEOREM ProviderAnsweredOnce == Spec => []AtMostOneWrite
<1>1. IInv => AtMostOneWrite
  BY DEF IInv, History, AtMostOneWrite
<1> QED
  BY <1>1, DispatchInvariant, PTL

(* An idempotency record of approval.respond repeats the decision the row  *)
(* shows.                                                                  *)
THEOREM LedgerRepeatsRow == Spec => []LedgerAgrees
<1>1. IInv => LedgerAgrees
  BY DEF IInv
<1> QED
  BY <1>1, DispatchInvariant, PTL

(* The outcome a row stands for is open exactly while it can still change. *)
LEMMA OutcomeOf ==
  ASSUME NEW r
  PROVE  /\ r.status = "decided" => Outcome(r) = r.decision
         /\ r.status = "expired" => Outcome(r) = "unknown"
         /\ r.status \notin {"decided", "expired"} => Outcome(r) = "open"
  BY DEF Outcome

outcome == [a \in Approvals |-> Outcome(row[a])]

(* A step that changes neither rows nor the Provider is a stutter.         *)
LEMMA SameOutcome ==
  ASSUME UNCHANGED <<row, received>>
  PROVE  UNCHANGED <<outcome, received>>
  BY DEF outcome

(* Every step of the dispatch is a step of the contract or a stutter.      *)
LEMMA NextContract ==
  ASSUME IInv, [Next]_vars
  PROVE  Contract!Next \/ UNCHANGED <<outcome, received>>
<1> USE DEF IInv
<1>1. ASSUME NEW a \in Approvals, CreateApproval(a)
      PROVE  UNCHANGED <<outcome, received>>
  <2>1. row[a] = NoRow /\ row' = [row EXCEPT ![a] = Pending] /\ received' = received
    BY <1>1 DEF CreateApproval, History
  <2>2. \A b \in Approvals : Outcome(row'[b]) = Outcome(row[b])
    BY <2>1, OutcomeOf DEF TypeOK, NoRow, Pending
  <2> QED
    BY <2>1, <2>2 DEF outcome
<1>2. ASSUME NEW k \in Callers, ClaimApprovalDispatch(k)
      PROVE  UNCHANGED <<outcome, received>>
  <2> DEFINE c == caller[k]
  <2>1. c.a \in Approvals /\ row[c.a] = Pending /\ received' = received
    BY <1>2, CallerTyped DEF ClaimApprovalDispatch, Phases, Phase
  <2>2. row' = [row EXCEPT ![c.a] = Dispatching(c.d, c.key)] \/ row' = row
    BY <1>2, <2>1 DEF ClaimApprovalDispatch, Claimed, Dispatching
  <2>3. \A b \in Approvals : Outcome(row'[b]) = Outcome(row[b])
    BY <2>1, <2>2, OutcomeOf DEF TypeOK, Dispatching, Pending
  <2> QED
    BY <2>1, <2>3 DEF outcome
<1>3. ASSUME NEW k \in Callers, Write(k)
      PROVE  Contract!Next \/ UNCHANGED <<outcome, received>>
  <2> DEFINE c == caller[k]
  <2>1. c.pc = "write" /\ row' = row
    BY <1>3 DEF Write
  <2>2. c.a \in Approvals /\ c.d \in Decisions
    BY <2>1, CallerTyped
  <2>3. row[c.a].status = "pending" /\ received[c.a] = NoDecision
    <3>1. row[c.a] = Dispatching(c.d, c.key) /\ writes[c.a] = 0
      BY <2>1, <2>2 DEF Phases, Phase
    <3> QED
      BY <2>2, <3>1 DEF History, Dispatching
  <2>4. received' = [received EXCEPT ![c.a] = c.d] \/ received' = received
    BY <1>3 DEF Write
  <2>5. outcome' = outcome /\ outcome[c.a] = "open"
    BY <2>1, <2>2, <2>3, OutcomeOf DEF outcome
  <2>6. CASE received' = [received EXCEPT ![c.a] = c.d]
    <3>1. Contract!Receive(c.a, c.d)
      BY <2>3, <2>5, <2>6 DEF Contract!Receive, outcome
    <3> QED
      BY <2>2, <3>1 DEF Contract!Next
  <2> QED
    BY <2>4, <2>5, <2>6
<1>4. ASSUME NEW k \in Callers, CompleteApprovalDispatch(k)
      PROVE  Contract!Next \/ UNCHANGED <<outcome, received>>
  <2> DEFINE c == caller[k]
  <2>1. c.pc = "complete" /\ received' = received
    BY <1>4 DEF CompleteApprovalDispatch
  <2>2. c.a \in Approvals /\ c.d \in Decisions
    BY <2>1, CallerTyped
  <2>3. row[c.a] = Dispatching(c.d, c.key) /\ received[c.a] = c.d
    BY <2>1, <2>2 DEF Phases, Phase
  <2>4. \/ row' = [row EXCEPT ![c.a] = [status |-> "decided", response |-> "written",
                                        decision |-> c.d, key |-> c.key]]
        \/ row' = row
    BY <1>4, <2>2, <2>3 DEF CompleteApprovalDispatch, TypeOK, Dispatching
  <2>5. CASE row' = [row EXCEPT ![c.a] = [status |-> "decided", response |-> "written",
                                          decision |-> c.d, key |-> c.key]]
    <3>1. Outcome(row[c.a]) = "open" /\ Outcome(row'[c.a]) = c.d
      BY <2>2, <2>3, <2>5, OutcomeOf DEF TypeOK, Dispatching
    <3>2. \A b \in Approvals \ {c.a} : row'[b] = row[b]
      BY <2>5 DEF TypeOK
    <3>3. Contract!Decide(c.a)
      BY <2>1, <2>2, <2>3, <3>1, <3>2, ApprovalAssumption DEF Contract!Decide
    <3> QED
      BY <2>2, <3>3 DEF Contract!Next
  <2> QED
    BY <2>1, <2>4, <2>5, SameOutcome
<1>5. ASSUME NEW k \in Callers, FailApprovalDispatch(k)
      PROVE  Contract!Next \/ UNCHANGED <<outcome, received>>
  <2> DEFINE c == caller[k]
  <2>1. c.pc = "fail" /\ received' = received
    BY <1>5 DEF FailApprovalDispatch
  <2>2. c.a \in Approvals /\ (row[c.a] = Dispatching(c.d, c.key) \/ row[c.a].response = "written")
    BY <2>1, CallerTyped DEF Phases, Phase
  <2>3. \/ /\ row[c.a] = Dispatching(c.d, c.key)
           /\ row' = [row EXCEPT ![c.a] = [status |-> "expired", response |-> "ambiguous",
                                           decision |-> c.d, key |-> c.key]]
        \/ row' = row
    BY <1>5, <2>2 DEF FailApprovalDispatch, InFlight, TypeOK, Dispatching
  <2>4. CASE /\ row[c.a] = Dispatching(c.d, c.key)
             /\ row' = [row EXCEPT ![c.a] = [status |-> "expired", response |-> "ambiguous",
                                             decision |-> c.d, key |-> c.key]]
    <3>1. Outcome(row[c.a]) = "open" /\ Outcome(row'[c.a]) = "unknown"
      BY <2>2, <2>4, OutcomeOf DEF TypeOK, Dispatching
    <3>2. \A b \in Approvals \ {c.a} : row'[b] = row[b]
      BY <2>4 DEF TypeOK
    <3>3. Contract!GiveUp({c.a})
      BY <2>1, <2>2, <3>1, <3>2 DEF Contract!GiveUp
    <3> QED
      BY <2>2, <3>3 DEF Contract!Next
  <2> QED
    BY <2>1, <2>3, <2>4, SameOutcome
<1>6. CASE Restart
  <2> DEFINE open == {a \in Approvals : row[a].status = "pending"}
  <2>1. row' = [a \in Approvals |-> Recovered(row[a])] /\ received' = received
    BY <1>6 DEF Restart
  <2>2. \A a \in Approvals : row[a] \in Row /\ RowCheck(row[a])
    BY DEF TypeOK
  <2>3. \A a \in Approvals :
          Outcome(row'[a]) = IF a \in open THEN "unknown" ELSE Outcome(row[a])
    BY <2>1, <2>2, RecoveredRow, OutcomeOf
  <2>4. \A a \in open : Outcome(row[a]) = "open"
    BY OutcomeOf
  <2>5. Contract!GiveUp(open)
    BY <2>1, <2>3, <2>4 DEF Contract!GiveUp
  <2> QED
    BY <2>5 DEF Contract!Next
<1>7. CASE UNCHANGED <<row, received>>
  BY <1>7, SameOutcome
<1>8. \A k \in Callers : SaveRecord(k) => UNCHANGED <<row, received>>
  BY DEF SaveRecord
<1>9. \A a \in Approvals : Arrive(a) => UNCHANGED <<row, received>>
  BY DEF Arrive
<1>10. LoseBinding \/ UNCHANGED vars => UNCHANGED <<row, received>>
  BY DEF LoseBinding, vars
<1>11. \A k \in Callers, a \in Approvals, d \in Decisions, key \in Keys :
         Respond(k, a, d, key) \/ RespondAgain(k, a, d, key) => UNCHANGED <<row, received>>
  BY DEF Respond, RespondAgain, RespondTo
<1> QED
  BY <1>1, <1>2, <1>3, <1>4, <1>5, <1>6, <1>7, <1>8, <1>9, <1>10, <1>11 DEF Next, Step

(* The dispatch transaction of RespondApproval, with its failures and the  *)
(* recovery after a restart, implements the Approval contract: one answer, *)
(* shown as decided only with the decision the Provider received.          *)
THEOREM DispatchImplementsContract == Spec => ContractSpec
<1>1. Init => Contract!Init
  BY OutcomeOf DEF Init, Contract!Init, NoRow
<1>2. IInv /\ [Next]_vars => [Contract!Next]_<<outcome, received>>
  BY NextContract
<1> QED
  BY <1>1, <1>2, DispatchInvariant, PTL DEF Spec, ContractSpec, Contract!Spec, outcome

=============================================================================
