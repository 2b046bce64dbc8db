-------------------------- MODULE ApprovalContract --------------------------
(***************************************************************************)
(* What Approval dispatch promises (phase 2 design, "Approval dispatch     *)
(* transaction"; test plan, invariant 6): the Provider receives at most    *)
(* one answer to an Approval request, the Approval is shown as decided     *)
(* only with the decision that was received, and one whose answer is       *)
(* uncertain is given up for good.                                         *)
(***************************************************************************)
CONSTANTS
  Approvals,  \* Approval IDs
  Decisions,  \* approve, deny, cancel
  NoDecision  \* nothing received

VARIABLES
  outcome,    \* "open", "unknown" or the decision shown to every client
  received    \* the decision the Provider received

Init ==
  /\ outcome = [a \in Approvals |-> "open"]
  /\ received = [a \in Approvals |-> NoDecision]

(* The answer reaches the Provider, once.                                  *)
Receive(a, d) ==
  /\ outcome[a] = "open"
  /\ received[a] = NoDecision
  /\ received' = [received EXCEPT ![a] = d]
  /\ UNCHANGED outcome

Decide(a) ==
  /\ outcome[a] = "open"
  /\ received[a] # NoDecision
  /\ outcome' = [outcome EXCEPT ![a] = received[a]]
  /\ UNCHANGED received

(* A daemon restart gives up every open Approval at once.                  *)
GiveUp(as) ==
  /\ \A a \in as : outcome[a] = "open"
  /\ outcome' = [a \in Approvals |-> IF a \in as THEN "unknown" ELSE outcome[a]]
  /\ UNCHANGED received

Next ==
  \/ \E a \in Approvals, d \in Decisions : Receive(a, d)
  \/ \E a \in Approvals : Decide(a)
  \/ \E as \in SUBSET Approvals : GiveUp(as)

Spec == Init /\ [][Next]_<<outcome, received>>

=============================================================================
