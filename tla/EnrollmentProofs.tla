------------------------- MODULE EnrollmentProofs -------------------------
(***************************************************************************)
(* Proofs about Enrollment for any number of enrollments, profiles,        *)
(* credentials and restarts, and any bound on revisions: staging is owned, *)
(* an open enrollment keeps its credential row, a Vault item is confirmed, *)
(* a bound profile has a healthy item, and a logout, finished or only      *)
(* reserved, prevails over late seals and commits.                         *)
(*                                                                         *)
(* The inductive invariant IInv has three parts: the rows and directories  *)
(* agree (RowsInv), the method that holds SessionService.mu is right about *)
(* the rows it read (HandlerFits), and every staging directory belongs to  *)
(* an open enrollment or to the step that will remove it (StagingInv).     *)
(***************************************************************************)
EXTENDS Enrollment, TLAPS

(* A credential with its Vault item.                                       *)
CredentialRecord == [status : CredentialStatus, revision : Revisions, item : BOOLEAN]
(* A runtime profile.                                                      *)
ProfileRecord == [revision : Revisions, enabled : BOOLEAN, cred : Credentials \cup {None}]
(* The method that runs and its locals.                                    *)
HandlerRecord ==
  [pc : PCs, e : Enrollments \cup {None}, p : Profiles \cup {None},
   c : Credentials \cup {None}, paths : SUBSET Enrollments, tuple : Tuples]

(* The types of the rows.                                                  *)
RowTypes ==
  /\ enrollment \in [Enrollments -> EnrollmentRecord]
  /\ credential \in [Credentials -> CredentialRecord]
  /\ profile \in [Profiles -> ProfileRecord]
(* The types of the other variables.                                       *)
RestTypes ==
  /\ account \in [revision : Revisions, enabled : BOOLEAN]
  /\ edits \in 0..MaxEdits
  /\ due \subseteq Enrollments /\ staging \subseteq Enrollments
  /\ revoking \subseteq Credentials /\ home \subseteq Credentials
  /\ active \subseteq Credentials /\ orphaned \subseteq Credentials
  /\ runtime \in [Credentials -> Revisions \cup {None}]
  /\ unlocked \in BOOLEAN
  /\ daemon \in {"up", "down"}
  /\ crashes \in 0..MaxCrashes
(* The type of the running method.                                         *)
HandlerType == handler \in HandlerRecord

(* An open enrollment has a profile and a credential row.                  *)
OpenInv ==
  \A e \in Enrollments : IsOpen(e) =>
    /\ enrollment[e].profile \in Profiles /\ enrollment[e].cred \in Credentials
    /\ credential[enrollment[e].cred].status # "none"

(* A runtime is only ever started on a sealed credential, and only a       *)
(* logout takes its item away: what finalize commits was confirmed.        *)
RuntimeInv ==
  \A c \in Credentials :
    runtime[c] # None => credential[c].item \/ credential[c].status = "revoked"

(* A reservation has its credential row.                                   *)
RevokingInv == \A c \in revoking : credential[c].status # "none"

(* Only a healthy credential has a Vault item.                             *)
ItemInv == \A c \in Credentials : credential[c].item => credential[c].status = "healthy"

(* The rows agree.                                                         *)
RowsInv ==
  /\ OpenInv /\ SealedIsConfirmed /\ BoundIsSealed /\ RevocationHolds
  /\ RuntimeInv /\ RevokingInv /\ ItemInv

(* What the running method knows at each of its steps. Nobody else changes *)
(* the row of its enrollment.                                              *)
HandlerFits ==
  /\ handler.pc \notin {"idle", "home", "finalize"} => handler.e \in Enrollments
  /\ handler.pc \in {"expire", "stage", "insert"} =>
       /\ handler.p \in Profiles /\ handler.c \in Credentials
       /\ enrollment[handler.e].state = "none"
  /\ handler.pc \in {"validate", "await"} => enrollment[handler.e].state = "validating"
  /\ handler.pc \in {"attest", "check", "seal"} => enrollment[handler.e].state = "awaiting"
  /\ handler.pc \in {"home", "finalize"} =>
       /\ handler.c \in Credentials
       /\ handler.c \in revoking \/ credential[handler.c].status = "revoked"
  /\ handler.pc = "finalize" => handler.c \notin home

(* The staging directory of e has an owner: the open enrollment, or the    *)
(* running method, which removes it.                                       *)
Guarded(e) ==
  \/ IsOpen(e)
  \/ handler.pc \in {"insert", "remove"} /\ handler.e = e
  \/ handler.pc = "expire" /\ e \in handler.paths

(* While the daemon is up every staging directory has an owner.            *)
StagingInv == daemon = "up" => \A e \in staging : Guarded(e)

(* The inductive invariant.                                                *)
IInv == RowTypes /\ RestTypes /\ HandlerType /\ RowsInv /\ HandlerFits /\ StagingInv

-----------------------------------------------------------------------------
(* Every row has its type.                                                 *)
LEMMA RowFacts ==
  ASSUME RowTypes
  PROVE  /\ \A e \in Enrollments : enrollment[e] \in EnrollmentRecord
         /\ \A c \in Credentials : credential[c] \in CredentialRecord
         /\ \A p \in Profiles : profile[p] \in ProfileRecord
  BY DEF RowTypes

(* The initial records have their types.                                   *)
LEMMA Constants ==
  /\ NoTuple \in Tuples /\ NoEnrollment \in EnrollmentRecord
  /\ NoCredential \in CredentialRecord /\ Idle \in HandlerRecord
  /\ 0 \in Revisions /\ 1 \in Revisions
<1>1. 0 \in Revisions /\ 1 \in Revisions
  BY EnrollmentAssumption DEF Revisions
<1>2. NoTuple \in Tuples
  BY <1>1 DEF NoTuple, Tuples
<1>3. NoEnrollment \in EnrollmentRecord
  BY <1>2 DEF NoEnrollment, EnrollmentRecord, States
<1>4. NoCredential \in CredentialRecord
  BY <1>1 DEF NoCredential, CredentialRecord, CredentialStatus
<1>5. Idle \in HandlerRecord
  BY <1>2 DEF Idle, HandlerRecord, PCs
<1> QED
  BY <1>1, <1>2, <1>3, <1>4, <1>5

(* A new database satisfies the invariant.                                 *)
LEMMA InitInv == Init => IInv
<1> SUFFICES ASSUME Init PROVE IInv
  OBVIOUS
<1>1. RowTypes
  <2>1. [revision |-> 1, enabled |-> TRUE, cred |-> None] \in ProfileRecord
    BY Constants DEF ProfileRecord
  <2> QED
    BY <2>1, Constants DEF Init, RowTypes
<1>2. RestTypes
  <2>1. 0 \in 0..MaxEdits /\ 0 \in 0..MaxCrashes
    BY EnrollmentAssumption
  <2>2. [revision |-> 1, enabled |-> TRUE] \in [revision : Revisions, enabled : BOOLEAN]
    BY Constants
  <2> QED
    BY <2>1, <2>2 DEF Init, RestTypes
<1>3. HandlerType
  BY Constants DEF Init, HandlerType
<1>4. RowsInv
  <2>1. \A e \in Enrollments : ~IsOpen(e)
    BY DEF Init, IsOpen, NoEnrollment, Open
  <2>2. OpenInv /\ RevokingInv /\ RuntimeInv /\ ItemInv
    BY <2>1 DEF Init, OpenInv, RevokingInv, RuntimeInv, ItemInv, NoCredential
  <2>3. SealedIsConfirmed /\ BoundIsSealed
    BY DEF Init, SealedIsConfirmed, BoundIsSealed, NoCredential
  <2>4. RevocationHolds
    BY DEF Init, RevocationHolds, InUse, NoCredential
  <2> QED
    BY <2>2, <2>3, <2>4 DEF RowsInv
<1>5. HandlerFits
  BY DEF Init, HandlerFits, Idle
<1>6. StagingInv
  BY DEF Init, StagingInv
<1> QED
  BY <1>1, <1>2, <1>3, <1>4, <1>5, <1>6 DEF IInv

-----------------------------------------------------------------------------
(* What the rows are after one enrollment is finished.                     *)
LEMMA CloseFacts ==
  ASSUME RowTypes, NEW e \in Enrollments, NEW s \in States, enrollment[e].cred \in Credentials
  PROVE  /\ Closed(e, s) \in [Enrollments -> EnrollmentRecord]
         /\ \A d \in Enrollments \ {e} : Closed(e, s)[d] = enrollment[d]
         /\ Closed(e, s)[e].state = s
<1> DEFINE R == enrollment[e]
           A == [R EXCEPT !.state = s]
           B == [R EXCEPT !.state = s, !.cred = None]
<1>1. R \in EnrollmentRecord
  BY RowFacts
<1>2. A \in EnrollmentRecord /\ B \in EnrollmentRecord /\ A.state = s /\ B.state = s
  BY <1>1 DEF EnrollmentRecord
<1>3. Closed(e, s) = [enrollment EXCEPT ![e] = A] \/ Closed(e, s) = [enrollment EXCEPT ![e] = B]
  BY <1>1 DEF Closed, RowTypes, EnrollmentRecord
<1> HIDE DEF A, B, R
<1>4. enrollment \in [Enrollments -> EnrollmentRecord]
  BY DEF RowTypes
<1> QED
  BY <1>2, <1>3, <1>4

(* What deleting credential rows does.                                     *)
LEMMA DeleteFacts ==
  ASSUME RowTypes, NEW cs, Delete(cs)
  PROVE  /\ credential' \in [Credentials -> CredentialRecord]
         /\ revoking' = revoking \ cs
         /\ \A c \in Credentials : c \in cs => credential'[c] = NoCredential
         /\ \A c \in Credentials : c \notin cs => credential'[c] = credential[c]
  BY Constants, RowFacts DEF Delete

(* The states an enrollment is finished in without a seal.                 *)
Ended == {"expired", "cancelled", "failed"}

(* FinishAuthEnrollment touches one enrollment and deletes at most a       *)
(* credential that was never sealed and that no other enrollment names.    *)
LEMMA FinishFacts ==
  ASSUME RowTypes, RestTypes, RowsInv, NEW e \in Enrollments, NEW s \in Ended, IsOpen(e),
         FinishAuthEnrollment(e, s)
  PROVE  /\ enrollment' \in [Enrollments -> EnrollmentRecord]
         /\ credential' \in [Credentials -> CredentialRecord]
         /\ \A d \in Enrollments \ {e} : enrollment'[d] = enrollment[d]
         /\ enrollment'[e].state = s
         /\ revoking' \subseteq revoking
         /\ \A c \in Credentials :
              \/ credential'[c] = credential[c]
              \/ /\ Unsealed(c) /\ credential'[c] = NoCredential /\ c \notin revoking'
                 /\ \A d \in Enrollments \ {e} : enrollment[d].cred # c
<1>1. enrollment[e].cred \in Credentials /\ s \in States
  BY DEF RowsInv, OpenInv, Ended, States, Open
<1>2. enrollment' = Closed(e, s)
  BY DEF FinishAuthEnrollment
<1>3. /\ enrollment' \in [Enrollments -> EnrollmentRecord]
      /\ \A d \in Enrollments \ {e} : enrollment'[d] = enrollment[d]
      /\ enrollment'[e].state = s
  BY <1>1, <1>2, CloseFacts
<1> DEFINE cs == {c \in {enrollment[e].cred} : MayDelete(Closed(e, s), c)}
<1>4. Delete(cs)
  BY DEF FinishAuthEnrollment
<1>5. \A c \in Credentials : c \in cs =>
         Unsealed(c) /\ \A d \in Enrollments \ {e} : enrollment[d].cred # c
  BY <1>2, <1>3 DEF MayDelete, References
<1> HIDE DEF cs
<1>6. /\ credential' \in [Credentials -> CredentialRecord]
      /\ revoking' = revoking \ cs
      /\ \A c \in Credentials : c \in cs => credential'[c] = NoCredential
      /\ \A c \in Credentials : c \notin cs => credential'[c] = credential[c]
  BY <1>4, DeleteFacts
<1>7. \A c \in Credentials :
              \/ credential'[c] = credential[c]
              \/ /\ Unsealed(c) /\ credential'[c] = NoCredential /\ c \notin revoking'
                 /\ \A d \in Enrollments \ {e} : enrollment[d].cred # c
  BY <1>5, <1>6
<1> QED
  BY <1>3, <1>6, <1>7

(* FinishAuthEnrollment keeps the rows in agreement.                       *)
LEMMA RowsFinish ==
  ASSUME RowTypes, RestTypes, RowsInv, NEW e \in Enrollments, NEW s \in Ended, IsOpen(e),
         FinishAuthEnrollment(e, s), UNCHANGED <<profile, home, active, orphaned, runtime>>
  PROVE  RowTypes' /\ RowsInv' /\ ~IsOpen(e)' /\ revoking' \subseteq Credentials
<1>1. /\ enrollment' \in [Enrollments -> EnrollmentRecord]
      /\ credential' \in [Credentials -> CredentialRecord]
      /\ \A d \in Enrollments \ {e} : enrollment'[d] = enrollment[d]
      /\ enrollment'[e].state = s
      /\ revoking' \subseteq revoking
  BY FinishFacts
<1>2. ASSUME NEW c \in Credentials
      PROVE  \/ credential'[c] = credential[c]
             \/ /\ Unsealed(c) /\ credential'[c] = NoCredential /\ c \notin revoking'
                /\ \A d \in Enrollments \ {e} : enrollment[d].cred # c
  BY FinishFacts
<1>3. ~IsOpen(e)' /\ s # "succeeded"
  BY <1>1 DEF IsOpen, Open, Ended
<1>4. RowTypes'
  BY <1>1 DEF RowTypes
<1>5. OpenInv'
  <2> SUFFICES ASSUME NEW d \in Enrollments, IsOpen(d)'
               PROVE  /\ enrollment'[d].profile \in Profiles /\ enrollment'[d].cred \in Credentials
                      /\ credential'[enrollment'[d].cred].status # "none"
    BY DEF OpenInv
  <2>1. d # e /\ enrollment'[d] = enrollment[d] /\ IsOpen(d)
    BY <1>1, <1>3 DEF IsOpen
  <2>2. PICK c \in Credentials : c = enrollment[d].cred /\ credential[c].status # "none"
    BY <2>1 DEF RowsInv, OpenInv
  <2>3. credential'[c] = credential[c]
    BY <1>2, <2>1, <2>2
  <2> QED
    BY <2>1, <2>2, <2>3 DEF RowsInv, OpenInv
<1>6. SealedIsConfirmed'
  <2> SUFFICES ASSUME NEW c \in Credentials, credential'[c].item
               PROVE  \E d \in Enrollments :
                        /\ enrollment'[d].cred = c /\ enrollment'[d].confirmed
                        /\ enrollment'[d].state = "succeeded"
    BY DEF SealedIsConfirmed
  <2>1. credential[c].item
    BY <1>2 DEF NoCredential
  <2>2. PICK d \in Enrollments : /\ enrollment[d].cred = c /\ enrollment[d].confirmed
                                 /\ enrollment[d].state = "succeeded"
    BY <2>1 DEF RowsInv, SealedIsConfirmed
  <2>3. d # e
    BY <2>2 DEF IsOpen, Open
  <2> QED
    BY <1>1, <2>2, <2>3
<1>7. \A c \in Credentials : credential[c].item => credential'[c] = credential[c]
  BY <1>2 DEF Unsealed
<1>8. BoundIsSealed'
  BY <1>7, RowFacts DEF RowsInv, BoundIsSealed, ProfileRecord
<1>9. \A c \in Credentials :
        credential[c].status = "revoked" \/ credential'[c].status = "revoked" =>
          credential'[c] = credential[c]
  BY <1>2 DEF Unsealed, NoCredential
<1>10. RevocationHolds'
  BY <1>1, <1>9 DEF RowsInv, RevocationHolds, InUse
<1>11. RuntimeInv'
  BY <1>7, <1>9 DEF RowsInv, RuntimeInv
<1>13. ItemInv'
  BY <1>2 DEF RowsInv, ItemInv, NoCredential
<1>12. RevokingInv' /\ revoking' \subseteq Credentials
  BY <1>1, <1>2 DEF RowsInv, RevokingInv, RestTypes
<1> QED
  BY <1>3, <1>4, <1>5, <1>6, <1>8, <1>10, <1>11, <1>12, <1>13 DEF RowsInv

-----------------------------------------------------------------------------
(* A step that changes no row and only ends Sessions or removes homes      *)
(* keeps them in agreement.                                                *)
LEMMA RowsSame ==
  ASSUME RowTypes, RowsInv, UNCHANGED <<enrollment, credential, revoking, profile, runtime>>,
         home' \subseteq home, \A c \in Credentials : InUse(c)' => InUse(c)
  PROVE  RowTypes' /\ RowsInv'
<1>1. RowTypes'
  BY DEF RowTypes
<1>2. OpenInv'
  BY DEF RowsInv, OpenInv, IsOpen
<1>3. SealedIsConfirmed' /\ BoundIsSealed'
  BY DEF RowsInv, SealedIsConfirmed, BoundIsSealed
<1>4. RevocationHolds'
  BY DEF RowsInv, RevocationHolds
<1>5. RuntimeInv' /\ RevokingInv' /\ ItemInv'
  BY DEF RowsInv, RuntimeInv, RevokingInv, ItemInv
<1> QED
  BY <1>1, <1>2, <1>3, <1>4, <1>5 DEF RowsInv

(* An enrollment that moves on between open states keeps the rows in       *)
(* agreement.                                                              *)
LEMMA RowsMove ==
  ASSUME RowTypes, RowsInv, NEW e \in Enrollments, IsOpen(e),
         NEW r \in EnrollmentRecord, r.state \in Open,
         r.profile = enrollment[e].profile, r.cred = enrollment[e].cred,
         enrollment' = [enrollment EXCEPT ![e] = r],
         UNCHANGED <<credential, revoking, profile, home, active, orphaned, runtime>>
  PROVE  RowTypes' /\ RowsInv' /\ enrollment'[e] = r
<1>1. enrollment'[e] = r /\ \A d \in Enrollments \ {e} : enrollment'[d] = enrollment[d]
  BY DEF RowTypes
<1>2. RowTypes'
  BY DEF RowTypes
<1>3. OpenInv'
  BY <1>1 DEF RowsInv, OpenInv, IsOpen
<1>4. SealedIsConfirmed'
  <2> SUFFICES ASSUME NEW c \in Credentials, credential[c].item
               PROVE  \E d \in Enrollments :
                        /\ enrollment'[d].cred = c /\ enrollment'[d].confirmed
                        /\ enrollment'[d].state = "succeeded"
    BY DEF SealedIsConfirmed
  <2>1. PICK d \in Enrollments : /\ enrollment[d].cred = c /\ enrollment[d].confirmed
                                 /\ enrollment[d].state = "succeeded"
    BY DEF RowsInv, SealedIsConfirmed
  <2>2. d # e
    BY <2>1 DEF IsOpen, Open
  <2> QED
    BY <1>1, <2>1, <2>2
<1>5. BoundIsSealed'
  BY DEF RowsInv, BoundIsSealed
<1>6. RevocationHolds'
  BY DEF RowsInv, RevocationHolds, InUse
<1>7. RuntimeInv' /\ RevokingInv' /\ ItemInv'
  BY DEF RowsInv, RuntimeInv, RevokingInv, ItemInv
<1> QED
  BY <1>1, <1>2, <1>3, <1>4, <1>5, <1>6, <1>7 DEF RowsInv

(* BeginAuthEnrollment keeps the rows in agreement.                        *)
LEMMA RowsBegin ==
  ASSUME RowTypes, RestTypes, RowsInv, HandlerFits, BeginAuthEnrollment
  PROVE  RowTypes' /\ RowsInv'
<1> USE DEF BeginAuthEnrollment
<1>1. UNCHANGED <<revoking, profile, home, active, orphaned, runtime>>
  BY DEF registry, sessions
<1>2. PICK e \in Enrollments, p \in Profiles, c \in Credentials :
        handler.e = e /\ handler.p = p /\ handler.c = c /\ enrollment[e].state = "none"
  BY DEF Busy, HandlerFits
<1>3. CASE UNCHANGED <<enrollment, credential>>
  BY <1>1, <1>3, RowsSame DEF InUse
<1>4. CASE /\ enrollment' = [enrollment EXCEPT ![e] =
                [NoEnrollment EXCEPT !.state = "begun", !.profile = p, !.cred = c]]
           /\ credential' = IF credential[c].status # "none" THEN credential
                ELSE [credential EXCEPT ![c] =
                        [NoCredential EXCEPT !.status = "unknown", !.revision = 1]]
  <2> DEFINE r == [NoEnrollment EXCEPT !.state = "begun", !.profile = p, !.cred = c]
             k == [NoCredential EXCEPT !.status = "unknown", !.revision = 1]
  <2>1. /\ r \in EnrollmentRecord /\ r.state = "begun" /\ r.profile = p /\ r.cred = c
    BY Constants DEF NoEnrollment, EnrollmentRecord, States, Open
  <2>2. k \in CredentialRecord /\ k.status = "unknown" /\ ~k.item
    BY Constants DEF NoCredential, CredentialRecord, CredentialStatus
  <2>3. enrollment' = [enrollment EXCEPT ![e] = r]
        /\ credential' = IF credential[c].status # "none" THEN credential
                         ELSE [credential EXCEPT ![c] = k]
    BY <1>4
  <2> HIDE DEF r, k
  <2>4. RowTypes'
    BY <1>1, <2>1, <2>2, <2>3 DEF RowTypes
  <2>5. enrollment'[e] = r /\ \A d \in Enrollments \ {e} : enrollment'[d] = enrollment[d]
    BY <2>3 DEF RowTypes
  <2>6. /\ \A d \in Credentials : credential[d].status # "none" => credential'[d] = credential[d]
        /\ credential'[c].status # "none"
        /\ \A d \in Credentials : credential'[d] = credential[d] \/ credential'[d] = k
    BY <2>2, <2>3 DEF RowTypes
  <2>7. OpenInv'
    BY <2>1, <2>5, <2>6 DEF RowsInv, OpenInv, IsOpen
  <2>8. SealedIsConfirmed'
    <3> SUFFICES ASSUME NEW d \in Credentials, credential'[d].item
                 PROVE  \E f \in Enrollments :
                          /\ enrollment'[f].cred = d /\ enrollment'[f].confirmed
                          /\ enrollment'[f].state = "succeeded"
      BY DEF SealedIsConfirmed
    <3>1. credential[d].item
      BY <2>2, <2>6
    <3>2. PICK f \in Enrollments : /\ enrollment[f].cred = d /\ enrollment[f].confirmed
                                   /\ enrollment[f].state = "succeeded"
      BY <3>1 DEF RowsInv, SealedIsConfirmed
    <3>3. f # e
      BY <1>2, <3>2
    <3> QED
      BY <2>5, <3>2, <3>3
  <2>9. BoundIsSealed'
    BY <1>1, <2>6, RowFacts DEF RowsInv, BoundIsSealed, ProfileRecord
  <2>10. RevocationHolds'
    BY <1>1, <2>2, <2>6 DEF RowsInv, RevocationHolds, InUse
  <2>11. RuntimeInv'
    <3> SUFFICES ASSUME NEW d \in Credentials, runtime[d] # None
                 PROVE  credential'[d].item \/ credential'[d].status = "revoked"
      BY <1>1 DEF RuntimeInv
    <3>1. credential[d].item \/ credential[d].status = "revoked"
      BY DEF RowsInv, RuntimeInv
    <3>2. credential[d].status # "none"
      BY <3>1 DEF RowsInv, ItemInv
    <3> QED
      BY <2>6, <3>1, <3>2
  <2>12. RevokingInv'
    BY <1>1, <2>2, <2>6 DEF RowsInv, RevokingInv, RestTypes
  <2>13. ItemInv'
    BY <2>2, <2>6 DEF RowsInv, ItemInv
  <2> QED
    BY <2>4, <2>7, <2>8, <2>9, <2>10, <2>11, <2>12, <2>13 DEF RowsInv
<1> QED
  BY <1>2, <1>3, <1>4

-----------------------------------------------------------------------------
(* What a seal changes.                                                    *)
LEMMA SealedFacts ==
  ASSUME RowTypes, NEW c \in Credentials, credential' = Sealed(c),
         credential[c].revision < MaxRevision
  PROVE  /\ credential' \in [Credentials -> CredentialRecord]
         /\ credential'[c].status = "healthy" /\ credential'[c].item
         /\ \A d \in Credentials \ {c} : credential'[d] = credential[d]
<1>1. credential[c].revision \in Revisions
  BY RowFacts DEF CredentialRecord
<1>2. credential[c].revision + 1 \in Revisions
  BY <1>1, EnrollmentAssumption DEF Revisions
<1> DEFINE k == [status |-> "healthy", revision |-> credential[c].revision + 1, item |-> TRUE]
<1>3. k \in CredentialRecord /\ k.status = "healthy" /\ k.item
  BY <1>2 DEF CredentialRecord, CredentialStatus
<1>4. credential' = [credential EXCEPT ![c] = k]
  BY DEF Sealed
<1> HIDE DEF k
<1> QED
  BY <1>3, <1>4 DEF RowTypes

(* A seal that the checks of replaceVaultItemCAS let through keeps the     *)
(* rest in agreement.                                                      *)
LEMMA SealKeeps ==
  ASSUME RowTypes, RestTypes, RowsInv, NEW c \in Credentials,
         NEW x, Sealable(c, x), credential' = Sealed(c), revoking' = revoking,
         home' \subseteq home, \A d \in Credentials : InUse(d)' => InUse(d),
         \A d \in Credentials : runtime'[d] # None => runtime'[d] = runtime[d]
  PROVE  RevocationHolds' /\ RuntimeInv' /\ RevokingInv' /\ ItemInv'
<1>1. credential[c].revision < MaxRevision /\ credential[c].status # "revoked" /\ c \notin revoking
  BY DEF Sealable
<1>2. /\ credential'[c].status = "healthy" /\ credential'[c].item
      /\ \A d \in Credentials \ {c} : credential'[d] = credential[d]
  BY <1>1, SealedFacts
<1>3. RevocationHolds'
  BY <1>1, <1>2 DEF RowsInv, RevocationHolds
<1>4. RuntimeInv'
  BY <1>2 DEF RowsInv, RuntimeInv
<1>5. RevokingInv'
  BY <1>1, <1>2 DEF RowsInv, RevokingInv, RestTypes
<1>6. ItemInv'
  BY <1>2 DEF RowsInv, ItemInv
<1> QED
  BY <1>3, <1>4, <1>5, <1>6

(* ReplaceVaultItemEnrollmentCAS keeps the rows in agreement.              *)
LEMMA RowsSeal ==
  ASSUME RowTypes, RestTypes, RowsInv, HandlerFits, ReplaceVaultItemEnrollmentCAS
  PROVE  RowTypes' /\ RowsInv'
<1>1. UNCHANGED <<revoking, home, active, orphaned, runtime>>
  BY DEF ReplaceVaultItemEnrollmentCAS, sessions
<1>2. PICK e \in Enrollments : handler.e = e /\ enrollment[e].state = "awaiting"
  BY DEF ReplaceVaultItemEnrollmentCAS, Busy, HandlerFits
<1>3. PICK c \in Credentials, p \in Profiles : c = enrollment[e].cred /\ p = enrollment[e].profile
  BY <1>2 DEF RowsInv, OpenInv, IsOpen, Open
<1>4. /\ Sealable(c, handler.tuple.revision) /\ enrollment[e].confirmed
      /\ profile[p].revision < MaxRevision
      /\ credential' = Sealed(c) /\ profile' = Bound(e) /\ enrollment' = Succeeded(e)
  BY <1>2, <1>3 DEF ReplaceVaultItemEnrollmentCAS
<1>5. /\ credential' \in [Credentials -> CredentialRecord]
      /\ credential'[c].status = "healthy" /\ credential'[c].item
      /\ \A d \in Credentials \ {c} : credential'[d] = credential[d]
  BY <1>4, SealedFacts DEF Sealable
<1>6. /\ enrollment' \in [Enrollments -> EnrollmentRecord]
      /\ enrollment'[e].state = "succeeded" /\ enrollment'[e].cred = c /\ enrollment'[e].confirmed
      /\ \A d \in Enrollments \ {e} : enrollment'[d] = enrollment[d]
  <2> DEFINE r == [enrollment[e] EXCEPT !.state = "succeeded"]
  <2>1. enrollment[e] \in EnrollmentRecord
    BY RowFacts
  <2>2. r \in EnrollmentRecord /\ r.state = "succeeded" /\ r.cred = c /\ r.confirmed
    BY <1>3, <1>4, <2>1 DEF EnrollmentRecord, States
  <2>3. enrollment' = [enrollment EXCEPT ![e] = r]
    BY <1>4 DEF Succeeded
  <2> HIDE DEF r
  <2> QED
    BY <2>2, <2>3 DEF RowTypes
<1>7. /\ profile' \in [Profiles -> ProfileRecord]
      /\ profile'[p].cred = c /\ \A q \in Profiles \ {p} : profile'[q] = profile[q]
  <2> DEFINE r == [profile[p] EXCEPT
                     !.revision = IF profile[p].cred = None THEN @ + 1 ELSE @, !.cred = c]
  <2>1. profile[p] \in ProfileRecord
    BY RowFacts
  <2>2. profile[p].revision \in Revisions /\ profile[p].revision + 1 \in Revisions
    BY <1>4, <2>1, EnrollmentAssumption DEF ProfileRecord, Revisions
  <2>3. r \in ProfileRecord /\ r.cred = c
    BY <2>1, <2>2 DEF ProfileRecord
  <2>4. profile' = [profile EXCEPT ![p] = r]
    BY <1>3, <1>4 DEF Bound
  <2> HIDE DEF r
  <2> QED
    BY <2>3, <2>4 DEF RowTypes
<1>8. RowTypes'
  BY <1>5, <1>6, <1>7 DEF RowTypes
<1>9. OpenInv'
  <2> SUFFICES ASSUME NEW d \in Enrollments, IsOpen(d)'
               PROVE  /\ enrollment'[d].profile \in Profiles /\ enrollment'[d].cred \in Credentials
                      /\ credential'[enrollment'[d].cred].status # "none"
    BY DEF OpenInv
  <2>1. d # e /\ enrollment'[d] = enrollment[d] /\ IsOpen(d)
    BY <1>6 DEF IsOpen, Open
  <2> QED
    BY <1>5, <2>1 DEF RowsInv, OpenInv
<1>10. SealedIsConfirmed'
  <2> SUFFICES ASSUME NEW d \in Credentials, credential'[d].item
               PROVE  \E f \in Enrollments :
                        /\ enrollment'[f].cred = d /\ enrollment'[f].confirmed
                        /\ enrollment'[f].state = "succeeded"
    BY DEF SealedIsConfirmed
  <2>1. CASE d = c
    BY <1>6, <2>1
  <2>2. CASE d # c
    <3>1. PICK f \in Enrollments : /\ enrollment[f].cred = d /\ enrollment[f].confirmed
                                   /\ enrollment[f].state = "succeeded"
      BY <1>5, <2>2 DEF RowsInv, SealedIsConfirmed
    <3> QED
      BY <1>2, <1>6, <3>1
  <2> QED
    BY <2>1, <2>2
<1>11. BoundIsSealed'
  BY <1>5, <1>7, RowFacts DEF RowsInv, BoundIsSealed, ProfileRecord
<1>12. \A d \in Credentials : (InUse(d)' => InUse(d)) /\ runtime'[d] = runtime[d]
  BY <1>1 DEF InUse
<1>13. RevocationHolds' /\ RuntimeInv' /\ RevokingInv' /\ ItemInv'
  BY <1>1, <1>4, <1>12, SealKeeps
<1> QED
  BY <1>8, <1>9, <1>10, <1>11, <1>13 DEF RowsInv

(* The finalization of a runtime keeps the rows in agreement, commit or    *)
(* not.                                                                    *)
LEMMA RowsFinalize ==
  ASSUME RowTypes, RestTypes, RowsInv, NEW c \in Credentials, Finalize(c)
  PROVE  RowTypes' /\ RowsInv'
<1>1. /\ UNCHANGED <<enrollment, revoking, profile, active, orphaned>> /\ home' \subseteq home
      /\ runtime[c] # None
      /\ runtime' = [runtime EXCEPT ![c] = None]
  BY DEF Finalize, registry
<1>2. \A d \in Credentials : (InUse(d)' => InUse(d)) /\ (runtime'[d] # None => runtime'[d] = runtime[d])
  BY <1>1 DEF InUse, RestTypes
<1>3. CASE CommitCodexAuth(c)
  <2>1. Sealable(c, runtime[c]) /\ credential' = Sealed(c)
    BY <1>3 DEF CommitCodexAuth
  <2>2. /\ credential' \in [Credentials -> CredentialRecord]
        /\ credential'[c].status = "healthy" /\ credential'[c].item
        /\ \A d \in Credentials \ {c} : credential'[d] = credential[d]
    BY <2>1, SealedFacts DEF Sealable
  <2>3. credential[c].item
    BY <1>1, <2>1 DEF Sealable, RowsInv, RuntimeInv
  <2>4. RevocationHolds' /\ RuntimeInv' /\ RevokingInv' /\ ItemInv'
    BY <1>1, <1>2, <2>1, SealKeeps
  <2>5. RowTypes'
    BY <1>1, <2>2 DEF RowTypes
  <2>6. OpenInv'
    BY <1>1, <2>2 DEF RowsInv, OpenInv, IsOpen
  <2>7. SealedIsConfirmed'
    BY <1>1, <2>2, <2>3 DEF RowsInv, SealedIsConfirmed
  <2>8. BoundIsSealed'
    BY <1>1, <2>2, RowFacts DEF RowsInv, BoundIsSealed, ProfileRecord
  <2> QED
    BY <2>4, <2>5, <2>6, <2>7, <2>8 DEF RowsInv
<1>4. CASE UNCHANGED credential
  <2>1. RowTypes'
    BY <1>1, <1>4 DEF RowTypes
  <2>2. OpenInv'
    BY <1>1, <1>4 DEF RowsInv, OpenInv, IsOpen
  <2>3. SealedIsConfirmed' /\ BoundIsSealed'
    BY <1>1, <1>4 DEF RowsInv, SealedIsConfirmed, BoundIsSealed
  <2>4. RevocationHolds'
    BY <1>1, <1>2, <1>4 DEF RowsInv, RevocationHolds
  <2>5. RuntimeInv' /\ RevokingInv' /\ ItemInv'
    BY <1>1, <1>2, <1>4 DEF RowsInv, RuntimeInv, RevokingInv, ItemInv
  <2> QED
    BY <2>1, <2>2, <2>3, <2>4, <2>5 DEF RowsInv
<1> QED
  BY <1>3, <1>4 DEF Finalize

(* The reservation of a logout keeps the rows in agreement.                *)
LEMMA RowsReserve ==
  ASSUME RowTypes, RestTypes, RowsInv, NEW c \in Credentials, ReserveVaultCredentialRevocation(c)
  PROVE  RowTypes' /\ RowsInv' /\ revoking' \subseteq Credentials
           /\ (c \in revoking' \/ credential'[c].status = "revoked")
<1>1. /\ UNCHANGED <<enrollment, credential, profile, home, active, orphaned, runtime>>
      /\ credential[c].status # "none"
      /\ \/ credential[c].status = "revoked" /\ revoking' = revoking
         \/ ~InUse(c) /\ revoking' = revoking \cup {c}
  BY DEF ReserveVaultCredentialRevocation, registry, sessions
<1>2. RowTypes'
  BY <1>1 DEF RowTypes
<1>3. OpenInv'
  BY <1>1 DEF RowsInv, OpenInv, IsOpen
<1>4. SealedIsConfirmed' /\ BoundIsSealed'
  BY <1>1 DEF RowsInv, SealedIsConfirmed, BoundIsSealed
<1>5. RevocationHolds'
  BY <1>1 DEF RowsInv, RevocationHolds, InUse
<1>6. RuntimeInv' /\ RevokingInv' /\ ItemInv'
  BY <1>1 DEF RowsInv, RuntimeInv, RevokingInv, ItemInv
<1> QED
  BY <1>1, <1>2, <1>3, <1>4, <1>5, <1>6 DEF RowsInv, RestTypes

(* The last transaction of a logout keeps the rows in agreement.           *)
LEMMA RowsRevoke ==
  ASSUME RowTypes, RestTypes, RowsInv, HandlerFits, FinalizeVaultCredentialRevocation
  PROVE  RowTypes' /\ RowsInv' /\ revoking' \subseteq Credentials
<1>1. PICK c \in Credentials : handler.c = c /\ c \notin home
  BY DEF FinalizeVaultCredentialRevocation, Busy, HandlerFits
<1>2. /\ UNCHANGED <<enrollment, home, active, orphaned, runtime>>
      /\ \A p \in Profiles : profile[p].cred = c => profile[p].revision < MaxRevision
      /\ ~InUse(c)
      /\ credential' = [credential EXCEPT ![c] =
           [credential[c] EXCEPT !.status = "revoked", !.item = FALSE]]
      /\ profile' = Unbound(c)
      /\ revoking' = revoking \ {c}
  BY <1>1 DEF FinalizeVaultCredentialRevocation, sessions
<1>3. /\ credential' \in [Credentials -> CredentialRecord]
      /\ credential'[c].status = "revoked" /\ ~credential'[c].item
      /\ \A d \in Credentials \ {c} : credential'[d] = credential[d]
  <2> DEFINE k == [credential[c] EXCEPT !.status = "revoked", !.item = FALSE]
  <2>1. credential[c] \in CredentialRecord
    BY RowFacts
  <2>2. k \in CredentialRecord /\ k.status = "revoked" /\ ~k.item
    BY <2>1 DEF CredentialRecord, CredentialStatus
  <2>3. credential' = [credential EXCEPT ![c] = k]
    BY <1>2
  <2> HIDE DEF k
  <2> QED
    BY <2>2, <2>3 DEF RowTypes
<1>4. ASSUME NEW p \in Profiles
      PROVE  /\ profile'[p] \in ProfileRecord
             /\ profile'[p].cred # c
             /\ profile'[p].cred # None => profile'[p].cred = profile[p].cred
  <2>1. profile[p] \in ProfileRecord
    BY RowFacts
  <2>2. CASE profile[p].cred # c
    BY <1>2, <2>1, <2>2 DEF Unbound
  <2>3. CASE profile[p].cred = c
    <3> DEFINE r == [profile[p] EXCEPT !.cred = None, !.revision = @ + 1]
    <3>1. profile[p].revision \in Revisions /\ profile[p].revision + 1 \in Revisions
      BY <1>2, <2>1, <2>3, EnrollmentAssumption DEF ProfileRecord, Revisions
    <3>2. r \in ProfileRecord /\ r.cred = None
      BY <2>1, <3>1 DEF ProfileRecord
    <3>3. profile'[p] = r
      BY <1>2, <2>3 DEF Unbound
    <3> HIDE DEF r
    <3> QED
      BY <3>2, <3>3, EnrollmentAssumption
  <2> QED
    BY <2>2, <2>3
<1>5. profile' \in [Profiles -> ProfileRecord]
  <2>1. profile' = [p \in Profiles |-> profile'[p]]
    BY <1>2 DEF Unbound
  <2> QED
    BY <1>4, <2>1
<1>6. RowTypes'
  BY <1>2, <1>3, <1>5 DEF RowTypes
<1>7. OpenInv'
  BY <1>2, <1>3 DEF RowsInv, OpenInv, IsOpen
<1>8. SealedIsConfirmed'
  BY <1>2, <1>3 DEF RowsInv, SealedIsConfirmed
<1>9. BoundIsSealed'
  BY <1>3, <1>4, RowFacts DEF RowsInv, BoundIsSealed, ProfileRecord
<1>10. RevocationHolds'
  BY <1>1, <1>2, <1>3 DEF RowsInv, RevocationHolds, InUse
<1>11. RuntimeInv' /\ ItemInv'
  BY <1>2, <1>3 DEF RowsInv, RuntimeInv, ItemInv
<1>12. RevokingInv' /\ revoking' \subseteq Credentials
  BY <1>2, <1>3 DEF RowsInv, RevokingInv, RestTypes
<1> QED
  BY <1>6, <1>7, <1>8, <1>9, <1>10, <1>11, <1>12 DEF RowsInv

(* sessions.start keeps the rows in agreement.                             *)
LEMMA RowsStart ==
  ASSUME RowTypes, RestTypes, RowsInv, NEW p \in Profiles, StartSession(p)
  PROVE  /\ RowTypes' /\ RowsInv'
         /\ home' \subseteq Credentials /\ active' \subseteq Credentials
         /\ orphaned' \subseteq Credentials
         /\ runtime' \in [Credentials -> Revisions \cup {None}]
<1>1. UNCHANGED <<enrollment, credential, revoking, profile>>
  BY DEF StartSession, registry
<1>2. profile[p].cred \in Credentials
  BY RowFacts DEF StartSession, ProfileRecord
<1>3. PICK c \in Credentials : c = profile[p].cred
  BY <1>2
<1>4. /\ credential[c].status = "healthy" /\ c \notin revoking /\ credential[c].item
  <2>1. credential[c].status = "healthy" /\ ValidateSessionLinks(c) /\ profile[p].cred # None
    BY <1>3 DEF StartSession
  <2> QED
    BY <1>3, <2>1 DEF ValidateSessionLinks, RowsInv, BoundIsSealed
<1>5. credential[c].revision \in Revisions
  BY RowFacts DEF CredentialRecord
<1>6. /\ home' \subseteq home \cup {c} /\ active' \subseteq active \cup {c} /\ orphaned' = orphaned
      /\ runtime' \in [Credentials -> Revisions \cup {None}]
      /\ \A d \in Credentials \ {c} : runtime'[d] = runtime[d]
  BY <1>3, <1>5 DEF StartSession, sessions, RestTypes
<1>7. \A d \in Credentials \ {c} : InUse(d)' => InUse(d)
  BY <1>6 DEF InUse
<1>8. RowTypes'
  BY <1>1 DEF RowTypes
<1>9. OpenInv'
  BY <1>1 DEF RowsInv, OpenInv, IsOpen
<1>10. SealedIsConfirmed' /\ BoundIsSealed'
  BY <1>1 DEF RowsInv, SealedIsConfirmed, BoundIsSealed
<1>11. RevocationHolds'
  BY <1>1, <1>4, <1>6, <1>7 DEF RowsInv, RevocationHolds
<1>12. RuntimeInv' /\ RevokingInv' /\ ItemInv'
  BY <1>1, <1>4, <1>6 DEF RowsInv, RuntimeInv, RevokingInv, ItemInv
<1> QED
  BY <1>6, <1>8, <1>9, <1>10, <1>11, <1>12 DEF RowsInv, RestTypes

(* An edit of a profile keeps the rows in agreement.                       *)
LEMMA RowsUpdate ==
  ASSUME RowTypes, RowsInv, NEW p \in Profiles, NEW b \in BOOLEAN, UpdateProfile(p, b)
  PROVE  RowTypes' /\ RowsInv'
<1>1. /\ UNCHANGED <<enrollment, credential, revoking, home, active, orphaned, runtime>>
      /\ profile[p].revision < MaxRevision
      /\ profile' = [profile EXCEPT ![p] = [profile[p] EXCEPT !.revision = @ + 1, !.enabled = b]]
  BY DEF UpdateProfile, sessions
<1> DEFINE r == [profile[p] EXCEPT !.revision = @ + 1, !.enabled = b]
<1>2. profile[p] \in ProfileRecord
  BY RowFacts
<1>3. profile[p].revision \in Revisions /\ profile[p].revision + 1 \in Revisions
  BY <1>1, <1>2, EnrollmentAssumption DEF ProfileRecord, Revisions
<1>4. r \in ProfileRecord /\ r.cred = profile[p].cred
  BY <1>2, <1>3 DEF ProfileRecord
<1>5. profile' = [profile EXCEPT ![p] = r]
  BY <1>1
<1> HIDE DEF r
<1>6. \A q \in Profiles : profile'[q].cred = profile[q].cred
  BY <1>4, <1>5 DEF RowTypes
<1>7. RowTypes'
  BY <1>1, <1>4, <1>5 DEF RowTypes
<1>8. OpenInv'
  BY <1>1 DEF RowsInv, OpenInv, IsOpen
<1>9. SealedIsConfirmed'
  BY <1>1 DEF RowsInv, SealedIsConfirmed
<1>10. BoundIsSealed'
  BY <1>1, <1>6 DEF RowsInv, BoundIsSealed
<1>11. RevocationHolds'
  BY <1>1 DEF RowsInv, RevocationHolds, InUse
<1>12. RuntimeInv' /\ RevokingInv' /\ ItemInv'
  BY <1>1 DEF RowsInv, RuntimeInv, RevokingInv, ItemInv
<1> QED
  BY <1>7, <1>8, <1>9, <1>10, <1>11, <1>12 DEF RowsInv

(* What ExpireAuthEnrollments makes of the enrollments.                    *)
LEMMA AllClosedFacts ==
  ASSUME RowTypes, RowsInv
  PROVE  /\ AllClosed \in [Enrollments -> EnrollmentRecord]
         /\ \A e \in Enrollments : IsOpen(e) => AllClosed[e].state = "expired"
         /\ \A e \in Enrollments : ~IsOpen(e) => AllClosed[e] = enrollment[e]
<1>1. ASSUME NEW e \in Enrollments
      PROVE  /\ AllClosed[e] \in EnrollmentRecord
             /\ IsOpen(e) => AllClosed[e].state = "expired"
             /\ ~IsOpen(e) => AllClosed[e] = enrollment[e]
  <2>1. CASE IsOpen(e)
    <3>1. enrollment[e].cred \in Credentials /\ "expired" \in States
      BY <2>1 DEF RowsInv, OpenInv, States
    <3>2. Closed(e, "expired")[e] \in EnrollmentRecord /\ Closed(e, "expired")[e].state = "expired"
      BY <3>1, CloseFacts
    <3> QED
      BY <2>1, <3>2 DEF AllClosed
  <2>2. CASE ~IsOpen(e)
    BY <2>2, RowFacts DEF AllClosed
  <2> QED
    BY <2>1, <2>2
<1>2. AllClosed = [e \in Enrollments |-> AllClosed[e]]
  BY DEF AllClosed
<1>3. AllClosed \in [Enrollments -> EnrollmentRecord]
  BY <1>1, <1>2
<1> QED
  BY <1>1, <1>3

(* A restart keeps the rows in agreement, whether the daemon comes up or   *)
(* not.                                                                    *)
LEMMA RowsRestart ==
  ASSUME RowTypes, RestTypes, RowsInv, Restart
  PROVE  RowTypes' /\ RowsInv' /\ revoking' \subseteq Credentials
<1>1. /\ UNCHANGED <<profile, home>> /\ runtime' = [c \in Credentials |-> None]
      /\ active' = {} /\ orphaned' = orphaned \cup active
  BY DEF Restart, registry
<1>2. \A c \in Credentials : InUse(c)' <=> InUse(c)
  BY <1>1 DEF InUse
<1>3. CASE UNCHANGED <<enrollment, credential, revoking, staging>>
  <2>1. RowTypes'
    BY <1>1, <1>3 DEF RowTypes
  <2>2. OpenInv'
    BY <1>3 DEF RowsInv, OpenInv, IsOpen
  <2>3. SealedIsConfirmed' /\ BoundIsSealed'
    BY <1>1, <1>3 DEF RowsInv, SealedIsConfirmed, BoundIsSealed
  <2>4. RevocationHolds'
    BY <1>1, <1>2, <1>3 DEF RowsInv, RevocationHolds
  <2>5. RuntimeInv' /\ RevokingInv' /\ ItemInv'
    BY <1>1, <1>3 DEF RowsInv, RuntimeInv, RevokingInv, ItemInv
  <2> QED
    BY <1>3, <2>1, <2>2, <2>3, <2>4, <2>5 DEF RowsInv, RestTypes
<1>4. CASE enrollment' = AllClosed /\ Delete(Dropped)
  <2>1. \A c \in Credentials : c \in Dropped => Unsealed(c)
    BY DEF Dropped
  <2>2. /\ credential' \in [Credentials -> CredentialRecord]
        /\ revoking' = revoking \ Dropped
        /\ \A c \in Credentials : c \in Dropped => credential'[c] = NoCredential
        /\ \A c \in Credentials : c \notin Dropped => credential'[c] = credential[c]
    BY <1>4, DeleteFacts
  <2>3. /\ enrollment' \in [Enrollments -> EnrollmentRecord]
        /\ \A e \in Enrollments : ~IsOpen(e)'
        /\ \A e \in Enrollments : ~IsOpen(e) => enrollment'[e] = enrollment[e]
    BY <1>4, AllClosedFacts DEF IsOpen, Open
  <2>4. RowTypes'
    BY <1>1, <2>2, <2>3 DEF RowTypes
  <2>5. OpenInv'
    BY <2>3 DEF OpenInv
  <2>6. SealedIsConfirmed'
    <3> SUFFICES ASSUME NEW c \in Credentials, credential'[c].item
                 PROVE  \E d \in Enrollments :
                          /\ enrollment'[d].cred = c /\ enrollment'[d].confirmed
                          /\ enrollment'[d].state = "succeeded"
      BY DEF SealedIsConfirmed
    <3>1. credential[c].item
      BY <2>2 DEF NoCredential
    <3>2. PICK d \in Enrollments : /\ enrollment[d].cred = c /\ enrollment[d].confirmed
                                   /\ enrollment[d].state = "succeeded"
      BY <3>1 DEF RowsInv, SealedIsConfirmed
    <3>3. ~IsOpen(d)
      BY <3>2 DEF IsOpen, Open
    <3> QED
      BY <2>3, <3>2, <3>3
  <2>7. BoundIsSealed'
    <3>1. \A c \in Credentials : credential[c].item => credential'[c] = credential[c]
      BY <2>1, <2>2 DEF Unsealed
    <3> QED
      BY <1>1, <3>1, RowFacts DEF RowsInv, BoundIsSealed, ProfileRecord
  <2>8. RevocationHolds'
    BY <1>1, <1>2, <2>2 DEF RowsInv, RevocationHolds, NoCredential
  <2>9. RuntimeInv'
    BY <1>1 DEF RuntimeInv
  <2>10. RevokingInv' /\ revoking' \subseteq Credentials
    BY <2>2 DEF RowsInv, RevokingInv, RestTypes
  <2>11. ItemInv'
    BY <2>2 DEF RowsInv, ItemInv, NoCredential
  <2> QED
    BY <2>4, <2>5, <2>6, <2>7, <2>8, <2>9, <2>10, <2>11 DEF RowsInv
<1> QED
  BY <1>3, <1>4 DEF Restart

-----------------------------------------------------------------------------
(* The types of the method's locals.                                       *)
LEMMA HandlerFacts ==
  /\ Idle \in HandlerRecord /\ Idle.pc = "idle"
  /\ HandlerType => /\ handler.pc \in PCs /\ handler.e \in Enrollments \cup {None}
                    /\ handler.tuple \in Tuples
  BY Constants DEF Idle, HandlerType, HandlerRecord

(* A method starts on an enrollment.                                       *)
LEMMA IdleAt ==
  ASSUME NEW l \in PCs, NEW e \in Enrollments, handler' = [Idle EXCEPT !.pc = l, !.e = e]
  PROVE  HandlerType' /\ handler'.pc = l /\ handler'.e = e
<1>1. Idle \in HandlerRecord
  BY Constants
<1>2. [Idle EXCEPT !.pc = l, !.e = e] \in HandlerRecord
  BY <1>1 DEF HandlerRecord
<1> QED
  BY <1>2, <1>1 DEF HandlerType, HandlerRecord

(* A method starts on a credential.                                        *)
LEMMA IdleFor ==
  ASSUME NEW l \in PCs, NEW c \in Credentials, handler' = [Idle EXCEPT !.pc = l, !.c = c]
  PROVE  HandlerType' /\ handler'.pc = l /\ handler'.c = c
<1>1. Idle \in HandlerRecord
  BY Constants
<1>2. [Idle EXCEPT !.pc = l, !.c = c] \in HandlerRecord
  BY <1>1 DEF HandlerRecord
<1> QED
  BY <1>2, <1>1 DEF HandlerType, HandlerRecord

(* A method moves on.                                                      *)
LEMMA GotoAt ==
  ASSUME HandlerType, NEW l \in PCs, Goto(l)
  PROVE  /\ HandlerType' /\ handler'.pc = l /\ handler'.e = handler.e
         /\ handler'.p = handler.p /\ handler'.c = handler.c
  BY DEF HandlerType, HandlerRecord, Goto

(* A method reads the revisions and moves on.                              *)
LEMMA TupleAt ==
  ASSUME HandlerType, NEW l \in PCs, NEW t \in Tuples,
         handler' = [handler EXCEPT !.pc = l, !.tuple = t]
  PROVE  HandlerType' /\ handler'.pc = l /\ handler'.e = handler.e
  BY DEF HandlerType, HandlerRecord

(* The revisions read for an open enrollment exist.                        *)
LEMMA TupleFacts ==
  ASSUME RowTypes, RestTypes, RowsInv, NEW e \in Enrollments, IsOpen(e)
  PROVE  CurrentTuple(e) \in Tuples
<1>1. profile[enrollment[e].profile] \in ProfileRecord /\ credential[enrollment[e].cred] \in CredentialRecord
  BY RowFacts DEF RowsInv, OpenInv
<1>2. account.revision \in Revisions
  BY DEF RestTypes
<1> QED
  BY <1>1, <1>2 DEF CurrentTuple, Tuples, ProfileRecord, CredentialRecord

(* A step of nobody who holds SessionService.mu leaves the running method  *)
(* right and staging owned.                                                *)
LEMMA Beside ==
  ASSUME IInv, UNCHANGED <<handler, enrollment, revoking, staging, daemon>>,
         home' \subseteq home \/ handler.pc = "idle",
         \A c \in Credentials : credential[c].status = "revoked" => credential'[c].status = "revoked"
  PROVE  HandlerType' /\ HandlerFits' /\ StagingInv'
<1>1. HandlerType'
  BY DEF IInv, HandlerType
<1>2. HandlerFits'
  BY DEF IInv, HandlerFits
<1>3. \A e : Guarded(e)' <=> Guarded(e)
  BY DEF Guarded, IsOpen
<1>4. StagingInv'
  BY <1>3 DEF IInv, StagingInv
<1> QED
  BY <1>1, <1>2, <1>4

(* Everything that runs beside the methods keeps the invariant.            *)
LEMMA BesideStep ==
  ASSUME IInv,
         \/ \E c \in Credentials : EndSession(c) \/ Finalize(c)
         \/ \E p \in Profiles : StartSession(p)
         \/ \E b \in BOOLEAN : SetUnlocked(b) \/ UpdateAccount(b)
         \/ \E p \in Profiles, b \in BOOLEAN : UpdateProfile(p, b)
         \/ \E e \in Enrollments : Expire(e)
  PROVE  IInv'
<1>0. RowTypes /\ RestTypes /\ RowsInv
  BY DEF IInv
<1> USE DEF registry, sessions, process
<1>1. ASSUME NEW c \in Credentials, EndSession(c) PROVE IInv'
  <2>1. RowTypes' /\ RowsInv'
    BY <1>0, <1>1, RowsSame DEF EndSession, InUse
  <2>2. HandlerType' /\ HandlerFits' /\ StagingInv'
    BY <1>1, Beside DEF EndSession
  <2>3. RestTypes'
    BY <1>0, <1>1 DEF EndSession, RestTypes
  <2> QED
    BY <2>1, <2>2, <2>3 DEF IInv
<1>2. ASSUME NEW c \in Credentials, Finalize(c) PROVE IInv'
  <2>1. RowTypes' /\ RowsInv'
    BY <1>0, <1>2, RowsFinalize
  <2>2. \A d \in Credentials : credential[d].status = "revoked" => credential'[d].status = "revoked"
    <3>1. CASE UNCHANGED credential
      BY <3>1
    <3>2. CASE CommitCodexAuth(c)
      <4>1. \A d \in Credentials \ {c} : credential'[d] = credential[d]
        BY <1>0, <3>2, SealedFacts DEF CommitCodexAuth, Sealable
      <4> QED
        BY <3>2, <4>1 DEF CommitCodexAuth, Sealable
    <3> QED
      BY <1>2, <3>1, <3>2 DEF Finalize
  <2>3. HandlerType' /\ HandlerFits' /\ StagingInv'
    BY <1>2, <2>2, Beside DEF Finalize
  <2>4. RestTypes'
    BY <1>0, <1>2 DEF Finalize, RestTypes
  <2> QED
    BY <2>1, <2>3, <2>4 DEF IInv
<1>3. ASSUME NEW p \in Profiles, StartSession(p) PROVE IInv'
  <2>1. /\ RowTypes' /\ RowsInv'
        /\ home' \subseteq Credentials /\ active' \subseteq Credentials
        /\ orphaned' \subseteq Credentials
        /\ runtime' \in [Credentials -> Revisions \cup {None}]
    BY <1>0, <1>3, RowsStart
  <2>2. HandlerType' /\ HandlerFits' /\ StagingInv'
    BY <1>3, Beside DEF StartSession, Busy
  <2>3. UNCHANGED <<account, edits, due, staging, revoking, unlocked, daemon, crashes>>
    BY <1>3 DEF StartSession
  <2>4. RestTypes'
    BY <1>0, <2>1, <2>3 DEF RestTypes
  <2> QED
    BY <2>1, <2>2, <2>4 DEF IInv
<1>4. ASSUME NEW b \in BOOLEAN, SetUnlocked(b) PROVE IInv'
  <2>1. RowTypes' /\ RowsInv'
    BY <1>0, <1>4, RowsSame DEF SetUnlocked, InUse
  <2>2. HandlerType' /\ HandlerFits' /\ StagingInv'
    BY <1>4, Beside DEF SetUnlocked
  <2>3. RestTypes'
    BY <1>0, <1>4 DEF SetUnlocked, RestTypes
  <2> QED
    BY <2>1, <2>2, <2>3 DEF IInv
<1>5. ASSUME NEW b \in BOOLEAN, UpdateAccount(b) PROVE IInv'
  <2>1. RowTypes' /\ RowsInv'
    BY <1>0, <1>5, RowsSame DEF UpdateAccount, InUse
  <2>2. HandlerType' /\ HandlerFits' /\ StagingInv'
    BY <1>5, Beside DEF UpdateAccount
  <2>3. account.revision + 1 \in Revisions /\ edits' \in 0..MaxEdits
    BY <1>0, <1>5, EnrollmentAssumption DEF UpdateAccount, RestTypes, Revisions
  <2>4. account' \in [revision : Revisions, enabled : BOOLEAN]
    BY <1>5, <2>3 DEF UpdateAccount
  <2>5. RestTypes'
    BY <1>0, <1>5, <2>3, <2>4 DEF UpdateAccount, RestTypes
  <2> QED
    BY <2>1, <2>2, <2>5 DEF IInv
<1>6. ASSUME NEW p \in Profiles, NEW b \in BOOLEAN, UpdateProfile(p, b) PROVE IInv'
  <2>1. RowTypes' /\ RowsInv'
    BY <1>0, <1>6, RowsUpdate
  <2>2. HandlerType' /\ HandlerFits' /\ StagingInv'
    BY <1>6, Beside DEF UpdateProfile
  <2>3. edits' \in 0..MaxEdits
    <3>1. edits \in 0..MaxEdits /\ edits < MaxEdits /\ edits' = edits + 1
      BY <1>0, <1>6 DEF UpdateProfile, RestTypes
    <3> QED
      BY <3>1, EnrollmentAssumption
  <2>4. RestTypes'
    BY <1>0, <1>6, <2>3 DEF UpdateProfile, RestTypes
  <2> QED
    BY <2>1, <2>2, <2>4 DEF IInv
<1>7. ASSUME NEW e \in Enrollments, Expire(e) PROVE IInv'
  <2>1. RowTypes' /\ RowsInv'
    BY <1>0, <1>7, RowsSame DEF Expire, InUse
  <2>2. HandlerType' /\ HandlerFits' /\ StagingInv'
    BY <1>7, Beside DEF Expire
  <2>3. RestTypes'
    BY <1>0, <1>7 DEF Expire, RestTypes
  <2> QED
    BY <2>1, <2>2, <2>3 DEF IInv
<1> QED
  BY <1>1, <1>2, <1>3, <1>4, <1>5, <1>6, <1>7

(* A step that finishes an enrollment keeps the invariant.                 *)
LEMMA FinishStep ==
  ASSUME IInv, NEW e \in Enrollments, NEW s \in Ended, IsOpen(e), daemon = "up",
         FinishAuthEnrollment(e, s),
         UNCHANGED <<registry, due, staging, sessions, process>>,
         HandlerType',
         \/ handler'.pc = "remove" /\ handler'.e = e /\ \A d \in staging : IsOpen(d)
         \/ /\ handler.pc = "expire" /\ handler'.pc = "expire"
            /\ handler'.e = handler.e /\ handler'.p = handler.p /\ handler'.c = handler.c
            /\ handler'.paths = handler.paths \cup {e}
  PROVE  IInv'
<1> USE DEF registry, sessions, process
<1>0. RowTypes /\ RestTypes /\ RowsInv
  BY DEF IInv
<1>1. RowTypes' /\ RowsInv' /\ revoking' \subseteq Credentials
  BY <1>0, RowsFinish
<1>2. \A d \in Enrollments \ {e} : enrollment'[d] = enrollment[d]
  BY <1>0, FinishFacts
<1>3. RestTypes'
  BY <1>0, <1>1 DEF RestTypes
<1>4. \A d \in Enrollments \ {e} : IsOpen(d) => IsOpen(d)'
  BY <1>2 DEF IsOpen
<1>5. HandlerFits' /\ StagingInv'
  <2>1. CASE handler'.pc = "remove" /\ handler'.e = e /\ \A d \in staging : IsOpen(d)
    <3>1. HandlerFits'
      BY <2>1 DEF HandlerFits
    <3>2. ASSUME NEW d \in staging PROVE Guarded(d)'
      <4>1. CASE d = e
        BY <2>1, <4>1 DEF Guarded
      <4>2. CASE d # e
        BY <1>0, <1>4, <2>1, <4>2 DEF Guarded, RestTypes
      <4> QED
        BY <4>1, <4>2
    <3>3. StagingInv'
      BY <3>2 DEF StagingInv
    <3> QED
      BY <3>1, <3>3
  <2>2. CASE /\ handler.pc = "expire" /\ handler'.pc = "expire"
             /\ handler'.e = handler.e /\ handler'.p = handler.p /\ handler'.c = handler.c
             /\ handler'.paths = handler.paths \cup {e}
    <3>1. /\ handler.e \in Enrollments /\ enrollment[handler.e].state = "none"
          /\ handler.p \in Profiles /\ handler.c \in Credentials
      BY <2>2 DEF IInv, HandlerFits
    <3>2. handler.e # e
      BY <3>1 DEF IsOpen, Open
    <3>3. enrollment'[handler.e].state = "none"
      BY <1>2, <3>1, <3>2
    <3>4. HandlerFits'
      BY <2>2, <3>1, <3>3 DEF HandlerFits
    <3>5. \A d \in staging : IsOpen(d) \/ d \in handler.paths
      BY <2>2 DEF IInv, StagingInv, Guarded
    <3>6. StagingInv'
      BY <1>0, <1>4, <2>2, <3>5 DEF StagingInv, Guarded, RestTypes
    <3> QED
      BY <3>4, <3>6
  <2> QED
    BY <2>1, <2>2
<1> QED
  BY <1>1, <1>3, <1>5 DEF IInv

(* auth.begin keeps the invariant.                                         *)
LEMMA BeginStep ==
  ASSUME IInv,
         \/ \E e \in Enrollments, p \in Profiles, c \in Credentials : AuthBegin(e, p, c)
         \/ \E e \in Enrollments : ExpireDueAuthEnrollments(e)
         \/ ExpireDone \/ CreateEnrollmentStaging \/ BeginAuthEnrollment
         \/ RemoveEnrollmentStaging
  PROVE  IInv'
<1>0. RowTypes /\ RestTypes /\ HandlerType /\ RowsInv /\ HandlerFits /\ StagingInv
  BY DEF IInv
<1> USE DEF registry, sessions, process
<1>1. ASSUME NEW e \in Enrollments, NEW p \in Profiles, NEW c \in Credentials, AuthBegin(e, p, c)
      PROVE  IInv'
  <2>1. RowTypes' /\ RowsInv'
    BY <1>0, <1>1, RowsSame DEF AuthBegin, InUse
  <2>2. RestTypes'
    BY <1>0, <1>1 DEF AuthBegin, RestTypes
  <2>3. /\ handler' \in HandlerRecord /\ handler'.pc = "expire" /\ handler'.e = e
        /\ handler'.p = p /\ handler'.c = c
    <3>1. Idle \in HandlerRecord
      BY Constants
    <3>2. [Idle EXCEPT !.pc = "expire", !.e = e, !.p = p, !.c = c] \in HandlerRecord
      BY <3>1 DEF HandlerRecord, PCs
    <3> QED
      BY <1>1, <3>1, <3>2 DEF AuthBegin, HandlerRecord
  <2>4. HandlerFits'
    BY <1>1, <2>3 DEF AuthBegin, HandlerFits
  <2>5. \A d \in staging : IsOpen(d)
    BY <1>0, <1>1 DEF AuthBegin, Busy, StagingInv, Guarded
  <2>6. StagingInv'
    BY <1>1, <2>5 DEF AuthBegin, StagingInv, Guarded, IsOpen
  <2> QED
    BY <2>1, <2>2, <2>3, <2>4, <2>6 DEF IInv, HandlerType
<1>2. ASSUME NEW e \in Enrollments, ExpireDueAuthEnrollments(e) PROVE IInv'
  <2>1. /\ handler.pc = "expire" /\ daemon = "up" /\ IsOpen(e) /\ FinishAuthEnrollment(e, "expired")
        /\ UNCHANGED <<registry, due, staging, sessions, process>>
        /\ handler' = [handler EXCEPT !.paths = @ \cup {e}]
    BY <1>2 DEF ExpireDueAuthEnrollments, Busy
  <2>2. /\ handler' \in HandlerRecord /\ handler'.pc = handler.pc
        /\ handler'.e = handler.e /\ handler'.p = handler.p /\ handler'.c = handler.c
        /\ handler'.paths = handler.paths \cup {e}
    BY <1>0, <2>1 DEF HandlerType, HandlerRecord
  <2>3. "expired" \in Ended
    BY DEF Ended
  <2> QED
    BY <2>1, <2>2, <2>3, FinishStep DEF HandlerType
<1>3. CASE ExpireDone
  <2>1. RowTypes' /\ RowsInv'
    BY <1>0, <1>3, RowsSame DEF ExpireDone, InUse
  <2>2. RestTypes'
    BY <1>0, <1>3 DEF ExpireDone, RestTypes
  <2>3. \A d \in staging' : IsOpen(d)
    BY <1>0, <1>3 DEF ExpireDone, Busy, StagingInv, Guarded
  <2>4. StagingInv'
    BY <1>3, <2>3 DEF ExpireDone, StagingInv, Guarded, IsOpen
  <2>5. CASE handler' = [handler EXCEPT !.pc = "stage", !.paths = {}]
    <3>1. /\ handler' \in HandlerRecord /\ handler'.pc = "stage"
          /\ handler'.e = handler.e /\ handler'.p = handler.p /\ handler'.c = handler.c
      BY <1>0, <2>5 DEF HandlerType, HandlerRecord, PCs
    <3>2. HandlerFits'
      BY <1>0, <1>3, <3>1 DEF ExpireDone, Busy, HandlerFits
    <3> QED
      BY <2>1, <2>2, <2>4, <3>1, <3>2 DEF IInv, HandlerType
  <2>6. CASE handler' = Idle
    <3>1. HandlerType' /\ HandlerFits'
      BY <1>0, <2>6, HandlerFacts DEF HandlerType, HandlerFits
    <3> QED
      BY <2>1, <2>2, <2>4, <3>1 DEF IInv
  <2> QED
    BY <1>3, <2>5, <2>6 DEF ExpireDone
<1>4. CASE CreateEnrollmentStaging
  <2>1. RowTypes' /\ RowsInv'
    BY <1>0, <1>4, RowsSame DEF CreateEnrollmentStaging, InUse
  <2>2. /\ handler.pc = "stage" /\ daemon = "up" /\ daemon' = "up"
        /\ staging' = staging \cup {handler.e} /\ handler' = [handler EXCEPT !.pc = "insert"]
        /\ UNCHANGED enrollment
    BY <1>4 DEF CreateEnrollmentStaging, Busy, Goto
  <2>3. handler.e \in Enrollments
    BY <1>0, <2>2 DEF HandlerFits
  <2>4. RestTypes'
    BY <1>0, <1>4, <2>3 DEF CreateEnrollmentStaging, RestTypes
  <2>5. /\ handler' \in HandlerRecord /\ handler'.pc = "insert"
        /\ handler'.e = handler.e /\ handler'.p = handler.p /\ handler'.c = handler.c
    BY <1>0, <2>2 DEF HandlerType, HandlerRecord, PCs
  <2>6. HandlerFits'
    BY <1>0, <2>2, <2>5 DEF HandlerFits
  <2>7. \A d \in staging : IsOpen(d)
    BY <1>0, <2>2 DEF StagingInv, Guarded
  <2>8. StagingInv'
    BY <2>2, <2>5, <2>7 DEF StagingInv, Guarded, IsOpen
  <2> QED
    BY <2>1, <2>4, <2>5, <2>6, <2>8 DEF IInv, HandlerType
<1>5. CASE BeginAuthEnrollment
  <2>1. RowTypes' /\ RowsInv'
    BY <1>0, <1>5, RowsBegin
  <2>2. RestTypes'
    BY <1>0, <1>5 DEF BeginAuthEnrollment, RestTypes
  <2>3. PICK e \in Enrollments : /\ handler.e = e /\ handler.pc = "insert" /\ daemon = "up"
                                 /\ UNCHANGED <<staging, daemon>>
    BY <1>0, <1>5 DEF BeginAuthEnrollment, Busy, HandlerFits
  <2>4. \A d \in staging : IsOpen(d) \/ d = e
    BY <1>0, <2>3 DEF StagingInv, Guarded
  <2>5. CASE UNCHANGED enrollment /\ Goto("remove")
    <3>1. handler' \in HandlerRecord /\ handler'.pc = "remove" /\ handler'.e = e
      BY <1>0, <2>3, <2>5 DEF Goto, HandlerType, HandlerRecord, PCs
    <3>2. HandlerFits'
      BY <3>1 DEF HandlerFits
    <3>3. StagingInv'
      BY <2>3, <2>4, <2>5, <3>1 DEF StagingInv, Guarded, IsOpen
    <3> QED
      BY <2>1, <2>2, <3>1, <3>2, <3>3 DEF IInv, HandlerType
  <2>6. CASE /\ handler' = Idle
             /\ enrollment' = [enrollment EXCEPT ![e] =
                  [NoEnrollment EXCEPT !.state = "begun", !.profile = handler.p, !.cred = handler.c]]
    <3>1. HandlerType' /\ HandlerFits'
      BY <1>0, <2>6, HandlerFacts DEF HandlerType, HandlerFits
    <3>2. enrollment'[e].state = "begun" /\ \A d \in Enrollments \ {e} : enrollment'[d] = enrollment[d]
      BY <1>0, <2>6 DEF RowTypes, NoEnrollment
    <3>3. \A d \in Enrollments : IsOpen(d) \/ d = e => IsOpen(d)'
      BY <3>2 DEF IsOpen, Open
    <3>4. StagingInv'
      BY <1>0, <2>3, <2>4, <3>3 DEF StagingInv, Guarded, RestTypes
    <3> QED
      BY <2>1, <2>2, <3>1, <3>4 DEF IInv
  <2> QED
    BY <1>5, <2>3, <2>5, <2>6 DEF BeginAuthEnrollment
<1>6. CASE RemoveEnrollmentStaging
  <2>1. RowTypes' /\ RowsInv'
    BY <1>0, <1>6, RowsSame DEF RemoveEnrollmentStaging, InUse
  <2>2. RestTypes'
    BY <1>0, <1>6 DEF RemoveEnrollmentStaging, RestTypes
  <2>3. HandlerType' /\ HandlerFits'
    BY <1>0, <1>6, HandlerFacts DEF RemoveEnrollmentStaging, HandlerType, HandlerFits
  <2>4. StagingInv'
    BY <1>0, <1>6 DEF RemoveEnrollmentStaging, Busy, StagingInv, Guarded, IsOpen
  <2> QED
    BY <2>1, <2>2, <2>3, <2>4 DEF IInv
<1> QED
  BY <1>1, <1>2, <1>3, <1>4, <1>5, <1>6

(* A step that moves an open enrollment on keeps the invariant.            *)
LEMMA MoveStep ==
  ASSUME IInv, NEW e \in Enrollments, IsOpen(e), daemon = "up",
         \A d \in staging : IsOpen(d),
         NEW r \in EnrollmentRecord, r.state \in Open,
         r.profile = enrollment[e].profile, r.cred = enrollment[e].cred,
         enrollment' = [enrollment EXCEPT ![e] = r],
         UNCHANGED <<credential, revoking, registry, due, staging, sessions, process>>,
         HandlerType', handler'.pc = "idle" \/ handler'.e = e,
         \/ handler'.pc = "idle"
         \/ handler'.pc \in {"validate", "await"} /\ r.state = "validating"
         \/ handler'.pc \in {"attest", "check", "seal"} /\ r.state = "awaiting"
  PROVE  IInv'
<1> USE DEF registry, sessions, process
<1>0. RowTypes /\ RestTypes /\ HandlerType /\ RowsInv
  BY DEF IInv
<1>1. RowTypes' /\ RowsInv' /\ enrollment'[e] = r
  BY <1>0, RowsMove
<1>2. RestTypes'
  BY <1>0 DEF RestTypes
<1>3. HandlerFits'
  BY <1>1 DEF HandlerFits
<1>4. \A d \in Enrollments : IsOpen(d) => IsOpen(d)'
  BY <1>0, <1>1 DEF IsOpen, RowTypes
<1>5. StagingInv'
  BY <1>0, <1>4 DEF StagingInv, Guarded, RestTypes
<1> QED
  BY <1>1, <1>2, <1>3, <1>5 DEF IInv

(* A step that only reads keeps the invariant.                             *)
LEMMA GoStep ==
  ASSUME IInv, daemon = "up", \A d \in staging : IsOpen(d),
         UNCHANGED <<enrollment, credential, revoking, registry, due, staging, sessions, process>>,
         HandlerType', HandlerFits'
  PROVE  IInv'
<1> USE DEF registry, sessions, process
<1>0. RowTypes /\ RestTypes /\ HandlerType /\ RowsInv
  BY DEF IInv
<1>1. RowTypes' /\ RowsInv'
  BY <1>0, RowsSame DEF InUse
<1>2. RestTypes'
  BY <1>0 DEF RestTypes
<1>3. StagingInv'
  BY DEF StagingInv, Guarded, IsOpen
<1> QED
  BY <1>1, <1>2, <1>3 DEF IInv

(* auth.complete, auth.cancel and auth.confirm up to the seal keep the     *)
(* invariant.                                                              *)
LEMMA CompleteStep ==
  ASSUME IInv,
         \/ \E e \in Enrollments : ClaimAuthEnrollment(e) \/ AuthCancel(e) \/ AuthConfirm(e)
         \/ Validated \/ AwaitAuthEnrollmentConfirmation \/ FailEnrollment
         \/ ConfirmAuthEnrollmentAttestation \/ ConfirmValidated
  PROVE  IInv'
<1>0. RowTypes /\ RestTypes /\ HandlerType /\ RowsInv /\ HandlerFits /\ StagingInv
  BY DEF IInv
<1>1. \A d \in staging : daemon = "up" /\ handler.pc \notin {"insert", "remove", "expire"} => IsOpen(d)
  BY <1>0 DEF StagingInv, Guarded
<1>2. Ended = {"expired", "cancelled", "failed"}
  BY DEF Ended
<1>3. ASSUME NEW e \in Enrollments, ClaimAuthEnrollment(e) PROVE IInv'
  <2>1. /\ handler.pc = "idle" /\ daemon = "up"
        /\ UNCHANGED <<registry, due, staging, sessions, process>>
    BY <1>3 DEF ClaimAuthEnrollment, Busy
  <2>2. CASE /\ IsOpen(e) /\ FinishAuthEnrollment(e, "expired")
             /\ handler' = [Idle EXCEPT !.pc = "remove", !.e = e]
    <3>1. HandlerType' /\ handler'.pc = "remove" /\ handler'.e = e
      BY <2>2, IdleAt DEF PCs
    <3> QED
      BY <1>1, <1>2, <2>1, <2>2, <3>1, FinishStep
  <2>3. CASE /\ enrollment[e].state = "begun"
             /\ enrollment' = [enrollment EXCEPT ![e].state = "validating"]
             /\ handler' = [Idle EXCEPT !.pc = "validate", !.e = e]
             /\ UNCHANGED <<credential, revoking>>
    <3> DEFINE r == [enrollment[e] EXCEPT !.state = "validating"]
    <3>1. enrollment[e] \in EnrollmentRecord
      BY <1>0, RowFacts
    <3>2. /\ r \in EnrollmentRecord /\ r.state = "validating" /\ r.state \in Open
          /\ r.profile = enrollment[e].profile /\ r.cred = enrollment[e].cred
      BY <3>1 DEF EnrollmentRecord, States, Open
    <3>3. enrollment' = [enrollment EXCEPT ![e] = r]
      BY <2>3
    <3>4. HandlerType' /\ handler'.pc = "validate" /\ handler'.e = e
      BY <2>3, IdleAt DEF PCs
    <3>5. IsOpen(e)
      BY <2>3 DEF IsOpen, Open
    <3> HIDE DEF r
    <3> QED
      BY <1>1, <2>1, <2>3, <3>2, <3>3, <3>4, <3>5, MoveStep
  <2>4. CASE /\ handler' = [Idle EXCEPT !.pc = "remove", !.e = e]
             /\ UNCHANGED <<enrollment, credential, revoking>>
    <3>1. HandlerType' /\ handler'.pc = "remove" /\ handler'.e = e
      BY <2>4, IdleAt DEF PCs
    <3>2. HandlerFits'
      BY <3>1 DEF HandlerFits
    <3> QED
      BY <1>1, <2>1, <2>4, <3>1, <3>2, GoStep
  <2> QED
    BY <1>3, <2>2, <2>3, <2>4 DEF ClaimAuthEnrollment
<1>4. ASSUME NEW e \in Enrollments, AuthCancel(e) PROVE IInv'
  <2>1. /\ handler.pc = "idle" /\ daemon = "up" /\ IsOpen(e) /\ FinishAuthEnrollment(e, "cancelled")
        /\ handler' = [Idle EXCEPT !.pc = "remove", !.e = e]
        /\ UNCHANGED <<registry, due, staging, sessions, process>>
    BY <1>4 DEF AuthCancel, Busy
  <2>2. HandlerType' /\ handler'.pc = "remove" /\ handler'.e = e
    BY <2>1, IdleAt DEF PCs
  <2> QED
    BY <1>1, <1>2, <2>1, <2>2, FinishStep
<1>5. ASSUME NEW e \in Enrollments, AuthConfirm(e) PROVE IInv'
  <2>1. /\ handler.pc = "idle" /\ daemon = "up" /\ enrollment[e].state = "awaiting"
        /\ handler' = [Idle EXCEPT !.pc = "attest", !.e = e]
        /\ UNCHANGED <<enrollment, credential, revoking, registry, due, staging, sessions, process>>
    BY <1>5 DEF AuthConfirm, Busy
  <2>2. HandlerType' /\ handler'.pc = "attest" /\ handler'.e = e
    BY <2>1, IdleAt DEF PCs
  <2>3. HandlerFits'
    BY <2>1, <2>2 DEF HandlerFits
  <2> QED
    BY <1>1, <2>1, <2>2, <2>3, GoStep
<1>6. CASE Validated \/ ConfirmValidated
  <2>1. PICK l \in {"await", "seal"} :
          /\ daemon = "up" /\ handler.pc = IF l = "await" THEN "validate" ELSE "check"
          /\ handler' = [handler EXCEPT !.pc = l, !.tuple = CurrentTuple(handler.e)]
          /\ UNCHANGED <<enrollment, credential, revoking, registry, due, staging, sessions, process>>
    BY <1>6 DEF Validated, ConfirmValidated, Busy
  <2>2. handler.e \in Enrollments /\ IsOpen(handler.e)
    BY <1>0, <2>1 DEF HandlerFits, IsOpen, Open
  <2>3. CurrentTuple(handler.e) \in Tuples
    BY <1>0, <2>2, TupleFacts
  <2>4. HandlerType' /\ handler'.pc = l /\ handler'.e = handler.e
    BY <1>0, <2>1, <2>3, TupleAt DEF PCs
  <2>5. HandlerFits'
    BY <1>0, <2>1, <2>2, <2>4 DEF HandlerFits
  <2> QED
    BY <1>1, <2>1, <2>4, <2>5, GoStep
<1>7. CASE AwaitAuthEnrollmentConfirmation
  <2>1. PICK e \in Enrollments :
          handler.e = e /\ handler.pc = "await" /\ daemon = "up" /\ enrollment[e].state = "validating"
    BY <1>0, <1>7 DEF AwaitAuthEnrollmentConfirmation, Busy, HandlerFits
  <2> DEFINE r == [enrollment[e] EXCEPT !.state = "awaiting", !.tuple = handler.tuple,
                                        !.attested = enrollment[e].cred]
  <2>2. enrollment[e] \in EnrollmentRecord /\ handler.tuple \in Tuples
    BY <1>0, RowFacts DEF HandlerType, HandlerRecord
  <2>3. /\ r \in EnrollmentRecord /\ r.state \in Open
        /\ r.profile = enrollment[e].profile /\ r.cred = enrollment[e].cred
    BY <2>2 DEF EnrollmentRecord, States, Open
  <2>4. /\ enrollment' = [enrollment EXCEPT ![e] = r] /\ handler' = Idle
        /\ UNCHANGED <<credential, revoking, registry, due, staging, sessions, process>>
    BY <1>7, <2>1 DEF AwaitAuthEnrollmentConfirmation
  <2>5. HandlerType' /\ handler'.pc = "idle"
    BY <1>0, <2>4, HandlerFacts DEF HandlerType
  <2>6. IsOpen(e)
    BY <2>1 DEF IsOpen, Open
  <2> HIDE DEF r
  <2> QED
    BY <1>1, <2>1, <2>3, <2>4, <2>5, <2>6, MoveStep
<1>8. ASSUME NEW e \in Enrollments, NEW s \in Ended, handler.e = e, IsOpen(e),
             handler.pc \notin {"insert", "remove", "expire"},
             daemon = "up", FinishAuthEnrollment(e, s), Goto("remove"),
             UNCHANGED <<registry, due, staging, sessions, process>>
      PROVE  IInv'
  <2>1. HandlerType' /\ handler'.pc = "remove" /\ handler'.e = e
    BY <1>0, <1>8, GotoAt DEF PCs
  <2> QED
    BY <1>1, <1>8, <2>1, FinishStep
<1>9. CASE FailEnrollment
  <2>1. /\ handler.pc \in {"validate", "await", "check", "seal"} /\ daemon = "up"
        /\ FinishAuthEnrollment(handler.e, "failed") /\ Goto("remove")
        /\ UNCHANGED <<registry, due, staging, sessions, process>>
    BY <1>9 DEF FailEnrollment, Busy
  <2>2. handler.e \in Enrollments /\ IsOpen(handler.e)
    BY <1>0, <2>1 DEF HandlerFits, IsOpen, Open
  <2>3. PICK e \in Enrollments : e = handler.e
    BY <2>2
  <2> QED
    BY <1>2, <1>8, <2>1, <2>2, <2>3
<1>10. CASE ConfirmAuthEnrollmentAttestation
  <2>1. PICK e \in Enrollments :
          handler.e = e /\ handler.pc = "attest" /\ daemon = "up" /\ enrollment[e].state = "awaiting"
    BY <1>0, <1>10 DEF ConfirmAuthEnrollmentAttestation, Busy, HandlerFits
  <2>2. IsOpen(e) /\ UNCHANGED <<registry, due, staging, sessions, process>>
    BY <1>10, <2>1 DEF ConfirmAuthEnrollmentAttestation, IsOpen, Open
  <2>3. CASE FinishAuthEnrollment(e, "expired") /\ Goto("remove")
    BY <1>2, <1>8, <2>1, <2>2, <2>3
  <2>4. CASE /\ enrollment' = [enrollment EXCEPT ![e].confirmed = TRUE]
             /\ Goto("check") /\ UNCHANGED <<credential, revoking>>
    <3> DEFINE r == [enrollment[e] EXCEPT !.confirmed = TRUE]
    <3>1. enrollment[e] \in EnrollmentRecord
      BY <1>0, RowFacts
    <3>2. /\ r \in EnrollmentRecord /\ r.state = "awaiting" /\ r.state \in Open
          /\ r.profile = enrollment[e].profile /\ r.cred = enrollment[e].cred
      BY <2>1, <3>1 DEF EnrollmentRecord, Open
    <3>3. enrollment' = [enrollment EXCEPT ![e] = r]
      BY <2>4
    <3>4. HandlerType' /\ handler'.pc = "check" /\ handler'.e = e
      BY <1>0, <2>1, <2>4, GotoAt DEF PCs
    <3> HIDE DEF r
    <3> QED
      BY <1>1, <2>1, <2>2, <2>4, <3>2, <3>3, <3>4, MoveStep
  <2> QED
    BY <1>10, <2>1, <2>3, <2>4 DEF ConfirmAuthEnrollmentAttestation
<1> QED
  BY <1>3, <1>4, <1>5, <1>6, <1>7, <1>9, <1>10

(* The seal keeps the invariant.                                           *)
LEMMA SealStep ==
  ASSUME IInv, ReplaceVaultItemEnrollmentCAS
  PROVE  IInv'
<1>0. RowTypes /\ RestTypes /\ HandlerType /\ RowsInv /\ HandlerFits /\ StagingInv
  BY DEF IInv
<1>1. RowTypes' /\ RowsInv'
  BY <1>0, RowsSeal
<1>2. PICK e \in Enrollments : /\ handler.e = e /\ handler.pc = "seal" /\ daemon = "up"
                               /\ UNCHANGED <<staging, daemon>> /\ Goto("remove")
                               /\ enrollment' = Succeeded(e)
  BY <1>0 DEF ReplaceVaultItemEnrollmentCAS, Busy, HandlerFits, process
<1>3. RestTypes'
  BY <1>0 DEF ReplaceVaultItemEnrollmentCAS, RestTypes, sessions, process
<1>4. HandlerType' /\ handler'.pc = "remove" /\ handler'.e = e
  BY <1>0, <1>2, GotoAt DEF PCs
<1>5. HandlerFits'
  BY <1>4 DEF HandlerFits
<1>6. \A d \in Enrollments \ {e} : IsOpen(d) => IsOpen(d)'
  BY <1>0, <1>2 DEF Succeeded, IsOpen, RowTypes
<1>7. \A d \in staging : IsOpen(d)
  BY <1>0, <1>2 DEF StagingInv, Guarded
<1>8. ASSUME NEW d \in staging PROVE Guarded(d)'
  <2>1. CASE d = e
    BY <1>4, <2>1 DEF Guarded
  <2>2. CASE d # e
    BY <1>0, <1>6, <1>7, <2>2 DEF Guarded, RestTypes
  <2> QED
    BY <2>1, <2>2
<1>9. StagingInv'
  BY <1>2, <1>8 DEF StagingInv
<1> QED
  BY <1>1, <1>3, <1>4, <1>5, <1>9 DEF IInv

(* auth.logout keeps the invariant.                                        *)
LEMMA LogoutStep ==
  ASSUME IInv,
         \/ \E c \in Credentials : ReserveVaultCredentialRevocation(c)
         \/ RemoveCredentialHome \/ FinalizeVaultCredentialRevocation
  PROVE  IInv'
<1>0. RowTypes /\ RestTypes /\ HandlerType /\ RowsInv /\ HandlerFits /\ StagingInv
  BY DEF IInv
<1> USE DEF registry, sessions, process
<1>1. ASSUME UNCHANGED <<enrollment, staging, daemon>>,
             handler.pc \notin {"insert", "remove", "expire"}
      PROVE  StagingInv'
  <2>1. daemon = "up" => \A d \in staging : IsOpen(d)
    BY <1>0, <1>1 DEF StagingInv, Guarded
  <2> QED
    BY <1>1, <2>1 DEF StagingInv, Guarded, IsOpen
<1>2. ASSUME NEW c \in Credentials, ReserveVaultCredentialRevocation(c) PROVE IInv'
  <2>1. RowTypes' /\ RowsInv' /\ revoking' \subseteq Credentials
           /\ (c \in revoking' \/ credential'[c].status = "revoked")
    BY <1>0, <1>2, RowsReserve
  <2>2. /\ handler.pc = "idle" /\ handler' = [Idle EXCEPT !.pc = "home", !.c = c]
        /\ UNCHANGED <<enrollment, staging, daemon>>
    BY <1>2 DEF ReserveVaultCredentialRevocation, Busy
  <2>3. HandlerType' /\ handler'.pc = "home" /\ handler'.c = c
    BY <2>2, IdleFor DEF PCs
  <2>4. HandlerFits'
    BY <2>1, <2>3 DEF HandlerFits
  <2>5. RestTypes'
    BY <1>0, <1>2, <2>1 DEF ReserveVaultCredentialRevocation, RestTypes
  <2>6. StagingInv'
    BY <1>1, <2>2
  <2> QED
    BY <2>1, <2>3, <2>4, <2>5, <2>6 DEF IInv
<1>3. CASE RemoveCredentialHome
  <2>1. RowTypes' /\ RowsInv'
    BY <1>0, <1>3, RowsSame DEF RemoveCredentialHome, InUse
  <2>2. /\ handler.pc = "home" /\ UNCHANGED <<enrollment, credential, revoking, staging, daemon>>
    BY <1>3 DEF RemoveCredentialHome, Busy
  <2>3. RestTypes'
    BY <1>0, <1>3 DEF RemoveCredentialHome, RestTypes
  <2>4. StagingInv'
    BY <1>1, <2>2
  <2>5. CASE home' = home \ {handler.c} /\ Goto("finalize")
    <3>1. HandlerType' /\ handler'.pc = "finalize" /\ handler'.c = handler.c
      BY <1>0, <2>5, GotoAt DEF PCs
    <3>2. HandlerFits'
      BY <1>0, <2>2, <2>5, <3>1 DEF HandlerFits
    <3> QED
      BY <2>1, <2>3, <2>4, <3>1, <3>2 DEF IInv
  <2>6. CASE handler' = Idle
    <3>1. HandlerType' /\ HandlerFits'
      BY <2>6, HandlerFacts DEF HandlerType, HandlerFits
    <3> QED
      BY <2>1, <2>3, <2>4, <3>1 DEF IInv
  <2> QED
    BY <1>3, <2>5, <2>6 DEF RemoveCredentialHome
<1>4. CASE FinalizeVaultCredentialRevocation
  <2>1. RowTypes' /\ RowsInv' /\ revoking' \subseteq Credentials
    BY <1>0, <1>4, RowsRevoke
  <2>2. handler.pc = "finalize" /\ handler' = Idle /\ UNCHANGED <<enrollment, staging, daemon>>
    BY <1>4 DEF FinalizeVaultCredentialRevocation, Busy
  <2>3. HandlerType' /\ HandlerFits'
    BY <2>2, HandlerFacts DEF HandlerType, HandlerFits
  <2>4. UNCHANGED <<account, edits, due, home, active, orphaned, runtime, unlocked, crashes>>
    BY <1>4 DEF FinalizeVaultCredentialRevocation
  <2>5. RestTypes'
    BY <1>0, <2>1, <2>2, <2>4 DEF RestTypes
  <2>6. StagingInv'
    BY <1>1, <2>2
  <2> QED
    BY <2>1, <2>3, <2>5, <2>6 DEF IInv
<1> QED
  BY <1>2, <1>3, <1>4

(* A restart keeps the invariant.                                          *)
LEMMA RestartStep == ASSUME IInv, Restart PROVE IInv'
<1>0. RowTypes /\ RestTypes /\ RowsInv
  BY DEF IInv
<1>1. RowTypes' /\ RowsInv' /\ revoking' \subseteq Credentials
  BY <1>0, RowsRestart
<1>2. HandlerType' /\ HandlerFits'
  BY HandlerFacts DEF Restart, HandlerType, HandlerFits
<1>3. StagingInv'
  BY DEF Restart, StagingInv
<1>4. /\ UNCHANGED <<account, edits, due, home>> /\ unlocked' = FALSE /\ active' = {}
      /\ orphaned' = orphaned \cup active /\ runtime' = [c \in Credentials |-> None]
      /\ crashes < MaxCrashes /\ crashes' = crashes + 1
      /\ staging' = staging \/ staging' = {}
      /\ daemon' \in {"up", "down"}
  BY <1>0 DEF Restart, registry, RestTypes
<1>5. crashes' \in 0..MaxCrashes
  BY <1>0, <1>4, EnrollmentAssumption DEF RestTypes
<1>6. RestTypes'
  BY <1>0, <1>1, <1>4, <1>5 DEF RestTypes
<1> QED
  BY <1>1, <1>2, <1>3, <1>6 DEF IInv

-----------------------------------------------------------------------------
(* The inductive invariant holds in every state of login and logout,       *)
(* crashes between their steps included.                                   *)
THEOREM EnrollmentInvariant == Spec => []IInv
<1>1. IInv /\ [Next]_vars => IInv'
  <2> SUFFICES ASSUME IInv, [Next]_vars PROVE IInv'
    OBVIOUS
  <2>1. CASE Next
    BY <2>1, BeginStep, CompleteStep, SealStep, LogoutStep, BesideStep, RestartStep DEF Next
  <2>2. CASE UNCHANGED vars
    <3>1. RowTypes' /\ RowsInv'
      BY <2>2, RowsSame DEF IInv, vars, registry, sessions, InUse
    <3>2. HandlerType' /\ HandlerFits' /\ StagingInv'
      BY <2>2, Beside DEF vars, registry, sessions, process
    <3>3. RestTypes'
      BY <2>2 DEF IInv, RestTypes, vars, registry, sessions, process
    <3> QED
      BY <3>1, <3>2, <3>3 DEF IInv
  <2> QED
    BY <2>1, <2>2
<1> QED
  BY InitInv, <1>1, PTL DEF Spec

(* Every variable keeps its type and every revision its range.             *)
THEOREM EnrollmentTypeCorrect == Spec => []TypeOK
<1>1. IInv => TypeOK
  BY DEF IInv, TypeOK, RowTypes, RestTypes, HandlerType, CredentialRecord, ProfileRecord, HandlerRecord
<1> QED
  BY <1>1, EnrollmentInvariant, PTL

(* Outside a running method only an open enrollment has a staging home,    *)
(* whichever way it ended and whenever the daemon restarted                *)
(* (RemoveEnrollmentStaging).                                              *)
THEOREM StagingOwned == Spec => []StagingIsOwned
<1>1. IInv => StagingIsOwned
  BY DEF IInv, StagingInv, StagingIsOwned, Guarded, Busy
<1> QED
  BY <1>1, EnrollmentInvariant, PTL

(* Finishing other enrollments and logging out never take the credential   *)
(* row of an open enrollment away (FinishAuthEnrollment, its DELETE).      *)
THEOREM OpenKeepsCredential == Spec => []OpenHasCredential
<1>1. IInv => OpenHasCredential
  BY EnrollmentAssumption DEF IInv, RowsInv, OpenInv, OpenHasCredential
<1> QED
  BY <1>1, EnrollmentInvariant, PTL

(* Every Vault item has a succeeded enrollment that its operator           *)
(* confirmed, also when a runtime committed the item last                  *)
(* (replaceVaultItemCAS).                                                  *)
THEOREM ItemsAreConfirmed == Spec => []SealedIsConfirmed
<1>1. IInv => SealedIsConfirmed
  BY DEF IInv, RowsInv
<1> QED
  BY <1>1, EnrollmentInvariant, PTL

(* Every binding of a profile is to a healthy credential with an item      *)
(* (ReplaceVaultItemEnrollmentCAS, FinalizeVaultCredentialRevocation).     *)
THEOREM BindingsAreSealed == Spec => []BoundIsSealed
<1>1. IInv => BoundIsSealed
  BY DEF IInv, RowsInv
<1> QED
  BY <1>1, EnrollmentInvariant, PTL

(* A credential that is revoked or reserved for it is not in use, and a    *)
(* revoked one has neither item nor home, whatever crashes between the     *)
(* steps of auth.logout.                                                   *)
THEOREM RevocationsHold == Spec => []RevocationHolds
<1>1. IInv => RevocationHolds
  BY DEF IInv, RowsInv
<1> QED
  BY <1>1, EnrollmentInvariant, PTL

-----------------------------------------------------------------------------
(* What a step may do to a credential that is reserved or revoked.         *)
LogoutStays ==
  \A c \in Credentials :
    /\ c \in revoking => credential'[c].revision <= credential[c].revision
    /\ credential[c].status = "revoked" => credential'[c] = credential[c]

(* Deleting a credential that was never sealed respects a logout.          *)
LEMMA Deleted ==
  ASSUME RowTypes, RestTypes,
         \A c \in Credentials : \/ credential'[c] = credential[c]
                                \/ Unsealed(c) /\ credential'[c] = NoCredential
  PROVE  LogoutStays
<1> SUFFICES ASSUME NEW c \in Credentials
             PROVE  /\ credential'[c].revision <= credential[c].revision
                    /\ credential[c].status = "revoked" => credential'[c] = credential[c]
  BY DEF LogoutStays
<1>1. credential[c].revision \in Nat
  BY RowFacts, EnrollmentAssumption DEF CredentialRecord, Revisions
<1> QED
  BY <1>1 DEF Unsealed, NoCredential

(* A seal that Sealable lets through respects a logout.                    *)
LEMMA SealStays ==
  ASSUME RowTypes, RestTypes, NEW c \in Credentials, NEW x, Sealable(c, x), credential' = Sealed(c)
  PROVE  LogoutStays
<1>1. /\ c \notin revoking /\ credential[c].status # "revoked"
      /\ \A d \in Credentials \ {c} : credential'[d] = credential[d]
  BY SealedFacts DEF Sealable
<1>2. \A d \in Credentials : credential[d].revision \in Nat
  BY RowFacts, EnrollmentAssumption DEF CredentialRecord, Revisions
<1> QED
  BY <1>1, <1>2 DEF LogoutStays

(* No step seals over a credential that is revoked or reserved for it, and *)
(* a revoked credential row never changes (Sealable, CommitCodexAuth).     *)
THEOREM LogoutPrevails == Spec => LogoutWins
<1>1. IInv /\ [Next]_vars => [LogoutStays]_vars
  <2> SUFFICES ASSUME IInv, Next PROVE LogoutStays
    OBVIOUS
  <2>0. RowTypes /\ RestTypes /\ RowsInv /\ HandlerFits
    BY DEF IInv
  <2>1. CASE UNCHANGED credential
    BY <2>0, <2>1, Deleted
  <2>2. ASSUME NEW e \in Enrollments, NEW s \in Ended, IsOpen(e), FinishAuthEnrollment(e, s)
        PROVE  LogoutStays
    <3>1. \A c \in Credentials : \/ credential'[c] = credential[c]
                                 \/ Unsealed(c) /\ credential'[c] = NoCredential
      BY <2>0, <2>2, FinishFacts
    <3> QED
      BY <2>0, <3>1, Deleted
  <2>3. "expired" \in Ended /\ "cancelled" \in Ended /\ "failed" \in Ended
    BY DEF Ended
  <2>4. ASSUME NEW e \in Enrollments,
               ExpireDueAuthEnrollments(e) \/ ClaimAuthEnrollment(e) \/ AuthCancel(e)
        PROVE  LogoutStays
    BY <2>1, <2>2, <2>3, <2>4 DEF ExpireDueAuthEnrollments, ClaimAuthEnrollment, AuthCancel
  <2>5. CASE FailEnrollment \/ ConfirmAuthEnrollmentAttestation
    <3>1. PICK e \in Enrollments : e = handler.e /\ IsOpen(e)
      BY <2>0, <2>5
         DEF FailEnrollment, ConfirmAuthEnrollmentAttestation, Busy, HandlerFits, IsOpen, Open
    <3>2. CASE FinishAuthEnrollment(e, "failed") \/ FinishAuthEnrollment(e, "expired")
      BY <2>2, <2>3, <3>1, <3>2
    <3> QED
      BY <2>1, <2>5, <3>1, <3>2 DEF FailEnrollment, ConfirmAuthEnrollmentAttestation
  <2>6. CASE BeginAuthEnrollment
    <3>1. PICK c \in Credentials : handler.c = c
      BY <2>0, <2>6 DEF BeginAuthEnrollment, Busy, HandlerFits
    <3>2. CASE credential[c].status = "none"
               /\ credential' = [credential EXCEPT ![c] =
                        [NoCredential EXCEPT !.status = "unknown", !.revision = 1]]
      <4>1. c \notin revoking
        BY <2>0, <3>2 DEF RowsInv, RevokingInv
      <4>2. \A d \in Credentials \ {c} : credential'[d] = credential[d]
        BY <2>0, <3>2 DEF RowTypes
      <4>3. \A d \in Credentials : credential[d].revision \in Nat
        BY <2>0, RowFacts, EnrollmentAssumption DEF CredentialRecord, Revisions
      <4> QED
        BY <3>2, <4>1, <4>2, <4>3 DEF LogoutStays
    <3> QED
      BY <2>1, <2>6, <3>1, <3>2 DEF BeginAuthEnrollment
  <2>7. CASE ReplaceVaultItemEnrollmentCAS
    <3>1. PICK e \in Enrollments : handler.e = e /\ IsOpen(e)
      BY <2>0, <2>7 DEF ReplaceVaultItemEnrollmentCAS, Busy, HandlerFits, IsOpen, Open
    <3>2. PICK c \in Credentials : c = enrollment[e].cred
      BY <2>0, <3>1 DEF RowsInv, OpenInv
    <3>3. Sealable(c, handler.tuple.revision) /\ credential' = Sealed(c)
      BY <2>7, <3>1, <3>2 DEF ReplaceVaultItemEnrollmentCAS
    <3> QED
      BY <2>0, <3>3, SealStays
  <2>8. CASE FinalizeVaultCredentialRevocation
    <3>1. PICK c \in Credentials : handler.c = c
      BY <2>0, <2>8 DEF FinalizeVaultCredentialRevocation, Busy, HandlerFits
    <3> DEFINE k == [credential[c] EXCEPT !.status = "revoked", !.item = FALSE]
    <3>2. credential' = [credential EXCEPT ![c] = k]
      BY <2>8, <3>1 DEF FinalizeVaultCredentialRevocation
    <3>3. credential[c] \in CredentialRecord
      BY <2>0, RowFacts
    <3>4. k.revision = credential[c].revision /\ (credential[c].status = "revoked" => k = credential[c])
      <4>1. credential[c].status = "revoked" => credential[c].item = FALSE
        BY <2>0, <3>3 DEF RowsInv, RevocationHolds, CredentialRecord
      <4> QED
        BY <3>3, <4>1 DEF CredentialRecord
    <3> HIDE DEF k
    <3>5. credential'[c] = k /\ \A d \in Credentials \ {c} : credential'[d] = credential[d]
      BY <2>0, <3>2 DEF RowTypes
    <3>6. \A d \in Credentials : credential[d].revision \in Nat
      BY <2>0, RowFacts, EnrollmentAssumption DEF CredentialRecord, Revisions
    <3> QED
      BY <3>4, <3>5, <3>6 DEF LogoutStays
  <2>9. ASSUME NEW c \in Credentials, Finalize(c) PROVE LogoutStays
    BY <2>0, <2>1, <2>9, SealStays DEF Finalize, CommitCodexAuth
  <2>10. CASE Restart
    <3>1. CASE Delete(Dropped)
      <4>1. /\ \A c \in Credentials : c \in Dropped => credential'[c] = NoCredential
            /\ \A c \in Credentials : c \notin Dropped => credential'[c] = credential[c]
        BY <2>0, <3>1, DeleteFacts
      <4>2. \A c \in Credentials : c \in Dropped => Unsealed(c)
        BY DEF Dropped
      <4> QED
        BY <2>0, <4>1, <4>2, Deleted
    <3> QED
      BY <2>1, <2>10, <3>1 DEF Restart
  <2> QED
    BY <2>1, <2>4, <2>5, <2>6, <2>7, <2>8, <2>9, <2>10
       DEF Next, AuthBegin, AuthConfirm, Expire, ExpireDone, CreateEnrollmentStaging, Validated,
           AwaitAuthEnrollmentConfirmation, ConfirmValidated, RemoveEnrollmentStaging,
           RemoveCredentialHome, ReserveVaultCredentialRevocation, EndSession, StartSession,
           SetUnlocked, UpdateAccount, UpdateProfile
<1> QED
  BY <1>1, EnrollmentInvariant, PTL DEF Spec, LogoutWins, LogoutStays

=============================================================================
