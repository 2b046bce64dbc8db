------------------------------ MODULE Enrollment ------------------------------
(* Login, logout and the credentials they create: auth.begin,              *)
(* auth.complete, auth.confirm, auth.cancel and auth.logout                *)
(* (app/session_service.go) over the enrollment rows                       *)
(* (storage/enrollment.go), the Vault items and revocation reservations    *)
(* (storage/vault_records.go, vault/vault.go) and the staging and home     *)
(* directories.                                                            *)
(*                                                                         *)
(* The five methods hold SessionService.mu, so one of them runs at a time, *)
(* in steps the daemon may die between.  Beside them run vault.lock and    *)
(* vault.unlock, the registry methods that edit accounts and profiles      *)
(* (requiresIdempotency does not list them), the finalization of a Codex   *)
(* runtime with the commit of its refreshed credential, and time.          *)
(*                                                                         *)
(* An enrollment is only ever touched by the client that began it (every   *)
(* other client is refused first), and a repeated auth.complete with       *)
(* another key is refused, so clients and keys are left out.  There is one *)
(* account.  Times are abstracted to the set of enrollments past expiry.   *)
(* SQLite and the file system fail only where an action says so.           *)
EXTENDS Naturals, FiniteSets

CONSTANTS
  Enrollments,   \* enrollment IDs
  Profiles,      \* runtime profiles of the account
  Credentials,   \* credential instance IDs
  None,          \* a NULL column
  MaxRevision,   \* bound: revisions of a row
  MaxEdits,      \* bound: registry edits
  MaxCrashes     \* bound: daemon restarts

ASSUME EnrollmentAssumption ==
  /\ None \notin Enrollments \cup Profiles \cup Credentials
  /\ MaxRevision \in Nat \ {0}
  /\ MaxEdits \in Nat /\ MaxCrashes \in Nat

VARIABLES
  enrollment,  \* auth_enrollments rows
  credential,  \* credential_instances and vault_items rows
  revoking,    \* credential_revocations rows
  profile,     \* runtime_profiles rows
  account,     \* the accounts row
  edits,       \* registry edits so far
  due,         \* enrollments whose expires_at has passed
  staging,     \* enrollments whose staging directory exists
  home,        \* credentials with a canonical home directory
  active,      \* credentials with a Session that runs
  orphaned,    \* credentials of active Session rows that a crash left behind
  runtime,     \* the revision the Codex runtime of a credential holds
  unlocked,    \* the Vault key is in memory
  handler,     \* the method that holds SessionService.mu
  daemon,      \* "up", or "down" after a start-up that failed
  crashes

registry == <<profile, account, edits>>
sessions == <<home, active, orphaned, runtime>>
process == <<unlocked, daemon, crashes>>

vars == <<enrollment, credential, revoking, registry, due, staging, sessions,
          handler, process>>

Open == {"begun", "validating", "awaiting"}
States == Open \cup {"none", "succeeded", "cancelled", "expired", "failed"}
CredentialStatus == {"none", "unknown", "healthy", "revoked"}
Revisions == 0..MaxRevision

NoTuple == [account |-> 0, profile |-> 0, revision |-> 0]

(* attested is confirmation_credential_id, tuple the revisions that        *)
(* AwaitAuthEnrollmentConfirmation stores with it.                         *)
NoEnrollment == [state |-> "none", profile |-> None, cred |-> None,
                 attested |-> None, tuple |-> NoTuple, confirmed |-> FALSE]

NoCredential == [status |-> "none", revision |-> 0, item |-> FALSE]

PCs == {"idle", "expire", "stage", "insert", "validate", "await", "attest",
        "check", "seal", "remove", "home", "finalize"}

Idle == [pc |-> "idle", e |-> None, p |-> None, c |-> None,
         paths |-> {}, tuple |-> NoTuple]

IsOpen(e) == enrollment[e].state \in Open

Init ==
  /\ enrollment = [e \in Enrollments |-> NoEnrollment]
  /\ credential = [c \in Credentials |-> NoCredential]
  /\ revoking = {}
  /\ profile = [p \in Profiles |-> [revision |-> 1, enabled |-> TRUE, cred |-> None]]
  /\ account = [revision |-> 1, enabled |-> TRUE]
  /\ edits = 0
  /\ due = {} /\ staging = {}
  /\ home = {} /\ active = {} /\ orphaned = {}
  /\ runtime = [c \in Credentials |-> None]
  /\ unlocked = FALSE
  /\ handler = Idle
  /\ daemon = "up"
  /\ crashes = 0

-----------------------------------------------------------------------------
(* Foreign keys, all ON DELETE RESTRICT: a credential row is held by the   *)
(* enrollments that name it, in either column, and by profiles.            *)
References(rowset, c) ==
  \/ \E e \in Enrollments : rowset[e].cred = c \/ rowset[e].attested = c
  \/ \E p \in Profiles : profile[p].cred = c

(* No Vault item, and what DELETE ... WHERE status='unknown' AND           *)
(* credential_revision=1 matches.                                          *)
Unsealed(c) ==
  ~credential[c].item /\ credential[c].status = "unknown" /\ credential[c].revision = 1

(* The rows after one enrollment is finished: a credential without a Vault *)
(* item is no longer named by credential_instance_id.                      *)
Closed(e, s) ==
  IF credential[enrollment[e].cred].item
  THEN [enrollment EXCEPT ![e].state = s]
  ELSE [enrollment EXCEPT ![e].state = s, ![e].cred = None]

Mutant_MayDelete(rowset, c) == Unsealed(c)

MayDelete(rowset, c) == Unsealed(c) /\ ~References(rowset, c)

(* Reservations of the deleted rows go with them: ON DELETE CASCADE.       *)
Delete(cs) ==
  /\ credential' = [c \in Credentials |->
                      IF c \in cs THEN NoCredential ELSE credential[c]]
  /\ revoking' = revoking \ cs

(* A DELETE that a foreign key refuses is ignored.                         *)
FinishAuthEnrollment(e, s) ==
  /\ enrollment' = Closed(e, s)
  /\ Delete({c \in {enrollment[e].cred} : MayDelete(Closed(e, s), c)})

Goto(pc) == handler' = [handler EXCEPT !.pc = pc]

Busy(pc) == daemon = "up" /\ handler.pc = pc

-----------------------------------------------------------------------------
(* auth.begin for profile p, with a new credential ID or an existing one.  *)
AuthBegin(e, p, c) ==
  /\ Busy("idle")
  /\ enrollment[e].state = "none"
  /\ handler' = [Idle EXCEPT !.pc = "expire", !.e = e, !.p = p, !.c = c]
  /\ UNCHANGED <<enrollment, credential, revoking, registry, due, staging,
                 sessions, process>>

(* ExpireDueAuthEnrollments: one transaction for each enrollment.          *)
ExpireDueAuthEnrollments(d) ==
  /\ Busy("expire")
  /\ IsOpen(d) /\ d \in due
  /\ FinishAuthEnrollment(d, "expired")
  /\ handler' = [handler EXCEPT !.paths = @ \cup {d}]
  /\ UNCHANGED <<registry, due, staging, sessions, process>>

(* Their staging is removed.  Then the Vault must be unlocked, and the     *)
(* binary and the profile acceptable.                                      *)
ExpireDone ==
  /\ Busy("expire")
  /\ \A d \in due : ~IsOpen(d)
  /\ staging' = staging \ handler.paths
  /\ \/ unlocked /\ handler' = [handler EXCEPT !.pc = "stage", !.paths = {}]
     \/ handler' = Idle
  /\ UNCHANGED <<enrollment, credential, revoking, registry, due, sessions, process>>

CreateEnrollmentStaging ==
  /\ Busy("stage")
  /\ staging' = staging \cup {handler.e}
  /\ Goto("insert")
  /\ UNCHANGED <<enrollment, credential, revoking, registry, due, sessions, process>>

(* auth_enrollments_one_active_profile                                     *)
ProfileBusy(p) == \E d \in Enrollments : IsOpen(d) /\ enrollment[d].profile = p

(* An ID that is not in the table is the new ID of a credential inserted   *)
(* with the enrollment; a row that exists was named by the client.  When   *)
(* the insert is refused the staging is removed again.                     *)
BeginAuthEnrollment ==
  /\ Busy("insert")
  /\ LET e == handler.e
         p == handler.p
         c == handler.c
     IN \/ /\ ~ProfileBusy(p)
           /\ enrollment' = [enrollment EXCEPT ![e] =
                [NoEnrollment EXCEPT !.state = "begun", !.profile = p, !.cred = c]]
           /\ credential' = IF credential[c].status # "none" THEN credential
                ELSE [credential EXCEPT ![c] =
                        [NoCredential EXCEPT !.status = "unknown", !.revision = 1]]
           /\ handler' = Idle
        \/ /\ ProfileBusy(p)
           /\ Goto("remove")
           /\ UNCHANGED <<enrollment, credential>>
  /\ UNCHANGED <<revoking, registry, due, staging, sessions, process>>

-----------------------------------------------------------------------------
(* auth.complete.  An awaiting row is answered again without a change; a   *)
(* succeeded one, here and in auth.confirm, has its staging removed again. *)
ClaimAuthEnrollment(e) ==
  /\ Busy("idle")
  /\ \/ /\ IsOpen(e) /\ e \in due
        /\ FinishAuthEnrollment(e, "expired")
        /\ handler' = [Idle EXCEPT !.pc = "remove", !.e = e]
     \/ /\ enrollment[e].state = "begun" /\ e \notin due
        /\ enrollment' = [enrollment EXCEPT ![e].state = "validating"]
        /\ handler' = [Idle EXCEPT !.pc = "validate", !.e = e]
        /\ UNCHANGED <<credential, revoking>>
     \/ /\ enrollment[e].state = "succeeded"
        /\ handler' = [Idle EXCEPT !.pc = "remove", !.e = e]
        /\ UNCHANGED <<enrollment, credential, revoking>>
  /\ UNCHANGED <<registry, due, staging, sessions, process>>

CurrentTuple(e) ==
  [account |-> account.revision, profile |-> profile[enrollment[e].profile].revision,
   revision |-> credential[enrollment[e].cred].revision]

(* The official login in the staging home is validated; then the profile,  *)
(* credential and account rows are read.                                   *)
Validated ==
  /\ Busy("validate")
  /\ handler.e \in staging
  /\ profile[enrollment[handler.e].profile].enabled
  /\ account.enabled
  /\ handler' = [handler EXCEPT !.pc = "await", !.tuple = CurrentTuple(handler.e)]
  /\ UNCHANGED <<enrollment, credential, revoking, registry, due, staging,
                 sessions, process>>

AwaitAuthEnrollmentConfirmation ==
  /\ Busy("await")
  /\ handler.e \notin due
  /\ enrollment' = [enrollment EXCEPT ![handler.e] =
       [enrollment[handler.e] EXCEPT !.state = "awaiting", !.tuple = handler.tuple,
                                     !.attested = enrollment[handler.e].cred]]
  /\ handler' = Idle
  /\ UNCHANGED <<credential, revoking, registry, due, staging, sessions, process>>

(* fail and failConfirm: a check, the Vault or the store refused.          *)
FailEnrollment ==
  /\ \E pc \in {"validate", "await", "check", "seal"} : Busy(pc)
  /\ FinishAuthEnrollment(handler.e, "failed")
  /\ Goto("remove")
  /\ UNCHANGED <<registry, due, staging, sessions, process>>

Mutant_RemoveEnrollmentStaging ==
  /\ Busy("remove")
  /\ handler' = Idle
  /\ staging' = IF enrollment[handler.e].state = "cancelled" THEN staging
                ELSE staging \ {handler.e}
  /\ UNCHANGED <<enrollment, credential, revoking, registry, due, sessions, process>>

RemoveEnrollmentStaging ==
  /\ Busy("remove")
  /\ handler' = Idle
  /\ staging' = staging \ {handler.e}
  /\ UNCHANGED <<enrollment, credential, revoking, registry, due, sessions, process>>

(* auth.cancel                                                             *)
AuthCancel(e) ==
  /\ Busy("idle")
  /\ IsOpen(e)
  /\ FinishAuthEnrollment(e, "cancelled")
  /\ handler' = [Idle EXCEPT !.pc = "remove", !.e = e]
  /\ UNCHANGED <<registry, due, staging, sessions, process>>

-----------------------------------------------------------------------------
(* auth.confirm: the profile, account and credential must still be at the  *)
(* revisions shown to the operator.                                        *)
AuthConfirm(e) ==
  /\ Busy("idle")
  /\ enrollment[e].state = "awaiting"
  /\ enrollment[e].cred = enrollment[e].attested
  /\ CurrentTuple(e) = enrollment[e].tuple
  /\ credential[enrollment[e].cred].status # "revoked"
  /\ handler' = [Idle EXCEPT !.pc = "attest", !.e = e]
  /\ UNCHANGED <<enrollment, credential, revoking, registry, due, staging,
                 sessions, process>>

ConfirmAuthEnrollmentAttestation ==
  /\ Busy("attest")
  /\ \/ /\ handler.e \in due
        /\ FinishAuthEnrollment(handler.e, "expired")
        /\ Goto("remove")
     \/ /\ handler.e \notin due
        /\ enrollment' = [enrollment EXCEPT ![handler.e].confirmed = TRUE]
        /\ Goto("check")
        /\ UNCHANGED <<credential, revoking>>
  /\ UNCHANGED <<registry, due, staging, sessions, process>>

(* The Vault is unlocked and the login validated again; the credential row *)
(* is read for the revision the seal expects.                              *)
ConfirmValidated ==
  /\ Busy("check")
  /\ unlocked
  /\ handler.e \in staging
  /\ handler' = [handler EXCEPT !.pc = "seal", !.tuple = CurrentTuple(handler.e)]
  /\ UNCHANGED <<enrollment, credential, revoking, registry, due, staging,
                 sessions, process>>

Mutant_Sealable(c, expected) ==
  unlocked /\ credential[c].revision = expected /\ expected < MaxRevision

(* The checks of replaceVaultItemCAS on the credential.                    *)
Sealable(c, expected) ==
  /\ unlocked
  /\ credential[c].revision = expected /\ expected < MaxRevision
  /\ credential[c].status # "revoked"
  /\ c \notin revoking

Sealed(c) == [credential EXCEPT ![c] =
  [status |-> "healthy", revision |-> credential[c].revision + 1, item |-> TRUE]]

(* The profile is bound to the credential; its revision moves only when it *)
(* was not bound before.                                                   *)
Bound(e) ==
  LET p == enrollment[e].profile
  IN [profile EXCEPT ![p] = [profile[p] EXCEPT
        !.revision = IF profile[p].cred = None THEN @ + 1 ELSE @,
        !.cred = enrollment[e].cred]]

Mutant_Succeeded(e) == enrollment

Succeeded(e) == [enrollment EXCEPT ![e].state = "succeeded"]

(* One transaction: the operator's attestation is there, and the profile   *)
(* is unbound or bound to the same credential.                             *)
ReplaceVaultItemEnrollmentCAS ==
  /\ Busy("seal")
  /\ LET e == handler.e
         c == enrollment[e].cred
         p == enrollment[e].profile
     IN /\ Sealable(c, handler.tuple.revision)
        /\ enrollment[e].state = "awaiting" /\ enrollment[e].confirmed
        /\ profile[p].cred \in {None, c}
        /\ profile[p].revision < MaxRevision
        /\ credential' = Sealed(c)
        /\ profile' = Bound(e)
        /\ enrollment' = Succeeded(e)
  /\ Goto("remove")
  /\ UNCHANGED <<revoking, account, edits, due, staging, sessions, process>>

-----------------------------------------------------------------------------
InUse(c) == c \in active \cup orphaned

(* auth.logout: reserve, remove the home, finalize.  The reservation       *)
(* outlives a crash; a later logout of the same credential goes on from it.*)
ReserveVaultCredentialRevocation(c) ==
  /\ Busy("idle")
  /\ credential[c].status # "none"
  /\ \/ credential[c].status = "revoked" /\ UNCHANGED revoking
     \/ /\ credential[c].status # "revoked" /\ ~InUse(c)
        /\ revoking' = revoking \cup {c}
  /\ handler' = [Idle EXCEPT !.pc = "home", !.c = c]
  /\ UNCHANGED <<enrollment, credential, registry, due, staging, sessions, process>>

(* The directory and the writer lock are removed, or the removal fails.    *)
RemoveCredentialHome ==
  /\ Busy("home")
  /\ \/ home' = home \ {handler.c} /\ Goto("finalize")
     \/ handler' = Idle /\ UNCHANGED home
  /\ UNCHANGED <<enrollment, credential, revoking, registry, due, staging,
                 active, orphaned, runtime, process>>

Mutant_Unbound(c) == profile

Unbound(c) == [p \in Profiles |->
  IF profile[p].cred # c THEN profile[p]
  ELSE [profile[p] EXCEPT !.cred = None, !.revision = @ + 1]]

FinalizeVaultCredentialRevocation ==
  /\ Busy("finalize")
  /\ LET c == handler.c
     IN /\ \A p \in Profiles : profile[p].cred = c => profile[p].revision < MaxRevision
        /\ ~InUse(c)
        /\ credential' = [credential EXCEPT ![c] =
             [credential[c] EXCEPT !.status = "revoked", !.item = FALSE]]
        /\ profile' = Unbound(c)
        /\ revoking' = revoking \ {c}
  /\ handler' = Idle
  /\ UNCHANGED <<enrollment, account, edits, due, staging, sessions, process>>

-----------------------------------------------------------------------------
Mutant_ValidateSessionLinks(c) == credential[c].status \notin {"none", "revoked"}

(* The credential checks in the transaction that inserts the Session.      *)
ValidateSessionLinks(c) ==
  credential[c].status \notin {"none", "revoked"} /\ c \notin revoking

(* sessions.start on a profile (it holds SessionService.mu): the Session   *)
(* row, and a binding to the runtime of the credential or, when no earlier *)
(* writer is left, a new home and runtime.  A start that fails leaves a    *)
(* failed Session and is left out.                                         *)
StartSession(p) ==
  /\ Busy("idle")
  /\ LET c == profile[p].cred
     IN /\ c # None
        /\ profile[p].enabled /\ account.enabled
        /\ credential[c].status = "healthy"
        /\ ValidateSessionLinks(c)
        /\ \/ c \in active /\ UNCHANGED sessions
           \/ /\ c \notin active /\ runtime[c] = None
              /\ unlocked
              /\ active' = active \cup {c}
              /\ home' = home \cup {c}
              /\ runtime' = [runtime EXCEPT ![c] = credential[c].revision]
              /\ UNCHANGED orphaned
  /\ UNCHANGED <<enrollment, credential, revoking, registry, due, staging,
                 handler, process>>

(* The last Session of the runtime ends; its row is terminal before the    *)
(* runtime is finalized.                                                   *)
EndSession(c) ==
  /\ daemon = "up"
  /\ c \in active
  /\ active' = active \ {c}
  /\ UNCHANGED <<enrollment, credential, revoking, registry, due, staging, home,
                 orphaned, runtime, handler, process>>

(* finalize: a login that Codex refreshed is sealed over the revision the  *)
(* runtime holds.  Its file may have been read before a logout removed it. *)
(* An unchanged file, a missing one and a conflict change no row.  The     *)
(* home is released or quarantined.                                        *)
CommitCodexAuth(c) == Sealable(c, runtime[c]) /\ credential' = Sealed(c)

Finalize(c) ==
  /\ daemon = "up"
  /\ runtime[c] # None /\ c \notin active
  /\ CommitCodexAuth(c) \/ UNCHANGED credential
  /\ runtime' = [runtime EXCEPT ![c] = None]
  /\ home' = home \ {c}
  /\ UNCHANGED <<enrollment, revoking, registry, due, staging, active, orphaned,
                 handler, process>>

-----------------------------------------------------------------------------
(* vault.unlock and vault.lock                                             *)
SetUnlocked(b) ==
  /\ daemon = "up"
  /\ unlocked # b
  /\ unlocked' = b
  /\ UNCHANGED <<enrollment, credential, revoking, registry, due, staging,
                 sessions, handler, daemon, crashes>>

(* profiles.update, profiles.enable and profiles.disable: no mutex, the    *)
(* expected revision is the only guard.                                    *)
UpdateProfile(p, enabled) ==
  /\ daemon = "up"
  /\ edits < MaxEdits /\ edits' = edits + 1
  /\ profile[p].revision < MaxRevision
  /\ profile' = [profile EXCEPT ![p] =
       [profile[p] EXCEPT !.revision = @ + 1, !.enabled = enabled]]
  /\ UNCHANGED <<enrollment, credential, revoking, account, due, staging,
                 sessions, handler, process>>

(* accounts.update and accounts.enable; accounts.disable holds the mutex.  *)
UpdateAccount(enabled) ==
  /\ daemon = "up"
  /\ edits < MaxEdits /\ edits' = edits + 1
  /\ account.revision < MaxRevision
  /\ enabled \/ ~account.enabled \/ handler.pc = "idle"
  /\ account' = [revision |-> account.revision + 1, enabled |-> enabled]
  /\ UNCHANGED <<enrollment, credential, revoking, profile, due, staging,
                 sessions, handler, process>>

(* Ten minutes have passed since auth.begin.                               *)
Expire(e) ==
  /\ daemon = "up"
  /\ IsOpen(e) /\ e \notin due
  /\ due' = due \cup {e}
  /\ UNCHANGED <<enrollment, credential, revoking, registry, staging, sessions,
                 handler, process>>

-----------------------------------------------------------------------------
(* ExpireAuthEnrollments at start-up finishes every open enrollment in one *)
(* transaction.  Its DELETE of a credential that was never sealed must     *)
(* succeed: refused by a foreign key, it rolls the transaction back and    *)
(* the daemon does not start.                                              *)
AllClosed == [e \in Enrollments |->
  IF IsOpen(e) THEN Closed(e, "expired")[e] ELSE enrollment[e]]

Holders(c) == {e \in Enrollments : IsOpen(e) /\ enrollment[e].cred = c}

Dropped == {c \in Credentials : Unsealed(c) /\ Holders(c) # {}}

(* The first of two holders to be processed is refused by the second.      *)
Refused(c) == References(AllClosed, c) \/ Cardinality(Holders(c)) > 1

(* The daemon dies and is started again: goroutines and the Vault key are  *)
(* gone; rows and directories stay, except that the staging directories    *)
(* are removed once the enrollments are expired.                           *)
Restart ==
  /\ daemon = "up"
  /\ crashes < MaxCrashes
  /\ crashes' = crashes + 1
  /\ handler' = Idle
  /\ unlocked' = FALSE
  /\ runtime' = [c \in Credentials |-> None]
  /\ active' = {}
  /\ orphaned' = orphaned \cup active
  /\ \/ /\ \E c \in Dropped : Refused(c)
        /\ daemon' = "down"
        /\ UNCHANGED <<enrollment, credential, revoking, staging>>
     \/ /\ \A c \in Dropped : ~Refused(c)
        /\ enrollment' = AllClosed
        /\ Delete(Dropped)
        /\ staging' = {}
        /\ UNCHANGED daemon
  /\ UNCHANGED <<registry, due, home>>

Next ==
  \/ \E e \in Enrollments :
       \/ \E p \in Profiles, c \in Credentials : AuthBegin(e, p, c)
       \/ ExpireDueAuthEnrollments(e) \/ ClaimAuthEnrollment(e) \/ AuthConfirm(e)
       \/ AuthCancel(e) \/ Expire(e)
  \/ ExpireDone \/ CreateEnrollmentStaging \/ BeginAuthEnrollment
  \/ Validated \/ AwaitAuthEnrollmentConfirmation
  \/ ConfirmAuthEnrollmentAttestation \/ ConfirmValidated
  \/ ReplaceVaultItemEnrollmentCAS \/ FailEnrollment \/ RemoveEnrollmentStaging
  \/ RemoveCredentialHome \/ FinalizeVaultCredentialRevocation
  \/ \E c \in Credentials :
       ReserveVaultCredentialRevocation(c) \/ EndSession(c) \/ Finalize(c)
  \/ \E p \in Profiles : StartSession(p)
  \/ \E b \in BOOLEAN : SetUnlocked(b) \/ UpdateAccount(b)
  \/ \E p \in Profiles, b \in BOOLEAN : UpdateProfile(p, b)
  \/ Restart

Spec == Init /\ [][Next]_vars

-----------------------------------------------------------------------------
Tuples == [account : Revisions, profile : Revisions, revision : Revisions]

EnrollmentRecord ==
  [state : States, profile : Profiles \cup {None}, cred : Credentials \cup {None},
   attested : Credentials \cup {None}, tuple : Tuples, confirmed : BOOLEAN]

(* Every variable has its type and every revision stays in its range (the  *)
(* rows of the tables in 0005 and 0007).                                   *)
TypeOK ==
  /\ enrollment \in [Enrollments -> EnrollmentRecord]
  /\ credential \in [Credentials -> [status : CredentialStatus,
                                     revision : Revisions, item : BOOLEAN]]
  /\ profile \in [Profiles -> [revision : Revisions, enabled : BOOLEAN,
                               cred : Credentials \cup {None}]]
  /\ account \in [revision : Revisions, enabled : BOOLEAN]
  /\ edits \in 0..MaxEdits
  /\ due \subseteq Enrollments /\ staging \subseteq Enrollments
  /\ revoking \subseteq Credentials /\ home \subseteq Credentials
  /\ active \subseteq Credentials /\ orphaned \subseteq Credentials
  /\ runtime \in [Credentials -> Revisions \cup {None}]
  /\ unlocked \in BOOLEAN
  /\ handler \in [pc : PCs, e : Enrollments \cup {None}, p : Profiles \cup {None},
                  c : Credentials \cup {None}, paths : SUBSET Enrollments,
                  tuple : Tuples]
  /\ daemon \in {"up", "down"}
  /\ crashes \in 0..MaxCrashes

(* A staging home holds login secrets: outside a running method only an    *)
(* open enrollment has one, whichever way it ended, restarts included.     *)
StagingIsOwned ==
  Busy("idle") => \A e \in staging : IsOpen(e)

(* An open enrollment always names a credential row that exists: finishing *)
(* another enrollment of the same credential, or a logout, cannot take it  *)
(* away (auth.confirm and the scan at start-up rely on it).                *)
OpenHasCredential ==
  \A e \in Enrollments : IsOpen(e) =>
    enrollment[e].cred # None /\ credential[enrollment[e].cred].status # "none"

(* No Vault item without an enrollment of that credential that its         *)
(* operator confirmed and that no later step closed otherwise.             *)
SealedIsConfirmed ==
  \A c \in Credentials : credential[c].item =>
    \E e \in Enrollments : /\ enrollment[e].cred = c /\ enrollment[e].confirmed
                           /\ enrollment[e].state = "succeeded"

(* A profile is bound only to a credential whose item is in the Vault and  *)
(* is healthy: a logout leaves no binding behind, a login binds last.      *)
BoundIsSealed ==
  \A p \in Profiles : profile[p].cred # None =>
    credential[profile[p].cred].item /\ credential[profile[p].cred].status = "healthy"

(* A credential that is revoked, or reserved for it, has no active Session *)
(* row, and once revoked neither an item nor a home, crashes between the   *)
(* steps of the logout included.                                           *)
RevocationHolds ==
  \A c \in Credentials :
    /\ c \in revoking \/ credential[c].status = "revoked" => ~InUse(c)
    /\ credential[c].status = "revoked" => ~credential[c].item /\ c \notin home

(* Nothing is sealed over a credential that is revoked or reserved for it: *)
(* the late commit of a runtime loses against the logout, and a revoked    *)
(* credential stays revoked.                                               *)
LogoutWins ==
  [][\A c \in Credentials :
       /\ c \in revoking => credential'[c].revision <= credential[c].revision
       /\ credential[c].status = "revoked" => credential'[c] = credential[c]]_vars

-----------------------------------------------------------------------------
(* Statements of the selector design that the code does not keep.          *)

(* "Daemon restart expires unconfirmed enrollment staging": the daemon     *)
(* comes up again.                                                         *)
RestartExpires == daemon = "up"

=============================================================================
