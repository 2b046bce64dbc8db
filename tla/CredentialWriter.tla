-------------------------- MODULE CredentialWriter --------------------------
(* The single writer of one Codex credential: the canonical home and its    *)
(* lock file (CredentialMaterializationManager and MaterializationHandle),  *)
(* the Vault row it is filled from and committed to, the lease pump that    *)
(* rewrites the lock, the finalizer, logout, a second login, and a daemon   *)
(* that dies.  Files and rows of different credentials are disjoint, so one *)
(* credential is modelled.                                                  *)
(*                                                                          *)
(* A token stands for the bytes of auth.json (its digest is the token       *)
(* itself).  Only the app-server child rotates it: Codex spends the old     *)
(* token, and the file in the home is then the only copy of the new one     *)
(* until ObserveAndCommit seals it.                                         *)
(*                                                                          *)
(* RuntimeManager.mu is held from the lookup of the shared runtime to its   *)
(* registration (starter), SessionService.mu by starts, logins and logouts; *)
(* finalizers, lease pumps, vault.lock and vault.unlock take neither.       *)
EXTENDS Naturals, FiniteSets

CONSTANTS
  MaxHandles,    \* bound: Acquire calls that reach the lock file
  MaxTokens,     \* bound: tokens the Provider issues
  MaxCrashes,    \* bound: deaths of the daemon
  None

Handles == 1..MaxHandles
Bad     == 0                      \* an auth.json that is not a JSON object
Tokens  == 1..MaxTokens

(* writerLock, and what is in the canonical home.                           *)
LockRecord == [ino : Handles, owner : Handles \cup {None}, fresh : BOOLEAN]
HomeRecord == [auth : Tokens \cup {Bad}, rev : Nat, digest : Tokens, extra : BOOLEAN]

(* None is the absence of a handle, a token, a lock file or a home.         *)
ASSUME BoundsAssumption ==
  /\ MaxHandles \in Nat \ {0} /\ MaxTokens \in Nat \ {0} /\ MaxCrashes \in Nat
  /\ None \notin Nat /\ None \notin LockRecord /\ None \notin HomeRecord

VARIABLES
  row,        \* credential row and Vault item: rev, token, status, revoking
  unlocked,   \* the Vault manager holds the KEK
  lock,       \* <id>.writer.lock: the file (ino), its record, None if absent
  home,       \* <id>/: auth.json, manifest.json, unexpected files
  quarantine, \* tokens in the quarantine directory
  handle,     \* MaterializationHandle and the goroutine that works on it
  pump,       \* lease pump of the handle's runtime
  child,      \* app-server child spawned on the handle's home
  registered, \* the handle whose runtime is in RuntimeManager.runtimes
  logout,     \* where auth.logout stands
  up,         \* a daemon is running
  crashes,
  issued,     \* tokens the Provider has issued
  spent,      \* tokens the Provider no longer accepts
  owed,       \* history: last token a registered runtime's child wrote
  torn        \* history: a finalizer met a refresh of the lock under way

fileVars == <<lock, home, quarantine>>
history  == <<owed, torn>>
vars == <<row, unlocked, fileVars, handle, pump, child, registered, logout, up,
          crashes, issued, spent, history>>

NoHandle == [pc |-> "unused", exp |-> 0, digest |-> 0, seen |-> 0, read |-> 0]
NoPump   == [pc |-> "none", ino |-> None]
NoChild  == [state |-> "none", token |-> 0]

(* Goroutines that hold RuntimeManager.mu for a start.                      *)
StartPCs == {"create", "prepare", "spawn", "handshake"}
(* A handle returned by Acquire, or about to be, and not yet released.      *)
HoldPCs  == {"prepare", "spawn", "handshake", "failed", "live", "kill",
             "observe", "commit", "manifest", "q1", "q2", "release"}

starter == {h \in Handles : handle[h].pc \in StartPCs \cup {"failed"}}

Init ==
  /\ row = [rev |-> 2, token |-> 1, status |-> "healthy", revoking |-> FALSE]
  /\ unlocked = TRUE
  /\ lock = None /\ home = None /\ quarantine = {}
  /\ handle = [h \in Handles |-> NoHandle]
  /\ pump = [h \in Handles |-> NoPump]
  /\ child = [h \in Handles |-> NoChild]
  /\ registered = None /\ logout = "idle" /\ up = TRUE /\ crashes = 0
  /\ issued = 1 /\ spent = {}
  /\ owed = None /\ torn = FALSE

(* A handle that is done with keeps nothing.                                *)
Goto(h, pc) ==
  handle' = [handle EXCEPT ![h] = IF pc \in {"done", "leaked"}
                                    THEN [NoHandle EXCEPT !.pc = pc]
                                    ELSE [handle[h] EXCEPT !.pc = pc]]
-----------------------------------------------------------------------------
(* verifyLock: the record names this owner and has not expired.             *)
VerifyLock(h) == lock # None /\ lock.owner = h /\ lock.fresh

(* quarantinePath on the home: what was in it stays in the quarantine       *)
(* directory; a home that is not there is no error.                         *)
QuarantineHome ==
  /\ home' = None
  /\ quarantine' = quarantine \cup (IF home = None THEN {} ELSE {home.auth})

(* validateHome: no unexpected file, a manifest of the wanted revision (any *)
(* for 0), and an auth.json whose digest the manifest names.                *)
Mutant_ValidateHome(rev) ==
  ~home.extra /\ home.auth # Bad /\ home.auth = home.digest

ValidateHome(rev) ==
  /\ ~home.extra /\ home.auth # Bad /\ home.auth = home.digest
  /\ rev > 0 => home.rev = rev
-----------------------------------------------------------------------------
(* External: a child that was sent SIGKILL, or whose daemon died and closed *)
(* its input, may still write for a while but has ended before somebody     *)
(* starts the next Session of the credential.                               *)
Alive(h)      == child[h].state \in {"running", "killed"}
ChildrenEnded == \A h \in Handles : ~Alive(h)

(* Acquire, up to the lock file: the Vault is unlocked and the row healthy. *)
(* Refusals change nothing.                                                 *)
Acquire(h) ==
  /\ handle[h].pc = "unused" /\ \A j \in 1..(h - 1) : handle[j].pc # "unused"
  /\ registered = None /\ starter = {} /\ logout = "idle" /\ ChildrenEnded
  /\ unlocked /\ row.status = "healthy" /\ ~row.revoking
  /\ handle' = [handle EXCEPT ![h] = [handle[h] EXCEPT !.pc = "create", !.exp = row.rev]]
  /\ UNCHANGED <<row, unlocked, fileVars, pump, child, registered, logout, up,
                 crashes, issued, spent, history>>

(* O_EXCL: the lock file of anyone, alive or not, refuses this writer.      *)
Mutant_CreateLock(h) ==
  /\ handle[h].pc = "create"
  /\ IF lock # None /\ lock.fresh
       THEN lock' = lock /\ Goto(h, "done")
       ELSE lock' = [ino |-> h, owner |-> h, fresh |-> TRUE] /\ Goto(h, "prepare")
  /\ UNCHANGED <<row, unlocked, home, quarantine, pump, child, registered,
                 logout, up, crashes, issued, spent, history>>

CreateLock(h) ==
  /\ handle[h].pc = "create"
  /\ IF lock # None
       THEN lock' = lock /\ Goto(h, "done")
       ELSE lock' = [ino |-> h, owner |-> h, fresh |-> TRUE] /\ Goto(h, "prepare")
  /\ UNCHANGED <<row, unlocked, home, quarantine, pump, child, registered,
                 logout, up, crashes, issued, spent, history>>

(* prepareHome on an existing home: reuse it or quarantine it and fail; a   *)
(* failure removes the lock file.                                           *)
ReuseHome(h) ==
  /\ handle[h].pc = "prepare" /\ home # None
  /\ IF ValidateHome(handle[h].exp)
       THEN /\ handle' = [handle EXCEPT ![h].pc = "spawn", ![h].digest = home.digest]
            /\ UNCHANGED fileVars
       ELSE /\ QuarantineHome /\ lock' = None
            /\ Goto(h, "done")
  /\ UNCHANGED <<row, unlocked, pump, child, registered, logout, up, crashes,
                 issued, spent, owed, torn>>

(* ReadCredential: without the KEK nothing is read from the Vault.          *)
ReadCredential == unlocked

(* MaterializeCodexAuth writes the Vault's token if the item still has the  *)
(* revision the caller read from the row.                                   *)
MaterializeCodexAuth(rev) == ReadCredential /\ row.rev = rev

(* prepareHome without a home: it is filled in a staging directory, with a  *)
(* manifest, and renamed.                                                   *)
PrepareHome(h) ==
  /\ handle[h].pc = "prepare" /\ home = None
  /\ IF MaterializeCodexAuth(handle[h].exp)
       THEN /\ home' = [auth |-> row.token, rev |-> row.rev,
                        digest |-> row.token, extra |-> FALSE]
            /\ handle' = [handle EXCEPT ![h].pc = "spawn", ![h].digest = row.token]
            /\ lock' = lock
       ELSE home' = home /\ lock' = None /\ Goto(h, "done")
  /\ UNCHANGED <<row, unlocked, quarantine, pump, child, registered, logout, up,
                 crashes, issued, spent, history>>

(* Spawn, ConfigureMethods and Handshake; a failure kills the child and     *)
(* releases the handle without looking at the home.  A registered runtime   *)
(* gets its lease pump.                                                     *)
Spawn(h) ==
  /\ handle[h].pc = "spawn"
  /\ \/ /\ child' = [child EXCEPT ![h] = [state |-> "running",
                       token |-> IF home = None THEN Bad ELSE home.auth]]
        /\ Goto(h, "handshake")
     \/ child' = child /\ Goto(h, "failed")
  /\ UNCHANGED <<row, unlocked, fileVars, pump, registered, logout, up, crashes,
                 issued, spent, history>>

Killed(h) == [child EXCEPT ![h].state = IF @ = "running" THEN "killed" ELSE @]

Handshake(h) ==
  /\ handle[h].pc = "handshake"
  /\ \/ registered' = h /\ child' = child /\ Goto(h, "live")
     \/ registered' = registered /\ child' = Killed(h) /\ Goto(h, "failed")
  /\ pump' = [pump EXCEPT ![h].pc = IF registered' = h THEN "idle" ELSE @]
  /\ UNCHANGED <<row, unlocked, fileVars, logout, up, crashes, issued, spent,
                 history>>
-----------------------------------------------------------------------------
(* leasePump and RefreshLease: the check under the manager's lock and       *)
(* verifyLock, then writeLock, which truncates the file it opens and writes *)
(* it.  The handle may be finalized, and another take over, between any two.*)
(* failRuntime or the last releaseBinding: the runtime leaves the map and   *)
(* its Sessions become terminal, under a finalizer that then runs alone.    *)
Unregister(h) ==
  /\ registered = h /\ registered' = None
  /\ Goto(h, "kill")

PumpFails(h) ==
  /\ pump' = [pump EXCEPT ![h] = NoPump]
  /\ IF registered = h THEN Unregister(h) ELSE UNCHANGED <<registered, handle>>

PumpVerify(h) ==
  /\ pump[h].pc = "idle" /\ registered = h
  /\ IF VerifyLock(h)
       THEN /\ pump' = [pump EXCEPT ![h].pc = "verified"]
            /\ UNCHANGED <<registered, handle>>
       ELSE PumpFails(h)
  /\ UNCHANGED <<row, unlocked, fileVars, child, logout, up, crashes, issued,
                 spent, history>>

PumpTruncate(h) ==
  /\ pump[h].pc = "verified"
  /\ IF lock # None
       THEN /\ lock' = [lock EXCEPT !.owner = None]
            /\ pump' = [pump EXCEPT ![h] = [pc |-> "truncated", ino |-> lock.ino]]
            /\ UNCHANGED <<registered, handle>>
       ELSE lock' = lock /\ PumpFails(h)
  /\ UNCHANGED <<row, unlocked, home, quarantine, child, logout, up, crashes,
                 issued, spent, history>>

PumpWrite(h) ==
  /\ pump[h].pc = "truncated"
  /\ lock' = IF lock # None /\ lock.ino = pump[h].ino
               THEN [lock EXCEPT !.owner = h, !.fresh = TRUE] ELSE lock
  /\ pump' = [pump EXCEPT ![h] = IF registered = h THEN [pc |-> "idle", ino |-> None]
                                                  ELSE NoPump]
  /\ UNCHANGED <<row, unlocked, home, quarantine, handle, child, registered,
                 logout, up, crashes, issued, spent, history>>

(* Two minutes pass without a refresh: the host slept.                      *)
LeaseExpires ==
  /\ lock # None /\ lock.fresh
  /\ lock' = [lock EXCEPT !.fresh = FALSE]
  /\ UNCHANGED <<row, unlocked, home, quarantine, handle, pump, child,
                 registered, logout, up, crashes, issued, spent, history>>
-----------------------------------------------------------------------------
EndRuntime(h) ==
  /\ Unregister(h)
  /\ UNCHANGED <<row, unlocked, fileVars, pump, child, logout, up, crashes,
                 issued, spent, history>>

(* finalize: Client.Close ends the pump's wait, Kill sends the signal and   *)
(* does not wait for the child.                                             *)
Kill(h) ==
  /\ handle[h].pc = "kill"
  /\ child' = Killed(h) /\ Goto(h, "observe")
  /\ pump' = [pump EXCEPT ![h].pc = IF @ = "idle" THEN "none" ELSE @]
  /\ UNCHANGED <<row, unlocked, fileVars, registered, logout, up, crashes, issued,
                 spent, history>>

(* verifyLock fails while the same handle's RefreshLease is under way.      *)
Torn(h) == torn' = (torn \/ (~VerifyLock(h) /\ pump[h].pc \in {"verified", "truncated"}))

(* ObserveAndCommit up to the commit: the lock, the auth file, its digest,  *)
(* the revision of the row.                                                 *)
Mutant_Observe(h) ==
  /\ handle[h].pc = "observe"
  /\ handle' = [handle EXCEPT ![h].seen = IF home = None THEN Bad ELSE home.auth,
                  ![h].read = row.rev,
                  ![h].pc = IF ~VerifyLock(h) THEN "q2"
                            ELSE IF home = None \/ home.auth = Bad THEN "q1"
                            ELSE IF home.auth = handle[h].digest THEN "release"
                            ELSE "commit"]
  /\ Torn(h)
  /\ UNCHANGED <<row, unlocked, fileVars, pump, child, registered, logout, up,
                 crashes, issued, spent, owed>>

Observe(h) ==
  /\ handle[h].pc = "observe"
  /\ handle' = [handle EXCEPT ![h].seen = IF home = None THEN Bad ELSE home.auth,
                  ![h].read = row.rev,
                  ![h].pc = IF ~VerifyLock(h) THEN "q2"
                            ELSE IF home = None \/ home.auth = Bad THEN "q1"
                            ELSE IF home.auth = handle[h].digest THEN "release"
                            ELSE IF row.rev # handle[h].exp THEN "q1"
                            ELSE "commit"]
  /\ Torn(h)
  /\ UNCHANGED <<row, unlocked, fileVars, pump, child, registered, logout, up,
                 crashes, issued, spent, owed>>

(* replaceVaultItemCAS: the row still has the revision that was read, is    *)
(* neither revoked nor being revoked, and takes item and revision at once.  *)
Sealable(rev) ==
  row.rev = rev /\ row.status = "healthy" /\ ~row.revoking

(* SealCredential needs the KEK, then the compare-and-swap.                 *)
SealCredential(rev) == unlocked /\ Sealable(rev)

(* CommitCodexAuth reads the file again; a result that is not what was      *)
(* observed is ambiguous.                                                   *)
Commit(h) ==
  /\ handle[h].pc = "commit"
  /\ IF home # None /\ home.auth # Bad /\ SealCredential(handle[h].read)
       THEN /\ row' = [row EXCEPT !.rev = @ + 1, !.token = home.auth]
            /\ Goto(h, IF row.rev = handle[h].exp /\ home.auth = handle[h].seen
                         THEN "manifest" ELSE "q1")
       ELSE row' = row /\ Goto(h, "q1")
  /\ UNCHANGED <<unlocked, fileVars, pump, child, registered, logout, up, crashes,
                 issued, spent, history>>

(* The manifest follows the commit.                                         *)
CommitManifest(h) ==
  /\ handle[h].pc = "manifest"
  /\ IF home # None
       THEN /\ home' = [home EXCEPT !.rev = handle[h].exp + 1, !.digest = handle[h].seen]
            /\ handle' = [handle EXCEPT ![h].pc = "release", ![h].exp = @ + 1,
                                        ![h].digest = handle[h].seen]
       ELSE home' = home /\ Goto(h, "q1")
  /\ UNCHANGED <<row, unlocked, lock, quarantine, pump, child, registered, logout,
                 up, crashes, issued, spent, history>>

(* MaterializationHandle.quarantine: first inside ObserveAndCommit, then    *)
(* once more by finalize when that did not release the handle.              *)
Quarantine(h) ==
  /\ handle[h].pc \in {"q1", "q2"}
  /\ IF VerifyLock(h)
       THEN QuarantineHome /\ lock' = None /\ Goto(h, "done")
       ELSE /\ Goto(h, IF handle[h].pc = "q1" THEN "q2" ELSE "release")
            /\ UNCHANGED fileVars
  /\ Torn(h)
  /\ UNCHANGED <<row, unlocked, pump, child, registered, logout, up, crashes,
                 issued, spent, owed>>

(* Release removes the home and the lock; a lock that is not ours is left,  *)
(* and so is the home.                                                      *)
Mutant_Release(h) ==
  /\ handle[h].pc \in {"failed", "release"}
  /\ home' = None
  /\ lock' = IF VerifyLock(h) THEN None ELSE lock
  /\ Goto(h, "done")
  /\ UNCHANGED <<row, unlocked, quarantine, pump, child, registered, logout, up,
                 crashes, issued, spent, history>>

Release(h) ==
  /\ handle[h].pc \in {"failed", "release"}
  /\ IF VerifyLock(h)
       THEN home' = None /\ lock' = None /\ Goto(h, "done")
       ELSE UNCHANGED <<home, lock>> /\ Goto(h, "leaked")
  /\ UNCHANGED <<row, unlocked, quarantine, pump, child, registered, logout, up,
                 crashes, issued, spent, history>>
-----------------------------------------------------------------------------
(* External: the app-server.  It refreshes its token when it likes, writes  *)
(* other files into CODEX_HOME, and may still write between the signal and  *)
(* its end.                                                                 *)
Rotate(h) ==
  /\ Alive(h) /\ home # None /\ child[h].token \in Tokens \ spent
  /\ issued < MaxTokens
  /\ issued' = issued + 1 /\ spent' = spent \cup {child[h].token}
  /\ child' = [child EXCEPT ![h].token = issued + 1]
  /\ home' = [home EXCEPT !.auth = issued + 1]
  /\ owed' = IF registered = h THEN issued + 1 ELSE owed
  /\ UNCHANGED <<row, unlocked, lock, quarantine, handle, pump, registered,
                 logout, up, crashes, torn>>

(* The signal or a fault of its own ends the child in the middle of it.     *)
RotateTorn(h) ==
  /\ Alive(h) /\ home # None /\ child[h].token \in Tokens \ spent
  /\ spent' = spent \cup {child[h].token}
  /\ child' = [child EXCEPT ![h] = [state |-> "gone", token |-> 0]]
  /\ home' = [home EXCEPT !.auth = Bad]
  /\ owed' = IF owed = child[h].token THEN None ELSE owed
  /\ UNCHANGED <<row, unlocked, lock, quarantine, handle, pump, registered,
                 logout, up, crashes, issued, torn>>

WritesExtraFile(h) ==
  /\ Alive(h) /\ home # None /\ ~home.extra
  /\ home' = [home EXCEPT !.extra = TRUE]
  /\ UNCHANGED <<row, unlocked, lock, quarantine, handle, pump, child, registered,
                 logout, up, crashes, issued, spent, history>>

ChildGone(h) ==
  /\ Alive(h) /\ child' = [child EXCEPT ![h] = [state |-> "gone", token |-> 0]]
  /\ UNCHANGED <<row, unlocked, fileVars, handle, pump, registered, logout, up,
                 crashes, issued, spent, history>>
-----------------------------------------------------------------------------
(* vault.unlock, and vault.lock or a replay of vault.initialize, which both *)
(* drop the KEK; none of them looks at the Sessions.                        *)
SetUnlocked(b) ==
  /\ unlocked # b /\ unlocked' = b
  /\ UNCHANGED <<row, fileVars, handle, pump, child, registered, logout, up,
                 crashes, issued, spent, history>>

(* A second login of the same credential is sealed (module Enrollment).     *)
ReplaceVaultItemEnrollmentCAS ==
  /\ starter = {} /\ logout = "idle" /\ unlocked /\ Sealable(row.rev)
  /\ issued < MaxTokens /\ issued' = issued + 1
  /\ row' = [row EXCEPT !.rev = @ + 1, !.token = issued + 1]
  /\ owed' = IF owed = row.token THEN None ELSE owed  \* replaced by the new login
  /\ UNCHANGED <<unlocked, fileVars, handle, pump, child, registered, logout, up,
                 crashes, spent, torn>>

(* auth.logout: reserved only without an active Session, then the home and  *)
(* the lock are removed whoever made them, then the row is revoked.         *)
Logout ==
  /\ row.status = "healthy" /\ starter = {}
  /\ \/ /\ logout = "idle" /\ registered = None
        /\ logout' = "reserved" /\ row' = [row EXCEPT !.revoking = TRUE]
        /\ UNCHANGED fileVars
     \/ /\ logout = "reserved" /\ logout' = "removed"
        /\ home' = None /\ lock' = None /\ UNCHANGED <<quarantine, row>>
     \/ /\ logout = "removed" /\ logout' = "idle"
        /\ row' = [row EXCEPT !.status = "revoked"]
        /\ UNCHANGED fileVars
  /\ UNCHANGED <<unlocked, handle, pump, child, registered, up, crashes, issued,
                 spent, history>>
-----------------------------------------------------------------------------
(* The daemon dies: goroutines and the KEK go, children and files stay.     *)
Crash ==
  /\ up /\ crashes < MaxCrashes
  /\ crashes' = crashes + 1 /\ up' = FALSE /\ unlocked' = FALSE
  /\ handle' = [h \in Handles |-> IF handle[h].pc = "unused" THEN handle[h]
                                  ELSE [NoHandle EXCEPT !.pc = "done"]]
  /\ pump' = [h \in Handles |-> NoPump]
  /\ registered' = None /\ logout' = "idle"
  /\ UNCHANGED <<row, fileVars, child, issued, spent, history>>

(* Recover: every lock file and every invalid home goes to quarantine; a    *)
(* valid home stays, whatever its revision.                                 *)
Recover ==
  /\ ~up /\ up' = TRUE
  /\ lock' = None
  /\ IF home # None /\ ~ValidateHome(0)
       THEN QuarantineHome ELSE UNCHANGED <<home, quarantine>>
  /\ UNCHANGED <<row, unlocked, handle, pump, child, registered, logout, crashes,
                 issued, spent, owed, torn>>
-----------------------------------------------------------------------------
Next ==
  \/ \E h \in Handles :
       \/ Rotate(h) \/ RotateTorn(h) \/ WritesExtraFile(h) \/ ChildGone(h)
       \/ up /\ ( \/ Acquire(h) \/ CreateLock(h) \/ ReuseHome(h)
                  \/ PrepareHome(h) \/ Spawn(h) \/ Handshake(h)
                  \/ PumpVerify(h) \/ PumpTruncate(h) \/ PumpWrite(h)
                  \/ EndRuntime(h) \/ Kill(h) \/ Observe(h) \/ Commit(h)
                  \/ CommitManifest(h) \/ Quarantine(h) \/ Release(h) )
  \/ LeaseExpires \/ Crash \/ Recover
  \/ up /\ ( \/ \E b \in BOOLEAN : SetUnlocked(b)
             \/ ReplaceVaultItemEnrollmentCAS \/ Logout )

Spec == Init /\ [][Next]_vars
-----------------------------------------------------------------------------
(* Every variable has its type.                                            *)
TypeOK ==
  /\ row \in [rev : Nat, token : Tokens, status : {"healthy", "revoked"},
              revoking : BOOLEAN]
  /\ unlocked \in BOOLEAN /\ up \in BOOLEAN /\ crashes \in 0..MaxCrashes
  /\ lock \in LockRecord \cup {None} /\ home \in HomeRecord \cup {None}
  /\ quarantine \subseteq Tokens \cup {Bad}
  /\ handle \in [Handles -> [pc : HoldPCs \cup {"unused", "create", "done", "leaked"},
                             exp : Nat, digest : Nat, seen : Nat, read : Nat]]
  /\ pump \in [Handles -> [pc : {"none", "idle", "verified", "truncated"},
                           ino : Handles \cup {None}]]
  /\ child \in [Handles -> [state : {"none", "running", "killed", "gone"},
                            token : Tokens \cup {Bad}]]
  /\ registered \in Handles \cup {None} /\ logout \in {"idle", "reserved", "removed"}
  /\ issued \in Tokens /\ spent \subseteq Tokens
  /\ owed \in Tokens \cup {None} /\ torn \in BOOLEAN

(* "Acquire returns the one process/filesystem writer for a credential":    *)
(* no two handles of a daemon hold the home at a time, although finalizers  *)
(* run beside the next start, pumps rewrite the lock and leases expire.     *)
OneHolder ==
  \A g, h \in Handles :
    handle[g].pc \in HoldPCs /\ handle[h].pc \in HoldPCs => g = h

(* The home a child runs on is the one its handle describes: the manifest   *)
(* has the handle's revision and digest, so a home left by a crash is never *)
(* reused for a revision that a second login has replaced.                  *)
HomeMatchesHandle ==
  \A h \in Handles :
    handle[h].pc \in {"spawn", "handshake", "live", "kill"} /\ ~row.revoking =>
      /\ home # None
      /\ home.rev = handle[h].exp /\ home.digest = handle[h].digest

(* A token that the child of a registered runtime has written is never      *)
(* lost: it is in the Vault, in the home or in quarantine, until a logout   *)
(* removes the credential.  The one exception the code leaves is a          *)
(* finalizer that finds the lock unusable while the lease pump is still     *)
(* rewriting it: neither commit nor quarantine happen, Release then does.   *)
RotationKept ==
  owed # None /\ ~row.revoking /\ ~torn =>
    \/ owed \in {row.token} \cup quarantine
    \/ home # None /\ home.auth = owed
    \/ owed \in spent                   \* a later rotation replaced it

(* No commit of a refreshed token replaces a newer login: the Vault's token *)
(* only moves forward.                                                      *)
VaultForward == [][row'.token >= row.token]_vars

=============================================================================
