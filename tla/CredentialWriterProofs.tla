----------------------- MODULE CredentialWriterProofs -----------------------
(***************************************************************************)
(* Proofs about CredentialWriter for any number of handles, of tokens and  *)
(* of deaths of the daemon: at most one handle holds the home, the home is *)
(* the one its handle describes, the Vault's token only moves forward, and *)
(* a token that a registered runtime's child has written is not lost.      *)
(*                                                                         *)
(* The invariant is built in layers, each from the ones before it.         *)
(* LifeInv and LockInv: who starts, who is registered, whose file the lock *)
(* is.  ChildInv: one child, and what it holds is what is in the home.     *)
(* MatchInv: home and handle agree, and the home is never newer than the   *)
(* row.  TokenInv: tokens that descend from the Vault's.  StartRev and     *)
(* RotInv: what a step that removes the home may rely on.                  *)
(***************************************************************************)
EXTENDS CredentialWriter, TLAPS

(* Where a handle can be.                                                  *)
Pcs == HoldPCs \cup {"unused", "create", "done", "leaked"}
(* A handle.                                                               *)
HandleRecord == [pc : Pcs, exp : Nat, digest : Nat, seen : Nat, read : Nat]
(* A lease pump.                                                           *)
PumpRecord == [pc : {"none", "idle", "verified", "truncated"},
               ino : Handles \cup {None}]
(* An app-server child.                                                    *)
ChildRecord == [state : {"none", "running", "killed", "gone"},
                token : Tokens \cup {Bad}]
(* The credential row and its Vault item.                                  *)
RowRecord == [rev : Nat, token : Tokens, status : {"healthy", "revoked"},
              revoking : BOOLEAN]

(* Types of what is on disk.                                               *)
FilesOK == /\ row \in RowRecord
           /\ lock \in LockRecord \cup {None} /\ home \in HomeRecord \cup {None}
           /\ quarantine \subseteq Tokens \cup {Bad}
(* Types of handles, pumps and children.                                   *)
TasksOK == /\ handle \in [Handles -> HandleRecord]
           /\ pump \in [Handles -> PumpRecord]
           /\ child \in [Handles -> ChildRecord]
(* Types of the rest.                                                      *)
RestOK == /\ unlocked \in BOOLEAN /\ up \in BOOLEAN /\ crashes \in 0..MaxCrashes
           /\ registered \in Handles \cup {None}
           /\ logout \in {"idle", "reserved", "removed"}
           /\ issued \in Tokens /\ spent \subseteq Tokens
           /\ owed \in Tokens \cup {None} /\ torn \in BOOLEAN
(* What a commit has read is a token: ObserveAndCommit refuses any other   *)
(* file.                                                                   *)
SeenOK == \A h \in Handles :
             handle[h].pc \in {"commit", "manifest"} => handle[h].seen \in Tokens
(* Every variable has its type.                                            *)
Shape == FilesOK /\ TasksOK /\ RestOK
(* The type part of the invariant.                                         *)
Types == Shape /\ SeenOK

(* TypeOK is Shape.                                                        *)
LEMMA TypeSplit == TypeOK <=> Shape
  BY DEF TypeOK, Shape, FilesOK, TasksOK, RestOK, HandleRecord, PumpRecord,
         ChildRecord, RowRecord, Pcs

(* Handles and tokens are positive numbers, and None is neither a number   *)
(* nor a record.                                                           *)
LEMMA Domains ==
  /\ Handles \subseteq Nat \ {0} /\ Tokens \subseteq Nat \ {0} /\ 1 \in Tokens
  /\ Bad = 0 /\ Bad \notin Tokens /\ None \notin Handles /\ None \notin Tokens
  /\ None \notin LockRecord /\ None \notin HomeRecord
  BY BoundsAssumption DEF Handles, Tokens, Bad

(* What Goto does to the handle it moves, and that it moves no other.      *)
LEMMA GotoFacts ==
  ASSUME TasksOK, NEW h \in Handles, NEW p \in Pcs, Goto(h, p)
  PROVE  /\ handle' \in [Handles -> HandleRecord]
         /\ handle'[h].pc = p
         /\ p \notin {"done", "leaked"} =>
              /\ handle'[h].exp = handle[h].exp
              /\ handle'[h].digest = handle[h].digest
              /\ handle'[h].seen = handle[h].seen
              /\ handle'[h].read = handle[h].read
         /\ \A g \in Handles : g # h => handle'[g] = handle[g]
  <1>1. handle[h] \in HandleRecord BY DEF TasksOK
  <1> DEFINE r == IF p \in {"done", "leaked"} THEN [NoHandle EXCEPT !.pc = p]
                                            ELSE [handle[h] EXCEPT !.pc = p]
  <1>2. r \in HandleRecord /\ r.pc = p
        /\ (p \notin {"done", "leaked"} =>
             /\ r.exp = handle[h].exp /\ r.digest = handle[h].digest
             /\ r.seen = handle[h].seen /\ r.read = handle[h].read)
    BY <1>1, SMTT(20) DEF HandleRecord, NoHandle
  <1>3. handle' = [handle EXCEPT ![h] = r] BY DEF Goto
  <1> HIDE DEF r
  <1> QED BY <1>2, <1>3 DEF TasksOK

(* The types of one handle, its pump and its child.                        *)
LEMMA HandleTypes ==
  ASSUME TasksOK, NEW h \in Handles
  PROVE  /\ handle[h] \in HandleRecord /\ pump[h] \in PumpRecord
         /\ child[h] \in ChildRecord
  BY DEF TasksOK

(* Goto keeps the type of handle.                                          *)
LEMMA GotoTypes ==
  ASSUME TasksOK, NEW h \in Handles, NEW p \in Pcs, Goto(h, p)
  PROVE  handle' \in [Handles -> HandleRecord]
  BY GotoFacts

(* SIGKILL changes the state of one running child and nothing else.        *)
LEMMA KilledTypes ==
  ASSUME TasksOK, NEW h \in Handles
  PROVE  /\ Killed(h) \in [Handles -> ChildRecord]
         /\ Killed(h)[h].token = child[h].token
         /\ Killed(h)[h].state = IF child[h].state = "running" THEN "killed"
                                                               ELSE child[h].state
         /\ \A g \in Handles : g # h => Killed(h)[g] = child[g]
  <1> DEFINE r == [child[h] EXCEPT !.state = IF @ = "running" THEN "killed" ELSE @]
  <1>1. child[h] \in ChildRecord BY DEF TasksOK
  <1>2. r \in ChildRecord /\ r.token = child[h].token
        /\ r.state = IF child[h].state = "running" THEN "killed" ELSE child[h].state
    BY <1>1 DEF ChildRecord
  <1>3. Killed(h) = [child EXCEPT ![h] = r] BY DEF Killed
  <1> HIDE DEF r
  <1> QED BY <1>2, <1>3 DEF TasksOK

(* quarantinePath keeps the types of the files.                            *)
LEMMA QuarantineTypes ==
  ASSUME FilesOK, QuarantineHome
  PROVE  home' \in HomeRecord \cup {None} /\ quarantine' \subseteq Tokens \cup {Bad}
  BY DEF FilesOK, QuarantineHome, HomeRecord

(* A lease pump that gives up keeps the types.                             *)
LEMMA PumpTypes ==
  ASSUME TasksOK, RestOK, NEW h \in Handles
  PROVE  /\ PumpFails(h) => /\ pump' \in [Handles -> PumpRecord]
                            /\ handle' \in [Handles -> HandleRecord]
                            /\ registered' \in Handles \cup {None}
         /\ NoPump \in PumpRecord
  <1>1. NoPump \in PumpRecord BY DEF NoPump, PumpRecord
  <1>2. Unregister(h) => handle' \in [Handles -> HandleRecord]
    BY GotoTypes DEF Unregister, Pcs, HoldPCs
  <1> QED BY <1>1, <1>2 DEF PumpFails, Unregister, TasksOK, RestOK

(* What ObserveAndCommit leaves in the handle before the commit.           *)
LEMMA ObserveFacts ==
  ASSUME TasksOK, FilesOK, NEW h \in Handles, Observe(h)
  PROVE  /\ handle' \in [Handles -> HandleRecord]
         /\ handle'[h].exp = handle[h].exp /\ handle'[h].digest = handle[h].digest
         /\ handle'[h].read = row.rev
         /\ handle'[h].seen = IF home = None THEN Bad ELSE home.auth
         /\ handle'[h].pc \in {"q1", "q2", "release", "commit"}
         /\ handle'[h].pc = "release" => VerifyLock(h) /\ home # None
              /\ home.auth = handle[h].digest
         /\ handle'[h].pc = "commit" => /\ home # None /\ home.auth # Bad
                                        /\ row.rev = handle[h].exp
         /\ \A g \in Handles : g # h => handle'[g] = handle[g]
  <1> DEFINE s == IF home = None THEN Bad ELSE home.auth
             p == IF ~VerifyLock(h) THEN "q2"
                  ELSE IF home = None \/ home.auth = Bad THEN "q1"
                  ELSE IF home.auth = handle[h].digest THEN "release"
                  ELSE IF row.rev # handle[h].exp THEN "q1"
                  ELSE "commit"
             r == [handle[h] EXCEPT !.seen = s, !.read = row.rev, !.pc = p]
  <1>1. handle[h] \in HandleRecord BY HandleTypes
  <1>2. /\ p \in {"q1", "q2", "release", "commit"}
        /\ p = "release" => VerifyLock(h) /\ home # None
             /\ home.auth = handle[h].digest
        /\ p = "commit" => /\ home # None /\ home.auth # Bad
                           /\ row.rev = handle[h].exp
    OBVIOUS
  <1>3. s \in Nat /\ row.rev \in Nat
    <2>1. home # None => home.auth \in Tokens \cup {Bad}
      BY DEF FilesOK, HomeRecord
    <2>3. Bad \in Nat BY Domains
    <2>5. Tokens \subseteq Nat BY Domains
    <2>2. home # None => home.auth \in Nat BY <2>1, <2>3, <2>5
    <2>4. row.rev \in Nat BY DEF FilesOK, RowRecord
    <2> QED BY <2>2, <2>3, <2>4
  <1>4. handle' = [handle EXCEPT ![h] = r] BY DEF Observe, TasksOK
  <1> HIDE DEF p, s
  <1>5. /\ r \in HandleRecord /\ r.pc = p /\ r.seen = s /\ r.read = row.rev
        /\ r.exp = handle[h].exp /\ r.digest = handle[h].digest
    BY <1>1, <1>2, <1>3 DEF HandleRecord, Pcs, HoldPCs
  <1>6. s = IF home = None THEN Bad ELSE home.auth BY DEF s
  <1> HIDE DEF r
  <1> QED BY <1>2, <1>4, <1>5, <1>6 DEF TasksOK

(* The commit either changes nothing and fails, or seals the token that is *)
(* in the home under the revision that was read.                           *)
LEMMA CommitRow ==
  ASSUME FilesOK, NEW h \in Handles, Commit(h)
  PROVE  \/ row' = row /\ Goto(h, "q1")
         \/ /\ home # None /\ home.auth \in Tokens /\ ~row.revoking
            /\ row.rev = handle[h].read
            /\ row' \in RowRecord /\ row'.rev = row.rev + 1
            /\ row'.token = home.auth /\ row'.revoking = row.revoking
            /\ \/ Goto(h, "manifest") /\ row.rev = handle[h].exp
                                      /\ home.auth = handle[h].seen
               \/ Goto(h, "q1")
  <1>1. SUFFICES ASSUME home # None, home.auth # Bad, SealCredential(handle[h].read)
                 PROVE  /\ home.auth \in Tokens
                        /\ row' \in RowRecord /\ row'.rev = row.rev + 1
                        /\ row'.token = home.auth /\ row'.revoking = row.revoking
    BY DEF Commit, SealCredential, Sealable
  <1>2. row \in RowRecord /\ home \in HomeRecord BY <1>1 DEF FilesOK
  <1>3. home.auth \in Tokens /\ row.rev + 1 \in Nat
    BY <1>1, <1>2 DEF HomeRecord, RowRecord
  <1>4. row' = [row EXCEPT !.rev = @ + 1, !.token = home.auth] BY <1>1 DEF Commit
  <1> QED BY <1>2, <1>3, <1>4 DEF RowRecord

(* After a commit the manifest gets the next revision and the digest that  *)
(* was sealed.                                                             *)
LEMMA ManifestFacts ==
  ASSUME Types, NEW h \in Handles, CommitManifest(h), home # None
  PROVE  /\ handle' \in [Handles -> HandleRecord]
         /\ handle'[h].pc = "release"
         /\ handle'[h].exp = handle[h].exp + 1
         /\ handle'[h].digest = handle[h].seen
         /\ \A g \in Handles : g # h => handle'[g] = handle[g]
         /\ home' \in HomeRecord /\ home' # None
         /\ home'.rev = handle[h].exp + 1 /\ home'.digest = handle[h].seen
         /\ home'.auth = home.auth /\ home'.extra = home.extra
  <1>1. handle[h] \in HandleRecord BY HandleTypes DEF Types, Shape
  <1> DEFINE r == [handle[h] EXCEPT !.pc = "release", !.exp = @ + 1,
                                    !.digest = handle[h].seen]
  <1>2. /\ r \in HandleRecord /\ r.pc = "release" /\ r.exp = handle[h].exp + 1
        /\ r.digest = handle[h].seen
    <2>1. handle[h].exp + 1 \in Nat /\ handle[h].seen \in Nat BY <1>1 DEF HandleRecord
    <2> QED BY <1>1, <2>1 DEF HandleRecord, Pcs, HoldPCs
  <1>3. handle' = [handle EXCEPT ![h] = r] BY DEF CommitManifest, Types, Shape, TasksOK
  <1>4. handle[h].pc = "manifest" /\ handle[h].seen \in Tokens /\ handle[h].exp \in Nat
    BY <1>1 DEF Types, Shape, SeenOK, CommitManifest, HandleRecord
  <1>5. /\ home' \in HomeRecord /\ home'.rev = handle[h].exp + 1
        /\ home'.digest = handle[h].seen
        /\ home'.auth = home.auth /\ home'.extra = home.extra
    <2>1. handle[h].exp + 1 \in Nat BY <1>4
    <2>2. home \in HomeRecord BY DEF Types, Shape, FilesOK
    <2>3. home' = [home EXCEPT !.rev = handle[h].exp + 1, !.digest = handle[h].seen]
      BY DEF CommitManifest
    <2> QED BY <1>4, <2>1, <2>2, <2>3 DEF HomeRecord
  <1> HIDE DEF r
  <1> QED BY <1>2, <1>3, <1>5, Domains DEF Types, Shape, TasksOK

(* A second login seals a token nobody had before.                         *)
LEMMA LoginFacts ==
  ASSUME FilesOK, RestOK, ReplaceVaultItemEnrollmentCAS
  PROVE  /\ issued + 1 \in Tokens
         /\ row' \in RowRecord /\ row'.rev = row.rev + 1 /\ row'.token = issued + 1
         /\ row'.revoking = row.revoking
  <1>1. issued + 1 \in Tokens
    BY BoundsAssumption DEF ReplaceVaultItemEnrollmentCAS, Tokens, RestOK
  <1>2. row \in RowRecord /\ row.rev + 1 \in Nat BY DEF FilesOK, RowRecord
  <1>3. row' = [row EXCEPT !.rev = @ + 1, !.token = issued + 1]
    BY DEF ReplaceVaultItemEnrollmentCAS
  <1> QED BY <1>1, <1>2, <1>3 DEF RowRecord

(* Every step keeps the types.                                             *)
LEMMA ShapeNext == ASSUME Types, [Next]_vars PROVE Shape'
  <1> USE DEF fileVars, history
  <1>t. FilesOK /\ TasksOK /\ RestOK BY DEF Types, Shape
  <1>1. ASSUME NEW h \in Handles, Rotate(h) PROVE Shape'
    <2>1. issued + 1 \in Tokens BY <1>1, <1>t, BoundsAssumption DEF Rotate, Tokens, RestOK
    <2>2. home' \in HomeRecord
      BY <1>1, <1>t, <2>1 DEF Rotate, FilesOK, HomeRecord
    <2>3. child' \in [Handles -> ChildRecord]
      BY <1>1, <1>t, <2>1 DEF Rotate, TasksOK, ChildRecord
    <2> QED BY <1>1, <1>t, <2>1, <2>2, <2>3 DEF Rotate, Shape, FilesOK, TasksOK, RestOK
  <1>2. ASSUME NEW h \in Handles, RotateTorn(h) PROVE Shape'
    <2>2. home' \in HomeRecord BY <1>2, <1>t DEF RotateTorn, FilesOK, HomeRecord
    <2>3. child' \in [Handles -> ChildRecord]
      BY <1>2, <1>t, Domains DEF RotateTorn, TasksOK, ChildRecord
    <2> QED BY <1>2, <1>t, <2>2, <2>3 DEF RotateTorn, Shape, FilesOK, TasksOK, RestOK
  <1>3. ASSUME NEW h \in Handles, WritesExtraFile(h) PROVE Shape'
    <2>2. home' \in HomeRecord BY <1>3, <1>t DEF WritesExtraFile, FilesOK, HomeRecord
    <2> QED BY <1>3, <1>t, <2>2 DEF WritesExtraFile, Shape, FilesOK, TasksOK, RestOK
  <1>4. ASSUME NEW h \in Handles, ChildGone(h) PROVE Shape'
    <2>3. child' \in [Handles -> ChildRecord]
      BY <1>4, <1>t, Domains DEF ChildGone, TasksOK, ChildRecord
    <2> QED BY <1>4, <1>t, <2>3 DEF ChildGone, Shape, FilesOK, TasksOK, RestOK
  <1>5. ASSUME NEW h \in Handles, Acquire(h) PROVE Shape'
    <2>1. handle[h] \in HandleRecord /\ row.rev \in Nat
      BY <1>t, HandleTypes DEF FilesOK, RowRecord
    <2> DEFINE r == [handle[h] EXCEPT !.pc = "create", !.exp = row.rev]
    <2>2. r \in HandleRecord BY <2>1 DEF HandleRecord, Pcs
    <2>3. handle' = [handle EXCEPT ![h] = r] BY <1>5 DEF Acquire
    <2> HIDE DEF r
    <2>4. handle' \in [Handles -> HandleRecord] BY <1>t, <2>2, <2>3 DEF TasksOK
    <2> QED BY <1>5, <1>t, <2>4 DEF Acquire, Shape, FilesOK, TasksOK, RestOK
  <1>6. ASSUME NEW h \in Handles, CreateLock(h) PROVE Shape'
    <2>1. handle' \in [Handles -> HandleRecord]
      BY <1>6, <1>t, GotoTypes DEF CreateLock, Pcs, HoldPCs
    <2>2. lock' \in LockRecord \cup {None}
      <3>1. [ino |-> h, owner |-> h, fresh |-> TRUE] \in LockRecord BY DEF LockRecord
      <3> QED BY <1>6, <1>t, <3>1 DEF CreateLock, FilesOK
    <2> QED BY <1>6, <1>t, <2>1, <2>2 DEF CreateLock, Shape, FilesOK, TasksOK, RestOK
  <1>7. ASSUME NEW h \in Handles, ReuseHome(h) PROVE Shape'
    <2>1. CASE ValidateHome(handle[h].exp)
      <3>1. handle[h] \in HandleRecord /\ home.digest \in Nat
        BY <1>7, <1>t, HandleTypes, Domains DEF FilesOK, HomeRecord, ReuseHome
      <3> DEFINE r == [handle[h] EXCEPT !.pc = "spawn", !.digest = home.digest]
      <3>2. r \in HandleRecord BY <3>1 DEF HandleRecord, Pcs, HoldPCs
      <3>3. handle' = [handle EXCEPT ![h] = r] BY <1>7, <1>t, <2>1 DEF ReuseHome, TasksOK
      <3> HIDE DEF r
      <3>4. handle' \in [Handles -> HandleRecord] BY <1>t, <3>2, <3>3 DEF TasksOK
      <3> QED BY <1>7, <2>1, <1>t, <3>4 DEF ReuseHome, Shape, FilesOK, TasksOK, RestOK
    <2>2. CASE ~ValidateHome(handle[h].exp)
      <3>1. handle' \in [Handles -> HandleRecord]
        BY <1>7, <2>2, <1>t, GotoTypes DEF ReuseHome, Pcs
      <3> QED BY <1>7, <2>2, <1>t, <3>1, QuarantineTypes
            DEF ReuseHome, Shape, FilesOK, TasksOK, RestOK
    <2> QED BY <2>1, <2>2
  <1>8. ASSUME NEW h \in Handles, PrepareHome(h) PROVE Shape'
    <2>1. CASE MaterializeCodexAuth(handle[h].exp)
      <3>1. handle[h] \in HandleRecord /\ row.token \in Tokens /\ row.token \in Nat
            /\ row.rev \in Nat
        BY <1>8, <1>t, HandleTypes, Domains DEF FilesOK, RowRecord
      <3> DEFINE r == [handle[h] EXCEPT !.pc = "spawn", !.digest = row.token]
      <3>2. r \in HandleRecord BY <3>1 DEF HandleRecord, Pcs, HoldPCs
      <3>3. handle' = [handle EXCEPT ![h] = r] BY <1>8, <1>t, <2>1 DEF PrepareHome, TasksOK
      <3> HIDE DEF r
      <3>4. handle' \in [Handles -> HandleRecord] BY <1>t, <3>2, <3>3 DEF TasksOK
      <3>5. home' \in HomeRecord
        <4>1. [auth |-> row.token, rev |-> row.rev, digest |-> row.token,
               extra |-> FALSE] \in HomeRecord BY <3>1 DEF HomeRecord
        <4> QED BY <1>8, <2>1, <4>1 DEF PrepareHome
      <3> QED BY <1>8, <2>1, <1>t, <3>4, <3>5 DEF PrepareHome, Shape, FilesOK, TasksOK, RestOK
    <2>2. CASE ~MaterializeCodexAuth(handle[h].exp)
      <3>1. handle' \in [Handles -> HandleRecord]
        BY <1>8, <2>2, <1>t, GotoTypes DEF PrepareHome, Pcs
      <3> QED BY <1>8, <2>2, <1>t, <3>1 DEF PrepareHome, Shape, FilesOK, TasksOK, RestOK
    <2> QED BY <2>1, <2>2
  <1>9. ASSUME NEW h \in Handles, Spawn(h) PROVE Shape'
    <2>1. handle' \in [Handles -> HandleRecord]
      BY <1>9, <1>t, GotoTypes DEF Spawn, Pcs, HoldPCs
    <2>2. child' \in [Handles -> ChildRecord]
      BY <1>9, <1>t DEF Spawn, TasksOK, FilesOK, ChildRecord, HomeRecord
    <2> QED BY <1>9, <1>t, <2>1, <2>2 DEF Spawn, Shape, FilesOK, TasksOK, RestOK
  <1>10. ASSUME NEW h \in Handles, Handshake(h) PROVE Shape'
    <2>1. handle' \in [Handles -> HandleRecord]
      BY <1>10, <1>t, GotoTypes DEF Handshake, Pcs, HoldPCs
    <2>2. child' \in [Handles -> ChildRecord]
      BY <1>10, <1>t, KilledTypes DEF Handshake, TasksOK
    <2>3. pump' \in [Handles -> PumpRecord]
      BY <1>10, <1>t DEF Handshake, TasksOK, PumpRecord
    <2> QED BY <1>10, <1>t, <2>1, <2>2, <2>3 DEF Handshake, Shape, FilesOK, TasksOK, RestOK
  <1>11. ASSUME NEW h \in Handles, PumpVerify(h) PROVE Shape'
    <2>3. pump' \in [Handles -> PumpRecord]
      BY <1>11, <1>t, PumpTypes DEF PumpVerify, TasksOK, PumpRecord
    <2> QED BY <1>11, <1>t, <2>3, PumpTypes DEF PumpVerify, Shape, FilesOK, TasksOK, RestOK
  <1>12. ASSUME NEW h \in Handles, PumpTruncate(h) PROVE Shape'
    <2>1. lock' \in LockRecord \cup {None} BY <1>12, <1>t DEF PumpTruncate, FilesOK, LockRecord
    <2>3. pump' \in [Handles -> PumpRecord]
      <3>1. CASE lock = None BY <3>1, <1>12, <1>t, PumpTypes DEF PumpTruncate
      <3>2. CASE lock # None
        <4>1. [pc |-> "truncated", ino |-> lock.ino] \in PumpRecord
          BY <3>2, <1>t DEF FilesOK, LockRecord, PumpRecord
        <4> QED BY <4>1, <3>2, <1>12, <1>t DEF PumpTruncate, TasksOK
      <3> QED BY <3>1, <3>2
    <2> QED BY <1>12, <1>t, <2>1, <2>3, PumpTypes DEF PumpTruncate, Shape, FilesOK, TasksOK, RestOK
  <1>13. ASSUME NEW h \in Handles, PumpWrite(h) PROVE Shape'
    <2>1. lock' \in LockRecord \cup {None} BY <1>13, <1>t DEF PumpWrite, FilesOK, LockRecord
    <2>2. [pc |-> "idle", ino |-> None] \in PumpRecord BY DEF PumpRecord
    <2>3. pump' \in [Handles -> PumpRecord]
      BY <1>13, <1>t, <2>2, PumpTypes DEF PumpWrite, TasksOK
    <2> QED BY <1>13, <1>t, <2>1, <2>3 DEF PumpWrite, Shape, FilesOK, TasksOK, RestOK
  <1>14. ASSUME NEW h \in Handles, EndRuntime(h) PROVE Shape'
    <2>1. handle' \in [Handles -> HandleRecord]
      BY <1>14, <1>t, GotoTypes DEF EndRuntime, Unregister, Pcs, HoldPCs
    <2> QED BY <1>14, <1>t, <2>1 DEF EndRuntime, Unregister, Shape, FilesOK, TasksOK, RestOK
  <1>15. ASSUME NEW h \in Handles, Kill(h) PROVE Shape'
    <2>1. handle' \in [Handles -> HandleRecord]
      BY <1>15, <1>t, GotoTypes DEF Kill, Pcs, HoldPCs
    <2>2. child' \in [Handles -> ChildRecord] BY <1>15, <1>t, KilledTypes DEF Kill
    <2>3. pump' \in [Handles -> PumpRecord] BY <1>15, <1>t DEF Kill, TasksOK, PumpRecord
    <2> QED BY <1>15, <1>t, <2>1, <2>2, <2>3 DEF Kill, Shape, FilesOK, TasksOK, RestOK
  <1>16. ASSUME NEW h \in Handles, Observe(h) PROVE Shape'
    <2>1. handle' \in [Handles -> HandleRecord] BY <1>16, <1>t, ObserveFacts
    <2> QED BY <1>16, <1>t, <2>1 DEF Observe, Torn, Shape, FilesOK, TasksOK, RestOK
  <1>17. ASSUME NEW h \in Handles, Commit(h) PROVE Shape'
    <2>1. handle' \in [Handles -> HandleRecord]
      BY <1>17, <1>t, GotoTypes DEF Commit, Pcs, HoldPCs
    <2>2. row' \in RowRecord BY <1>17, <1>t, CommitRow DEF FilesOK
    <2> QED BY <1>17, <1>t, <2>1, <2>2 DEF Commit, Shape, FilesOK, TasksOK, RestOK
  <1>18. ASSUME NEW h \in Handles, CommitManifest(h) PROVE Shape'
    <2>1. home' \in HomeRecord \cup {None} /\ handle' \in [Handles -> HandleRecord]
      <3>1. CASE home = None
        BY <1>18, <1>t, <3>1, GotoTypes DEF CommitManifest, Pcs, HoldPCs
      <3>2. CASE home # None  BY <1>18, <1>t, <3>2, ManifestFacts
      <3> QED BY <3>1, <3>2
    <2> QED BY <1>18, <1>t, <2>1 DEF CommitManifest, Shape, FilesOK, TasksOK, RestOK
  <1>19. ASSUME NEW h \in Handles, Quarantine(h) PROVE Shape'
    <2>1. handle' \in [Handles -> HandleRecord]
      BY <1>19, <1>t, GotoTypes DEF Quarantine, Pcs, HoldPCs
    <2> QED BY <1>19, <1>t, <2>1, QuarantineTypes
         DEF Quarantine, Torn, Shape, FilesOK, TasksOK, RestOK
  <1>20. ASSUME NEW h \in Handles, Release(h) PROVE Shape'
    <2>1. handle' \in [Handles -> HandleRecord]
      BY <1>20, <1>t, GotoTypes DEF Release, Pcs, HoldPCs
    <2> QED BY <1>20, <1>t, <2>1 DEF Release, Shape, FilesOK, TasksOK, RestOK
  <1>21. CASE LeaseExpires
    <2>1. lock' \in LockRecord BY <1>21, <1>t DEF LeaseExpires, FilesOK, LockRecord
    <2> QED BY <1>21, <1>t, <2>1 DEF LeaseExpires, Shape, FilesOK, TasksOK, RestOK
  <1>22. CASE Crash
    <2>1. handle' \in [Handles -> HandleRecord]
      <3>1. [NoHandle EXCEPT !.pc = "done"] \in HandleRecord
        BY DEF NoHandle, HandleRecord, Pcs
      <3> QED BY <1>22, <1>t, <3>1 DEF Crash, TasksOK
    <2>2. pump' \in [Handles -> PumpRecord] BY <1>22, <1>t, PumpTypes DEF Crash
    <2>3. crashes' \in 0..MaxCrashes BY <1>22, <1>t, BoundsAssumption DEF Crash, RestOK
    <2> QED BY <1>22, <1>t, <2>1, <2>2, <2>3 DEF Crash, Shape, FilesOK, TasksOK, RestOK
  <1>23. CASE Recover
    BY <1>23, <1>t, QuarantineTypes DEF Recover, Shape, FilesOK, TasksOK, RestOK
  <1>24. ASSUME NEW b \in BOOLEAN, SetUnlocked(b) PROVE Shape'
    BY <1>24, <1>t DEF SetUnlocked, Shape, FilesOK, TasksOK, RestOK
  <1>25. CASE ReplaceVaultItemEnrollmentCAS
    BY <1>25, <1>t, LoginFacts DEF ReplaceVaultItemEnrollmentCAS, Shape, FilesOK, TasksOK, RestOK
  <1>26. CASE Logout
    <2>1. row' \in RowRecord BY <1>26, <1>t DEF Logout, FilesOK, RowRecord
    <2> QED BY <1>26, <1>t, <2>1 DEF Logout, Shape, FilesOK, TasksOK, RestOK
  <1>27. CASE UNCHANGED vars BY <1>27, <1>t DEF vars, Shape, FilesOK, TasksOK, RestOK
  <1> QED BY <1>1, <1>2, <1>3, <1>4, <1>5, <1>6, <1>7, <1>8, <1>9, <1>10, <1>11,
       <1>12, <1>13, <1>14, <1>15, <1>16, <1>17, <1>18, <1>19, <1>20, <1>21,
       <1>22, <1>23, <1>24, <1>25, <1>26, <1>27 DEF Next

(* Every step keeps the type part of the invariant.                        *)
LEMMA TypesNext == ASSUME Types, [Next]_vars PROVE Types'
  <1> USE DEF fileVars, history
  <1>t. Shape /\ FilesOK /\ TasksOK /\ RestOK BY DEF Types, Shape
  <1>s. Shape' BY ShapeNext
  <1>1. ASSUME NEW h \in Handles, NEW p \in Pcs, Goto(h, p),
               p \in {"commit", "manifest"} => handle[h].pc \in {"commit", "manifest"}
        PROVE SeenOK'
    BY <1>1, <1>t, GotoFacts DEF Types, SeenOK
  <1>2. ASSUME handle' = handle PROVE SeenOK'
    BY <1>2 DEF Types, SeenOK
  <1>3. ASSUME NEW h \in Handles, Acquire(h) PROVE SeenOK'
    <2>1. handle'[h].pc = "create" /\ \A g \in Handles : g # h => handle'[g] = handle[g]
      BY <1>3, <1>t, HandleTypes DEF Acquire, TasksOK, HandleRecord
    <2> QED BY <2>1 DEF Types, SeenOK
  <1>4. ASSUME NEW h \in Handles, ReuseHome(h) \/ PrepareHome(h) PROVE SeenOK'
    <2>1. \/ handle'[h].pc = "spawn" /\ \A g \in Handles : g # h => handle'[g] = handle[g]
          \/ Goto(h, "done")
      BY <1>4, <1>t, HandleTypes DEF ReuseHome, PrepareHome, TasksOK, HandleRecord
    <2> QED BY <1>1, <2>1 DEF Types, SeenOK, Pcs
  <1>5. ASSUME NEW h \in Handles, Observe(h) PROVE SeenOK'
    <2>1. handle'[h].pc = "commit" => handle'[h].seen \in Tokens
      BY <1>5, <1>t, ObserveFacts DEF FilesOK, HomeRecord
    <2> QED BY <1>5, <1>t, <2>1, ObserveFacts DEF Types, SeenOK
  <1>6. ASSUME NEW h \in Handles, CommitManifest(h) PROVE SeenOK'
    <2>1. CASE home = None BY <1>1, <1>6, <2>1 DEF CommitManifest, Pcs, HoldPCs
    <2>2. CASE home # None BY <1>6, <2>2, ManifestFacts DEF Types, SeenOK
    <2> QED BY <2>1, <2>2
  <1>7. ASSUME Crash PROVE SeenOK'
    <2>1. ASSUME NEW h \in Handles PROVE handle'[h].pc \notin {"commit", "manifest"}
      <3>1. handle'[h].pc \in {"unused", "done"}
        BY <1>7, <1>t DEF Crash, TasksOK, NoHandle
      <3> QED BY <3>1
    <2> QED BY <2>1 DEF SeenOK
  <1>8. SeenOK'
    <2>1. ASSUME NEW h \in Handles,
                 \/ Rotate(h) \/ RotateTorn(h) \/ WritesExtraFile(h) \/ ChildGone(h)
          PROVE SeenOK'
      BY <2>1, <1>2 DEF Rotate, RotateTorn, WritesExtraFile, ChildGone
    <2>2. ASSUME NEW h \in Handles,
                 \/ CreateLock(h) \/ Spawn(h) \/ Handshake(h)
                 \/ EndRuntime(h) \/ Kill(h) \/ Quarantine(h) \/ Release(h)
          PROVE SeenOK'
      BY <2>2, <1>1
         DEF Pcs, HoldPCs, CreateLock, Spawn, Handshake, EndRuntime, Unregister, Kill, Quarantine, Release
    <2>3. ASSUME NEW h \in Handles, PumpVerify(h) \/ PumpTruncate(h) \/ PumpWrite(h)
          PROVE SeenOK'
      BY <2>3, <1>1, <1>2 DEF PumpVerify, PumpTruncate, PumpWrite, PumpFails, Unregister,
                           Pcs, HoldPCs
    <2>4. ASSUME NEW h \in Handles, Commit(h) PROVE SeenOK'
      BY <2>4, <1>1 DEF Commit, Pcs, HoldPCs
    <2>5. ASSUME \/ LeaseExpires \/ Recover \/ Logout \/ ReplaceVaultItemEnrollmentCAS
                 \/ \E b \in BOOLEAN : SetUnlocked(b)
                 \/ UNCHANGED vars
          PROVE SeenOK'
      BY <2>5, <1>2 DEF LeaseExpires, Recover, Logout, ReplaceVaultItemEnrollmentCAS,
                       SetUnlocked, vars
    <2> QED BY <1>3, <1>4, <1>5, <1>6, <1>7, <2>1, <2>2, <2>3, <2>4, <2>5 DEF Next
  <1> QED BY <1>s, <1>8 DEF Types

(* The goroutine of h holds RuntimeManager.mu for a start.                 *)
Starting(h) == handle[h].pc \in StartPCs \cup {"failed"}
(* h has been returned by Acquire and not released.                        *)
Holding(h) == handle[h].pc \in HoldPCs

(* A daemon that is down has no goroutines; the registered runtime is the  *)
(* live one; there is one start at a time, with no runtime registered and  *)
(* no logout begun; a logout under way has reserved the credential.        *)
LifeInv ==
  /\ ~up => \A h \in Handles : handle[h].pc \in {"unused", "done"}
  /\ \A h \in Handles : registered = h <=> handle[h].pc = "live"
  /\ \A g, h \in Handles : Starting(g) /\ Starting(h) => g = h
  /\ \A h \in Handles : Starting(h) => registered = None /\ ~row.revoking
  /\ registered # None => ~row.revoking
  /\ logout # "idle" => row.revoking

(* Until a logout takes the files away, the lock file is the one the       *)
(* holder created.                                                         *)
LockInv ==
  ~row.revoking =>
    \A h \in Handles : Holding(h) => lock # None /\ lock.ino = h

(* The lock file is not replaced: at most its record is rewritten.         *)
SameLock == lock' = lock \/ (lock # None /\ lock' # None /\ lock'.ino = lock.ino)

(* starter is the set of starting handles.                                 *)
LEMMA StarterFacts ==
  /\ starter = {} <=> \A h \in Handles : ~Starting(h)
  /\ \A h \in Handles : handle[h].pc \in StartPCs \cup {"failed"} <=> Starting(h)
  BY DEF starter, Starting

(* A step that moves no handle and replaces no lock file keeps LifeInv,    *)
(* LockInv and OneHolder.                                                  *)
LEMMA LifeFrame ==
  ASSUME LifeInv, LockInv, OneHolder, SameLock,
         handle' = handle, registered' = registered, up' = up, logout' = logout,
         row'.revoking = row.revoking
  PROVE  LifeInv' /\ LockInv' /\ OneHolder'
  BY DEF LifeInv, LockInv, OneHolder, SameLock, Starting, Holding

(* So does a step of the holder, if it keeps the lock file for as long as  *)
(* it holds.                                                               *)
LEMMA LifeMove ==
  ASSUME LifeInv, LockInv, OneHolder, up, up' = up,
         registered' = registered, logout' = logout, row'.revoking = row.revoking,
         NEW h \in Handles, Holding(h), handle[h].pc # "live",
         \A g \in Handles : g # h => handle'[g] = handle[g],
         handle'[h].pc # "live", Starting(h)' => Starting(h),
         Holding(h)' => SameLock
  PROVE  LifeInv' /\ LockInv' /\ OneHolder'
  <1>1. \A g \in Handles : g # h => ~Holding(g) /\ ~Holding(g)'
    BY DEF OneHolder, Holding
  <1>2. OneHolder' BY <1>1 DEF OneHolder, Holding
  <1>3. LockInv' BY <1>1 DEF LockInv, SameLock
  <1>4. \A g \in Handles : Starting(g)' => Starting(g) BY DEF Starting
  <1>5. LifeInv' BY <1>4 DEF LifeInv
  <1> QED BY <1>2, <1>3, <1>5

(* So does the end of the registered runtime.                              *)
LEMMA LifeEnd ==
  ASSUME Types, LifeInv, LockInv, OneHolder, SameLock, up, up' = up,
         NEW h \in Handles, Unregister(h),
         logout' = logout, row' = row
  PROVE  LifeInv' /\ LockInv' /\ OneHolder'
  <1>1. /\ handle'[h].pc = "kill" /\ \A g \in Handles : g # h => handle'[g] = handle[g]
    BY GotoFacts DEF Unregister, Types, Shape, Pcs, HoldPCs
  <1>2. registered = h /\ registered' = None /\ handle[h].pc = "live"
    BY DEF Unregister, LifeInv
  <1>3. \A g \in Handles : Holding(g)' => Holding(g)
    BY <1>1, <1>2 DEF Holding, HoldPCs
  <1>4. \A g \in Handles : ~Starting(g) /\ ~Starting(g)'
    BY <1>1, <1>2, Domains DEF LifeInv, Starting, StartPCs
  <1>5. OneHolder' BY <1>3 DEF OneHolder, Holding
  <1>6. LockInv' BY <1>3 DEF LockInv, SameLock
  <1>7. LifeInv' BY <1>1, <1>2, <1>4, Domains DEF LifeInv
  <1> QED BY <1>5, <1>6, <1>7

(* Every step keeps LifeInv, LockInv and OneHolder. O_EXCL refuses whoever *)
(* finds the file, and while nobody has begun a logout the holder's file   *)
(* is there.                                                               *)
LEMMA LifeNext ==
  ASSUME Types, LifeInv, LockInv, OneHolder, [Next]_vars
  PROVE  LifeInv' /\ LockInv' /\ OneHolder'
  <1> USE DEF fileVars, history
  <1>t. Shape /\ FilesOK /\ TasksOK /\ RestOK BY DEF Types, Shape
  <1> DEFINE Goal == (LifeInv /\ LockInv /\ OneHolder)'
  <1> HIDE DEF Goal
  <1>g. LifeInv' /\ LockInv' /\ OneHolder' => Goal BY DEF Goal
  <1>0. ASSUME NEW h \in Handles, NEW p \in Pcs, Goto(h, p)
        PROVE  /\ handle'[h].pc = p
               /\ \A g \in Handles : g # h => handle'[g] = handle[g]
    BY <1>0, <1>t, GotoFacts
  <1>1. ASSUME NEW h \in Handles,
               \/ Rotate(h) \/ RotateTorn(h) \/ WritesExtraFile(h) \/ ChildGone(h)
        PROVE Goal
    BY <1>1, <1>g, LifeFrame DEF SameLock, Rotate, RotateTorn, WritesExtraFile, ChildGone
  <1>2. ASSUME up, NEW h \in Handles, Acquire(h) PROVE Goal
    <2>1. /\ handle'[h].pc = "create" /\ handle[h].pc = "unused"
          /\ \A g \in Handles : g # h => handle'[g] = handle[g]
      BY <1>2, <1>t, HandleTypes DEF Acquire, TasksOK, HandleRecord
    <2>2. \A g \in Handles : ~Starting(g) BY <1>2, StarterFacts DEF Acquire
    <2>3. registered = None /\ registered' = registered /\ row' = row /\ ~row.revoking
          /\ lock' = lock /\ logout' = logout /\ up' = up
      BY <1>2 DEF Acquire
    <2>4. \A g \in Handles : Holding(g)' => Holding(g)
      BY <2>1 DEF Holding, HoldPCs
    <2>5. LockInv' /\ OneHolder' BY <2>3, <2>4 DEF LockInv, OneHolder, Holding
    <2>6. \A g \in Handles : Starting(g)' => g = h BY <2>1, <2>2 DEF Starting
    <2>7. LifeInv' BY <1>2, <2>1, <2>3, <2>6 DEF LifeInv
    <2> QED BY <2>5, <2>7, <1>g
  <1>3. ASSUME up, NEW h \in Handles, CreateLock(h) PROVE Goal
    <2>1. /\ handle[h].pc = "create" /\ handle'[h].pc \in {"done", "prepare"}
          /\ \A g \in Handles : g # h => handle'[g] = handle[g]
      BY <1>3, <1>0 DEF CreateLock, Pcs, HoldPCs
    <2>2. registered' = registered /\ row' = row /\ logout' = logout /\ up' = up
      BY <1>3 DEF CreateLock
    <2>3. Starting(h) /\ ~row.revoking BY <2>1 DEF Starting, StartPCs, LifeInv
    <2>4. \A g \in Handles : Starting(g)' => Starting(g) BY <2>1, <2>3 DEF Starting
    <2>5. LifeInv' BY <1>3, <2>1, <2>2, <2>4 DEF LifeInv
    <2>6. CASE lock # None
      <3>1. handle'[h].pc = "done" /\ lock' = lock
        BY <1>3, <1>0, <2>6 DEF CreateLock, Pcs
      <3>2. \A g \in Handles : Holding(g)' => Holding(g) BY <3>1, <2>1 DEF Holding, HoldPCs
      <3> QED BY <3>1, <3>2, <2>2, <2>5, <1>g DEF LockInv, OneHolder, Holding
    <2>7. CASE lock = None
      <3>1. lock' = [ino |-> h, owner |-> h, fresh |-> TRUE] BY <1>3, <2>7 DEF CreateLock
      <3>2. \A g \in Handles : ~Holding(g) BY <2>3, <2>7 DEF LockInv
      <3>3. \A g \in Handles : Holding(g)' => g = h BY <3>2, <2>1 DEF Holding
      <3>4. lock' # None /\ lock'.ino = h
        <4>1. lock' \in LockRecord BY <3>1 DEF LockRecord
        <4> QED BY <4>1, <3>1, Domains
      <3> QED BY <3>3, <3>4, <2>5, <1>g DEF LockInv, OneHolder, Holding
    <2> QED BY <2>6, <2>7
  <1>4. ASSUME up, NEW h \in Handles, ReuseHome(h) \/ PrepareHome(h) PROVE Goal
    <2>1. /\ handle[h].pc = "prepare"
          /\ \/ handle'[h].pc = "done"
             \/ handle'[h].pc = "spawn" /\ lock' = lock
          /\ \A g \in Handles : g # h => handle'[g] = handle[g]
      <3>1. \/ handle'[h].pc = "spawn" /\ lock' = lock
               /\ \A g \in Handles : g # h => handle'[g] = handle[g]
            \/ Goto(h, "done")
        BY <1>4, <1>t, HandleTypes DEF ReuseHome, PrepareHome, TasksOK, HandleRecord
      <3> QED BY <3>1, <1>4, <1>0 DEF ReuseHome, PrepareHome, Pcs
    <2>2. up' = up /\ registered' = registered /\ logout' = logout /\ row' = row
      BY <1>4 DEF ReuseHome, PrepareHome
    <2>3. Holding(h) /\ handle[h].pc # "live" /\ handle'[h].pc # "live" /\ Starting(h)
      BY <2>1 DEF Holding, HoldPCs, Starting, StartPCs
    <2>4. Holding(h)' => SameLock BY <2>1 DEF Holding, HoldPCs, SameLock
    <2> QED BY <1>4, <2>1, <2>2, <2>3, <2>4, LifeMove, <1>g
  <1>5. ASSUME up, NEW h \in Handles, Spawn(h) PROVE Goal
    <2>1. /\ handle[h].pc = "spawn" /\ handle'[h].pc \in {"handshake", "failed"}
          /\ \A g \in Handles : g # h => handle'[g] = handle[g]
      BY <1>5, <1>0 DEF Spawn, Pcs, HoldPCs
    <2>3. Holding(h) /\ handle[h].pc # "live" /\ handle'[h].pc # "live" /\ Starting(h)
      BY <2>1 DEF Holding, HoldPCs, Starting, StartPCs
    <2> QED BY <1>5, <2>1, <2>3, LifeMove, <1>g DEF Spawn, SameLock
  <1>6. ASSUME up, NEW h \in Handles, Handshake(h) PROVE Goal
    <2>1. handle[h].pc = "handshake" /\ Holding(h) /\ Starting(h)
      BY <1>6 DEF Handshake, Holding, HoldPCs, Starting, StartPCs
    <2>2. up' = up /\ logout' = logout /\ row' = row /\ lock' = lock BY <1>6 DEF Handshake
    <2>3. CASE registered' = h /\ Goto(h, "live")
      <3>1. /\ handle'[h].pc = "live"
            /\ \A g \in Handles : g # h => handle'[g] = handle[g]
        BY <1>0, <2>3 DEF Pcs, HoldPCs
      <3>2. \A g \in Handles : Holding(g)' => Holding(g) BY <2>1, <3>1 DEF Holding
      <3>3. LockInv' /\ OneHolder' BY <2>2, <3>2 DEF LockInv, OneHolder, Holding
      <3>4. \A g \in Handles : ~Starting(g)'
        BY <2>1, <3>1 DEF LifeInv, Starting, StartPCs
      <3>5. registered = None /\ ~row.revoking BY <2>1 DEF LifeInv
      <3>6. LifeInv' BY <1>6, <2>2, <2>3, <3>1, <3>4, <3>5, Domains DEF LifeInv
      <3> QED BY <3>3, <3>6, <1>g
    <2>4. CASE registered' = registered /\ Goto(h, "failed")
      <3>1. /\ handle'[h].pc = "failed"
            /\ \A g \in Handles : g # h => handle'[g] = handle[g]
        BY <1>0, <2>4 DEF Pcs, HoldPCs
      <3> QED BY <1>6, <2>1, <2>2, <2>4, <3>1, LifeMove, <1>g DEF SameLock
    <2> QED BY <1>6, <2>3, <2>4 DEF Handshake
  <1>7. ASSUME up, NEW h \in Handles, PumpVerify(h) \/ PumpTruncate(h) \/ PumpWrite(h)
        PROVE Goal
    <2>1. SameLock
      <3>1. CASE lock = None BY <1>7, <3>1 DEF PumpVerify, PumpTruncate, PumpWrite, SameLock
      <3>2. CASE lock # None
        <4>1. lock \in LockRecord BY <1>t, <3>2 DEF FilesOK
        <4>2. \/ lock' = lock
              \/ lock' = [lock EXCEPT !.owner = None]
              \/ lock' = [lock EXCEPT !.owner = h, !.fresh = TRUE]
          BY <1>7, <3>2 DEF PumpVerify, PumpTruncate, PumpWrite
        <4>3. lock'.ino = lock.ino BY <4>1, <4>2 DEF LockRecord
        <4>4. lock' \in LockRecord BY <4>1, <4>2 DEF LockRecord
        <4> QED BY <3>2, <4>3, <4>4, Domains DEF SameLock
      <3> QED BY <3>1, <3>2
    <2>2. up' = up /\ logout' = logout /\ row' = row
      BY <1>7 DEF PumpVerify, PumpTruncate, PumpWrite
    <2>3. Unregister(h) \/ UNCHANGED <<registered, handle>>
      BY <1>7 DEF PumpVerify, PumpTruncate, PumpWrite, PumpFails
    <2> QED BY <1>7, <2>1, <2>2, <2>3, LifeEnd, LifeFrame, <1>g
  <1>8. ASSUME up, NEW h \in Handles, EndRuntime(h) PROVE Goal
    BY <1>8, LifeEnd, <1>g DEF EndRuntime, SameLock
  <1>9. ASSUME up, NEW h \in Handles, Kill(h) PROVE Goal
    <2>1. /\ handle[h].pc = "kill" /\ handle'[h].pc = "observe"
          /\ \A g \in Handles : g # h => handle'[g] = handle[g]
      BY <1>9, <1>0 DEF Kill, Pcs, HoldPCs
    <2>3. Holding(h) /\ ~Starting(h)'
      BY <2>1 DEF Holding, HoldPCs, Starting, StartPCs
    <2> QED BY <1>9, <2>1, <2>3, LifeMove, <1>g DEF Kill, SameLock
  <1>10. ASSUME up, NEW h \in Handles, Observe(h) PROVE Goal
    <2>1. /\ handle[h].pc = "observe" /\ handle'[h].pc \in {"q1", "q2", "release", "commit"}
          /\ \A g \in Handles : g # h => handle'[g] = handle[g]
      BY <1>10, <1>t, ObserveFacts DEF Observe
    <2>3. Holding(h) /\ handle'[h].pc # "live" /\ ~Starting(h)'
      BY <2>1 DEF Holding, HoldPCs, Starting, StartPCs
    <2> QED BY <1>10, <2>1, <2>3, LifeMove, <1>g DEF Observe, SameLock
  <1>11. ASSUME up, NEW h \in Handles, Commit(h) PROVE Goal
    <2>1. /\ handle[h].pc = "commit" /\ handle'[h].pc \in {"q1", "manifest"}
          /\ \A g \in Handles : g # h => handle'[g] = handle[g]
      BY <1>11, <1>0 DEF Commit, Pcs, HoldPCs
    <2>2. row'.revoking = row.revoking BY <1>11, <1>t, CommitRow
    <2>3. Holding(h) /\ handle'[h].pc # "live" /\ ~Starting(h)'
      BY <2>1 DEF Holding, HoldPCs, Starting, StartPCs
    <2> QED BY <1>11, <2>1, <2>2, <2>3, LifeMove, <1>g DEF Commit, SameLock
  <1>12. ASSUME up, NEW h \in Handles, CommitManifest(h) PROVE Goal
    <2>1. /\ handle[h].pc = "manifest" /\ handle'[h].pc \in {"q1", "release"}
          /\ \A g \in Handles : g # h => handle'[g] = handle[g]
      BY <1>12, <1>0, ManifestFacts DEF CommitManifest, Pcs, HoldPCs
    <2>3. Holding(h) /\ handle'[h].pc # "live" /\ ~Starting(h)'
      BY <2>1 DEF Holding, HoldPCs, Starting, StartPCs
    <2> QED BY <1>12, <2>1, <2>3, LifeMove, <1>g DEF CommitManifest, SameLock
  <1>13. ASSUME up, NEW h \in Handles, Quarantine(h) \/ Release(h) PROVE Goal
    <2>1. /\ handle[h].pc \in {"q1", "q2", "failed", "release"}
          /\ \/ handle'[h].pc \in {"done", "leaked"}
             \/ handle'[h].pc \in {"q2", "release"} /\ lock' = lock
          /\ \A g \in Handles : g # h => handle'[g] = handle[g]
      <3>1. \/ Goto(h, "done") \/ Goto(h, "leaked")
            \/ lock' = lock /\ (Goto(h, "q2") \/ Goto(h, "release"))
        BY <1>13 DEF Quarantine, Release
      <3>2. handle[h].pc \in {"q1", "q2", "failed", "release"}
        BY <1>13 DEF Quarantine, Release
      <3>3. {"done", "leaked", "q2", "release"} \subseteq Pcs BY DEF Pcs, HoldPCs
      <3>4. CASE Goto(h, "done") BY <3>2, <3>3, <3>4, <1>0
      <3>5. CASE Goto(h, "leaked") BY <3>2, <3>3, <3>5, <1>0
      <3>6. CASE lock' = lock /\ Goto(h, "q2") BY <3>2, <3>3, <3>6, <1>0
      <3>7. CASE lock' = lock /\ Goto(h, "release") BY <3>2, <3>3, <3>7, <1>0
      <3> QED BY <3>1, <3>4, <3>5, <3>6, <3>7
    <2>2. up' = up /\ registered' = registered /\ logout' = logout /\ row' = row
      BY <1>13 DEF Quarantine, Release
    <2>3. Holding(h) /\ handle[h].pc # "live" /\ handle'[h].pc # "live" /\ ~Starting(h)'
      BY <2>1 DEF Holding, HoldPCs, Starting, StartPCs
    <2>4. Holding(h)' => SameLock BY <2>1 DEF Holding, HoldPCs, SameLock
    <2> QED BY <1>13, <2>1, <2>2, <2>3, <2>4, LifeMove, <1>g
  <1>14. ASSUME LeaseExpires PROVE Goal
    <2>1. lock \in LockRecord /\ lock' = [lock EXCEPT !.fresh = FALSE]
      BY <1>14, <1>t DEF FilesOK, LeaseExpires
    <2>2. lock'.ino = lock.ino /\ lock' \in LockRecord BY <2>1 DEF LockRecord
    <2>3. SameLock BY <1>14, <2>2, Domains DEF SameLock, LeaseExpires
    <2> QED BY <1>14, <2>3, LifeFrame, <1>g DEF LeaseExpires
  <1>15. ASSUME Crash PROVE Goal
    <2>1. \A h \in Handles : handle'[h].pc \in {"unused", "done"}
      BY <1>15, <1>t DEF Crash, TasksOK, NoHandle
    <2>2. \A h \in Handles : ~Starting(h)' /\ ~Holding(h)' /\ handle'[h].pc # "live"
      BY <2>1 DEF Starting, StartPCs, Holding, HoldPCs
    <2> QED BY <1>15, <2>1, <2>2, <1>g, Domains DEF Crash, LifeInv, LockInv, OneHolder, Holding
  <1>16. ASSUME Recover PROVE Goal
    <2>1. \A h \in Handles : handle[h].pc \in {"unused", "done"}
      BY <1>16 DEF Recover, LifeInv
    <2>2. \A h \in Handles : ~Starting(h)' /\ ~Holding(h)' /\ handle'[h].pc # "live"
      BY <1>16, <2>1 DEF Recover, Starting, StartPCs, Holding, HoldPCs
    <2>3. \A h \in Handles : ~Starting(h) /\ ~Holding(h) /\ handle[h].pc # "live"
      BY <2>1 DEF Recover, Starting, StartPCs, Holding, HoldPCs
    <2>4. registered' = registered /\ row' = row /\ logout' = logout /\ up'
      BY <1>16 DEF Recover
    <2>5. LockInv' /\ OneHolder' BY <2>2 DEF LockInv, OneHolder, Holding
    <2>6. LifeInv' BY <2>2, <2>3, <2>4 DEF LifeInv
    <2> QED BY <2>5, <2>6, <1>g
  <1>17. ASSUME NEW b \in BOOLEAN, SetUnlocked(b) PROVE Goal
    BY <1>17, <1>g, LifeFrame DEF SetUnlocked, SameLock
  <1>18. ASSUME ReplaceVaultItemEnrollmentCAS PROVE Goal
    BY <1>18, <1>g, <1>t, LoginFacts, LifeFrame DEF ReplaceVaultItemEnrollmentCAS, SameLock
  <1>19. ASSUME up, Logout PROVE Goal
    <2>1. handle' = handle /\ registered' = registered /\ up' = up
          /\ \A g \in Handles : ~Starting(g) /\ ~Starting(g)'
      BY <1>19, StarterFacts DEF Logout, Starting
    <2>2. \/ row'.revoking = row.revoking
          \/ registered = None /\ row'.revoking
      <3>1. row \in RowRecord BY <1>t DEF FilesOK
      <3>2. \/ row' = row
            \/ row' = [row EXCEPT !.status = "revoked"]
            \/ row' = [row EXCEPT !.revoking = TRUE] /\ registered = None
        BY <1>19 DEF Logout
      <3>3. CASE row' = [row EXCEPT !.status = "revoked"] BY <3>1, <3>3 DEF RowRecord
      <3>4. CASE row' = [row EXCEPT !.revoking = TRUE] /\ registered = None
        <4>1. row'.revoking = TRUE BY <3>1, <3>4 DEF RowRecord
        <4> QED BY <3>4, <4>1
      <3> QED BY <3>2, <3>3, <3>4
    <2>3. OneHolder' BY <2>1 DEF OneHolder
    <2>4. LockInv'
      <3>1. lock' = lock \/ row.revoking BY <1>19 DEF Logout, LifeInv
      <3> QED BY <3>1, <2>1, <2>2 DEF LockInv, Holding
    <2>5. logout' # "idle" => row'.revoking
      <3>1. row'.revoking = row.revoking \/ row'.revoking
        BY <2>2
      <3> QED BY <1>19, <1>t, <3>1 DEF Logout, LifeInv, FilesOK, RowRecord
    <2>6. LifeInv' BY <1>19, <2>1, <2>2, <2>5 DEF LifeInv
    <2> QED BY <2>3, <2>4, <2>6, <1>g
  <1>20. ASSUME UNCHANGED vars PROVE Goal BY <1>20, <1>g, LifeFrame DEF vars, SameLock
  <1>21. Goal
    BY <1>1, <1>2, <1>3, <1>4, <1>5, <1>6, <1>7, <1>8, <1>9, <1>10, <1>11,
       <1>12, <1>13, <1>14, <1>15, <1>16, <1>17, <1>18, <1>19, <1>20 DEF Next
  <1> QED BY <1>21 DEF Goal

(* The start of h has not spawned its child.                               *)
Early(h) == handle[h].pc \in {"create", "prepare", "spawn"}

(* At most one child is alive, none before a start has spawned its own,    *)
(* and the token a child holds is the one in the home.                     *)
ChildInv ==
  /\ \A g, h \in Handles : Alive(g) /\ Alive(h) => g = h
  /\ \A h \in Handles : Early(h) => ChildrenEnded
  /\ \A h \in Handles : Alive(h) /\ home # None => child[h].token = home.auth

(* A step that starts no child and changes no auth.json keeps ChildInv.    *)
LEMMA ChildFrame ==
  ASSUME ChildInv,
         \A h \in Handles : Alive(h)' => Alive(h) /\ child'[h].token = child[h].token,
         \A h \in Handles : Early(h)' => ChildrenEnded,
         \/ home' = None
         \/ home # None /\ home' # None /\ home'.auth = home.auth
         \/ ChildrenEnded
  PROVE  ChildInv'
  BY DEF ChildInv, ChildrenEnded

(* The same for a step that touches no child.                              *)
LEMMA ChildKeep ==
  ASSUME ChildInv, child' = child,
         \A h \in Handles : Early(h)' => Early(h),
         \/ home' = None
         \/ home # None /\ home' # None /\ home'.auth = home.auth
         \/ ChildrenEnded
  PROVE  ChildInv'
  <1>1. \A h \in Handles : Alive(h)' => Alive(h) /\ child'[h].token = child[h].token
    BY DEF Alive
  <1>2. \A h \in Handles : Early(h)' => ChildrenEnded BY DEF ChildInv
  <1> QED BY <1>1, <1>2, ChildFrame

(* A killed child is no other child, with the token it had.                *)
LEMMA KilledAlive ==
  ASSUME TasksOK, NEW h \in Handles, child' = Killed(h)
  PROVE  \A g \in Handles : Alive(g)' => Alive(g) /\ child'[g].token = child[g].token
  <1>1. ASSUME NEW g \in Handles, Alive(g)'
        PROVE  Alive(g) /\ child'[g].token = child[g].token
    <2>1. CASE g = h BY <1>1, <2>1, KilledTypes DEF Alive
    <2>2. CASE g # h BY <1>1, <2>2, KilledTypes DEF Alive
    <2> QED BY <2>1, <2>2
  <1> QED BY <1>1

(* A child that ended is not alive.                                        *)
LEMMA GoneAlive ==
  ASSUME TasksOK, NEW h \in Handles,
         child' = [child EXCEPT ![h] = [state |-> "gone", token |-> 0]]
  PROVE  /\ \A g \in Handles : Alive(g)' => Alive(g) /\ child'[g].token = child[g].token
         /\ \A g \in Handles : Alive(g)' => g # h
  BY DEF TasksOK, Alive

(* A rotation writes a token never seen before.                            *)
LEMMA RotateFacts ==
  ASSUME Types, NEW h \in Handles, Rotate(h)
  PROVE  /\ home' \in HomeRecord /\ home' # None /\ home # None
         /\ home'.auth = issued + 1 /\ home'.rev = home.rev
         /\ home'.digest = home.digest /\ issued + 1 \in Tokens
         /\ child'[h].token = issued + 1
         /\ child'[h].state = child[h].state
         /\ \A g \in Handles : g # h => child'[g] = child[g]
  <1>1. home # None /\ home \in HomeRecord /\ TasksOK /\ child[h] \in ChildRecord
    BY HandleTypes DEF Rotate, Types, Shape, FilesOK
  <1>2. issued + 1 \in Tokens
    BY BoundsAssumption DEF Rotate, Tokens, Types, Shape, RestOK
  <1>3. /\ home' \in HomeRecord /\ home'.auth = issued + 1 /\ home'.rev = home.rev
        /\ home'.digest = home.digest
    BY <1>1, <1>2 DEF Rotate, HomeRecord
  <1>4. /\ child'[h].token = issued + 1 /\ child'[h].state = child[h].state
        /\ \A g \in Handles : g # h => child'[g] = child[g]
    BY <1>1, <1>2 DEF Rotate, TasksOK, ChildRecord
  <1> QED BY <1>1, <1>2, <1>3, <1>4, Domains

(* A rotation cut short leaves no usable auth.json.                        *)
LEMMA TornFacts ==
  ASSUME Types, NEW h \in Handles, RotateTorn(h)
  PROVE  /\ home' \in HomeRecord /\ home' # None /\ home # None
         /\ home'.auth = Bad /\ home'.rev = home.rev /\ home'.digest = home.digest
  <1>1. home # None /\ home \in HomeRecord
    BY DEF RotateTorn, Types, Shape, FilesOK
  <1>3. /\ home' \in HomeRecord /\ home'.auth = Bad /\ home'.rev = home.rev
        /\ home'.digest = home.digest
    BY <1>1 DEF RotateTorn, HomeRecord
  <1> QED BY <1>1, <1>3, Domains

(* An unexpected file leaves auth.json and the manifest alone.             *)
LEMMA ExtraFacts ==
  ASSUME Types, NEW h \in Handles, WritesExtraFile(h)
  PROVE  /\ home' \in HomeRecord /\ home' # None /\ home # None
         /\ home'.auth = home.auth /\ home'.rev = home.rev
         /\ home'.digest = home.digest
  <1>1. home # None /\ home \in HomeRecord
    BY DEF WritesExtraFile, Types, Shape, FilesOK
  <1>3. /\ home' \in HomeRecord /\ home'.auth = home.auth /\ home'.rev = home.rev
        /\ home'.digest = home.digest
    BY <1>1 DEF WritesExtraFile, HomeRecord
  <1> QED BY <1>1, <1>3, Domains

(* prepareHome on an existing home: reused as it is, or quarantined with   *)
(* the lock given back.                                                    *)
LEMMA ReuseFacts ==
  ASSUME Types, NEW h \in Handles, ReuseHome(h)
  PROVE  /\ handle[h].pc = "prepare" /\ home # None
         /\ \A g \in Handles : g # h => handle'[g] = handle[g]
         /\ \/ /\ ValidateHome(handle[h].exp)
               /\ handle'[h].pc = "spawn" /\ handle'[h].exp = handle[h].exp
               /\ handle'[h].digest = home.digest
               /\ home' = home /\ lock' = lock /\ quarantine' = quarantine
            \/ QuarantineHome /\ lock' = None /\ handle'[h].pc = "done"
  <1>1. TasksOK /\ handle[h] \in HandleRecord BY HandleTypes DEF Types, Shape
  <1>2. CASE ValidateHome(handle[h].exp)
    BY <1>1, <1>2 DEF ReuseHome, TasksOK, HandleRecord, fileVars
  <1>3. CASE ~ValidateHome(handle[h].exp)
    BY <1>1, <1>3, GotoFacts DEF ReuseHome, Pcs
  <1> QED BY <1>2, <1>3

(* prepareHome without a home: filled from the Vault under the revision of *)
(* the handle, or nothing.                                                 *)
LEMMA PrepareFacts ==
  ASSUME Types, NEW h \in Handles, PrepareHome(h)
  PROVE  /\ handle[h].pc = "prepare" /\ home = None
         /\ \A g \in Handles : g # h => handle'[g] = handle[g]
         /\ \/ /\ row.rev = handle[h].exp
               /\ handle'[h].pc = "spawn" /\ handle'[h].exp = handle[h].exp
               /\ handle'[h].digest = row.token
               /\ home' # None /\ home'.auth = row.token /\ home'.rev = row.rev
               /\ home'.digest = row.token
            \/ home' = None /\ handle'[h].pc = "done"
  <1>1. TasksOK /\ handle[h] \in HandleRecord BY HandleTypes DEF Types, Shape
  <1>2. CASE MaterializeCodexAuth(handle[h].exp)
    <2>1. home' = [auth |-> row.token, rev |-> row.rev, digest |-> row.token,
                   extra |-> FALSE]
      BY <1>2 DEF PrepareHome
    <2>2. row \in RowRecord BY DEF Types, Shape, FilesOK
    <2>3. home' \in HomeRecord BY <2>1, <2>2 DEF HomeRecord, RowRecord
    <2>4. home' # None /\ home'.auth = row.token /\ home'.rev = row.rev
          /\ home'.digest = row.token
      BY <2>1, <2>3, Domains
    <2>5. handle' = [handle EXCEPT ![h].pc = "spawn", ![h].digest = row.token]
      BY <1>2 DEF PrepareHome
    <2>6. /\ handle'[h].pc = "spawn" /\ handle'[h].exp = handle[h].exp
          /\ handle'[h].digest = row.token
          /\ \A g \in Handles : g # h => handle'[g] = handle[g]
      BY <1>1, <2>5 DEF TasksOK, HandleRecord
    <2> QED BY <1>2, <2>4, <2>6 DEF PrepareHome, MaterializeCodexAuth
  <1>3. CASE ~MaterializeCodexAuth(handle[h].exp)
    BY <1>1, <1>3, GotoFacts DEF PrepareHome, Pcs
  <1> QED BY <1>2, <1>3

(* Every step keeps ChildInv.                                              *)
LEMMA ChildNext ==
  ASSUME Types, LifeInv, LockInv, OneHolder, ChildInv, [Next]_vars
  PROVE  ChildInv'
  <1> USE DEF fileVars, history
  <1>t. Shape /\ FilesOK /\ TasksOK /\ RestOK BY DEF Types, Shape
  <1>0. ASSUME NEW h \in Handles, NEW p \in Pcs, Goto(h, p),
               p \in {"create", "prepare", "spawn"} => Early(h)
        PROVE  \A g \in Handles : Early(g)' => Early(g)
    BY <1>0, <1>t, GotoFacts DEF Early
  <1>e. ASSUME handle' = handle PROVE \A g \in Handles : Early(g)' => Early(g)
    BY <1>e DEF Early
  <1>1. ASSUME NEW h \in Handles, Rotate(h) PROVE ChildInv'
    <2>1. \A g \in Handles : Alive(g)' <=> Alive(g)
      BY <1>1, RotateFacts DEF Alive
    <2>2. \A g \in Handles : Alive(g)' => g = h BY <1>1, <2>1 DEF Rotate, ChildInv
    <2>3. \A g \in Handles : ~Early(g)'
      BY <1>1 DEF Rotate, ChildInv, ChildrenEnded, Early
    <2>4. \A g \in Handles : Alive(g)' => child'[g].token = home'.auth
      BY <1>1, <2>2, RotateFacts
    <2> QED BY <2>2, <2>3, <2>4 DEF ChildInv
  <1>2. ASSUME NEW h \in Handles, RotateTorn(h) PROVE ChildInv'
    <2>1. \A g \in Handles : ~Alive(g)'
      BY <1>2, <1>t, GoneAlive DEF RotateTorn, ChildInv
    <2> QED BY <2>1 DEF ChildInv, ChildrenEnded
  <1>3. ASSUME NEW h \in Handles, WritesExtraFile(h) PROVE ChildInv'
    BY <1>3, <1>e, ExtraFacts, ChildKeep DEF WritesExtraFile
  <1>4. ASSUME NEW h \in Handles, ChildGone(h) PROVE ChildInv'
    <2>1. \A g \in Handles : ~Alive(g)'
      BY <1>4, <1>t, GoneAlive DEF ChildGone, ChildInv
    <2> QED BY <2>1 DEF ChildInv, ChildrenEnded
  <1>5. ASSUME NEW h \in Handles, Acquire(h) PROVE ChildInv'
    <2>1. ChildrenEnded /\ ChildrenEnded' /\ \A g \in Handles : ~Alive(g)'
      BY <1>5 DEF Acquire, ChildrenEnded, Alive
    <2> QED BY <2>1 DEF ChildInv
  <1>6. ASSUME NEW h \in Handles, CreateLock(h) PROVE ChildInv'
    <2>1. child' = child /\ home' = home BY <1>6 DEF CreateLock
    <2>2. Early(h) BY <1>6 DEF CreateLock, Early
    <2>3. \A g \in Handles : Early(g)' => Early(g)
      BY <1>6, <1>0, <2>2 DEF CreateLock, Pcs, HoldPCs
    <2> QED BY <2>1, <2>3, ChildKeep
  <1>7. ASSUME NEW h \in Handles, ReuseHome(h) PROVE ChildInv'
    <2>1. Early(h) BY <1>7 DEF ReuseHome, Early
    <2>2. \A g \in Handles : Early(g)' => Early(g) BY <1>7, <2>1, ReuseFacts DEF Early
    <2>3. child' = child /\ ChildrenEnded BY <1>7, <2>1 DEF ReuseHome, ChildInv
    <2> QED BY <2>2, <2>3, ChildKeep
  <1>8. ASSUME NEW h \in Handles, PrepareHome(h) PROVE ChildInv'
    <2>1. Early(h) BY <1>8 DEF PrepareHome, Early
    <2>2. \A g \in Handles : Early(g)' => Early(g) BY <1>8, <2>1, PrepareFacts DEF Early
    <2>3. child' = child /\ ChildrenEnded BY <1>8, <2>1 DEF PrepareHome, ChildInv
    <2> QED BY <2>2, <2>3, ChildKeep
  <1>9. ASSUME NEW h \in Handles, Spawn(h) PROVE ChildInv'
    <2>1. handle[h].pc = "spawn" /\ Early(h) /\ Starting(h) /\ ChildrenEnded
      BY <1>9 DEF Spawn, Early, Starting, StartPCs, ChildInv
    <2>2. \A g \in Handles : Early(g) => g = h
      BY <2>1 DEF Early, Starting, StartPCs, LifeInv
    <2>3. handle'[h].pc \in {"handshake", "failed"}
          /\ \A g \in Handles : g # h => handle'[g] = handle[g]
      <3>1. Goto(h, "handshake") \/ Goto(h, "failed") BY <1>9 DEF Spawn
      <3> QED BY <3>1, <1>t, GotoFacts DEF Pcs, HoldPCs
    <2>4. \A g \in Handles : ~Early(g)' BY <2>2, <2>3 DEF Early
    <2>5. home' = home BY <1>9 DEF Spawn
    <2>6. CASE child' = child BY <2>1, <2>4, <2>6, ChildKeep
    <2>7. CASE child' = [child EXCEPT ![h] = [state |-> "running",
                           token |-> IF home = None THEN Bad ELSE home.auth]]
      <3>1. \A g \in Handles : g # h => child'[g] = child[g] BY <2>7, <1>t DEF TasksOK
      <3>2. \A g \in Handles : Alive(g)' => g = h
        BY <3>1, <2>1 DEF Alive, ChildrenEnded
      <3>3. home # None => child'[h].token = home.auth BY <2>7, <1>t DEF TasksOK
      <3> QED BY <2>4, <2>5, <3>2, <3>3 DEF ChildInv
    <2> QED BY <1>9, <2>6, <2>7 DEF Spawn
  <1>10. ASSUME NEW h \in Handles, Handshake(h) PROVE ChildInv'
    <2>1. \A g \in Handles : Early(g)' => Early(g)
      BY <1>10, <1>0 DEF Handshake, Pcs, HoldPCs
    <2>2. home' = home BY <1>10 DEF Handshake
    <2>3. \A g \in Handles : Early(g)' => ChildrenEnded BY <2>1 DEF ChildInv
    <2> QED BY <1>10, <1>t, <2>1, <2>2, <2>3, KilledAlive, ChildKeep, ChildFrame
         DEF Handshake
  <1>11. ASSUME NEW h \in Handles,
                \/ PumpVerify(h) \/ PumpTruncate(h) \/ PumpWrite(h) \/ EndRuntime(h)
         PROVE ChildInv'
    <2>1. child' = child /\ home' = home
      BY <1>11 DEF PumpVerify, PumpTruncate, PumpWrite, EndRuntime
    <2>2. Goto(h, "kill") \/ handle' = handle
      BY <1>11 DEF PumpVerify, PumpTruncate, PumpWrite, EndRuntime, PumpFails, Unregister
    <2>3. \A g \in Handles : Early(g)' => Early(g)
      BY <2>2, <1>0, <1>e DEF Pcs, HoldPCs
    <2> QED BY <2>1, <2>3, ChildKeep
  <1>12. ASSUME NEW h \in Handles, Kill(h) PROVE ChildInv'
    <2>1. \A g \in Handles : Early(g)' => Early(g)
      BY <1>12, <1>0 DEF Kill, Pcs, HoldPCs
    <2>2. home' = home /\ child' = Killed(h) BY <1>12 DEF Kill
    <2>3. \A g \in Handles : Early(g)' => ChildrenEnded BY <2>1 DEF ChildInv
    <2> QED BY <1>t, <2>1, <2>2, <2>3, KilledAlive, ChildFrame
  <1>13. ASSUME NEW h \in Handles, Observe(h) PROVE ChildInv'
    <2>1. \A g \in Handles : Early(g)' => Early(g)
      BY <1>13, <1>t, ObserveFacts DEF Early
    <2> QED BY <1>13, <2>1, ChildKeep DEF Observe
  <1>14. ASSUME NEW h \in Handles, Commit(h) PROVE ChildInv'
    <2>1. \A g \in Handles : Early(g)' => Early(g)
      BY <1>14, <1>0 DEF Commit, Pcs, HoldPCs
    <2> QED BY <1>14, <2>1, ChildKeep DEF Commit
  <1>15. ASSUME NEW h \in Handles, CommitManifest(h) PROVE ChildInv'
    <2>1. CASE home = None
      <3>1. \A g \in Handles : Early(g)' => Early(g)
        BY <1>15, <2>1, <1>0 DEF CommitManifest, Pcs, HoldPCs
      <3> QED BY <1>15, <2>1, <3>1, ChildKeep DEF CommitManifest
    <2>2. CASE home # None
      <3>1. \A g \in Handles : Early(g)' => Early(g)
        BY <1>15, <2>2, ManifestFacts DEF Early
      <3> QED BY <1>15, <2>2, <3>1, ManifestFacts, ChildKeep DEF CommitManifest
    <2> QED BY <2>1, <2>2
  <1>16. ASSUME NEW h \in Handles, Quarantine(h) \/ Release(h) PROVE ChildInv'
    <2>1. child' = child /\ (home' = home \/ home' = None)
      BY <1>16 DEF Quarantine, Release, QuarantineHome
    <2>2. \A g \in Handles : Early(g)' => Early(g)
      BY <1>16, <1>0 DEF Quarantine, Release, Pcs, HoldPCs
    <2> QED BY <2>1, <2>2, ChildKeep
  <1>17. ASSUME Crash PROVE ChildInv'
    <2>1. \A h \in Handles : handle'[h].pc \in {"unused", "done"}
      BY <1>17, <1>t DEF Crash, TasksOK, NoHandle
    <2>2. \A h \in Handles : ~Early(h)' BY <2>1 DEF Early
    <2> QED BY <1>17, <2>2, ChildKeep DEF Crash
  <1>18. ASSUME \/ LeaseExpires \/ Recover \/ Logout \/ ReplaceVaultItemEnrollmentCAS
                \/ \E b \in BOOLEAN : SetUnlocked(b)
                \/ UNCHANGED vars
         PROVE ChildInv'
    <2>1. child' = child /\ handle' = handle /\ (home' = home \/ home' = None)
      BY <1>18 DEF LeaseExpires, Recover, Logout, ReplaceVaultItemEnrollmentCAS,
                   SetUnlocked, vars, QuarantineHome
    <2> QED BY <2>1, <1>e, ChildKeep
  <1> QED
    BY <1>1, <1>2, <1>3, <1>4, <1>5, <1>6, <1>7, <1>8, <1>9, <1>10, <1>11,
       <1>12, <1>13, <1>14, <1>15, <1>16, <1>17, <1>18 DEF Next

(* A handle that has its home and has not decided what becomes of it.      *)
OnHomePCs == {"spawn", "handshake", "failed", "live", "kill", "observe", "commit",
              "manifest"}

(* The home of a handle has the revision and the digest the handle has, no *)
(* home is newer than the row, a commit has read the revision the handle   *)
(* expects, and after it the row has moved past that revision.             *)
MatchInv ==
  /\ row.rev > 0
  /\ home # None => home.rev <= row.rev
  /\ \A h \in Handles :
       /\ handle[h].pc \in {"create", "prepare"} => handle[h].exp > 0
       /\ handle[h].pc \in OnHomePCs /\ ~row.revoking =>
            /\ home # None
            /\ home.rev = handle[h].exp /\ home.digest = handle[h].digest
       /\ handle[h].pc = "commit" => handle[h].read = handle[h].exp
       /\ handle[h].pc = "manifest" => handle[h].exp + 1 <= row.rev

(* What a step may do to a handle without touching its home.               *)
KeepsMatch(h) ==
  \/ handle'[h] = handle[h]
  \/ handle'[h].pc \notin OnHomePCs \cup {"create", "prepare"}
  \/ handle'[h].pc \in {"create", "prepare"} /\ handle'[h].exp > 0
  \/ /\ handle[h].pc \in OnHomePCs
     /\ handle'[h].pc \in OnHomePCs \ {"commit", "manifest"}
     /\ handle'[h].exp = handle[h].exp /\ handle'[h].digest = handle[h].digest

(* A step that keeps the manifest and moves handles only in those ways     *)
(* keeps MatchInv, even if the row moves on.                               *)
LEMMA MatchFrame ==
  ASSUME Types, Types', MatchInv,
         row'.rev = row.rev \/ row'.rev = row.rev + 1,
         ~row'.revoking => ~row.revoking,
         \/ home' = home
         \/ /\ home # None /\ home' # None
            /\ home'.rev = home.rev /\ home'.digest = home.digest,
         \A h \in Handles : KeepsMatch(h)
  PROVE  MatchInv'
  <1>1. /\ row.rev \in Nat /\ row'.rev \in Nat
        /\ home # None => home.rev \in Nat
        /\ home' # None => home'.rev \in Nat
        /\ \A h \in Handles : handle[h].exp \in Nat /\ handle'[h].exp \in Nat
    BY DEF Types, Shape, FilesOK, TasksOK, RowRecord, HomeRecord, HandleRecord
  <1>2. row'.rev > 0 /\ row.rev <= row'.rev BY <1>1 DEF MatchInv
  <1>3. home' # None => home'.rev <= row'.rev BY <1>1, <1>2 DEF MatchInv
  <1>4. ASSUME NEW h \in Handles
        PROVE /\ handle'[h].pc \in {"create", "prepare"} => handle'[h].exp > 0
              /\ handle'[h].pc \in OnHomePCs /\ ~row'.revoking =>
                    /\ home' # None
                    /\ home'.rev = handle'[h].exp /\ home'.digest = handle'[h].digest
              /\ handle'[h].pc = "commit" => handle'[h].read = handle'[h].exp
              /\ handle'[h].pc = "manifest" => handle'[h].exp + 1 <= row'.rev
    <2>1. CASE handle'[h] = handle[h] BY <2>1, <1>1, <1>2 DEF MatchInv
    <2>2. CASE handle'[h].pc \notin OnHomePCs \cup {"create", "prepare"}
      BY <2>2 DEF OnHomePCs
    <2>3. CASE handle'[h].pc \in {"create", "prepare"} /\ handle'[h].exp > 0
      BY <2>3 DEF OnHomePCs
    <2>4. CASE /\ handle[h].pc \in OnHomePCs
               /\ handle'[h].pc \in OnHomePCs \ {"commit", "manifest"}
               /\ handle'[h].exp = handle[h].exp /\ handle'[h].digest = handle[h].digest
      BY <2>4 DEF MatchInv, OnHomePCs
    <2> QED BY <2>1, <2>2, <2>3, <2>4 DEF KeepsMatch
  <1> QED BY <1>2, <1>3, <1>4 DEF MatchInv

(* A step of the holder keeps MatchInv if it does so for the holder:       *)
(* nobody else has a home.                                                 *)
LEMMA MatchMove ==
  ASSUME Types, Types', MatchInv, OneHolder,
         row'.rev = row.rev \/ row'.rev = row.rev + 1,
         home' # None => home'.rev <= row'.rev,
         NEW h \in Handles, Holding(h),
         \A g \in Handles : g # h => handle'[g] = handle[g],
         handle'[h].pc \notin {"create", "prepare"},
         handle'[h].pc \in OnHomePCs /\ ~row'.revoking =>
           /\ home' # None
           /\ home'.rev = handle'[h].exp /\ home'.digest = handle'[h].digest,
         handle'[h].pc = "commit" => handle'[h].read = handle'[h].exp,
         handle'[h].pc = "manifest" => handle'[h].exp + 1 <= row'.rev
  PROVE  MatchInv'
  <1>1. /\ row.rev \in Nat /\ row'.rev \in Nat
    BY DEF Types, Shape, FilesOK, RowRecord
  <1>2. row'.rev > 0 BY <1>1 DEF MatchInv
  <1>3. \A g \in Handles : g # h => handle'[g].pc \notin OnHomePCs
    BY DEF OneHolder, Holding, HoldPCs, OnHomePCs
  <1>4. \A g \in Handles : g # h =>
           (handle'[g].pc \in {"create", "prepare"} => handle'[g].exp > 0)
    BY DEF MatchInv
  <1> QED BY <1>2, <1>3, <1>4 DEF MatchInv, OnHomePCs

(* Every step keeps MatchInv.                                              *)
LEMMA MatchNext ==
  ASSUME Types, LifeInv, LockInv, OneHolder, MatchInv, [Next]_vars
  PROVE  MatchInv'
  <1> USE DEF fileVars, history
  <1>t. Shape /\ FilesOK /\ TasksOK /\ RestOK BY DEF Types, Shape
  <1>u. Types' BY TypesNext
  <1>k. ASSUME handle' = handle PROVE \A g \in Handles : KeepsMatch(g)
    BY <1>k DEF KeepsMatch
  <1>j. ASSUME NEW h \in Handles, NEW p \in Pcs, Goto(h, p),
               p \notin {"create", "commit", "manifest"},
               p = "prepare" => handle[h].pc = "create",
               p \in OnHomePCs => handle[h].pc \in OnHomePCs
        PROVE  \A g \in Handles : KeepsMatch(g)
    <2>1. /\ handle'[h].pc = p
          /\ p \notin {"done", "leaked"} =>
              /\ handle'[h].exp = handle[h].exp
              /\ handle'[h].digest = handle[h].digest
          /\ \A g \in Handles : g # h => handle'[g] = handle[g]
      BY <1>j, <1>t, GotoFacts
    <2>2. CASE p = "prepare" BY <1>j, <2>1, <2>2 DEF KeepsMatch, MatchInv
    <2>3. CASE p \in OnHomePCs
      <3>1. p \notin {"done", "leaked"} BY <2>3 DEF OnHomePCs
      <3> QED BY <1>j, <2>1, <2>3, <3>1 DEF KeepsMatch
    <2>4. CASE p # "prepare" /\ p \notin OnHomePCs
      BY <1>j, <2>1, <2>4 DEF KeepsMatch
    <2> QED BY <2>2, <2>3, <2>4
  <1>1. ASSUME NEW h \in Handles,
               \/ Rotate(h) \/ RotateTorn(h) \/ WritesExtraFile(h) \/ ChildGone(h)
        PROVE MatchInv'
    <2>1. handle' = handle /\ row' = row
      BY <1>1 DEF Rotate, RotateTorn, WritesExtraFile, ChildGone
    <2>2. \/ home' = home
          \/ /\ home # None /\ home' # None
             /\ home'.rev = home.rev /\ home'.digest = home.digest
      BY <1>1, RotateFacts, TornFacts, ExtraFacts DEF ChildGone
    <2> QED BY <1>k, <1>u, <2>1, <2>2, MatchFrame
  <1>2. ASSUME NEW h \in Handles, Acquire(h) PROVE MatchInv'
    <2>1. handle'[h].exp = row.rev /\ handle'[h].pc = "create"
          /\ \A g \in Handles : g # h => handle'[g] = handle[g]
      BY <1>2, <1>t, HandleTypes DEF Acquire, TasksOK, HandleRecord
    <2>2. \A g \in Handles : KeepsMatch(g) BY <2>1 DEF KeepsMatch, MatchInv
    <2> QED BY <1>2, <1>u, <2>2, MatchFrame DEF Acquire
  <1>3. ASSUME NEW h \in Handles,
               \/ CreateLock(h) \/ Spawn(h) \/ Handshake(h) \/ EndRuntime(h) \/ Kill(h)
               \/ PumpVerify(h) \/ PumpTruncate(h) \/ PumpWrite(h)
        PROVE MatchInv'
    <2>1. row' = row /\ home' = home
      BY <1>3 DEF CreateLock, Spawn, Handshake, EndRuntime, Kill, PumpVerify,
                  PumpTruncate, PumpWrite
    <2>2. \A g \in Handles : KeepsMatch(g)
      <3>1. CASE CreateLock(h)
        BY <3>1, <1>j DEF CreateLock, Pcs, HoldPCs, OnHomePCs
      <3>2. CASE Spawn(h) BY <3>2, <1>j DEF Spawn, Pcs, HoldPCs, OnHomePCs
      <3>3. CASE Handshake(h) BY <3>3, <1>j DEF Handshake, Pcs, HoldPCs, OnHomePCs
      <3>4. CASE Unregister(h)
        BY <3>4, <1>j DEF Unregister, LifeInv, Pcs, HoldPCs, OnHomePCs
      <3>5. CASE Kill(h) BY <3>5, <1>j DEF Kill, Pcs, HoldPCs, OnHomePCs
      <3> QED BY <1>3, <1>k, <3>1, <3>2, <3>3, <3>4, <3>5
           DEF EndRuntime, PumpVerify, PumpTruncate, PumpWrite, PumpFails
    <2> QED BY <1>u, <2>1, <2>2, MatchFrame
  <1>4. ASSUME NEW h \in Handles, ReuseHome(h) PROVE MatchInv'
    <2>1. Holding(h) /\ row' = row BY <1>4 DEF ReuseHome, Holding, HoldPCs
    <2>2. handle[h].exp > 0 /\ home # None BY <1>4 DEF ReuseHome, MatchInv
    <2>3. home' = None \/ home' = home BY <1>4, ReuseFacts DEF QuarantineHome
    <2>4. home' # None => home'.rev <= row'.rev BY <2>1, <2>3 DEF MatchInv
    <2>5. handle'[h].pc = "spawn" \/ handle'[h].pc = "done" BY <1>4, ReuseFacts
    <2>6. handle'[h].pc = "spawn" =>
            /\ home' = home /\ ValidateHome(handle[h].exp)
            /\ handle'[h].exp = handle[h].exp /\ handle'[h].digest = home.digest
      BY <1>4, ReuseFacts
    <2>7. handle'[h].pc \in OnHomePCs =>
            /\ home' # None
            /\ home'.rev = handle'[h].exp /\ home'.digest = handle'[h].digest
      BY <2>2, <2>5, <2>6 DEF OnHomePCs, ValidateHome
    <2> QED BY <1>4, <1>u, <2>1, <2>4, <2>5, <2>7, ReuseFacts, MatchMove
  <1>5. ASSUME NEW h \in Handles, PrepareHome(h) PROVE MatchInv'
    <2>1. Holding(h) /\ row' = row BY <1>5 DEF PrepareHome, Holding, HoldPCs
    <2>2. row.rev \in Nat BY <1>t DEF FilesOK, RowRecord
    <2>3. home' # None => home'.rev <= row'.rev BY <1>5, <2>1, <2>2, PrepareFacts
    <2> QED BY <1>5, <1>u, <2>1, <2>3, PrepareFacts, MatchMove DEF OnHomePCs
  <1>6. ASSUME NEW h \in Handles, Observe(h) PROVE MatchInv'
    <2>1. Holding(h) /\ row' = row /\ home' = home /\ handle[h].pc \in OnHomePCs
      BY <1>6 DEF Observe, Holding, HoldPCs, OnHomePCs
    <2>2. handle'[h].pc = "commit" => handle'[h].read = handle'[h].exp
      BY <1>6, <1>t, ObserveFacts
    <2>3. home # None => home.rev <= row.rev BY DEF MatchInv
    <2>4. ~row.revoking =>
            /\ home # None
            /\ home.rev = handle[h].exp /\ home.digest = handle[h].digest
      BY <2>1 DEF MatchInv
    <2> QED BY <1>6, <1>t, <1>u, <2>1, <2>2, <2>3, <2>4, ObserveFacts, MatchMove
  <1>7. ASSUME NEW h \in Handles, Commit(h) PROVE MatchInv'
    <2>1. Holding(h) /\ handle[h].pc \in OnHomePCs /\ home' = home
      BY <1>7 DEF Commit, Holding, HoldPCs, OnHomePCs
    <2>2. row.rev \in Nat /\ (home # None => home.rev \in Nat) /\ handle[h].exp \in Nat
      BY <1>t, HandleTypes DEF FilesOK, RowRecord, HomeRecord, HandleRecord
    <2>3. CASE row' = row /\ Goto(h, "q1")
      <3>1. \A g \in Handles : KeepsMatch(g) BY <2>3, <1>j DEF Pcs, HoldPCs, OnHomePCs
      <3> QED BY <1>u, <2>1, <2>3, <3>1, MatchFrame
    <2>4. CASE row'.rev = row.rev + 1 /\ row'.revoking = row.revoking /\ Goto(h, "q1")
      <3>1. \A g \in Handles : KeepsMatch(g) BY <2>4, <1>j DEF Pcs, HoldPCs, OnHomePCs
      <3> QED BY <1>u, <2>1, <2>4, <3>1, MatchFrame
    <2>5. CASE /\ row'.rev = row.rev + 1 /\ row'.revoking = row.revoking
               /\ Goto(h, "manifest") /\ row.rev = handle[h].exp
      <3>1. /\ handle'[h].pc = "manifest" /\ handle'[h].exp = handle[h].exp
            /\ handle'[h].digest = handle[h].digest
            /\ \A g \in Handles : g # h => handle'[g] = handle[g]
        BY <2>5, <1>t, GotoFacts DEF Pcs, HoldPCs
      <3>2. handle'[h].exp + 1 <= row'.rev BY <2>2, <2>5, <3>1
      <3>3. home' # None => home'.rev <= row'.rev BY <2>1, <2>2, <2>5 DEF MatchInv
      <3>4. ~row.revoking =>
              /\ home # None
              /\ home.rev = handle[h].exp /\ home.digest = handle[h].digest
        BY <2>1 DEF MatchInv
      <3> QED BY <1>u, <2>1, <2>5, <3>1, <3>2, <3>3, <3>4, MatchMove
    <2> QED BY <1>7, <1>t, <2>3, <2>4, <2>5, CommitRow
  <1>8. ASSUME NEW h \in Handles, CommitManifest(h) PROVE MatchInv'
    <2>1. CASE home = None
      <3>1. \A g \in Handles : KeepsMatch(g)
        BY <1>8, <2>1, <1>j DEF CommitManifest, Pcs, HoldPCs, OnHomePCs
      <3> QED BY <1>8, <1>u, <2>1, <3>1, MatchFrame DEF CommitManifest
    <2>2. CASE home # None
      <3>1. Holding(h) /\ row' = row /\ handle[h].pc = "manifest"
        BY <1>8 DEF CommitManifest, Holding, HoldPCs
      <3>2. home'.rev <= row'.rev BY <1>8, <2>2, <3>1, ManifestFacts DEF MatchInv
      <3> QED BY <1>8, <1>u, <2>2, <3>1, <3>2, ManifestFacts, MatchMove DEF OnHomePCs
    <2> QED BY <2>1, <2>2
  <1>9. ASSUME NEW h \in Handles, Quarantine(h) \/ Release(h) PROVE MatchInv'
    <2>1. Holding(h) /\ row' = row BY <1>9 DEF Quarantine, Release, Holding, HoldPCs
    <2>2. home' = home \/ home' = None BY <1>9 DEF Quarantine, Release, QuarantineHome
    <2>3. home' # None => home'.rev <= row'.rev BY <2>1, <2>2 DEF MatchInv
    <2>4. \E p \in {"done", "leaked", "q2", "release"} : Goto(h, p)
      BY <1>9 DEF Quarantine, Release
    <2>5. /\ handle'[h].pc \in {"done", "leaked", "q2", "release"}
          /\ \A g \in Handles : g # h => handle'[g] = handle[g]
      <3>1. PICK p \in {"done", "leaked", "q2", "release"} : Goto(h, p) BY <2>4
      <3>2. p \in Pcs BY DEF Pcs, HoldPCs
      <3> QED BY <1>t, <3>1, <3>2, GotoFacts
    <2> QED BY <1>u, <2>1, <2>3, <2>5, MatchMove DEF OnHomePCs
  <1>10. ASSUME Crash \/ Recover PROVE MatchInv'
    <2>1. \A h \in Handles : handle'[h].pc \in {"unused", "done"}
      BY <1>10, <1>t DEF Crash, Recover, TasksOK, NoHandle, LifeInv
    <2>2. row' = row /\ (home' = home \/ home' = None)
      BY <1>10 DEF Crash, Recover, QuarantineHome
    <2> QED BY <2>1, <2>2 DEF MatchInv, OnHomePCs
  <1>11. ASSUME Logout PROVE MatchInv'
    <2>1. handle' = handle BY <1>11 DEF Logout
    <2>2. row'.rev = row.rev /\ (row.revoking => row'.revoking)
      <3>1. row \in RowRecord BY <1>t DEF FilesOK
      <3>2. \/ row' = row
            \/ row' = [row EXCEPT !.status = "revoked"]
            \/ row' = [row EXCEPT !.revoking = TRUE]
        BY <1>11 DEF Logout
      <3> QED BY <3>1, <3>2 DEF RowRecord
    <2>3. home' = home \/ (home' = None /\ row.revoking) BY <1>11 DEF Logout, LifeInv
    <2>4. CASE home' = home BY <1>k, <1>u, <2>1, <2>2, <2>4, MatchFrame
    <2>5. CASE home' = None /\ row.revoking BY <2>1, <2>2, <2>5 DEF MatchInv
    <2> QED BY <2>3, <2>4, <2>5
  <1>12. ASSUME \/ LeaseExpires \/ ReplaceVaultItemEnrollmentCAS
                \/ \E b \in BOOLEAN : SetUnlocked(b)
                \/ UNCHANGED vars
         PROVE MatchInv'
    <2>1. handle' = handle /\ home' = home
      BY <1>12 DEF LeaseExpires, ReplaceVaultItemEnrollmentCAS, SetUnlocked, vars
    <2>2. /\ row'.rev = row.rev \/ row'.rev = row.rev + 1
          /\ row'.revoking = row.revoking
      BY <1>12, <1>t, LoginFacts DEF LeaseExpires, SetUnlocked, vars
    <2> QED BY <1>k, <1>u, <2>1, <2>2, MatchFrame
  <1> QED
    BY <1>1, <1>2, <1>3, <1>4, <1>5, <1>6, <1>7, <1>8, <1>9, <1>10, <1>11, <1>12 DEF Next

(* No token is ahead of the Provider; a home whose auth.json is not its    *)
(* manifest's has spent the manifest's token; a home of the row's revision *)
(* was filled from, or committed as, the row's token and never goes back   *)
(* behind it.                                                              *)
TokenInv ==
  /\ row.token <= issued
  /\ owed # None => owed <= issued
  /\ home # None =>
       /\ home.auth <= issued /\ home.digest <= issued
       /\ home.auth = home.digest \/ home.digest \in spent
       /\ ~row.revoking /\ home.rev = row.rev =>
            home.digest = row.token /\ (home.auth = Bad \/ row.token <= home.auth)
  /\ \A h \in Handles :
       /\ handle[h].pc \in {"commit", "manifest"} => handle[h].seen <= issued
       /\ handle[h].pc = "manifest" =>
            /\ ~row.revoking /\ row.rev = handle[h].exp + 1 =>
                 /\ row.token = handle[h].seen
                 /\ home.auth = Bad \/ row.token <= home.auth
            /\ home # None => home.auth = handle[h].seen \/ handle[h].seen \in spent

(* A step that changes no token keeps TokenInv.                            *)
LEMMA TokenFrame ==
  ASSUME TokenInv, MatchInv',
         row'.rev = row.rev, row'.token = row.token, ~row'.revoking => ~row.revoking,
         issued' = issued, spent' = spent, owed' = owed,
         \/ home' = None
         \/ /\ home # None /\ home' # None /\ home'.rev = home.rev
            /\ home'.digest = home.digest /\ home'.auth = home.auth,
         \A h \in Handles : handle'[h].pc \in {"commit", "manifest"} =>
                              handle'[h] = handle[h]
  PROVE  TokenInv'
  <1>1. ASSUME NEW h \in Handles
        PROVE  /\ handle'[h].pc \in {"commit", "manifest"} => handle'[h].seen <= issued'
               /\ handle'[h].pc = "manifest" =>
                    /\ ~row'.revoking /\ row'.rev = handle'[h].exp + 1 =>
                         /\ row'.token = handle'[h].seen
                         /\ home'.auth = Bad \/ row'.token <= home'.auth
                    /\ home' # None => home'.auth = handle'[h].seen
                                       \/ handle'[h].seen \in spent'
    <2>1. handle'[h].pc = "manifest" /\ ~row'.revoking => home' # None
      BY DEF MatchInv, OnHomePCs
    <2> QED BY <2>1 DEF TokenInv
  <1> QED BY <1>1 DEF TokenInv

(* The numbers the next proofs calculate with.                             *)
LEMMA Numbers ==
  ASSUME Types
  PROVE  /\ row.rev \in Nat /\ row.token \in Tokens /\ row.token \in Nat
         /\ issued \in Nat
         /\ home # None => /\ home.rev \in Nat /\ home.auth \in Nat
                           /\ home.digest \in Tokens /\ home.digest \in Nat
                           /\ home.auth = Bad \/ home.auth \in Tokens
         /\ owed # None => owed \in Nat /\ owed \in Tokens
         /\ \A h \in Handles : handle[h].exp \in Nat /\ handle[h].seen \in Nat
                               /\ handle[h].read \in Nat
  <1>1. row.rev \in Nat /\ row.token \in Tokens /\ issued \in Tokens
    BY DEF Types, Shape, FilesOK, RestOK, RowRecord
  <1>2. home # None => /\ home.rev \in Nat /\ home.digest \in Tokens
                       /\ home.auth = Bad \/ home.auth \in Tokens
    BY DEF Types, Shape, FilesOK, HomeRecord
  <1>3. owed # None => owed \in Tokens BY DEF Types, Shape, RestOK
  <1>4. \A h \in Handles : handle[h].exp \in Nat /\ handle[h].seen \in Nat
                           /\ handle[h].read \in Nat
    BY HandleTypes DEF Types, Shape, HandleRecord
  <1>5. Tokens \subseteq Nat /\ Bad \in Nat BY Domains
  <1> QED BY <1>1, <1>2, <1>3, <1>4, <1>5

(* Every step keeps TokenInv. A commit or a login moves the revision past  *)
(* that of any home, which frees the home from agreeing with the row.      *)
LEMMA TokenNext ==
  ASSUME Types, LifeInv, LockInv, OneHolder, ChildInv, MatchInv, TokenInv, [Next]_vars
  PROVE  TokenInv'
  <1> USE DEF fileVars, history
  <1>t. Shape /\ FilesOK /\ TasksOK /\ RestOK BY DEF Types, Shape
  <1>u. Types' BY TypesNext
  <1>m. MatchInv' BY MatchNext
  <1>n. /\ row.rev \in Nat /\ row.token \in Nat /\ issued \in Nat
        /\ home # None => home.rev \in Nat /\ home.auth \in Nat /\ home.digest \in Nat
        /\ owed # None => owed \in Nat
        /\ \A h \in Handles : handle[h].exp \in Nat /\ handle[h].seen \in Nat
    BY Numbers
  <1>j. ASSUME NEW h \in Handles, NEW p \in Pcs, Goto(h, p), p \notin {"commit", "manifest"}
        PROVE  \A g \in Handles : handle'[g].pc \in {"commit", "manifest"} =>
                                    handle'[g] = handle[g]
    BY <1>j, <1>t, GotoFacts
  <1>1. ASSUME NEW h \in Handles, Rotate(h) PROVE TokenInv'
    <2>1. row' = row /\ handle' = handle /\ issued' = issued + 1
          /\ (owed' = issued + 1 \/ owed' = owed)
      BY <1>1 DEF Rotate
    <2>2. /\ home # None /\ home' # None
          /\ home'.auth = issued + 1 /\ home'.digest = home.digest /\ home'.rev = home.rev
      BY <1>1, RotateFacts
    <2>3. spent' = spent \cup {home.auth} BY <1>1 DEF Rotate, ChildInv
    <2>4. row'.token <= issued' /\ row'.token <= home'.auth /\ home'.auth <= issued'
          /\ home'.digest <= issued'
      BY <1>n, <2>1, <2>2 DEF TokenInv
    <2>5. owed' # None => owed' <= issued' BY <1>n, <2>1 DEF TokenInv
    <2>6. home'.digest \in spent' BY <2>2, <2>3 DEF TokenInv
    <2>7. \A g \in Handles : handle'[g].pc \in {"commit", "manifest"}
                               => handle'[g].seen <= issued'
      BY <1>n, <2>1 DEF TokenInv
    <2>8. \A g \in Handles : handle'[g].pc = "manifest" => handle'[g].seen \in spent'
      BY <2>1, <2>2, <2>3 DEF TokenInv
    <2>9. /\ ~row'.revoking /\ home'.rev = row'.rev => home'.digest = row'.token
          /\ \A g \in Handles : handle'[g].pc = "manifest" /\ ~row'.revoking
               /\ row'.rev = handle'[g].exp + 1 => row'.token = handle'[g].seen
      BY <2>1, <2>2 DEF TokenInv
    <2> QED BY <2>4, <2>5, <2>6, <2>7, <2>8, <2>9 DEF TokenInv
  <1>2. ASSUME NEW h \in Handles, RotateTorn(h) PROVE TokenInv'
    <2>1. row' = row /\ handle' = handle /\ issued' = issued
          /\ (owed' = None \/ owed' = owed)
      BY <1>2 DEF RotateTorn
    <2>2. /\ home # None /\ home' # None
          /\ home'.auth = Bad /\ home'.digest = home.digest /\ home'.rev = home.rev
      BY <1>2, TornFacts
    <2>3. spent' = spent \cup {home.auth} BY <1>2 DEF RotateTorn, ChildInv
    <2>4. row'.token <= issued' /\ home'.auth <= issued' /\ home'.digest <= issued'
      BY <1>n, <2>1, <2>2, Domains DEF TokenInv
    <2>5. owed' # None => owed' <= issued' BY <1>n, <2>1 DEF TokenInv
    <2>6. home'.digest \in spent' BY <2>2, <2>3 DEF TokenInv
    <2>7. \A g \in Handles : handle'[g].pc \in {"commit", "manifest"}
                               => handle'[g].seen <= issued'
      BY <2>1 DEF TokenInv
    <2>8. \A g \in Handles : handle'[g].pc = "manifest" => handle'[g].seen \in spent'
      BY <2>1, <2>2, <2>3 DEF TokenInv
    <2>9. /\ ~row'.revoking /\ home'.rev = row'.rev => home'.digest = row'.token
          /\ \A g \in Handles : handle'[g].pc = "manifest" /\ ~row'.revoking
               /\ row'.rev = handle'[g].exp + 1 => row'.token = handle'[g].seen
      BY <2>1, <2>2 DEF TokenInv
    <2> QED BY <2>2, <2>4, <2>5, <2>6, <2>7, <2>8, <2>9 DEF TokenInv
  <1>3. ASSUME NEW h \in Handles, WritesExtraFile(h) \/ ChildGone(h) PROVE TokenInv'
    <2>1. /\ row' = row /\ handle' = handle /\ issued' = issued /\ spent' = spent
          /\ owed' = owed
      BY <1>3 DEF WritesExtraFile, ChildGone
    <2>2. \/ home' = home
          \/ /\ home # None /\ home' # None /\ home'.rev = home.rev
             /\ home'.digest = home.digest /\ home'.auth = home.auth
      BY <1>3, ExtraFacts DEF ChildGone
    <2> QED BY <1>m, <2>1, <2>2, TokenFrame
  <1>4. ASSUME NEW h \in Handles, Acquire(h) PROVE TokenInv'
    <2>1. handle'[h].pc = "create" /\ \A g \in Handles : g # h => handle'[g] = handle[g]
      BY <1>4, <1>t, HandleTypes DEF Acquire, TasksOK, HandleRecord
    <2> QED BY <1>4, <1>m, <2>1, TokenFrame DEF Acquire
  <1>5. ASSUME NEW h \in Handles,
               \/ CreateLock(h) \/ Spawn(h) \/ Handshake(h) \/ EndRuntime(h) \/ Kill(h)
               \/ PumpVerify(h) \/ PumpTruncate(h) \/ PumpWrite(h)
        PROVE TokenInv'
    <2>1. row' = row /\ home' = home /\ issued' = issued /\ spent' = spent /\ owed' = owed
      BY <1>5 DEF CreateLock, Spawn, Handshake, EndRuntime, Kill, PumpVerify,
                  PumpTruncate, PumpWrite
    <2>2. \/ handle' = handle
          \/ \E p \in {"done", "prepare", "handshake", "failed", "live", "kill", "observe"} :
               Goto(h, p)
      BY <1>5 DEF CreateLock, Spawn, Handshake, EndRuntime, Kill, PumpVerify,
                  PumpTruncate, PumpWrite, PumpFails, Unregister
    <2>3. \A g \in Handles : handle'[g].pc \in {"commit", "manifest"} =>
                                    handle'[g] = handle[g]
      BY <2>2, <1>j DEF Pcs, HoldPCs
    <2> QED BY <1>m, <2>1, <2>3, TokenFrame
  <1>6. ASSUME NEW h \in Handles, ReuseHome(h) PROVE TokenInv'
    <2>1. row' = row /\ issued' = issued /\ spent' = spent /\ owed' = owed
      BY <1>6 DEF ReuseHome
    <2>2. home' = home \/ home' = None BY <1>6, ReuseFacts DEF QuarantineHome
    <2> QED BY <1>6, <1>m, <2>1, <2>2, ReuseFacts, TokenFrame
  <1>7. ASSUME NEW h \in Handles, PrepareHome(h) PROVE TokenInv'
    <2>1. row' = row /\ issued' = issued /\ spent' = spent /\ owed' = owed
      BY <1>7 DEF PrepareHome
    <2>2. CASE home' = None BY <1>7, <1>m, <2>1, <2>2, PrepareFacts, TokenFrame
    <2>3. CASE /\ home' # None /\ home'.auth = row.token /\ home'.digest = row.token
               /\ handle'[h].pc = "spawn"
      <3>1. Holding(h) BY <1>7 DEF PrepareHome, Holding, HoldPCs
      <3>2. \A g \in Handles : handle'[g].pc \notin {"commit", "manifest"}
        BY <1>7, <2>3, <3>1, PrepareFacts DEF OneHolder, Holding, HoldPCs
      <3>3. row.token <= row.token BY <1>n
      <3> QED BY <2>1, <2>3, <3>2, <3>3 DEF TokenInv
    <2> QED BY <1>7, <2>2, <2>3, PrepareFacts
  <1>8. ASSUME NEW h \in Handles, Observe(h) PROVE TokenInv'
    <2>1. /\ row' = row /\ home' = home /\ issued' = issued /\ spent' = spent
          /\ owed' = owed /\ Holding(h)
      BY <1>8 DEF Observe, Holding, HoldPCs
    <2>2. handle'[h].pc # "manifest" /\ \A g \in Handles : g # h => handle'[g] = handle[g]
      BY <1>8, <1>t, ObserveFacts
    <2>3. handle'[h].pc = "commit" => handle'[h].seen <= issued
      BY <1>8, <1>t, ObserveFacts DEF TokenInv
    <2>4. \A g \in Handles : g # h => handle'[g].pc \notin {"commit", "manifest"}
      BY <2>1, <2>2 DEF OneHolder, Holding, HoldPCs
    <2> QED BY <2>1, <2>2, <2>3, <2>4 DEF TokenInv
  <1>9. ASSUME NEW h \in Handles, Commit(h) PROVE TokenInv'
    <2>1. /\ home' = home /\ issued' = issued /\ spent' = spent /\ owed' = owed
          /\ Holding(h) /\ handle[h].pc = "commit"
      BY <1>9 DEF Commit, Holding, HoldPCs
    <2>2. CASE row' = row /\ Goto(h, "q1")
      <3>1. \A g \in Handles : handle'[g].pc \in {"commit", "manifest"} =>
                                    handle'[g] = handle[g]
        BY <2>2, <1>j DEF Pcs, HoldPCs
      <3> QED BY <1>m, <2>1, <2>2, <3>1, TokenFrame
    <2>3. CASE /\ home # None /\ row'.rev = row.rev + 1 /\ row'.token = home.auth
               /\ \/ Goto(h, "manifest") /\ home.auth = handle[h].seen
                  \/ Goto(h, "q1")
      <3>1. /\ handle'[h].pc # "commit"
            /\ handle'[h].pc = "manifest" => handle'[h].seen = home.auth
            /\ \A g \in Handles : g # h => handle'[g] = handle[g]
        BY <2>3, <1>t, GotoFacts DEF Pcs, HoldPCs
      <3>2. \A g \in Handles : handle'[g].pc \in {"commit", "manifest"} => g = h
        BY <2>1, <3>1 DEF OneHolder, Holding, HoldPCs
      <3>3. home.auth <= issued /\ home.auth <= home.auth BY <2>3, <1>n DEF TokenInv
      <3>4. home.rev # row'.rev BY <2>3, <1>n DEF MatchInv
      <3>5. /\ home.digest <= issued /\ (owed # None => owed <= issued)
            /\ home.auth = home.digest \/ home.digest \in spent
        BY <2>3 DEF TokenInv
      <3> QED BY <2>1, <2>3, <3>1, <3>2, <3>3, <3>4, <3>5 DEF TokenInv
    <2> QED BY <1>9, <1>t, <2>2, <2>3, CommitRow
  <1>10. ASSUME NEW h \in Handles, CommitManifest(h) PROVE TokenInv'
    <2>1. /\ row' = row /\ issued' = issued /\ spent' = spent /\ owed' = owed
          /\ Holding(h) /\ handle[h].pc = "manifest"
      BY <1>10 DEF CommitManifest, Holding, HoldPCs
    <2>2. CASE home = None
      <3>1. home' = home /\ Goto(h, "q1") BY <1>10, <2>2 DEF CommitManifest
      <3>2. \A g \in Handles : handle'[g].pc \in {"commit", "manifest"} =>
                                    handle'[g] = handle[g]
        BY <3>1, <1>j DEF Pcs, HoldPCs
      <3> QED BY <1>m, <2>1, <2>2, <3>1, <3>2, TokenFrame
    <2>3. CASE home # None
      <3>1. \A g \in Handles : handle'[g].pc \notin {"commit", "manifest"}
        BY <1>10, <2>1, <2>3, ManifestFacts DEF OneHolder, Holding, HoldPCs
      <3>2. /\ home' # None /\ home'.auth = home.auth /\ home'.digest = handle[h].seen
            /\ home'.rev = handle[h].exp + 1
        BY <1>10, <2>3, ManifestFacts
      <3> QED BY <2>1, <2>3, <3>1, <3>2 DEF TokenInv
    <2> QED BY <2>2, <2>3
  <1>11. ASSUME NEW h \in Handles, Quarantine(h) \/ Release(h) PROVE TokenInv'
    <2>1. /\ row' = row /\ issued' = issued /\ spent' = spent /\ owed' = owed
          /\ (home' = home \/ home' = None)
      BY <1>11 DEF Quarantine, Release, QuarantineHome
    <2>2. \E p \in {"done", "leaked", "q2", "release"} : Goto(h, p)
      BY <1>11 DEF Quarantine, Release
    <2>3. \A g \in Handles : handle'[g].pc \in {"commit", "manifest"} =>
                                    handle'[g] = handle[g]
      BY <2>2, <1>j DEF Pcs, HoldPCs
    <2> QED BY <1>m, <2>1, <2>3, TokenFrame
  <1>12. ASSUME Crash \/ Recover PROVE TokenInv'
    <2>1. \A h \in Handles : handle'[h].pc \in {"unused", "done"}
      BY <1>12, <1>t DEF Crash, Recover, TasksOK, NoHandle, LifeInv
    <2>2. /\ row' = row /\ (home' = home \/ home' = None) /\ issued' = issued
          /\ spent' = spent /\ owed' = owed
      BY <1>12 DEF Crash, Recover, QuarantineHome
    <2> QED BY <1>m, <2>1, <2>2, TokenFrame
  <1>13. ASSUME Logout PROVE TokenInv'
    <2>1. /\ handle' = handle /\ issued' = issued /\ spent' = spent /\ owed' = owed
          /\ (home' = home \/ home' = None)
      BY <1>13 DEF Logout
    <2>2. row'.rev = row.rev /\ row'.token = row.token /\ (row.revoking => row'.revoking)
      <3>1. row \in RowRecord BY <1>t DEF FilesOK
      <3>2. \/ row' = row
            \/ row' = [row EXCEPT !.status = "revoked"]
            \/ row' = [row EXCEPT !.revoking = TRUE]
        BY <1>13 DEF Logout
      <3> QED BY <3>1, <3>2 DEF RowRecord
    <2> QED BY <1>m, <2>1, <2>2, TokenFrame
  <1>14. ASSUME ReplaceVaultItemEnrollmentCAS PROVE TokenInv'
    <2>1. /\ handle' = handle /\ home' = home /\ issued' = issued + 1 /\ spent' = spent
          /\ (owed' = None \/ owed' = owed)
      BY <1>14 DEF ReplaceVaultItemEnrollmentCAS
    <2>2. row'.rev = row.rev + 1 /\ row'.token = issued + 1
      BY <1>14, <1>t, LoginFacts
    <2>3. row'.token <= issued' /\ (owed' # None => owed' <= issued')
      BY <1>n, <2>1, <2>2 DEF TokenInv
    <2>4. home # None => home.auth <= issued' /\ home.digest <= issued' /\ home.rev # row'.rev
      BY <1>n, <2>1, <2>2 DEF TokenInv, MatchInv
    <2>5. \A h \in Handles :
            /\ handle[h].pc \in {"commit", "manifest"} => handle[h].seen <= issued'
            /\ handle[h].pc = "manifest" => row'.rev # handle[h].exp + 1
      BY <1>n, <2>1, <2>2 DEF TokenInv, MatchInv
    <2> QED BY <2>1, <2>3, <2>4, <2>5 DEF TokenInv
  <1>15. ASSUME \/ LeaseExpires \/ \E b \in BOOLEAN : SetUnlocked(b)
                \/ UNCHANGED vars
         PROVE TokenInv'
    <2>1. /\ handle' = handle /\ home' = home /\ row' = row /\ issued' = issued
          /\ spent' = spent /\ owed' = owed
      BY <1>15 DEF LeaseExpires, SetUnlocked, vars
    <2> QED BY <1>m, <2>1, TokenFrame
  <1> QED
    BY <1>1, <1>2, <1>3, <1>4, <1>5, <1>6, <1>7, <1>8, <1>9, <1>10, <1>11, <1>12,
       <1>13, <1>14, <1>15 DEF Next

(* No step moves the Vault's token back: what a commit seals is in a home  *)
(* of the row's own revision.                                              *)
LEMMA ForwardNext ==
  ASSUME Types, MatchInv, TokenInv, [Next]_vars
  PROVE  row'.token >= row.token
  <1> USE DEF fileVars, history
  <1>t. FilesOK /\ RestOK BY DEF Types, Shape
  <1>n. row.token \in Nat /\ row'.token \in Nat /\ issued \in Nat /\ row.rev \in Nat
    BY Numbers, TypesNext DEF Types, Shape, FilesOK, RowRecord, Tokens
  <1>1. ASSUME NEW h \in Handles, Commit(h) PROVE row'.token >= row.token
    <2>1. handle[h].pc = "commit" /\ handle[h].read = handle[h].exp
      BY <1>1 DEF Commit, MatchInv
    <2>2. ASSUME home # None, home.auth \in Tokens, ~row.revoking,
                 row.rev = handle[h].read, row'.token = home.auth
          PROVE  row'.token >= row.token
      <3>1. home.rev = row.rev BY <2>1, <2>2 DEF MatchInv, OnHomePCs
      <3>2. row.token <= home.auth BY <2>2, <3>1, Domains DEF TokenInv
      <3> QED BY <1>n, <2>2, <3>2
    <2> QED BY <1>1, <1>t, <1>n, <2>2, CommitRow
  <1>2. ASSUME ReplaceVaultItemEnrollmentCAS PROVE row'.token >= row.token
    BY <1>2, <1>t, <1>n, LoginFacts DEF TokenInv
  <1>3. ASSUME Logout PROVE row'.token >= row.token
    <2>1. row \in RowRecord BY <1>t DEF FilesOK
    <2>2. \/ row' = row
          \/ row' = [row EXCEPT !.status = "revoked"]
          \/ row' = [row EXCEPT !.revoking = TRUE]
      BY <1>3 DEF Logout
    <2>3. row'.token = row.token BY <2>1, <2>2 DEF RowRecord
    <2> QED BY <1>n, <2>3
  <1>4. ASSUME row' = row PROVE row'.token >= row.token BY <1>4, <1>n
  <1>5. ASSUME NEW h \in Handles,
               \/ Rotate(h) \/ RotateTorn(h) \/ WritesExtraFile(h) \/ ChildGone(h)
               \/ Acquire(h) \/ CreateLock(h) \/ ReuseHome(h)
               \/ PrepareHome(h) \/ Spawn(h) \/ Handshake(h)
               \/ PumpVerify(h) \/ PumpTruncate(h) \/ PumpWrite(h)
               \/ EndRuntime(h) \/ Kill(h) \/ Observe(h)
               \/ CommitManifest(h) \/ Quarantine(h) \/ Release(h)
        PROVE row' = row
    BY <1>5 DEF Rotate, RotateTorn, WritesExtraFile, ChildGone, Acquire, CreateLock,
         ReuseHome, PrepareHome, Spawn, Handshake, PumpVerify, PumpTruncate, PumpWrite,
         EndRuntime, Kill, Observe, CommitManifest, Quarantine, Release
  <1>6. ASSUME \/ LeaseExpires \/ Crash \/ Recover \/ \E b \in BOOLEAN : SetUnlocked(b)
               \/ UNCHANGED vars
        PROVE row' = row
    BY <1>6 DEF LeaseExpires, Crash, Recover, SetUnlocked, vars
  <1> QED BY <1>1, <1>2, <1>3, <1>4, <1>5, <1>6 DEF Next

(* A start that meets a home expects the row's present revision: nobody    *)
(* commits or logs in between its read of the row and its use of it.       *)
StartRev ==
  \A h \in Handles :
    (handle[h].pc = "prepare" \/ (handle[h].pc = "create" /\ lock = None)) =>
      (home # None => row.rev = handle[h].exp)

(* A step that keeps the row's revision, makes no home and leaves no home  *)
(* without a lock keeps StartRev.                                          *)
LEMMA StartRevFrame ==
  ASSUME StartRev, row'.rev = row.rev, home' # None => home # None,
         lock' = None => lock = None \/ home' = None,
         \A h \in Handles : handle'[h].pc \in {"create", "prepare"} =>
                              handle'[h] = handle[h]
  PROVE  StartRev'
  BY DEF StartRev

(* Every step keeps StartRev.                                              *)
LEMMA StartRevNext ==
  ASSUME Types, LifeInv, LockInv, OneHolder, StartRev, [Next]_vars
  PROVE  StartRev'
  <1> USE DEF fileVars, history
  <1>t. Shape /\ FilesOK /\ TasksOK /\ RestOK BY DEF Types, Shape
  <1>j. ASSUME NEW h \in Handles, NEW p \in Pcs, Goto(h, p), p \notin {"create", "prepare"}
        PROVE  \A g \in Handles : handle'[g].pc \in {"create", "prepare"} =>
                                    handle'[g] = handle[g]
    BY <1>j, <1>t, GotoFacts
  <1>1. ASSUME NEW h \in Handles,
               \/ Rotate(h) \/ RotateTorn(h) \/ WritesExtraFile(h) \/ ChildGone(h)
        PROVE StartRev'
    BY <1>1, StartRevFrame DEF Rotate, RotateTorn, WritesExtraFile, ChildGone
  <1>2. ASSUME NEW h \in Handles, Acquire(h) PROVE StartRev'
    <2>1. handle'[h].exp = row.rev
          /\ \A g \in Handles : g # h => handle'[g] = handle[g]
      BY <1>2, <1>t, HandleTypes DEF Acquire, TasksOK, HandleRecord
    <2> QED BY <1>2, <2>1 DEF Acquire, StartRev
  <1>3. ASSUME NEW h \in Handles, CreateLock(h) PROVE StartRev'
    <2>1. row' = row /\ home' = home /\ handle[h].pc = "create" BY <1>3 DEF CreateLock
    <2>2. CASE lock # None
      <3>1. \A g \in Handles : handle'[g].pc \in {"create", "prepare"} =>
                                    handle'[g] = handle[g]
        BY <1>3, <1>j, <2>2 DEF CreateLock, Pcs, HoldPCs
      <3> QED BY <1>3, <2>1, <2>2, <3>1, StartRevFrame DEF CreateLock
    <2>3. CASE lock = None
      <3>1. /\ handle'[h].exp = handle[h].exp
            /\ \A g \in Handles : g # h => handle'[g] = handle[g]
        BY <1>3, <1>t, <2>3, GotoFacts DEF CreateLock, Pcs, HoldPCs
      <3> QED BY <2>1, <2>3, <3>1 DEF StartRev
    <2> QED BY <2>2, <2>3
  <1>4. ASSUME NEW h \in Handles, ReuseHome(h) PROVE StartRev'
    <2>1. row' = row /\ home # None BY <1>4 DEF ReuseHome
    <2>2. home' = None \/ (home' = home /\ lock' = lock)
      BY <1>4, ReuseFacts DEF QuarantineHome
    <2> QED BY <1>4, <2>1, <2>2, ReuseFacts, StartRevFrame
  <1>5. ASSUME NEW h \in Handles, PrepareHome(h) PROVE StartRev'
    <2>1. \A g \in Handles : handle'[g].pc \notin {"create", "prepare"}
      <3>1. Starting(h) BY <1>5 DEF PrepareHome, Starting, StartPCs
      <3>2. \A g \in Handles : g # h => handle[g].pc \notin {"create", "prepare"}
        BY <3>1 DEF LifeInv, Starting, StartPCs
      <3> QED BY <1>5, <3>2, PrepareFacts
    <2> QED BY <2>1 DEF StartRev
  <1>6. ASSUME NEW h \in Handles, Spawn(h) \/ Handshake(h) \/ EndRuntime(h) \/ Kill(h)
        PROVE StartRev'
    <2>1. row' = row /\ home' = home /\ lock' = lock
      BY <1>6 DEF Spawn, Handshake, EndRuntime, Kill
    <2>2. \A g \in Handles : handle'[g].pc \in {"create", "prepare"} =>
                                    handle'[g] = handle[g]
      BY <1>6, <1>j DEF Spawn, Handshake, EndRuntime, Kill, Unregister, Pcs, HoldPCs
    <2> QED BY <2>1, <2>2, StartRevFrame
  <1>7. ASSUME NEW h \in Handles, PumpVerify(h) \/ PumpTruncate(h) \/ PumpWrite(h)
        PROVE StartRev'
    <2>1. row' = row /\ home' = home
      BY <1>7 DEF PumpVerify, PumpTruncate, PumpWrite
    <2>2. \A g \in Handles : handle'[g].pc \in {"create", "prepare"} =>
                                    handle'[g] = handle[g]
      <3>1. Unregister(h) \/ handle' = handle
        BY <1>7 DEF PumpVerify, PumpTruncate, PumpWrite, PumpFails
      <3> QED BY <3>1, <1>j DEF Unregister, Pcs, HoldPCs
    <2>3. lock' = None => lock = None
      <3>1. CASE lock # None
        <4>1. lock \in LockRecord BY <1>t, <3>1 DEF FilesOK
        <4>2. \/ lock' = lock
              \/ lock' = [lock EXCEPT !.owner = None]
              \/ lock' = [lock EXCEPT !.owner = h, !.fresh = TRUE]
          BY <1>7, <3>1 DEF PumpVerify, PumpTruncate, PumpWrite
        <4>3. lock' \in LockRecord BY <4>1, <4>2 DEF LockRecord
        <4> QED BY <4>3, Domains
      <3> QED BY <3>1
    <2> QED BY <2>1, <2>2, <2>3, StartRevFrame
  <1>8. ASSUME NEW h \in Handles, Observe(h) PROVE StartRev'
    <2>1. \A g \in Handles : handle'[g].pc \in {"create", "prepare"} =>
                                    handle'[g] = handle[g]
      BY <1>8, <1>t, ObserveFacts
    <2> QED BY <1>8, <2>1, StartRevFrame DEF Observe
  <1>9. ASSUME NEW h \in Handles, Commit(h) PROVE StartRev'
    <2>1. /\ lock' = lock /\ home' = home /\ Holding(h) /\ handle[h].pc = "commit"
      BY <1>9 DEF Commit, Holding, HoldPCs
    <2>2. \A g \in Handles : handle'[g].pc \in {"create", "prepare"} =>
                                    handle'[g] = handle[g]
      BY <1>9, <1>j DEF Commit, Pcs, HoldPCs
    <2>3. \A g \in Handles : handle'[g].pc # "prepare"
      BY <2>1, <2>2 DEF OneHolder, Holding, HoldPCs
    <2>4. CASE row' = row BY <2>1, <2>2, <2>4, StartRevFrame
    <2>5. CASE ~row.revoking
      <3>1. lock # None BY <2>1, <2>5 DEF LockInv
      <3> QED BY <2>1, <2>3, <3>1 DEF StartRev
    <2> QED BY <1>9, <1>t, <2>4, <2>5, CommitRow
  <1>10. ASSUME NEW h \in Handles, CommitManifest(h) PROVE StartRev'
    <2>1. row' = row /\ lock' = lock BY <1>10 DEF CommitManifest
    <2>2. CASE home = None
      <3>1. home' = home /\ Goto(h, "q1") BY <1>10, <2>2 DEF CommitManifest
      <3>2. \A g \in Handles : handle'[g].pc \in {"create", "prepare"} =>
                                    handle'[g] = handle[g]
        BY <3>1, <1>j DEF Pcs, HoldPCs
      <3> QED BY <2>1, <3>1, <3>2, StartRevFrame
    <2>3. CASE home # None BY <1>10, <2>1, <2>3, ManifestFacts, StartRevFrame
    <2> QED BY <2>2, <2>3
  <1>11. ASSUME NEW h \in Handles, Quarantine(h) \/ Release(h) PROVE StartRev'
    <2>1. row' = row /\ (home' = None \/ (home' = home /\ lock' = lock))
      BY <1>11 DEF Quarantine, Release, QuarantineHome
    <2>2. \E p \in {"done", "leaked", "q2", "release"} : Goto(h, p)
      BY <1>11 DEF Quarantine, Release
    <2>3. \A g \in Handles : handle'[g].pc \in {"create", "prepare"} =>
                                    handle'[g] = handle[g]
      BY <2>2, <1>j DEF Pcs, HoldPCs
    <2> QED BY <2>1, <2>3, StartRevFrame
  <1>12. ASSUME Crash \/ Recover PROVE StartRev'
    <2>1. \A h \in Handles : handle'[h].pc \in {"unused", "done"}
      BY <1>12, <1>t DEF Crash, Recover, TasksOK, NoHandle, LifeInv
    <2> QED BY <2>1 DEF StartRev
  <1>13. ASSUME Logout \/ ReplaceVaultItemEnrollmentCAS PROVE StartRev'
    <2>1. starter = {} /\ handle' = handle
      BY <1>13 DEF Logout, ReplaceVaultItemEnrollmentCAS
    <2>2. \A h \in Handles : handle'[h].pc \notin {"create", "prepare"}
      BY <2>1, StarterFacts DEF Starting, StartPCs
    <2> QED BY <2>2 DEF StartRev
  <1>14. ASSUME LeaseExpires PROVE StartRev'
    <2>1. lock \in LockRecord /\ lock' = [lock EXCEPT !.fresh = FALSE]
      BY <1>14, <1>t DEF FilesOK, LeaseExpires
    <2>2. lock' # None
      <3>1. lock' \in LockRecord BY <2>1 DEF LockRecord
      <3> QED BY <3>1, Domains
    <2> QED BY <1>14, <2>2, StartRevFrame DEF LeaseExpires
  <1>15. ASSUME (\E b \in BOOLEAN : SetUnlocked(b)) \/ UNCHANGED vars PROVE StartRev'
    BY <1>15, StartRevFrame DEF SetUnlocked, vars
  <1> QED
    BY <1>1, <1>2, <1>3, <1>4, <1>5, <1>6, <1>7, <1>8, <1>9, <1>10, <1>11, <1>12,
       <1>13, <1>14, <1>15 DEF Next

(* A copy of the token t is kept, or the Provider no longer takes it.      *)
Safe(t) == t \in {row.token} \cup quarantine \cup spent

(* The lock is not usable for h and no refresh of h is under way that      *)
(* could make it so.                                                       *)
Resting(h) == ~VerifyLock(h) /\ pump[h].pc \notin {"verified", "truncated"}

(* Why h may give up its home: a start has only what the Vault has, a      *)
(* commit has sealed what it saw, and a release either loses nothing or    *)
(* will not remove the home.                                               *)
HandleSafe(h) ==
  /\ handle[h].pc \in {"spawn", "handshake", "failed"} =>
       home.auth = row.token \/ home.auth # owed
  /\ handle[h].pc = "manifest" /\ ~row.revoking =>
       /\ handle[h].seen = owed => Safe(owed)
       /\ home.auth = handle[h].seen \/ home.auth # owed
  /\ handle[h].pc = "release" /\ ~row.revoking /\ ~torn =>
       \/ home # None /\ home.auth = owed => Safe(owed)
       \/ Resting(h)

(* No rotation is lost, and neither is a token the manifest names.         *)
RotInv ==
  /\ RotationKept
  /\ ~row.revoking /\ home # None /\ home.digest = owed => Safe(owed)
  /\ \A h \in Handles : HandleSafe(h)

(* RotationKept in terms of Safe.                                          *)
LEMMA KeptFacts ==
  RotationKept <=> (owed # None /\ ~row.revoking /\ ~torn =>
                      Safe(owed) \/ (home # None /\ home.auth = owed))
  BY DEF RotationKept, Safe

(* h is at none of the points HandleSafe is about.                         *)
NoSafePc(h) ==
  handle[h].pc \notin {"spawn", "handshake", "failed", "manifest", "release"}

(* While h holds the home nobody else is at such a point.                  *)
LEMMA OthersIdle ==
  ASSUME OneHolder, NEW h \in Handles, Holding(h)
  PROVE  \A g \in Handles : g # h => NoSafePc(g)
  BY DEF OneHolder, Holding, HoldPCs, NoSafePc

(* A step that changes no token, no home and no copy keeps RotInv.         *)
LEMMA RotFrame ==
  ASSUME RotInv, row'.token = row.token, ~row'.revoking => ~row.revoking,
         owed' = owed, spent' = spent, quarantine' = quarantine, ~torn' => ~torn,
         \/ home' = home
         \/ /\ home # None /\ home' # None
            /\ home'.digest = home.digest /\ home'.auth = home.auth,
         \A h \in Handles :
           \/ NoSafePc(h)'
           \/ /\ handle[h].pc \in {"spawn", "handshake", "failed"}
              /\ handle'[h].pc \in {"spawn", "handshake", "failed"}
           \/ handle'[h] = handle[h] /\ (Resting(h) => Resting(h)')
  PROVE  RotInv'
  <1>1. RotationKept' BY KeptFacts DEF RotInv, RotationKept
  <1>2. ~row'.revoking /\ home' # None /\ home'.digest = owed' => Safe(owed)'
    BY DEF RotInv, Safe
  <1>3. ASSUME NEW h \in Handles PROVE HandleSafe(h)'
    <2>1. HandleSafe(h) BY DEF RotInv
    <2>2. CASE NoSafePc(h)' BY <2>2 DEF NoSafePc, HandleSafe
    <2>3. CASE /\ handle[h].pc \in {"spawn", "handshake", "failed"}
               /\ handle'[h].pc \in {"spawn", "handshake", "failed"}
      BY <2>1, <2>3 DEF HandleSafe
    <2>4. CASE handle'[h] = handle[h] /\ (Resting(h) => Resting(h)')
      BY <2>1, <2>4 DEF HandleSafe, Safe
    <2> QED BY <2>2, <2>3, <2>4
  <1> QED BY <1>1, <1>2, <1>3 DEF RotInv

(* A home may go if what it held is safe.                                  *)
LEMMA RotGone ==
  ASSUME home' = None, \A h \in Handles : NoSafePc(h)',
         owed' # None /\ ~row'.revoking /\ ~torn' => Safe(owed)'
  PROVE  RotInv'
  <1>1. RotationKept' BY DEF RotationKept, Safe
  <1>2. \A h \in Handles : HandleSafe(h)' BY DEF NoSafePc, HandleSafe
  <1> QED BY <1>1, <1>2 DEF RotInv

(* Quarantine makes the token of the home safe.                            *)
LEMMA SafeQuarantine ==
  ASSUME RotInv, QuarantineHome, owed' = owed, row' = row, spent' = spent,
         ~torn' => ~torn
  PROVE  owed' # None /\ ~row'.revoking /\ ~torn' => Safe(owed)'
  BY KeptFacts DEF RotInv, QuarantineHome, Safe

(* Every step keeps RotInv.                                                *)
LEMMA RotNext ==
  ASSUME Types, LifeInv, LockInv, OneHolder, ChildInv, MatchInv, TokenInv, StartRev,
         RotInv, [Next]_vars
  PROVE  RotInv'
  <1> USE DEF fileVars, history
  <1>t. Shape /\ FilesOK /\ TasksOK /\ RestOK BY DEF Types, Shape
  <1>n. /\ issued \in Nat /\ row.token \in Nat /\ row.rev \in Nat
        /\ home # None => home.auth \in Nat /\ home.digest \in Nat
        /\ owed # None => owed \in Nat /\ owed \in Tokens
        /\ \A h \in Handles : handle[h].seen \in Nat
    BY Numbers
  <1>r. ASSUME NEW g \in Handles, lock' = lock, pump' = pump PROVE Resting(g) => Resting(g)'
    BY <1>r DEF Resting, VerifyLock
  <1>h. ASSUME NEW h \in Handles, Holding(h),
               \A g \in Handles : g # h => handle'[g] = handle[g]
        PROVE  \A g \in Handles : g # h => NoSafePc(g)'
    BY <1>h, OthersIdle DEF NoSafePc
  <1>1. ASSUME NEW h \in Handles, Rotate(h) PROVE RotInv'
    <2>1. /\ row' = row /\ handle' = handle /\ quarantine' = quarantine
          /\ torn' = torn /\ lock' = lock /\ pump' = pump
          /\ owed' = IF registered = h THEN issued + 1 ELSE owed
      BY <1>1 DEF Rotate
    <2>2. /\ home # None /\ home' # None
          /\ home'.auth = issued + 1 /\ home'.digest = home.digest
      BY <1>1, RotateFacts
    <2>3. spent' = spent \cup {home.auth} BY <1>1 DEF Rotate, ChildInv
    <2>4. Safe(owed) => Safe(owed)' \/ owed' # owed BY <2>1, <2>3 DEF Safe
    <2>5. RotationKept'
      <3>1. CASE owed' = issued + 1 BY <2>2, <3>1 DEF RotationKept
      <3>2. CASE owed' = owed
        BY <2>1, <2>3, <3>2, KeptFacts DEF RotInv, Safe, RotationKept
      <3> QED BY <2>1, <3>1, <3>2
    <2>6. ~row'.revoking /\ home' # None /\ home'.digest = owed' => Safe(owed)'
      <3>1. CASE owed' = issued + 1
        <4>1. home'.digest # issued + 1 BY <1>n, <2>2 DEF TokenInv
        <4> QED BY <3>1, <4>1
      <3>2. CASE owed' = owed BY <2>1, <2>2, <2>4, <3>2 DEF RotInv
      <3> QED BY <2>1, <3>1, <3>2
    <2>7. ASSUME NEW g \in Handles PROVE HandleSafe(g)'
      <3>1. CASE NoSafePc(g) BY <2>1, <3>1 DEF NoSafePc, HandleSafe
      <3>2. CASE ~NoSafePc(g)
        <4>1. registered # h
          <5>1. SUFFICES ASSUME registered = h PROVE FALSE OBVIOUS
          <5>2. handle[h].pc = "live" BY <5>1 DEF LifeInv
          <5>3. Holding(h) /\ NoSafePc(h) BY <5>2 DEF Holding, HoldPCs, NoSafePc
          <5> QED BY <3>2, <5>3, OthersIdle
        <4>2. owed' = owed /\ home'.auth # owed
          <5>1. owed' = owed BY <2>1, <4>1
          <5>2. CASE owed = None BY <1>n, <2>2, <5>1, <5>2, BoundsAssumption
          <5>3. CASE owed # None BY <1>n, <2>2, <5>1, <5>3 DEF TokenInv
          <5> QED BY <5>2, <5>3, <5>1
        <4>3. HandleSafe(g) BY DEF RotInv
        <4> QED BY <2>1, <2>4, <4>2, <4>3 DEF HandleSafe
      <3> QED BY <3>1, <3>2
    <2> QED BY <2>5, <2>6, <2>7 DEF RotInv
  <1>2. ASSUME NEW h \in Handles, RotateTorn(h) PROVE RotInv'
    <2>1. /\ row' = row /\ handle' = handle /\ quarantine' = quarantine
          /\ torn' = torn /\ lock' = lock /\ pump' = pump
      BY <1>2 DEF RotateTorn
    <2>2. /\ home # None /\ home' # None
          /\ home'.auth = Bad /\ home'.digest = home.digest
      BY <1>2, TornFacts
    <2>3. /\ spent' = spent \cup {home.auth}
          /\ owed' = IF owed = home.auth THEN None ELSE owed
      BY <1>2 DEF RotateTorn, ChildInv
    <2>4. home'.auth # owed' BY <1>n, <2>2, <2>3, Domains, BoundsAssumption
    <2>5. CASE owed' = None
      <3>1. RotationKept' BY <2>5 DEF RotationKept
      <3>2. home'.digest # owed' BY <1>n, <2>2, <2>5, BoundsAssumption
      <3>3. ASSUME NEW g \in Handles PROVE HandleSafe(g)'
        <4>1. handle'[g].seen # owed' BY <1>n, <2>1, <2>5, BoundsAssumption
        <4> QED BY <2>4, <4>1 DEF HandleSafe
      <3> QED BY <3>1, <3>2, <3>3 DEF RotInv
    <2>6. CASE owed' = owed /\ owed # home.auth
      <3>1. Safe(owed) => Safe(owed)' BY <2>1, <2>3, <2>6 DEF Safe
      <3>2. RotationKept'
        BY <2>1, <2>3, <2>6, KeptFacts DEF RotInv, Safe, RotationKept
      <3>3. ASSUME NEW g \in Handles PROVE HandleSafe(g)'
        <4>1. HandleSafe(g) BY DEF RotInv
        <4> QED BY <2>1, <2>4, <2>6, <3>1, <4>1 DEF HandleSafe
      <3>4. ~row'.revoking /\ home' # None /\ home'.digest = owed' => Safe(owed)'
        BY <2>1, <2>2, <2>6, <3>1 DEF RotInv
      <3> QED BY <3>2, <3>3, <3>4 DEF RotInv
    <2> QED BY <2>3, <2>5, <2>6
  <1>3. ASSUME NEW h \in Handles, WritesExtraFile(h) \/ ChildGone(h) PROVE RotInv'
    <2>1. /\ row' = row /\ handle' = handle /\ spent' = spent /\ torn' = torn
          /\ owed' = owed /\ quarantine' = quarantine /\ lock' = lock /\ pump' = pump
      BY <1>3 DEF WritesExtraFile, ChildGone
    <2>2. \/ home' = home
          \/ /\ home # None /\ home' # None
             /\ home'.digest = home.digest /\ home'.auth = home.auth
      BY <1>3, ExtraFacts DEF ChildGone
    <2> QED BY <1>r, <2>1, <2>2, RotFrame
  <1>4. ASSUME NEW h \in Handles, Acquire(h) PROVE RotInv'
    <2>1. handle'[h].pc = "create" /\ \A g \in Handles : g # h => handle'[g] = handle[g]
      BY <1>4, <1>t, HandleTypes DEF Acquire, TasksOK, HandleRecord
    <2>2. NoSafePc(h)' BY <2>1 DEF NoSafePc
    <2>3. /\ row' = row /\ home' = home /\ spent' = spent /\ torn' = torn
          /\ owed' = owed /\ quarantine' = quarantine /\ lock' = lock /\ pump' = pump
      BY <1>4 DEF Acquire
    <2> QED BY <1>r, <2>1, <2>2, <2>3, RotFrame
  <1>5. ASSUME NEW h \in Handles, CreateLock(h) PROVE RotInv'
    <2>1. /\ handle'[h].pc \in {"done", "prepare"} /\ handle[h].pc = "create"
          /\ \A g \in Handles : g # h => handle'[g] = handle[g]
      <3>1. Goto(h, "done") \/ Goto(h, "prepare") BY <1>5 DEF CreateLock
      <3> QED BY <1>5, <1>t, <3>1, GotoFacts DEF CreateLock, Pcs, HoldPCs
    <2>2. NoSafePc(h)' BY <2>1 DEF NoSafePc
    <2>3. /\ row' = row /\ home' = home /\ spent' = spent /\ torn' = torn
          /\ owed' = owed /\ quarantine' = quarantine /\ pump' = pump
          /\ lock' = lock \/ lock' = [ino |-> h, owner |-> h, fresh |-> TRUE]
      BY <1>5 DEF CreateLock
    <2>4. \A g \in Handles : g # h => (Resting(g) => Resting(g)')
      BY <2>3 DEF Resting, VerifyLock
    <2> QED BY <2>1, <2>2, <2>3, <2>4, RotFrame
  <1>6. ASSUME NEW h \in Handles, ReuseHome(h) PROVE RotInv'
    <2>1. /\ row' = row /\ spent' = spent /\ torn' = torn /\ owed' = owed
          /\ Holding(h) /\ handle[h].pc = "prepare" /\ home # None
      BY <1>6 DEF ReuseHome, Holding, HoldPCs
    <2>2. \A g \in Handles : g # h => NoSafePc(g)' BY <1>6, <1>h, <2>1, ReuseFacts
    <2>3. CASE QuarantineHome /\ handle'[h].pc = "done"
      <3>1. NoSafePc(h)' BY <2>3 DEF NoSafePc
      <3> QED BY <2>1, <2>2, <2>3, <3>1, SafeQuarantine, RotGone DEF QuarantineHome
    <2>4. CASE /\ ValidateHome(handle[h].exp) /\ handle'[h].pc = "spawn"
               /\ home' = home /\ quarantine' = quarantine
      <3>1. ~row.revoking /\ handle[h].exp > 0 /\ row.rev = handle[h].exp
        BY <2>1 DEF LifeInv, Starting, StartPCs, MatchInv, StartRev
      <3>2. home.auth = row.token BY <2>1, <2>4, <3>1 DEF ValidateHome, TokenInv
      <3>3. HandleSafe(h)' BY <2>1, <2>4, <3>2 DEF HandleSafe
      <3>4. \A g \in Handles : g # h => HandleSafe(g)'
        BY <2>2 DEF NoSafePc, HandleSafe
      <3>5. Safe(owed)' <=> Safe(owed) BY <2>1, <2>4 DEF Safe
      <3>6. RotationKept' BY <2>1, <2>4 DEF RotInv, RotationKept
      <3> QED BY <2>1, <2>4, <3>3, <3>4, <3>5, <3>6 DEF RotInv
    <2> QED BY <1>6, <2>3, <2>4, ReuseFacts
  <1>7. ASSUME NEW h \in Handles, PrepareHome(h) PROVE RotInv'
    <2>1. /\ row' = row /\ spent' = spent /\ torn' = torn /\ owed' = owed
          /\ quarantine' = quarantine
          /\ Holding(h) /\ handle[h].pc = "prepare" /\ home = None
      BY <1>7 DEF PrepareHome, Holding, HoldPCs
    <2>2. \A g \in Handles : g # h => NoSafePc(g)' BY <1>7, <1>h, <2>1, PrepareFacts
    <2>3. owed' # None /\ ~row'.revoking /\ ~torn' => Safe(owed)'
      BY <2>1, KeptFacts DEF RotInv, Safe
    <2>4. CASE home' = None /\ handle'[h].pc = "done"
      <3>1. NoSafePc(h)' BY <2>4 DEF NoSafePc
      <3> QED BY <2>2, <2>3, <2>4, <3>1, RotGone
    <2>5. CASE /\ home' # None /\ home'.auth = row.token /\ home'.digest = row.token
               /\ handle'[h].pc = "spawn"
      <3>1. HandleSafe(h)' BY <2>1, <2>5 DEF HandleSafe
      <3>2. \A g \in Handles : g # h => HandleSafe(g)'
        BY <2>2 DEF NoSafePc, HandleSafe
      <3>3. RotationKept' BY <2>3 DEF RotationKept, Safe
      <3>4. home'.digest = owed' => Safe(owed)' BY <2>1, <2>5 DEF Safe
      <3> QED BY <3>1, <3>2, <3>3, <3>4 DEF RotInv
    <2> QED BY <1>7, <2>4, <2>5, PrepareFacts
  <1>8. ASSUME NEW h \in Handles, Spawn(h) \/ Handshake(h) PROVE RotInv'
    <2>1. /\ row' = row /\ home' = home /\ spent' = spent /\ torn' = torn
          /\ owed' = owed /\ quarantine' = quarantine /\ Holding(h)
          /\ handle[h].pc \in {"spawn", "handshake", "failed"}
      BY <1>8 DEF Spawn, Handshake, Holding, HoldPCs
    <2>2. /\ handle'[h].pc \in {"handshake", "failed", "live"}
          /\ \A g \in Handles : g # h => handle'[g] = handle[g]
      <3>1. Goto(h, "handshake") \/ Goto(h, "failed") \/ Goto(h, "live")
        BY <1>8 DEF Spawn, Handshake
      <3> QED BY <1>t, <3>1, GotoFacts DEF Pcs, HoldPCs
    <2>3. \A g \in Handles : g # h => NoSafePc(g)' BY <1>h, <2>1, <2>2
    <2>4. NoSafePc(h)' \/ handle'[h].pc \in {"spawn", "handshake", "failed"}
      BY <2>2 DEF NoSafePc
    <2> QED BY <2>1, <2>3, <2>4, RotFrame
  <1>9. ASSUME NEW h \in Handles,
               \/ EndRuntime(h) \/ PumpVerify(h) \/ PumpTruncate(h) \/ PumpWrite(h)
        PROVE RotInv'
    <2>1. /\ row' = row /\ home' = home /\ spent' = spent /\ torn' = torn
          /\ owed' = owed /\ quarantine' = quarantine
      BY <1>9 DEF EndRuntime, PumpVerify, PumpTruncate, PumpWrite
    <2>2. CASE Unregister(h)
      <3>1. handle[h].pc = "live" /\ Holding(h)
        BY <2>2 DEF Unregister, LifeInv, Holding, HoldPCs
      <3>2. /\ handle'[h].pc = "kill"
            /\ \A g \in Handles : g # h => handle'[g] = handle[g]
        BY <2>2, <1>t, GotoFacts DEF Unregister, Pcs, HoldPCs
      <3>3. \A g \in Handles : NoSafePc(g)' BY <3>1, <3>2, <1>h DEF NoSafePc
      <3> QED BY <2>1, <3>3, RotFrame
    <2>3. CASE handle' = handle
      <3>1. ASSUME NEW g \in Handles
            PROVE  NoSafePc(g)' \/ (Resting(g) => Resting(g)')
        <4>1. CASE g = h
          <5>1. CASE PumpVerify(h)
            <6>1. handle[h].pc = "live" BY <5>1 DEF PumpVerify, LifeInv
            <6> QED BY <4>1, <2>3, <6>1 DEF NoSafePc
          <5>2. CASE PumpTruncate(h) \/ PumpWrite(h)
            BY <4>1, <5>2 DEF PumpTruncate, PumpWrite, Resting
          <5>3. CASE EndRuntime(h)
            <6>1. handle[h].pc = "live" BY <5>3 DEF EndRuntime, Unregister, LifeInv
            <6> QED BY <4>1, <2>3, <6>1 DEF NoSafePc
          <5> QED BY <1>9, <5>1, <5>2, <5>3
        <4>2. CASE g # h
          <5>1. pump'[g] = pump[g]
            BY <1>9, <1>t, <4>2 DEF EndRuntime, PumpVerify, PumpTruncate, PumpWrite,
                                    PumpFails, TasksOK
          <5>2. VerifyLock(g)' => VerifyLock(g)
            <6>1. CASE lock = None
              BY <1>9, <6>1 DEF EndRuntime, PumpVerify, PumpTruncate, PumpWrite, VerifyLock
            <6>2. CASE lock # None
              <7>1. lock \in LockRecord BY <1>t, <6>2 DEF FilesOK
              <7>2. \/ lock' = lock
                    \/ lock' = [lock EXCEPT !.owner = None]
                    \/ lock' = [lock EXCEPT !.owner = h, !.fresh = TRUE]
                BY <1>9, <6>2 DEF EndRuntime, PumpVerify, PumpTruncate, PumpWrite
              <7>3. lock' = lock \/ lock'.owner \in {None, h}
                BY <7>1, <7>2 DEF LockRecord
              <7>4. g # None BY Domains
              <7> QED BY <4>2, <7>3, <7>4 DEF VerifyLock
            <6> QED BY <6>1, <6>2
          <5> QED BY <5>1, <5>2 DEF Resting
        <4> QED BY <4>1, <4>2
      <3> QED BY <2>1, <2>3, <3>1, RotFrame
    <2> QED BY <1>9, <2>2, <2>3
         DEF EndRuntime, PumpVerify, PumpTruncate, PumpWrite, PumpFails
  <1>10. ASSUME NEW h \in Handles, Kill(h) PROVE RotInv'
    <2>1. /\ row' = row /\ home' = home /\ spent' = spent /\ torn' = torn
          /\ owed' = owed /\ quarantine' = quarantine /\ Holding(h)
      BY <1>10 DEF Kill, Holding, HoldPCs
    <2>2. /\ handle'[h].pc = "observe"
          /\ \A g \in Handles : g # h => handle'[g] = handle[g]
      BY <1>10, <1>t, GotoFacts DEF Kill, Pcs, HoldPCs
    <2>3. \A g \in Handles : NoSafePc(g)' BY <2>1, <2>2, <1>h DEF NoSafePc
    <2> QED BY <2>1, <2>3, RotFrame
  <1>11. ASSUME NEW h \in Handles, Observe(h) PROVE RotInv'
    <2>1. /\ row' = row /\ home' = home /\ spent' = spent /\ (torn => torn')
          /\ owed' = owed /\ quarantine' = quarantine /\ Holding(h)
          /\ handle[h].pc = "observe"
      BY <1>11 DEF Observe, Torn, Holding, HoldPCs
    <2>2. \A g \in Handles : g # h => NoSafePc(g)' BY <1>11, <1>t, <1>h, <2>1, ObserveFacts
    <2>3. Safe(owed)' <=> Safe(owed) BY <2>1 DEF Safe
    <2>4. HandleSafe(h)'
      <3>1. CASE handle'[h].pc = "release" /\ ~row.revoking
        <4>1. home # None /\ home.auth = home.digest
          BY <1>11, <1>t, <2>1, <3>1, ObserveFacts DEF MatchInv, OnHomePCs
        <4>2. home'.auth = owed' => Safe(owed)' BY <2>1, <2>3, <3>1, <4>1 DEF RotInv
        <4> QED BY <3>1, <4>2 DEF HandleSafe
      <3>2. CASE handle'[h].pc \in {"q1", "q2", "commit"} BY <3>2 DEF HandleSafe
      <3>3. CASE handle'[h].pc = "release" /\ row.revoking BY <2>1, <3>3 DEF HandleSafe
      <3> QED BY <1>11, <1>t, <3>1, <3>2, <3>3, ObserveFacts
    <2>5. \A g \in Handles : g # h => HandleSafe(g)' BY <2>2 DEF NoSafePc, HandleSafe
    <2>6. RotationKept' BY <2>1 DEF RotInv, RotationKept
    <2> QED BY <2>1, <2>3, <2>4, <2>5, <2>6 DEF RotInv
  <1>12. ASSUME NEW h \in Handles, Commit(h) PROVE RotInv'
    <2>1. /\ home' = home /\ spent' = spent /\ torn' = torn
          /\ owed' = owed /\ quarantine' = quarantine /\ Holding(h)
          /\ handle[h].pc = "commit" /\ lock' = lock /\ pump' = pump
      BY <1>12 DEF Commit, Holding, HoldPCs
    <2>g. \A p \in {"q1", "manifest"} : Goto(h, p) =>
            /\ handle'[h].pc = p /\ handle'[h].seen = handle[h].seen
            /\ \A g \in Handles : g # h => handle'[g] = handle[g]
      <3>1. {"q1", "manifest"} \subseteq Pcs BY DEF Pcs, HoldPCs
      <3> QED BY <1>t, <3>1, GotoFacts
    <2>2. CASE row' = row /\ Goto(h, "q1")
      <3>1. \A g \in Handles : NoSafePc(g)' BY <2>1, <2>2, <2>g, <1>h DEF NoSafePc
      <3> QED BY <2>1, <2>2, <3>1, RotFrame
    <2>3. CASE /\ home # None /\ ~row.revoking /\ row.rev = handle[h].read
               /\ row'.token = home.auth /\ row'.revoking = row.revoking
               /\ \/ Goto(h, "manifest") /\ home.auth = handle[h].seen
                  \/ Goto(h, "q1")
      <3>1. home.rev = row.rev BY <2>1, <2>3 DEF MatchInv, OnHomePCs
      <3>2. home.digest = row.token /\ (home.auth = home.digest \/ home.digest \in spent)
        BY <2>3, <3>1 DEF TokenInv
      <3>3. Safe(owed) => Safe(owed)' BY <2>1, <2>3, <3>2 DEF Safe
      <3>4. home.auth = owed => Safe(owed)' BY <2>1, <2>3 DEF Safe
      <3>5. RotationKept'
        <4>1. owed' # None /\ ~row'.revoking /\ ~torn' => Safe(owed)'
          BY <2>1, <2>3, <3>3, <3>4, KeptFacts DEF RotInv
        <4> QED BY <4>1 DEF RotationKept, Safe
      <3>6. home'.digest = owed' => Safe(owed)' BY <2>1, <2>3, <3>3 DEF RotInv
      <3>7. HandleSafe(h)'
        <4>1. CASE Goto(h, "manifest") /\ home.auth = handle[h].seen
          BY <4>1, <2>1, <2>g, <3>4 DEF HandleSafe
        <4>2. CASE Goto(h, "q1") BY <4>2, <2>g DEF HandleSafe
        <4> QED BY <2>3, <4>1, <4>2
      <3>8. \A g \in Handles : g # h => HandleSafe(g)'
        <4>1. \A g \in Handles : g # h => NoSafePc(g)' BY <1>h, <2>1, <2>3, <2>g
        <4> QED BY <4>1 DEF NoSafePc, HandleSafe
      <3> QED BY <3>5, <3>6, <3>7, <3>8 DEF RotInv
    <2> QED BY <1>12, <1>t, <2>2, <2>3, CommitRow
  <1>13. ASSUME NEW h \in Handles, CommitManifest(h) PROVE RotInv'
    <2>1. /\ row' = row /\ spent' = spent /\ torn' = torn
          /\ owed' = owed /\ quarantine' = quarantine /\ Holding(h)
          /\ handle[h].pc = "manifest"
      BY <1>13 DEF CommitManifest, Holding, HoldPCs
    <2>2. CASE home = None
      <3>1. home' = home /\ Goto(h, "q1") BY <1>13, <2>2 DEF CommitManifest
      <3>2. /\ handle'[h].pc = "q1"
            /\ \A g \in Handles : g # h => handle'[g] = handle[g]
        BY <1>t, <3>1, GotoFacts DEF Pcs, HoldPCs
      <3>3. \A g \in Handles : NoSafePc(g)' BY <2>1, <3>2, <1>h DEF NoSafePc
      <3> QED BY <2>1, <3>1, <3>3, RotFrame
    <2>3. CASE home # None
      <3>1. /\ handle'[h].pc = "release" /\ home' # None /\ home'.auth = home.auth
            /\ home'.digest = handle[h].seen
            /\ \A g \in Handles : g # h => handle'[g] = handle[g]
        BY <1>13, <2>3, ManifestFacts
      <3>2. Safe(owed)' <=> Safe(owed) BY <2>1 DEF Safe
      <3>3. HandleSafe(h) BY DEF RotInv
      <3>4. ~row.revoking => /\ handle[h].seen = owed => Safe(owed)
                             /\ home.auth = owed => Safe(owed)
        BY <2>1, <3>3 DEF HandleSafe
      <3>5. RotationKept' BY <2>1, <2>3, <3>1 DEF RotInv, RotationKept
      <3>6. ~row'.revoking /\ home'.digest = owed' => Safe(owed)'
        BY <2>1, <3>1, <3>2, <3>4
      <3>7. HandleSafe(h)' BY <2>1, <3>1, <3>2, <3>4 DEF HandleSafe
      <3>8. \A g \in Handles : g # h => HandleSafe(g)'
        <4>1. \A g \in Handles : g # h => NoSafePc(g)' BY <1>h, <2>1, <3>1
        <4> QED BY <4>1 DEF NoSafePc, HandleSafe
      <3> QED BY <3>5, <3>6, <3>7, <3>8 DEF RotInv
    <2> QED BY <2>2, <2>3
  <1>14. ASSUME NEW h \in Handles, Quarantine(h) PROVE RotInv'
    <2>1. /\ row' = row /\ spent' = spent /\ (torn => torn') /\ owed' = owed
          /\ Holding(h) /\ pump' = pump
      BY <1>14 DEF Quarantine, Torn, Holding, HoldPCs
    <2>2. CASE QuarantineHome /\ Goto(h, "done")
      <3>1. /\ handle'[h].pc = "done"
            /\ \A g \in Handles : g # h => handle'[g] = handle[g]
        BY <1>t, <2>2, GotoFacts DEF Pcs, HoldPCs
      <3>2. \A g \in Handles : NoSafePc(g)' BY <2>1, <3>1, <1>h DEF NoSafePc
      <3> QED BY <2>1, <2>2, <3>2, SafeQuarantine, RotGone DEF QuarantineHome
    <2>3. CASE ~VerifyLock(h) /\ UNCHANGED fileVars
               /\ (Goto(h, "q2") \/ Goto(h, "release"))
      <3>1. /\ handle'[h].pc \in {"q2", "release"}
            /\ \A g \in Handles : g # h => handle'[g] = handle[g]
        BY <1>t, <2>3, GotoFacts DEF Pcs, HoldPCs
      <3>2. \A g \in Handles : g # h => HandleSafe(g)'
        <4>1. \A g \in Handles : g # h => NoSafePc(g)' BY <1>h, <2>1, <3>1
        <4> QED BY <4>1 DEF NoSafePc, HandleSafe
      <3>3. ~torn' => Resting(h)'
        BY <1>14, <2>1, <2>3 DEF Quarantine, Torn, Resting, VerifyLock
      <3>4. HandleSafe(h)' BY <3>1, <3>3 DEF HandleSafe
      <3>5. Safe(owed)' <=> Safe(owed) BY <2>1, <2>3 DEF Safe
      <3>6. RotationKept' BY <2>1, <2>3 DEF RotInv, RotationKept
      <3> QED BY <2>1, <2>3, <3>2, <3>4, <3>5, <3>6 DEF RotInv
    <2> QED BY <1>14, <2>2, <2>3 DEF Quarantine
  <1>15. ASSUME NEW h \in Handles, Release(h) PROVE RotInv'
    <2>1. /\ row' = row /\ spent' = spent /\ torn' = torn /\ owed' = owed
          /\ quarantine' = quarantine
          /\ Holding(h) /\ handle[h].pc \in {"failed", "release"}
      BY <1>15 DEF Release, Holding, HoldPCs
    <2>2. /\ handle'[h].pc \in {"done", "leaked"}
          /\ \A g \in Handles : g # h => handle'[g] = handle[g]
      <3>1. Goto(h, "done") \/ Goto(h, "leaked") BY <1>15 DEF Release
      <3> QED BY <1>t, <3>1, GotoFacts DEF Pcs, HoldPCs
    <2>3. \A g \in Handles : NoSafePc(g)' BY <2>1, <2>2, <1>h DEF NoSafePc
    <2>4. CASE home' = home BY <2>1, <2>3, <2>4, RotFrame
    <2>5. CASE VerifyLock(h) /\ home' = None
      <3>1. HandleSafe(h) BY DEF RotInv
      <3>2. ~row.revoking /\ ~torn /\ home # None /\ home.auth = owed => Safe(owed)
        BY <2>1, <2>5, <3>1 DEF HandleSafe, Resting, Safe
      <3>3. owed' # None /\ ~row'.revoking /\ ~torn' => Safe(owed)'
        BY <2>1, <3>2, KeptFacts DEF RotInv, Safe
      <3> QED BY <2>3, <2>5, <3>3, RotGone
    <2> QED BY <1>15, <2>4, <2>5 DEF Release
  <1>16. ASSUME Crash \/ Recover PROVE RotInv'
    <2>1. \A h \in Handles : handle'[h].pc \in {"unused", "done"}
      BY <1>16, <1>t DEF Crash, Recover, TasksOK, NoHandle, LifeInv
    <2>2. \A h \in Handles : NoSafePc(h)' BY <2>1 DEF NoSafePc
    <2>3. row' = row /\ spent' = spent /\ owed' = owed /\ torn' = torn
      BY <1>16 DEF Crash, Recover
    <2>4. CASE home' = home /\ quarantine' = quarantine BY <2>2, <2>3, <2>4, RotFrame
    <2>5. CASE QuarantineHome
      BY <2>2, <2>3, <2>5, SafeQuarantine, RotGone DEF QuarantineHome
    <2> QED BY <1>16, <2>4, <2>5 DEF Crash, Recover
  <1>17. ASSUME LeaseExpires PROVE RotInv'
    <2>1. lock \in LockRecord /\ lock' = [lock EXCEPT !.fresh = FALSE]
      BY <1>17, <1>t DEF FilesOK, LeaseExpires
    <2>2. ~lock'.fresh BY <2>1 DEF LockRecord
    <2>3. \A g \in Handles : Resting(g) => Resting(g)'
      BY <1>17, <2>2 DEF LeaseExpires, Resting, VerifyLock
    <2> QED BY <1>17, <2>3, RotFrame DEF LeaseExpires
  <1>18. ASSUME (\E b \in BOOLEAN : SetUnlocked(b)) \/ UNCHANGED vars PROVE RotInv'
    <2>1. /\ row' = row /\ handle' = handle /\ spent' = spent /\ torn' = torn
          /\ owed' = owed /\ quarantine' = quarantine /\ lock' = lock /\ pump' = pump
          /\ home' = home
      BY <1>18 DEF SetUnlocked, vars
    <2> QED BY <1>r, <2>1, RotFrame
  <1>19. ASSUME ReplaceVaultItemEnrollmentCAS PROVE RotInv'
    <2>1. /\ handle' = handle /\ home' = home /\ spent' = spent /\ torn' = torn
          /\ quarantine' = quarantine /\ lock' = lock /\ pump' = pump
          /\ owed' = IF owed = row.token THEN None ELSE owed
      BY <1>19 DEF ReplaceVaultItemEnrollmentCAS
    <2>2. row'.token = issued + 1 /\ row'.revoking = row.revoking
      BY <1>19, <1>t, LoginFacts
    <2>3. \A g \in Handles : handle[g].pc \notin {"spawn", "handshake", "failed"}
      BY <1>19, StarterFacts DEF ReplaceVaultItemEnrollmentCAS, Starting, StartPCs
    <2>4. CASE owed' = None
      <3>1. RotationKept' BY <2>4 DEF RotationKept
      <3>2. home' # None => home'.digest # owed' /\ home'.auth # owed'
        BY <1>n, <2>1, <2>4, BoundsAssumption
      <3>3. ASSUME NEW g \in Handles PROVE HandleSafe(g)'
        <4>1. handle'[g].seen # owed' BY <1>n, <2>1, <2>4, BoundsAssumption
        <4>2. handle'[g].pc = "manifest" /\ ~row'.revoking => home' # None
          BY <2>1, <2>2 DEF MatchInv, OnHomePCs
        <4> QED BY <2>1, <2>3, <3>2, <4>1, <4>2 DEF HandleSafe
      <3> QED BY <3>1, <3>2, <3>3 DEF RotInv
    <2>5. CASE owed' = owed /\ owed # row.token
      <3>1. Safe(owed) => Safe(owed)' BY <2>1, <2>5 DEF Safe
      <3>2. RotationKept'
        BY <2>1, <2>2, <2>5, KeptFacts DEF RotInv, RotationKept, Safe
      <3>3. ASSUME NEW g \in Handles PROVE HandleSafe(g)'
        <4>1. HandleSafe(g) BY DEF RotInv
        <4>2. Resting(g) => Resting(g)' BY <1>r, <2>1
        <4> QED BY <2>1, <2>2, <2>3, <2>5, <3>1, <4>1, <4>2 DEF HandleSafe
      <3>4. ~row'.revoking /\ home' # None /\ home'.digest = owed' => Safe(owed)'
        BY <2>1, <2>2, <2>5, <3>1 DEF RotInv
      <3> QED BY <3>2, <3>3, <3>4 DEF RotInv
    <2> QED BY <2>1, <2>4, <2>5
  <1>20. ASSUME Logout PROVE RotInv'
    <2>1. /\ handle' = handle /\ spent' = spent /\ torn' = torn /\ owed' = owed
          /\ quarantine' = quarantine /\ pump' = pump
      BY <1>20 DEF Logout
    <2>2. row'.token = row.token /\ (row.revoking => row'.revoking)
      <3>1. row \in RowRecord BY <1>t DEF FilesOK
      <3>2. \/ row' = row
            \/ row' = [row EXCEPT !.status = "revoked"]
            \/ row' = [row EXCEPT !.revoking = TRUE]
        BY <1>20 DEF Logout
      <3> QED BY <3>1, <3>2 DEF RowRecord
    <2>3. CASE home' = home /\ lock' = lock BY <1>r, <2>1, <2>2, <2>3, RotFrame
    <2>4. CASE home' = None /\ row.revoking
      <3>1. \A g \in Handles : handle[g].pc \notin {"spawn", "handshake", "failed"}
        BY <1>20, StarterFacts DEF Logout, Starting, StartPCs
      <3>2. \A g \in Handles : HandleSafe(g)'
        BY <2>1, <2>2, <2>4, <3>1 DEF HandleSafe
      <3> QED BY <2>2, <2>4, <3>2 DEF RotInv, RotationKept
    <2> QED BY <1>20, <2>3, <2>4 DEF Logout, LifeInv
  <1> QED
    BY <1>1, <1>2, <1>3, <1>4, <1>5, <1>6, <1>7, <1>8, <1>9, <1>10, <1>11, <1>12,
       <1>13, <1>14, <1>15, <1>16, <1>17, <1>18, <1>19, <1>20 DEF Next

(* The inductive invariant.                                                *)
IInv == /\ Types /\ LifeInv /\ LockInv /\ OneHolder /\ ChildInv /\ MatchInv /\ TokenInv
        /\ StartRev /\ RotInv

(* The invariant holds initially.                                          *)
LEMMA InitInv == Init => IInv
  <1> SUFFICES ASSUME Init PROVE IInv OBVIOUS
  <1> USE DEF Init, NoHandle, NoPump, NoChild
  <1>1. /\ \A h \in Handles : handle[h].pc = "unused" /\ child[h].state = "none"
        /\ lock = None /\ home = None /\ registered = None /\ owed = None
        /\ row.rev = 2 /\ row.token = 1 /\ row.revoking = FALSE /\ issued = 1
        /\ logout = "idle" /\ up
    OBVIOUS
  <1>2. FilesOK
    <2>1. row \in RowRecord BY Domains DEF RowRecord
    <2> QED BY <2>1 DEF FilesOK
  <1>3. TasksOK
    <2>1. NoHandle \in HandleRecord BY DEF HandleRecord, Pcs
    <2>2. NoPump \in PumpRecord BY DEF PumpRecord
    <2>3. NoChild \in ChildRecord BY Domains DEF ChildRecord
    <2> HIDE DEF NoHandle, NoPump, NoChild
    <2> QED BY <2>1, <2>2, <2>3 DEF TasksOK
  <1>4. RestOK
    <2>1. crashes \in 0..MaxCrashes BY BoundsAssumption
    <2>2. issued \in Tokens /\ spent \subseteq Tokens BY Domains
    <2> QED BY <2>1, <2>2 DEF RestOK
  <1> HIDE DEF Init, NoHandle, NoPump, NoChild
  <1>5. Types BY <1>1, <1>2, <1>3, <1>4 DEF Types, Shape, SeenOK
  <1>6. LifeInv BY <1>1, Domains DEF LifeInv, Starting, StartPCs
  <1>7. LockInv /\ OneHolder BY <1>1 DEF LockInv, OneHolder, Holding, HoldPCs
  <1>8. ChildInv BY <1>1 DEF ChildInv, Alive, ChildrenEnded, Early
  <1>9. MatchInv BY <1>1 DEF MatchInv, OnHomePCs
  <1>10. TokenInv BY <1>1 DEF TokenInv
  <1>11. StartRev BY <1>1 DEF StartRev
  <1>12. RotInv BY <1>1 DEF RotInv, RotationKept, HandleSafe
  <1> QED BY <1>5, <1>6, <1>7, <1>8, <1>9, <1>10, <1>11, <1>12 DEF IInv

(* Every step keeps the invariant.                                         *)
LEMMA NextInv == IInv /\ [Next]_vars => IInv'
  <1> SUFFICES ASSUME IInv, [Next]_vars PROVE IInv' OBVIOUS
  <1>1. Types' BY TypesNext DEF IInv
  <1>2. LifeInv' /\ LockInv' /\ OneHolder' BY LifeNext DEF IInv
  <1>3. ChildInv' BY ChildNext DEF IInv
  <1>4. MatchInv' BY MatchNext DEF IInv
  <1>5. TokenInv' BY TokenNext DEF IInv
  <1>6. StartRev' BY StartRevNext DEF IInv
  <1>7. RotInv' BY RotNext DEF IInv
  <1> QED BY <1>1, <1>2, <1>3, <1>4, <1>5, <1>6, <1>7 DEF IInv

(* The invariant holds in every reachable state of the credential's files, *)
(* its row and its goroutines.                                             *)
THEOREM WriterInvariant == Spec => []IInv
  BY InitInv, NextInv, PTL DEF Spec

(* Every variable keeps its type.                                          *)
THEOREM WriterTypeCorrect == Spec => []TypeOK
  <1>1. IInv => TypeOK BY TypeSplit DEF IInv, Types
  <1> QED BY <1>1, WriterInvariant, PTL

(* At most one handle holds the home, whatever finalizers, pumps, lease    *)
(* expiries, logins, logouts and deaths of the daemon do in between.       *)
THEOREM OneWriterHolds == Spec => []OneHolder
  <1>1. IInv => OneHolder BY DEF IInv
  <1> QED BY <1>1, WriterInvariant, PTL

(* The home a child runs on has the revision and the digest of its handle: *)
(* a home that a crash left is reused only for the revision it was made    *)
(* for.                                                                    *)
THEOREM HomesMatch == Spec => []HomeMatchesHandle
  <1>1. IInv => HomeMatchesHandle
    BY DEF IInv, MatchInv, OnHomePCs, HomeMatchesHandle
  <1> QED BY <1>1, WriterInvariant, PTL

(* A token that the child of a registered runtime has written is in the    *)
(* Vault, in the home or in quarantine until a later one replaces it,      *)
(* except when a finalizer met a refresh of its own lock under way.        *)
THEOREM RotationsKept == Spec => []RotationKept
  <1>1. IInv => RotationKept BY DEF IInv, RotInv
  <1> QED BY <1>1, WriterInvariant, PTL

(* No commit of a refreshed token replaces a newer login.                  *)
THEOREM VaultMovesForward == Spec => VaultForward
  <1>1. IInv /\ [Next]_vars => [row'.token >= row.token]_vars
    <2> SUFFICES ASSUME IInv, [Next]_vars PROVE [row'.token >= row.token]_vars OBVIOUS
    <2>1. row'.token >= row.token BY ForwardNext DEF IInv
    <2> QED BY <2>1
  <1> QED BY <1>1, WriterInvariant, PTL DEF Spec, VaultForward
=============================================================================
