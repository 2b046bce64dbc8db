--------------------------- MODULE SessionPreview ---------------------------
(* The confirmed start of a Codex Session: sessions.preview shows a client *)
(* the account, profile, credential, usage and Codex binary an alias       *)
(* stands for, sessions.start consumes that preview once and starts the    *)
(* Session (app/session_service.go, storage/session_preview.go).  Beside   *)
(* them run the registry methods (app/account_service.go,                  *)
(* storage/accounts.go), logins and logouts, the token and usage commits   *)
(* of running Sessions, upgrades of the Codex binary, time and crashes.    *)
(*                                                                         *)
(* sessions.start holds SessionService.mu and the idempotency ledger, with *)
(* accounts.create, accounts.disable, profiles.create, profiles.delete and *)
(* the auth methods; sessions.preview and the other registry methods hold  *)
(* no lock (requiresIdempotency).  A compare-and-swap on the revision the  *)
(* client read either applies to the current row or changes nothing, so a  *)
(* registry action is its effect on the current row.                       *)
(*                                                                         *)
(* The detail of a login is in Enrollment, that of a runtime in            *)
(* CodexRuntime and CredentialWriter.  Workspace rows are never updated    *)
(* and there is one device, so neither is part of the tuple here; the      *)
(* public Provider is Codex.                                               *)
EXTENDS Naturals, Sequences, FiniteSets

CONSTANTS
  Accounts, Profiles, Aliases, Credentials,
  Previews,    \* preview IDs, 1..n in the order they are issued
  Homes,       \* profiles of a migrated database: [account, profile, alias, cred]
  Requests,    \* sessions.start requests: [client, key, preview, alias]
  Owner,       \* the client that asks for a preview
  None,        \* a NULL column
  MaxOpen,     \* bound: previews asked for and not yet consumed
  MaxEdits,    \* bound: registry edits, logins, logouts, commits, upgrades
  MaxFaults    \* bound: daemon restarts and ledger records that cannot be saved

ASSUME PreviewAssumption ==
  /\ Previews = 1..Cardinality(Previews)
  /\ \A h \in Homes : /\ h.account \in Accounts /\ h.profile \in Profiles
                       /\ h.alias \in Aliases \cup {None}
                       /\ h.cred \in Credentials \cup {None}
  /\ \A r \in Requests : /\ r.preview \in Previews /\ r.alias \in Aliases
                         /\ r = [client |-> r.client, key |-> r.key,
                                preview |-> r.preview, alias |-> r.alias]
  /\ None \notin Accounts \cup Profiles \cup Aliases \cup Credentials
  /\ MaxOpen \in Nat /\ MaxEdits \in Nat /\ MaxFaults \in Nat

VARIABLES
  account,   \* accounts rows, with the newest usage snapshot of each
  profile,   \* runtime_profiles rows
  cred,      \* credential_instances, vault_items and credential_revocations rows
  binary,    \* fingerprint of the installed Codex binary
  preview,   \* session_start_previews rows and the handlers that write them
  session,   \* sessions rows in insertion order
  ledger,    \* idempotency records of sessions.start
  call,      \* the sessions.start that holds SessionService.mu
  edits, faults,
  touched,   \* history: previews of which something shown has changed since
  answers    \* history: the Sessions that requests were answered with

registry == <<account, profile, cred, binary>>
vars == <<registry, preview, session, ledger, call, edits, faults, touched, answers>>

NoAccount == [state |-> "none", enabled |-> FALSE, rev |-> 0, usage |-> 0]
NoProfile == [state |-> "none", account |-> None, alias |-> None, cred |-> None,
              enabled |-> FALSE, settings |-> FALSE, rev |-> 0]
NoCred == [account |-> None, status |-> "none", rev |-> 0, revoking |-> FALSE]
NoTuple == [profile |-> None, prev |-> 0, account |-> None, arev |-> 0,
            cred |-> None, crev |-> 0, usage |-> 0, binary |-> 0]
NoPreview == [pc |-> "idle", shown |-> NoTuple, age |-> "fresh",
              digest |-> None, session |-> 0]
Idle == [pc |-> "idle", req |-> None, tuple |-> NoTuple, session |-> 0]

(* A migrated database: some of the profiles, each with its account, its   *)
(* codex.v1 settings and, where it has one, its alias and confirmed login. *)
Init ==
  /\ \E D \in {D \in SUBSET Homes : /\ \E h \in D : h.alias # None
                                   /\ \A g, h \in D : g.profile = h.profile => g = h} :
       /\ account = [a \in Accounts |-> IF \E h \in D : h.account = a
            THEN [state |-> "row", enabled |-> TRUE, rev |-> 1, usage |-> 0]
            ELSE NoAccount]
       /\ profile = [p \in Profiles |-> IF \E h \in D : h.profile = p
            THEN LET h == CHOOSE h \in D : h.profile = p IN
                 [state |-> "row", account |-> h.account, alias |-> h.alias,
                  cred |-> h.cred, enabled |-> TRUE, settings |-> TRUE, rev |-> 2]
            ELSE NoProfile]
       /\ cred = [c \in Credentials |-> IF \E h \in D : h.cred = c
            THEN [account |-> (CHOOSE h \in D : h.cred = c).account,
                  status |-> "healthy", rev |-> 2, revoking |-> FALSE]
            ELSE NoCred]
  /\ binary = 1
  /\ preview = [v \in Previews |-> NoPreview]
  /\ session = <<>>
  /\ ledger = {}
  /\ call = Idle
  /\ edits = 0 /\ faults = 0
  /\ touched = [v \in Previews |-> FALSE]
  /\ answers = {}

Rows == {p \in Profiles : profile[p].state = "row"}
ProfileOf(x) == {p \in Rows : profile[p].alias = x}
AliasFree(x) == ProfileOf(x) = {}
Active == {"starting", "running"}
InUse(c) == \E s \in DOMAIN session : session[s].cred = c /\ session[s].status \in Active
Unlocked == call.pc = "idle"

-----------------------------------------------------------------------------
(* History: which previews show what a step changes.  A preview whose      *)
(* handler has only resolved the alias has read the profile.  The binary   *)
(* is no row: it may change after any check; StartedWhatWasConfirmed is    *)
(* about it.                                                               *)
Reading == {v \in Previews : preview[v].pc \notin {"idle", "gone"}}
Shows(v) == preview[v].pc \in {"create", "open"}
OnProfile(P) == {v \in Reading : preview[v].shown.profile \in P}
OnAccount(a) == {v \in Reading : Shows(v) /\ preview[v].shown.account = a}
OnCred(c) == {v \in Reading : Shows(v) /\ preview[v].shown.cred = c}
Touch(V) == touched' = [v \in Previews |-> touched[v] \/ (v \in V /\ preview[v].session = 0)]

Edit(V) ==
  /\ edits < MaxEdits
  /\ edits' = edits + 1
  /\ Touch(V)
  /\ UNCHANGED <<preview, session, ledger, call, faults, answers>>

-----------------------------------------------------------------------------
(* The registry.                                                           *)

NewProfile(a, x) == [state |-> "row", account |-> a, alias |-> x, cred |-> None,
                     enabled |-> TRUE, settings |-> FALSE, rev |-> 1]

(* accounts.create: an alias that exists is a replay or a conflict.        *)
CreateAccountWithDefaultProfile(a, p, x) ==
  /\ Unlocked
  /\ account[a].state = "none" /\ profile[p].state = "none"
  /\ AliasFree(x)
  /\ account' = [account EXCEPT ![a] =
        [state |-> "row", enabled |-> TRUE, rev |-> 1, usage |-> 0]]
  /\ profile' = [profile EXCEPT ![p] = NewProfile(a, x)]
  /\ Edit({})
  /\ UNCHANGED <<cred, binary>>

UpdateAccount(a) ==
  /\ account[a].state = "row"
  /\ account' = [account EXCEPT ![a].rev = @ + 1]
  /\ Edit(OnAccount(a))
  /\ UNCHANGED <<profile, cred, binary>>

(* accounts.disable holds the mutex, accounts.enable does not.  Setting    *)
(* the flag it has already moves the revision, as UpdateAccount does.      *)
SetAccountEnabledRevision(a, on) ==
  /\ on \/ Unlocked
  /\ account[a].state = "row" /\ account[a].enabled # on
  /\ account' = [account EXCEPT ![a].enabled = on, ![a].rev = @ + 1]
  /\ Edit(OnAccount(a))
  /\ UNCHANGED <<profile, cred, binary>>

CreateProfile(a, p, x) ==
  /\ Unlocked
  /\ account[a].state = "row" /\ profile[p].state = "none"
  /\ AliasFree(x)
  /\ profile' = [profile EXCEPT ![p] = NewProfile(a, x)]
  /\ Edit({})
  /\ UNCHANGED <<account, cred, binary>>

(* A new name, a new alias, or both.                                       *)
UpdateProfile(p, x) ==
  /\ p \in Rows
  /\ x = profile[p].alias \/ AliasFree(x)
  /\ profile' = [profile EXCEPT ![p].alias = x, ![p].rev = @ + 1]
  /\ Edit(OnProfile({p}))
  /\ UNCHANGED <<account, cred, binary>>

Mutant_SetProfileEnabled(p, on) ==
  /\ p \in Rows /\ profile[p].enabled # on
  /\ profile' = [profile EXCEPT ![p].enabled = on]
  /\ Edit(OnProfile({p}))
  /\ UNCHANGED <<account, cred, binary>>

SetProfileEnabled(p, on) ==
  /\ p \in Rows /\ profile[p].enabled # on
  /\ profile' = [profile EXCEPT ![p].enabled = on, ![p].rev = @ + 1]
  /\ Edit(OnProfile({p}))
  /\ UNCHANGED <<account, cred, binary>>

(* The foreign keys of session_start_previews and sessions restrict the    *)
(* DELETE of a profile or an account.                                      *)
Restricted(P) ==
  \/ \E v \in Previews : preview[v].pc = "open" /\ preview[v].shown.profile \in P
  \/ \E s \in DOMAIN session : session[s].profile \in P

DeleteProfile(p) ==
  /\ Unlocked
  /\ p \in Rows
  /\ ~profile[p].enabled
  /\ profile[p].cred = None
  /\ ~Restricted({p})
  /\ profile' = [profile EXCEPT ![p] = [NoProfile EXCEPT !.state = "deleted"]]
  /\ Edit(OnProfile({p}))
  /\ UNCHANGED <<account, cred, binary>>

(* The profiles of the account and its usage go with it.                   *)
DeleteAccount(a) ==
  LET P == {p \in Rows : profile[p].account = a} IN
  /\ account[a].state = "row"
  /\ ~account[a].enabled
  /\ ~\E s \in DOMAIN session : session[s].account = a
  /\ ~\E c \in Credentials : cred[c].account = a
  /\ ~Restricted(P)
  /\ profile' = [p \in Profiles |-> IF p \in P
        THEN [NoProfile EXCEPT !.state = "deleted"] ELSE profile[p]]
  /\ account' = [account EXCEPT ![a] = [NoAccount EXCEPT !.state = "deleted"]]
  /\ Edit(OnProfile(P) \cup OnAccount(a))
  /\ UNCHANGED <<cred, binary>>

-----------------------------------------------------------------------------
(* Logins, logouts and the commits of running Sessions.                    *)

(* auth.confirm: seals the credential and binds it.  The revision of the   *)
(* profile moves only when it had no credential.                           *)
ReplaceVaultItemEnrollmentCAS(p, c) ==
  /\ Unlocked
  /\ p \in Rows
  /\ \/ profile[p].cred = None /\ cred[c] = NoCred
     \/ profile[p].cred = c /\ ~cred[c].revoking
  /\ cred' = [cred EXCEPT ![c] =
        IF cred[c] = NoCred
        THEN [account |-> profile[p].account, status |-> "healthy", rev |-> 2,
              revoking |-> FALSE]
        ELSE [cred[c] EXCEPT !.rev = @ + 1]]
  /\ profile' = [profile EXCEPT ![p].rev = IF profile[p].cred = None THEN @ + 1 ELSE @,
                                ![p].cred = c]
  /\ Edit(OnCred(c) \cup IF profile[p].cred = None THEN OnProfile({p}) ELSE {})
  /\ UNCHANGED <<account, binary>>

(* auth.logout reserves, removes the home and finalizes.  A home that      *)
(* cannot be removed ends the call between the two, and a later logout     *)
(* finishes it.                                                            *)
ReserveVaultCredentialRevocation(c) ==
  /\ Unlocked
  /\ cred[c].status = "healthy" /\ ~cred[c].revoking
  /\ ~InUse(c)
  /\ cred' = [cred EXCEPT ![c].revoking = TRUE]
  /\ Edit(OnCred(c))
  /\ UNCHANGED <<account, profile, binary>>

FinalizeVaultCredentialRevocation(c) ==
  LET P == {p \in Rows : profile[p].cred = c} IN
  /\ Unlocked
  /\ cred[c].revoking
  /\ ~InUse(c)
  /\ cred' = [cred EXCEPT ![c].status = "revoked", ![c].revoking = FALSE]
  /\ profile' = [p \in Profiles |-> IF p \in P
        THEN [profile[p] EXCEPT !.cred = None, !.rev = @ + 1] ELSE profile[p]]
  /\ Touch(OnProfile(P) \cup OnCred(c))
  /\ UNCHANGED <<account, binary, preview, session, ledger, call, edits, faults,
                 answers>>

Ran(s) == session[s].status \in {"running", "ended"}

(* The finalizer of a Codex runtime commits the token it refreshed.        *)
CommitCodexAuth(c) ==
  /\ \E s \in DOMAIN session : session[s].cred = c /\ Ran(s)
  /\ cred[c].status = "healthy" /\ ~cred[c].revoking
  /\ cred' = [cred EXCEPT ![c].rev = @ + 1]
  /\ Edit(OnCred(c))
  /\ UNCHANGED <<account, profile, binary>>

(* usage.refresh reads a live runtime and stores a newer snapshot.         *)
CreateUsageSnapshotWithWindows(a) ==
  /\ \E s \in DOMAIN session : session[s].account = a /\ session[s].status = "running"
  /\ account' = [account EXCEPT ![a].usage = @ + 1]
  /\ Edit(OnAccount(a))
  /\ UNCHANGED <<profile, cred, binary>>

(* The operator installs another build of the supported Codex version.     *)
InstallBinary ==
  /\ binary' = binary + 1
  /\ Edit({})
  /\ UNCHANGED <<account, profile, cred>>

-----------------------------------------------------------------------------
(* sessions.preview.                                                       *)

SetPreview(v, row) ==
  /\ preview' = [preview EXCEPT ![v] = row]
  /\ UNCHANGED <<registry, session, ledger, call, edits, faults, answers>>

(* selectorPreflight, then the profile row of the alias; a profile that is *)
(* disabled or has no login is refused.                                    *)
ResolveCodexProfile(v, x) ==
  /\ preview[v] = NoPreview
  /\ \A w \in 1..(v - 1) : preview[w] # NoPreview
  /\ Cardinality({w \in Reading : preview[w].session = 0}) < MaxOpen
  /\ \E p \in {p \in ProfileOf(x) : profile[p].enabled /\ profile[p].cred # None} :
       SetPreview(v, [NoPreview EXCEPT !.pc = "account",
          !.shown = [NoTuple EXCEPT !.binary = binary, !.profile = p,
                       !.prev = profile[p].rev, !.account = profile[p].account,
                       !.cred = profile[p].cred]])
  /\ UNCHANGED touched

Refuse(v) == SetPreview(v, NoPreview) /\ touched' = [touched EXCEPT ![v] = FALSE]

(* Account, credential, workspace and usage rows of that profile.          *)
ReadBinding(v) ==
  LET t == preview[v].shown IN
  /\ preview[v].pc = "account"
  /\ IF account[t.account].enabled /\ cred[t.cred].status = "healthy"
     THEN /\ SetPreview(v, [preview[v] EXCEPT !.pc = "create",
               !.shown.arev = account[t.account].rev, !.shown.crev = cred[t.cred].rev,
               !.shown.usage = account[t.account].usage])
          /\ UNCHANGED touched
     ELSE Refuse(v)

(* The rows a preview or a start relies on are those of the tuple.         *)
AccountIs(t) == account[t.account].state = "row" /\ account[t.account].enabled
                /\ account[t.account].rev = t.arev
ProfileIs(t) == t.profile \in Rows /\ profile[t.profile].enabled
                /\ profile[t.profile].account = t.account
                /\ profile[t.profile].rev = t.prev /\ profile[t.profile].cred = t.cred
CredIs(t) == cred[t.cred].status = "healthy" /\ cred[t.cred].rev = t.crev

CreateSessionStartPreview(v) ==
  LET t == preview[v].shown IN
  /\ preview[v].pc = "create"
  /\ IF AccountIs(t) /\ ProfileIs(t) /\ CredIs(t) /\ ~cred[t.cred].revoking
     THEN SetPreview(v, [preview[v] EXCEPT !.pc = "open"]) /\ UNCHANGED touched
     ELSE Refuse(v)

(* Ten minutes pass.  The expiry of a consumed preview is not looked at.   *)
Expires(v) ==
  /\ preview[v].pc = "open" /\ preview[v].session = 0 /\ preview[v].age = "fresh"
  /\ SetPreview(v, [preview[v] EXCEPT !.age = "expired"])
  /\ UNCHANGED touched

-----------------------------------------------------------------------------
(* sessions.start.                                                         *)

Goto(c) ==
  /\ call' = c
  /\ UNCHANGED <<registry, edits, faults, touched>>

(* The digest of a request covers its key and its body.                    *)
Digest(r) == <<r.key, r.preview, r.alias>>

(* withIdempotency: a recorded key replays its answer for the same digest  *)
(* and refuses any other.  Preview IDs are random: a client has one only   *)
(* from an answer of sessions.preview.                                     *)
Recorded(r) == {e \in ledger : e.client = r.client /\ e.key = r.key}

WithIdempotency(r) ==
  /\ call.pc = "idle"
  /\ Recorded(r) # {}
  /\ answers' = answers \cup {[req |-> r, session |-> e.session] :
                                e \in {e \in Recorded(r) : e.digest = Digest(r)}}
  /\ Goto(Idle)
  /\ UNCHANGED <<preview, session, ledger>>

(* A new key: preflight and the current binding of the alias.  One that is *)
(* disabled or has no login ends the call.                                 *)
ResolveProfile(r) ==
  /\ call.pc = "idle"
  /\ Recorded(r) = {}
  /\ preview[r.preview].pc \in {"open", "gone"}
  /\ \E p \in ProfileOf(r.alias) :
       /\ profile[p].enabled /\ profile[p].cred # None
       /\ account[profile[p].account].enabled
       /\ Goto([Idle EXCEPT !.pc = "consume", !.req = r, !.tuple = [NoTuple EXCEPT
            !.profile = p, !.account = profile[p].account, !.cred = profile[p].cred,
            !.binary = binary]])
  /\ UNCHANGED <<preview, session, ledger, answers>>

SameTuple(s, t) == s.profile = t.profile /\ s.account = t.account /\ s.cred = t.cred

(* The links every new Session must have.                                  *)
ValidateSessionLinks(t) ==
  /\ account[t.account].state = "row" /\ account[t.account].enabled
  /\ t.profile \in Rows /\ profile[t.profile].account = t.account
  /\ cred[t.cred].account = t.account /\ cred[t.cred].status # "revoked"
  /\ ~cred[t.cred].revoking

(* What the transaction compares before it inserts the Session: the tuple  *)
(* of the request and the binary with the preview, the preview with the    *)
(* rows.                                                                   *)
Confirms(v, t) ==
  LET w == preview[v].shown IN
  /\ preview[v].age = "fresh"
  /\ SameTuple(t, w) /\ t.binary = w.binary
  /\ AccountIs(w) /\ ProfileIs(w) /\ CredIs(w)
  /\ account[w.account].usage = w.usage
  /\ ValidateSessionLinks(t)

(* A tuple without its revisions, which nothing reads of a consumed row.   *)
Names(t) == [t EXCEPT !.prev = 0, !.arev = 0, !.crev = 0, !.usage = 0]

Insert(v) ==
  LET s == Len(session) + 1
      t == call.tuple IN
  /\ session' = Append(session, [profile |-> t.profile, account |-> t.account,
        cred |-> t.cred, status |-> "starting", preview |-> v,
        shown |-> Names(preview[v].shown), ran |-> NoTuple,
        replayed |-> FALSE])
  /\ preview' = [preview EXCEPT ![v].shown = Names(@),
        ![v].digest = Digest(call.req), ![v].session = s]
  /\ Goto([call EXCEPT !.pc = "reserved", !.session = s])

Mutant_ConsumeSessionStartPreview ==
  LET v == call.req.preview
      row == preview[v]
      mine == row.pc = "open" /\ Owner[v] = call.req.client
      replay == mine /\ row.session # 0
      first == mine /\ row.session = 0 /\ Confirms(v, call.tuple) IN
  /\ call.pc = "consume"
  /\ \/ /\ replay
        /\ Goto([call EXCEPT !.pc = "reserved", !.session = row.session])
        /\ session' = [session EXCEPT ![row.session].replayed = TRUE]
        /\ UNCHANGED preview
     \/ first /\ Insert(v)
     \/ ~replay /\ ~first /\ Goto(Idle) /\ UNCHANGED <<preview, session>>
  /\ UNCHANGED <<ledger, answers>>

(* A consumed preview answers the request that consumed it, and no other.  *)
ConsumeSessionStartPreview ==
  LET v == call.req.preview
      row == preview[v]
      mine == row.pc = "open" /\ Owner[v] = call.req.client
      replay == mine /\ row.session # 0 /\ row.digest = Digest(call.req)
      first == mine /\ row.session = 0 /\ Confirms(v, call.tuple) IN
  /\ call.pc = "consume"
  /\ \/ /\ replay
        /\ Goto([call EXCEPT !.pc = "reserved", !.session = row.session])
        /\ session' = [session EXCEPT ![row.session].replayed = TRUE]
        /\ UNCHANGED preview
     \/ first /\ Insert(v)
     \/ /\ ~replay /\ ~first
        /\ Goto(Idle) /\ UNCHANGED <<preview, session>>
  /\ UNCHANGED <<ledger, answers>>

(* The first checks of the runtime: profile settings, workspace directory, *)
(* credential.                                                             *)
RuntimeAccepts(t) ==
  /\ t.profile \in Rows /\ profile[t.profile].settings
  /\ profile[t.profile].account = t.account
  /\ cred[t.cred].account = t.account /\ cred[t.cred].status = "healthy"

Mutant_StartReserved ==
  LET s == session[call.session]
      t == call.tuple IN
  /\ call.pc = "reserved"
  /\ \/ /\ s.status # "starting"
        /\ Goto([call EXCEPT !.pc = "record"])
     \/ /\ s.status = "starting"
        /\ RuntimeAccepts(t)
        /\ Goto([call EXCEPT !.pc = "launch"])
     \/ s.status = "starting" /\ Goto(Idle)
  /\ UNCHANGED <<preview, session, ledger, answers>>

(* A Session that has left starting is the answer.  One whose tuple is not *)
(* that of the current binding is refused and stays as it is.  Otherwise   *)
(* the runtime makes its first checks: when one of those fails, also for a *)
(* workspace directory that is gone, the Session stays in starting.        *)
StartReserved ==
  LET s == session[call.session]
      t == call.tuple IN
  /\ call.pc = "reserved"
  /\ \/ /\ s.status # "starting"
        /\ Goto([call EXCEPT !.pc = "record"])
     \/ /\ s.status = "starting" /\ SameTuple(s, t)
        /\ RuntimeAccepts(t)
        /\ Goto([call EXCEPT !.pc = "launch"])
     \/ s.status = "starting" /\ Goto(Idle)
  /\ UNCHANGED <<preview, session, ledger, answers>>

SetStatus(s, status) == session' = [session EXCEPT ![s].status = status]

(* Discover again, then materialize, spawn and thread/start.  A failure    *)
(* moves the Session to failed and is the answer of this call.             *)
Launch ==
  LET s == call.session IN
  /\ call.pc = "launch"
  /\ \/ /\ binary = call.tuple.binary
        /\ session' = [session EXCEPT ![s].status = "running",
              ![s].ran = [call.tuple EXCEPT !.binary = binary]]
        /\ Goto([call EXCEPT !.pc = "record"])
     \/ SetStatus(s, "failed") /\ Goto(Idle)
  /\ UNCHANGED <<preview, ledger, answers>>

(* SaveIdempotencyRecord and the answer; a record that cannot be saved is  *)
(* an error, and the Session runs on.                                      *)
Record ==
  LET r == call.req IN
  /\ call.pc = "record"
  /\ \/ /\ ledger' = ledger \cup {[client |-> r.client, key |-> r.key,
                                   digest |-> Digest(r), session |-> call.session]}
        /\ answers' = answers \cup {[req |-> r, session |-> call.session]}
        /\ UNCHANGED faults
     \/ /\ faults < MaxFaults
        /\ faults' = faults + 1
        /\ UNCHANGED <<ledger, answers>>
  /\ call' = Idle
  /\ UNCHANGED <<registry, edits, touched, preview, session>>

-----------------------------------------------------------------------------
(* The Session ends by itself, by a stop or by a crash of its runtime.     *)
SessionEnds(s) ==
  /\ session[s].status = "running"
  /\ SetStatus(s, "ended")
  /\ UNCHANGED <<registry, preview, ledger, call, edits, faults, touched, answers>>

(* The daemon dies; the next one deletes the previews, consumed or not,    *)
(* that are a day past their expiry.  Rows of Sessions stay as they are.   *)
Restart(old) ==
  /\ faults < MaxFaults
  /\ faults' = faults + 1
  /\ call' = Idle
  /\ \A v \in old : /\ preview[v].pc = "open"
                     /\ \A w \in 1..(v - 1) : w \in old \/ preview[w].pc # "open"
  /\ touched' = [v \in Previews |-> touched[v] /\ v \notin old /\ preview[v].pc = "open"]
  /\ preview' = [v \in Previews |->
        IF v \in old \/ preview[v].pc # "open"
        THEN [NoPreview EXCEPT !.pc = IF v \in old \/ preview[v].pc = "gone"
                                      THEN "gone" ELSE "idle"]
        ELSE preview[v]]
  /\ UNCHANGED <<registry, session, ledger, edits, answers>>

RegistryStep ==
  \/ \E a \in Accounts, p \in Profiles, x \in Aliases :
       CreateAccountWithDefaultProfile(a, p, x) \/ CreateProfile(a, p, x)
  \/ \E a \in Accounts : UpdateAccount(a) \/ DeleteAccount(a)
                         \/ CreateUsageSnapshotWithWindows(a)
  \/ \E a \in Accounts, on \in BOOLEAN : SetAccountEnabledRevision(a, on)
  \/ \E p \in Profiles, x \in Aliases : UpdateProfile(p, x)
  \/ \E p \in Profiles, on \in BOOLEAN : SetProfileEnabled(p, on)
  \/ \E p \in Profiles : DeleteProfile(p)

CredentialStep ==
  \/ \E p \in Profiles, c \in Credentials : ReplaceVaultItemEnrollmentCAS(p, c)
  \/ \E c \in Credentials : \/ ReserveVaultCredentialRevocation(c)
                            \/ FinalizeVaultCredentialRevocation(c)
                            \/ CommitCodexAuth(c)

PreviewStep ==
  \E v \in Previews : \/ \E x \in {r.alias : r \in Requests} : ResolveCodexProfile(v, x)
                      \/ ReadBinding(v) \/ CreateSessionStartPreview(v) \/ Expires(v)

StartStep ==
  \/ \E r \in Requests : WithIdempotency(r) \/ ResolveProfile(r)
  \/ ConsumeSessionStartPreview \/ StartReserved
  \/ Launch \/ Record

Next ==
  \/ RegistryStep \/ CredentialStep \/ PreviewStep \/ StartStep
  \/ InstallBinary
  \/ \E s \in DOMAIN session : SessionEnds(s)
  \/ \E old \in SUBSET Previews : Restart(old)

Spec == Init /\ [][Next]_vars

-----------------------------------------------------------------------------
TupleType == [profile : Profiles \cup {None}, prev : Nat, account : Accounts \cup {None},
              arev : Nat, cred : Credentials \cup {None}, crev : Nat, usage : Nat,
              binary : Nat]
Digests == {Digest(r) : r \in Requests}

(* Every variable has its type.                                            *)
TypeOK ==
  /\ account \in [Accounts -> [state : {"none", "row", "deleted"}, enabled : BOOLEAN,
                               rev : Nat, usage : Nat]]
  /\ profile \in [Profiles -> [state : {"none", "row", "deleted"},
        account : Accounts \cup {None}, alias : Aliases \cup {None},
        cred : Credentials \cup {None}, enabled : BOOLEAN, settings : BOOLEAN, rev : Nat]]
  /\ cred \in [Credentials -> [account : Accounts \cup {None},
        status : {"none", "healthy", "revoked"}, rev : Nat, revoking : BOOLEAN]]
  /\ binary \in Nat /\ edits \in 0..MaxEdits /\ faults \in 0..MaxFaults
  /\ preview \in [Previews -> [pc : {"idle", "account", "create", "open", "gone"},
        shown : TupleType, age : {"fresh", "expired"}, digest : Digests \cup {None},
        session : 0..Len(session)]]
  /\ \A s \in DOMAIN session :
        session[s] \in [profile : Profiles, account : Accounts, cred : Credentials,
          status : {"starting", "running", "failed", "ended"}, preview : Previews,
          shown : TupleType, ran : TupleType, replayed : BOOLEAN]
  /\ ledger \subseteq [client : {r.client : r \in Requests}, key : {r.key : r \in Requests},
                       digest : Digests, session : DOMAIN session]
  /\ call \in [pc : {"idle", "consume", "reserved", "launch", "record"},
               req : Requests \cup {None}, tuple : TupleType, session : 0..Len(session)]
  /\ touched \in [Previews -> BOOLEAN]
  /\ answers \subseteq [req : Requests, session : DOMAIN session]

(* A Session is only reserved from a preview that still shows the truth:   *)
(* no edit, login, logout, token commit or usage refresh has touched the   *)
(* account, profile, credential or usage since the client's                *)
(* sessions.preview read them (ConsumeSessionStartPreview).                *)
ConsumedUntouched ==
  [][\A v \in Previews :
       preview'[v].session # 0 /\ preview[v].session # preview'[v].session
         => ~touched[v]]_vars

(* A preview yields at most one Session, every answer to one request names *)
(* one Session, two requests never share one, and only the owner of a      *)
(* preview gets one from it, whatever is retried, with whatever key, after *)
(* whatever crash (ConsumeSessionStartPreview, withIdempotency).           *)
OneSessionPerPreview ==
  /\ \A s, t \in DOMAIN session : session[s].preview = session[t].preview => s = t
  /\ \A a, b \in answers :
       /\ a.session = b.session <=> a.req = b.req
       /\ Owner[a.req.preview] = a.req.client

(* The Provider is only ever started with the account, profile and         *)
(* credential the client confirmed, even when a retry after a crash finds  *)
(* the alias bound to another profile (StartReserved), and with the binary *)
(* it confirmed.  The exception is a replay: ConsumeSessionStartPreview    *)
(* does not compare the fingerprints of a consumed preview, and the start  *)
(* of a Session an earlier call left in starting takes those of the binary *)
(* found by the retry.                                                     *)
StartedWhatWasConfirmed ==
  \A s \in DOMAIN session : session[s].ran # NoTuple =>
    /\ SameTuple(session[s].ran, session[s].shown)
    /\ session[s].ran.binary = session[s].shown.binary \/ session[s].replayed
=============================================================================
