------------------------ MODULE SessionPreviewProofs ------------------------
(***************************************************************************)
(* Proofs about SessionPreview for any accounts, profiles, previews,       *)
(* requests, edits and crashes: a preview is only consumed while what it   *)
(* showed is still so, it yields one Session and every answer names it,    *)
(* and the Provider runs what was confirmed.                               *)
(*                                                                         *)
(* FreshInv: a preview that shows something that has changed is behind the *)
(* rows in a way the comparison of ConsumeSessionStartPreview finds; that  *)
(* needs every registry and credential step to move a revision, or a state *)
(* that never comes back, of the row it touches (RegStep).  Used and       *)
(* ClaimInv: the Session of a preview and who may name it, through answer, *)
(* ledger, consumed row and running call.  ShownInv: what the running call *)
(* may start.                                                              *)
(***************************************************************************)
EXTENDS SessionPreview, SequenceTheorems, TLAPS

(* The states of a row: absent, present, deleted for good.                 *)
States == {"none", "row", "deleted"}
(* An accounts row.                                                        *)
AccountRecord == [state : States, enabled : BOOLEAN, rev : Nat, usage : Nat]
(* A runtime_profiles row.                                                 *)
ProfileRecord ==
  [state : States, account : Accounts \cup {None}, alias : Aliases \cup {None},
   cred : Credentials \cup {None}, enabled : BOOLEAN, settings : BOOLEAN, rev : Nat]
(* A credential.                                                           *)
CredRecord == [account : Accounts \cup {None}, status : {"none", "healthy", "revoked"},
               rev : Nat, revoking : BOOLEAN]
(* A preview; TypeOK also bounds its Session.                              *)
PreviewRecord ==
  [pc : {"idle", "account", "create", "open", "gone"}, shown : TupleType,
   age : {"fresh", "expired"}, digest : Digests \cup {None}, session : Nat]
(* A sessions row.                                                         *)
SessionRecord ==
  [profile : Profiles, account : Accounts, cred : Credentials,
   status : {"starting", "running", "failed", "ended"}, preview : Previews,
   shown : TupleType, ran : TupleType, replayed : BOOLEAN]
(* The running sessions.start.                                             *)
CallRecord == [pc : {"idle", "consume", "reserved", "launch", "record"},
               req : Requests \cup {None}, tuple : TupleType, session : Nat]

(* Types of the registry.                                                  *)
RegOK == /\ account \in [Accounts -> AccountRecord]
         /\ profile \in [Profiles -> ProfileRecord]
         /\ cred \in [Credentials -> CredRecord]
         /\ binary \in Nat /\ edits \in 0..MaxEdits
         /\ touched \in [Previews -> BOOLEAN]
(* A profile row has an account, and only a row is enabled.                *)
RowInv == /\ \A p \in Profiles : profile[p].state = "row" => profile[p].account \in Accounts
          /\ \A a \in Accounts : account[a].enabled => account[a].state = "row"
(* Type of the previews.                                                   *)
PrevOK == preview \in [Previews -> PreviewRecord]
(* Type of the Sessions.                                                   *)
SessOK == session \in Seq(SessionRecord)
(* Type of the running call; one that is under way has a request and a     *)
(* resolved tuple.                                                         *)
CallOK ==
  /\ call \in CallRecord
  /\ call.pc # "idle" =>
       /\ call.req \in Requests
       /\ call.tuple.profile \in Profiles /\ call.tuple.account \in Accounts
       /\ call.tuple.cred \in Credentials
  /\ call.pc \in {"idle", "consume"} => call.session = 0
(* Types of the ledger and of the answers.                                 *)
LedgerOK ==
  /\ ledger \subseteq [client : {r.client : r \in Requests}, key : {r.key : r \in Requests},
                       digest : Digests, session : Nat]
  /\ answers \subseteq [req : Requests, session : Nat]
  /\ faults \in 0..MaxFaults
(* Every variable has its type.                                            *)
Shape == RegOK /\ RowInv /\ PrevOK /\ SessOK /\ CallOK /\ LedgerOK

(* A profile row never comes back once deleted, and its revision never     *)
(* falls.                                                                  *)
PMoves(p) ==
  /\ profile[p].state = "row" => profile'[p].state \in {"row", "deleted"}
  /\ profile[p].state = "row" /\ profile'[p].state = "row" => profile[p].rev <= profile'[p].rev
  /\ profile[p].state = "deleted" => profile'[p].state = "deleted"
(* The same for an account, with its newest usage snapshot.                *)
AMoves(a) ==
  /\ account[a].state = "row" => account'[a].state \in {"row", "deleted"}
  /\ account[a].state = "row" /\ account'[a].state = "row" =>
       account[a].rev <= account'[a].rev /\ account[a].usage <= account'[a].usage
  /\ account[a].state = "deleted" => account'[a].state = "deleted"
(* The same for a credential; a reserved revocation ends in a revocation.  *)
CMoves(c) ==
  /\ cred[c].rev <= cred'[c].rev
  /\ cred[c].revoking => cred'[c].revoking \/ cred'[c].status = "revoked"
  /\ cred[c].status = "revoked" => cred'[c].status = "revoked"

(* The profile row was deleted or got a new revision.                      *)
PHit(p) == profile[p].state = "row" =>
             profile'[p].state = "deleted" \/ (profile'[p].state = "row" /\ profile'[p].rev > profile[p].rev)
(* The account row was deleted, or got a new revision or usage snapshot.   *)
AHit(a) == account[a].state = "row" =>
             \/ account'[a].state = "deleted"
             \/ /\ account'[a].state = "row"
                /\ \/ account'[a].rev > account[a].rev
                   \/ account'[a].usage > account[a].usage
(* The credential got a new revision or is being revoked.                  *)
CHit(c) == cred'[c].rev > cred[c].rev \/ cred'[c].revoking \/ cred'[c].status = "revoked"

(* No row goes back.                                                       *)
Moves == /\ \A p \in Profiles : PMoves(p)
         /\ \A a \in Accounts : AMoves(a)
         /\ \A c \in Credentials : CMoves(c)

(* What a registry or credential step leaves alone.                        *)
Kept == UNCHANGED <<preview, session, ledger, call, faults, answers>>

(* The step has changed something preview v shows, in a way that a         *)
(* comparison with v finds.                                                *)
Hit(v) ==
  /\ v \in Reading
  /\ \/ \E p \in Profiles : preview[v].shown.profile = p /\ PHit(p)
     \/ /\ Shows(v)
        /\ \/ \E a \in Accounts : preview[v].shown.account = a /\ AHit(a)
           \/ \E c \in Credentials : preview[v].shown.cred = c /\ CHit(c)

(* What every registry and credential step does: rows move forward, and    *)
(* each preview it touches is hit.                                         *)
RegStep ==
  /\ RegOK' /\ RowInv' /\ Moves /\ Kept
  /\ \A v \in Previews : touched[v] => touched'[v]
  /\ \A v \in Previews : touched'[v] /\ ~touched[v] => Hit(v)

(* The type of one row.                                                    *)
LEMMA RowTypes ==
  ASSUME RegOK
  PROVE  /\ \A a \in Accounts : account[a] \in AccountRecord
         /\ \A p \in Profiles : profile[p] \in ProfileRecord
         /\ \A c \in Credentials : cred[c] \in CredRecord
  BY DEF RegOK

(* What the assumption says of the constants.                              *)
LEMMA Constants ==
  /\ None \notin Accounts /\ None \notin Profiles /\ None \notin Aliases
  /\ None \notin Credentials /\ MaxEdits \in Nat /\ MaxFaults \in Nat
  /\ \A r \in Requests : r.preview \in Previews /\ r.alias \in Aliases
  BY PreviewAssumption

(* Unchanged profiles move forward.                                        *)
LEMMA ProfilesStay ==
  ASSUME RegOK, profile' = profile
  PROVE  \A p \in Profiles : PMoves(p)
  BY RowTypes DEF PMoves, ProfileRecord

(* Unchanged accounts move forward.                                        *)
LEMMA AccountsStay ==
  ASSUME RegOK, account' = account
  PROVE  \A a \in Accounts : AMoves(a)
  BY RowTypes DEF AMoves, AccountRecord

(* Unchanged credentials move forward.                                     *)
LEMMA CredsStay ==
  ASSUME RegOK, cred' = cred
  PROVE  \A c \in Credentials : CMoves(c)
  BY RowTypes DEF CMoves, CredRecord

(* Writing one account row.                                                *)
LEMMA AccountSet ==
  ASSUME RegOK, RowInv, NEW a \in Accounts, NEW r \in AccountRecord,
         account' = [account EXCEPT ![a] = r], r.enabled => r.state = "row",
         \/ account[a].state = "none"
         \/ account[a].state = "row" /\ r.state = "deleted"
         \/ /\ r.state = account[a].state
            /\ account[a].rev <= r.rev /\ account[a].usage <= r.usage
  PROVE  /\ account' \in [Accounts -> AccountRecord] /\ account'[a] = r
         /\ \A b \in Accounts : AMoves(b)
         /\ \A b \in Accounts : account'[b].enabled => account'[b].state = "row"
  <1>1. account' \in [Accounts -> AccountRecord] /\ account'[a] = r
        /\ \A b \in Accounts : b # a => account'[b] = account[b]
    BY DEF RegOK
  <1>2. \A b \in Accounts : account[b].rev \in Nat /\ account[b].usage \in Nat
    BY RowTypes DEF AccountRecord
  <1>3. ASSUME NEW b \in Accounts PROVE AMoves(b)
    <2>1. CASE b = a BY <1>1, <2>1 DEF AMoves
    <2>2. CASE b # a BY <1>1, <1>2, <2>2 DEF AMoves
    <2> QED BY <2>1, <2>2
  <1>4. \A b \in Accounts : account'[b].enabled => account'[b].state = "row"
    BY <1>1 DEF RowInv
  <1> QED BY <1>1, <1>3, <1>4

(* Writing one profile row.                                                *)
LEMMA ProfileSet ==
  ASSUME RegOK, RowInv, NEW p \in Profiles, NEW r \in ProfileRecord,
         profile' = [profile EXCEPT ![p] = r], r.state = "row" => r.account \in Accounts,
         \/ profile[p].state = "none"
         \/ profile[p].state = "row" /\ r.state = "deleted"
         \/ profile[p].state = "row" /\ r.state = "row" /\ profile[p].rev <= r.rev
  PROVE  /\ profile' \in [Profiles -> ProfileRecord] /\ profile'[p] = r
         /\ \A q \in Profiles : PMoves(q)
         /\ \A q \in Profiles : profile'[q].state = "row" => profile'[q].account \in Accounts
  <1>1. profile' \in [Profiles -> ProfileRecord] /\ profile'[p] = r
        /\ \A q \in Profiles : q # p => profile'[q] = profile[q]
    BY DEF RegOK
  <1>2. \A q \in Profiles : profile[q].rev \in Nat
    BY RowTypes DEF ProfileRecord
  <1>3. ASSUME NEW q \in Profiles PROVE PMoves(q)
    <2>1. CASE q = p BY <1>1, <2>1 DEF PMoves
    <2>2. CASE q # p BY <1>1, <1>2, <2>2 DEF PMoves
    <2> QED BY <2>1, <2>2
  <1>4. \A q \in Profiles : profile'[q].state = "row" => profile'[q].account \in Accounts
    BY <1>1 DEF RowInv
  <1> QED BY <1>1, <1>3, <1>4

(* Writing one credential.                                                 *)
LEMMA CredSet ==
  ASSUME RegOK, NEW c \in Credentials, NEW r \in CredRecord,
         cred' = [cred EXCEPT ![c] = r], cred[c].rev <= r.rev,
         cred[c].revoking => r.revoking \/ r.status = "revoked",
         cred[c].status = "revoked" => r.status = "revoked"
  PROVE  /\ cred' \in [Credentials -> CredRecord] /\ cred'[c] = r
         /\ \A d \in Credentials : CMoves(d)
  <1>1. cred' \in [Credentials -> CredRecord] /\ cred'[c] = r
        /\ \A d \in Credentials : d # c => cred'[d] = cred[d]
    BY DEF RegOK
  <1>2. \A d \in Credentials : cred[d].rev \in Nat
    BY RowTypes DEF CredRecord
  <1>3. ASSUME NEW d \in Credentials PROVE CMoves(d)
    <2>1. CASE d = c BY <1>1, <2>1 DEF CMoves
    <2>2. CASE d # c BY <1>1, <1>2, <2>2 DEF CMoves
    <2> QED BY <2>1, <2>2
  <1> QED BY <1>1, <1>3

(* Touch marks previews of its set and clears none.                        *)
LEMMA TouchFacts ==
  ASSUME RegOK, NEW V, Touch(V)
  PROVE  /\ touched' \in [Previews -> BOOLEAN]
         /\ \A v \in Previews : touched[v] => touched'[v]
         /\ \A v \in Previews : touched'[v] /\ ~touched[v] => v \in V
  BY DEF RegOK, Touch

(* An edit changes only the registry and the history.                      *)
LEMMA EditFacts ==
  ASSUME RegOK, NEW V, Edit(V)
  PROVE  Kept /\ edits' \in 0..MaxEdits /\ Touch(V)
  BY Constants DEF RegOK, Edit, Kept

(* Which previews show a profile, an account, a credential.                *)
LEMMA HitSets ==
  ASSUME NEW v \in Previews
  PROVE  /\ \A P : v \in OnProfile(P) <=> v \in Reading /\ preview[v].shown.profile \in P
         /\ \A a : v \in OnAccount(a) <=> v \in Reading /\ Shows(v) /\ preview[v].shown.account = a
         /\ \A c : v \in OnCred(c) <=> v \in Reading /\ Shows(v) /\ preview[v].shown.cred = c
  BY DEF OnProfile, OnAccount, OnCred, Reading

(* The parts of a registry step make one.                                  *)
LEMMA RegDone ==
  ASSUME RegOK, NEW V, Touch(V), Kept, edits' \in 0..MaxEdits, binary' \in Nat,
         account' \in [Accounts -> AccountRecord], profile' \in [Profiles -> ProfileRecord],
         cred' \in [Credentials -> CredRecord], RowInv', Moves,
         \A v \in Previews : v \in V => Hit(v)
  PROVE  RegStep
  BY TouchFacts DEF RegStep, RegOK

(* An edit of one account row with a new revision or usage snapshot.       *)
LEMMA AccountEdit ==
  ASSUME RegOK, RowInv, NEW a \in Accounts, NEW r \in AccountRecord,
         account' = [account EXCEPT ![a] = r], r.enabled => r.state = "row",
         Edit(OnAccount(a)), UNCHANGED <<profile, cred, binary>>,
         r.state = account[a].state, account[a].rev <= r.rev, account[a].usage <= r.usage,
         account[a].rev < r.rev \/ account[a].usage < r.usage
  PROVE  RegStep
  <1>1. /\ account' \in [Accounts -> AccountRecord] /\ account'[a] = r
        /\ \A b \in Accounts : AMoves(b)
        /\ \A b \in Accounts : account'[b].enabled => account'[b].state = "row"
    BY AccountSet
  <1>2. profile' \in [Profiles -> ProfileRecord] /\ cred' \in [Credentials -> CredRecord] /\ binary' \in Nat
    BY DEF RegOK
  <1>3. Moves BY <1>1, ProfilesStay, CredsStay DEF Moves
  <1>4. RowInv' BY <1>1 DEF RowInv
  <1>5. Kept /\ edits' \in 0..MaxEdits /\ Touch(OnAccount(a)) BY EditFacts
  <1>6. account[a].rev \in Nat /\ account[a].usage \in Nat /\ r.rev \in Nat /\ r.usage \in Nat
    BY RowTypes DEF AccountRecord
  <1>7. AHit(a) BY <1>1, <1>6 DEF AHit
  <1>8. \A v \in Previews : v \in OnAccount(a) => Hit(v)
    BY <1>7, HitSets DEF Hit
  <1> QED BY <1>1, <1>2, <1>3, <1>4, <1>5, <1>8, RegDone

(* An edit of one profile row: a new one, a deletion or a new revision.    *)
LEMMA ProfileEdit ==
  ASSUME RegOK, RowInv, NEW p \in Profiles, NEW r \in ProfileRecord, NEW V,
         profile' = [profile EXCEPT ![p] = r], r.state = "row" => r.account \in Accounts,
         Edit(V), UNCHANGED <<account, cred, binary>>,
         \/ profile[p].state = "none" /\ V = {}
         \/ profile[p].state = "row" /\ r.state = "deleted" /\ V = OnProfile({p})
         \/ profile[p].state = "row" /\ r.state = "row" /\ profile[p].rev < r.rev /\ V = OnProfile({p})
  PROVE  RegStep
  <1>0. profile[p].rev \in Nat /\ r.rev \in Nat
    BY RowTypes DEF ProfileRecord
  <1>a. profile[p].rev < r.rev => profile[p].rev <= r.rev BY <1>0
  <1>b. \/ profile[p].state = "none"
        \/ profile[p].state = "row" /\ r.state = "deleted"
        \/ profile[p].state = "row" /\ r.state = "row" /\ profile[p].rev <= r.rev
    BY <1>a
  <1>1. /\ profile' \in [Profiles -> ProfileRecord] /\ profile'[p] = r
        /\ \A q \in Profiles : PMoves(q)
        /\ \A q \in Profiles : profile'[q].state = "row" => profile'[q].account \in Accounts
    BY <1>b, ProfileSet
  <1>2. account' \in [Accounts -> AccountRecord] /\ cred' \in [Credentials -> CredRecord] /\ binary' \in Nat
    BY DEF RegOK
  <1>3. Moves BY <1>1, AccountsStay, CredsStay DEF Moves
  <1>4. RowInv' BY <1>1 DEF RowInv
  <1>5. Kept /\ edits' \in 0..MaxEdits /\ Touch(V) BY EditFacts
  <1>7. V # {} => PHit(p) BY <1>0, <1>1 DEF PHit
  <1>8. ASSUME NEW v \in Previews, v \in V PROVE Hit(v)
    <2>1. V = OnProfile({p}) /\ PHit(p) BY <1>7, <1>8
    <2>2. v \in Reading /\ preview[v].shown.profile = p BY <2>1, <1>8, HitSets
    <2> QED BY <2>1, <2>2 DEF Hit
  <1> QED BY <1>1, <1>2, <1>3, <1>4, <1>5, <1>8, RegDone

(* An edit of one credential: a new revision or a reserved revocation.     *)
LEMMA CredEdit ==
  ASSUME RegOK, RowInv, NEW c \in Credentials, NEW r \in CredRecord,
         cred' = [cred EXCEPT ![c] = r], cred[c].rev <= r.rev,
         cred[c].revoking => r.revoking \/ r.status = "revoked",
         cred[c].status = "revoked" => r.status = "revoked",
         Edit(OnCred(c)), UNCHANGED <<account, profile, binary>>,
         cred[c].rev < r.rev \/ r.revoking
  PROVE  RegStep
  <1>1. /\ cred' \in [Credentials -> CredRecord] /\ cred'[c] = r
        /\ \A d \in Credentials : CMoves(d)
    BY CredSet
  <1>2. account' \in [Accounts -> AccountRecord] /\ profile' \in [Profiles -> ProfileRecord] /\ binary' \in Nat
    BY DEF RegOK
  <1>3. Moves BY <1>1, AccountsStay, ProfilesStay DEF Moves
  <1>4. RowInv' BY DEF RowInv
  <1>5. Kept /\ edits' \in 0..MaxEdits /\ Touch(OnCred(c)) BY EditFacts
  <1>6. cred[c].rev \in Nat /\ r.rev \in Nat BY RowTypes DEF CredRecord
  <1>7. CHit(c) BY <1>1, <1>6 DEF CHit
  <1>8. \A v \in Previews : v \in OnCred(c) => Hit(v)
    BY <1>7, HitSets DEF Hit
  <1> QED BY <1>1, <1>2, <1>3, <1>4, <1>5, <1>8, RegDone

(* UpdateAccount moves the account's revision.                             *)
LEMMA UpdateAccountStep ==
  ASSUME RegOK, RowInv, NEW a \in Accounts, UpdateAccount(a)
  PROVE  RegStep
  <1> DEFINE r == [account[a] EXCEPT !.rev = @ + 1]
  <1>1. account[a] \in AccountRecord BY RowTypes
  <1>2. r \in AccountRecord /\ r.state = account[a].state /\ r.enabled = account[a].enabled
        /\ account[a].rev < r.rev /\ account[a].rev <= r.rev /\ account[a].usage <= r.usage
    BY <1>1 DEF AccountRecord
  <1>3. account' = [account EXCEPT ![a] = r] /\ Edit(OnAccount(a)) /\ UNCHANGED <<profile, cred, binary>>
    BY DEF UpdateAccount
  <1>4. r.enabled => r.state = "row" BY <1>2 DEF RowInv
  <1> HIDE DEF r
  <1> QED BY <1>2, <1>3, <1>4, AccountEdit

(* SetAccountEnabledRevision moves the account's revision.                 *)
LEMMA SetAccountEnabledStep ==
  ASSUME RegOK, RowInv, NEW a \in Accounts, NEW on \in BOOLEAN, SetAccountEnabledRevision(a, on)
  PROVE  RegStep
  <1> DEFINE n == account[a].rev + 1
             r == [account[a] EXCEPT !.enabled = on, !.rev = n]
  <1>1. account[a] \in AccountRecord BY RowTypes
  <1>2. n \in Nat /\ account[a].rev < n /\ account[a].rev <= n /\ account[a].usage <= account[a].usage
    BY <1>1 DEF AccountRecord
  <1>3. /\ account' = [account EXCEPT ![a] = r] /\ Edit(OnAccount(a))
        /\ UNCHANGED <<profile, cred, binary>> /\ account[a].state = "row"
    BY DEF SetAccountEnabledRevision, RegOK, AccountRecord
  <1> HIDE DEF n
  <1>4. r \in AccountRecord /\ r.state = account[a].state /\ r.rev = n /\ r.usage = account[a].usage
    BY <1>1, <1>2 DEF AccountRecord
  <1> HIDE DEF r
  <1> QED BY <1>2, <1>3, <1>4, AccountEdit

(* CreateUsageSnapshotWithWindows adds a newer snapshot.                   *)
LEMMA UsageStep ==
  ASSUME RegOK, RowInv, NEW a \in Accounts, CreateUsageSnapshotWithWindows(a)
  PROVE  RegStep
  <1> DEFINE r == [account[a] EXCEPT !.usage = @ + 1]
  <1>1. account[a] \in AccountRecord BY RowTypes
  <1>2. r \in AccountRecord /\ r.state = account[a].state /\ r.enabled = account[a].enabled
        /\ account[a].usage < r.usage /\ account[a].rev <= r.rev /\ account[a].usage <= r.usage
    BY <1>1 DEF AccountRecord
  <1>3. account' = [account EXCEPT ![a] = r] /\ Edit(OnAccount(a)) /\ UNCHANGED <<profile, cred, binary>>
    BY DEF CreateUsageSnapshotWithWindows
  <1>4. r.enabled => r.state = "row" BY <1>2 DEF RowInv
  <1> HIDE DEF r
  <1> QED BY <1>2, <1>3, <1>4, AccountEdit

(* UpdateProfile moves the profile's revision.                             *)
LEMMA UpdateProfileStep ==
  ASSUME RegOK, RowInv, NEW p \in Profiles, NEW x \in Aliases, UpdateProfile(p, x)
  PROVE  RegStep
  <1> DEFINE n == profile[p].rev + 1
             r == [profile[p] EXCEPT !.alias = x, !.rev = n]
  <1>1. profile[p] \in ProfileRecord BY RowTypes
  <1>2. n \in Nat /\ profile[p].rev < n BY <1>1 DEF ProfileRecord
  <1>3. /\ profile' = [profile EXCEPT ![p] = r] /\ Edit(OnProfile({p}))
        /\ UNCHANGED <<account, cred, binary>> /\ profile[p].state = "row"
    BY DEF UpdateProfile, Rows, RegOK, ProfileRecord
  <1>4. profile[p].account \in Accounts BY <1>3 DEF RowInv
  <1> HIDE DEF n
  <1>5. r \in ProfileRecord /\ r.state = profile[p].state /\ r.rev = n /\ r.account = profile[p].account
    BY <1>1, <1>2 DEF ProfileRecord
  <1> HIDE DEF r
  <1> QED BY <1>2, <1>3, <1>4, <1>5, ProfileEdit

(* SetProfileEnabled moves the profile's revision.                         *)
LEMMA SetProfileEnabledStep ==
  ASSUME RegOK, RowInv, NEW p \in Profiles, NEW on \in BOOLEAN, SetProfileEnabled(p, on)
  PROVE  RegStep
  <1> DEFINE n == profile[p].rev + 1
             r == [profile[p] EXCEPT !.enabled = on, !.rev = n]
  <1>1. profile[p] \in ProfileRecord BY RowTypes
  <1>2. n \in Nat /\ profile[p].rev < n BY <1>1 DEF ProfileRecord
  <1>3. /\ profile' = [profile EXCEPT ![p] = r] /\ Edit(OnProfile({p}))
        /\ UNCHANGED <<account, cred, binary>> /\ profile[p].state = "row"
    BY DEF SetProfileEnabled, Rows, RegOK, ProfileRecord
  <1>4. profile[p].account \in Accounts BY <1>3 DEF RowInv
  <1> HIDE DEF n
  <1>5. r \in ProfileRecord /\ r.state = profile[p].state /\ r.rev = n /\ r.account = profile[p].account
    BY <1>1, <1>2 DEF ProfileRecord
  <1> HIDE DEF r
  <1> QED BY <1>2, <1>3, <1>4, <1>5, ProfileEdit

(* A deleted profile row.                                                  *)
LEMMA DeletedProfile ==
  [NoProfile EXCEPT !.state = "deleted"] \in ProfileRecord
  /\ [NoProfile EXCEPT !.state = "deleted"].state = "deleted"
  BY DEF NoProfile, ProfileRecord, States

(* A deleted account row.                                                  *)
LEMMA DeletedAccount ==
  [NoAccount EXCEPT !.state = "deleted"] \in AccountRecord
  /\ [NoAccount EXCEPT !.state = "deleted"].state = "deleted"
  /\ ~[NoAccount EXCEPT !.state = "deleted"].enabled
  BY DEF NoAccount, AccountRecord, States

(* DeleteProfile.                                                          *)
LEMMA DeleteProfileStep ==
  ASSUME RegOK, RowInv, NEW p \in Profiles, DeleteProfile(p)
  PROVE  RegStep
  <1> DEFINE r == [NoProfile EXCEPT !.state = "deleted"]
  <1>1. r \in ProfileRecord /\ r.state = "deleted" BY DeletedProfile
  <1>2. /\ profile' = [profile EXCEPT ![p] = r] /\ Edit(OnProfile({p}))
        /\ UNCHANGED <<account, cred, binary>> /\ profile[p].state = "row"
    BY DEF DeleteProfile, Rows
  <1> HIDE DEF r
  <1> QED BY <1>1, <1>2, ProfileEdit

(* A new profile row.                                                      *)
LEMMA NewProfileFacts ==
  ASSUME NEW a \in Accounts, NEW x \in Aliases
  PROVE  NewProfile(a, x) \in ProfileRecord /\ NewProfile(a, x).account = a
  BY DEF NewProfile, ProfileRecord, States

(* CreateProfile.                                                          *)
LEMMA CreateProfileStep ==
  ASSUME RegOK, RowInv, NEW a \in Accounts, NEW p \in Profiles, NEW x \in Aliases,
         CreateProfile(a, p, x)
  PROVE  RegStep
  <1>1. NewProfile(a, x) \in ProfileRecord /\ NewProfile(a, x).account \in Accounts
    BY NewProfileFacts
  <1>2. /\ profile' = [profile EXCEPT ![p] = NewProfile(a, x)] /\ Edit({})
        /\ UNCHANGED <<account, cred, binary>> /\ profile[p].state = "none"
    BY DEF CreateProfile
  <1> QED BY <1>1, <1>2, ProfileEdit

(* CreateAccountWithDefaultProfile.                                        *)
LEMMA CreateAccountStep ==
  ASSUME RegOK, RowInv, NEW a \in Accounts, NEW p \in Profiles, NEW x \in Aliases,
         CreateAccountWithDefaultProfile(a, p, x)
  PROVE  RegStep
  <1> DEFINE r == [state |-> "row", enabled |-> TRUE, rev |-> 1, usage |-> 0]
  <1>1. NewProfile(a, x) \in ProfileRecord /\ NewProfile(a, x).account \in Accounts
    BY NewProfileFacts
  <1>2. /\ profile' = [profile EXCEPT ![p] = NewProfile(a, x)] /\ Edit({})
        /\ account' = [account EXCEPT ![a] = r]
        /\ UNCHANGED <<cred, binary>> /\ profile[p].state = "none" /\ account[a].state = "none"
    BY DEF CreateAccountWithDefaultProfile
  <1>3. r \in AccountRecord /\ r.state = "row" BY DEF AccountRecord, States
  <1> HIDE DEF r
  <1>4. /\ account' \in [Accounts -> AccountRecord]
        /\ \A b \in Accounts : AMoves(b)
        /\ \A b \in Accounts : account'[b].enabled => account'[b].state = "row"
    BY <1>2, <1>3, AccountSet
  <1>5. /\ profile' \in [Profiles -> ProfileRecord]
        /\ \A q \in Profiles : PMoves(q)
        /\ \A q \in Profiles : profile'[q].state = "row" => profile'[q].account \in Accounts
    BY <1>1, <1>2, ProfileSet
  <1>6. cred' \in [Credentials -> CredRecord] /\ binary' \in Nat BY <1>2 DEF RegOK
  <1>7. Moves BY <1>2, <1>4, <1>5, CredsStay DEF Moves
  <1>8. RowInv' BY <1>4, <1>5 DEF RowInv
  <1>9. Kept /\ edits' \in 0..MaxEdits /\ Touch({}) BY <1>2, EditFacts
  <1> QED BY <1>4, <1>5, <1>6, <1>7, <1>8, <1>9, RegDone

(* DeleteAccount, which takes the account's profiles with it.              *)
LEMMA DeleteAccountStep ==
  ASSUME RegOK, RowInv, NEW a \in Accounts, DeleteAccount(a)
  PROVE  RegStep
  <1> DEFINE P == {p \in Rows : profile[p].account = a}
             r == [NoAccount EXCEPT !.state = "deleted"]
             d == [NoProfile EXCEPT !.state = "deleted"]
  <1>1. r \in AccountRecord /\ r.state = "deleted" /\ ~r.enabled BY DeletedAccount
  <1>2. d \in ProfileRecord /\ d.state = "deleted" BY DeletedProfile
  <1>3. /\ account' = [account EXCEPT ![a] = r] /\ account[a].state = "row"
        /\ profile' = [p \in Profiles |-> IF p \in P THEN d ELSE profile[p]]
        /\ Edit(OnProfile(P) \cup OnAccount(a)) /\ UNCHANGED <<cred, binary>>
    BY DEF DeleteAccount
  <1>4. \A p \in P : p \in Profiles /\ profile[p].state = "row" BY DEF Rows
  <1> HIDE DEF P, r, d
  <1>5. /\ account' \in [Accounts -> AccountRecord] /\ account'[a] = r
        /\ \A b \in Accounts : AMoves(b)
        /\ \A b \in Accounts : account'[b].enabled => account'[b].state = "row"
    BY <1>1, <1>3, AccountSet
  <1>6. /\ \A p \in Profiles : p \in P => profile'[p] = d
        /\ \A p \in Profiles : p \notin P => profile'[p] = profile[p]
        /\ profile' \in [Profiles -> ProfileRecord]
    BY <1>2, <1>3 DEF RegOK
  <1>7. ASSUME NEW p \in Profiles PROVE PMoves(p)
    <2>1. CASE p \in P BY <1>2, <1>4, <1>6, <2>1 DEF PMoves
    <2>2. CASE p \notin P BY <1>6, <2>2, RowTypes DEF PMoves, ProfileRecord
    <2> QED BY <2>1, <2>2
  <1>8. RowInv' BY <1>2, <1>5, <1>6 DEF RowInv
  <1>9. cred' \in [Credentials -> CredRecord] /\ binary' \in Nat BY <1>3 DEF RegOK
  <1>10. Moves BY <1>3, <1>5, <1>7, CredsStay DEF Moves
  <1>11. Kept /\ edits' \in 0..MaxEdits /\ Touch(OnProfile(P) \cup OnAccount(a))
    BY <1>3, EditFacts
  <1>12. AHit(a) BY <1>1, <1>5 DEF AHit
  <1>13. \A p \in P : PHit(p) BY <1>2, <1>4, <1>6 DEF PHit
  <1>14. ASSUME NEW v \in Previews, v \in OnProfile(P) \cup OnAccount(a) PROVE Hit(v)
    <2>1. CASE v \in OnProfile(P)
      <3>1. v \in Reading /\ preview[v].shown.profile \in P BY <2>1, HitSets
      <3> QED BY <3>1, <1>4, <1>13 DEF Hit
    <2>2. CASE v \in OnAccount(a)
      <3>1. v \in Reading /\ Shows(v) /\ preview[v].shown.account = a BY <2>2, HitSets
      <3> QED BY <3>1, <1>12 DEF Hit
    <2> QED BY <1>14, <2>1, <2>2
  <1> QED BY <1>5, <1>6, <1>8, <1>9, <1>10, <1>11, <1>14, RegDone

(* ReserveVaultCredentialRevocation.                                       *)
LEMMA ReserveStep ==
  ASSUME RegOK, RowInv, NEW c \in Credentials, ReserveVaultCredentialRevocation(c)
  PROVE  RegStep
  <1> DEFINE r == [cred[c] EXCEPT !.revoking = TRUE]
  <1>1. cred[c] \in CredRecord BY RowTypes
  <1>a. r \in CredRecord BY <1>1 DEF CredRecord
  <1>b. r.revoking /\ r.status = cred[c].status /\ cred[c].rev <= r.rev
    BY <1>1 DEF CredRecord
  <1>2. r \in CredRecord /\ r.revoking /\ r.status = cred[c].status /\ cred[c].rev <= r.rev
    BY <1>a, <1>b
  <1>3. cred' = [cred EXCEPT ![c] = r] /\ Edit(OnCred(c)) /\ UNCHANGED <<account, profile, binary>>
    BY DEF ReserveVaultCredentialRevocation
  <1> HIDE DEF r
  <1> QED BY <1>2, <1>3, CredEdit

(* CommitCodexAuth moves the credential's revision.                        *)
LEMMA CommitStep ==
  ASSUME RegOK, RowInv, NEW c \in Credentials, CommitCodexAuth(c)
  PROVE  RegStep
  <1> DEFINE r == [cred[c] EXCEPT !.rev = @ + 1]
  <1>1. cred[c] \in CredRecord BY RowTypes
  <1>2. /\ r \in CredRecord /\ r.revoking = cred[c].revoking /\ r.status = cred[c].status
        /\ cred[c].rev <= r.rev /\ cred[c].rev < r.rev
    BY <1>1 DEF CredRecord
  <1>3. cred' = [cred EXCEPT ![c] = r] /\ Edit(OnCred(c)) /\ UNCHANGED <<account, profile, binary>>
    BY DEF CommitCodexAuth
  <1> HIDE DEF r
  <1> QED BY <1>2, <1>3, CredEdit

(* Another binary changes no row.                                          *)
LEMMA BinaryStep ==
  ASSUME RegOK, RowInv, InstallBinary
  PROVE  RegStep
  <1>1. binary' \in Nat /\ UNCHANGED <<account, profile, cred>> /\ Edit({})
    BY DEF InstallBinary, RegOK
  <1>2. Kept /\ edits' \in 0..MaxEdits /\ Touch({}) BY <1>1, EditFacts
  <1>3. Moves BY <1>1, AccountsStay, ProfilesStay, CredsStay DEF Moves
  <1>4. RowInv' BY <1>1 DEF RowInv
  <1>5. /\ account' \in [Accounts -> AccountRecord] /\ profile' \in [Profiles -> ProfileRecord]
        /\ cred' \in [Credentials -> CredRecord]
    BY <1>1 DEF RegOK
  <1> QED BY <1>1, <1>2, <1>3, <1>4, <1>5, RegDone

(* A login moves the credential's revision and, when the profile had none, *)
(* the profile's.                                                          *)
LEMMA SealStep ==
  ASSUME RegOK, RowInv, NEW p \in Profiles, NEW c \in Credentials,
         ReplaceVaultItemEnrollmentCAS(p, c)
  PROVE  RegStep
  <1> DEFINE n == IF profile[p].cred = None THEN profile[p].rev + 1 ELSE profile[p].rev
             q == [profile[p] EXCEPT !.rev = n, !.cred = c]
             r == IF cred[c] = NoCred
                  THEN [account |-> profile[p].account, status |-> "healthy", rev |-> 2,
                        revoking |-> FALSE]
                  ELSE [cred[c] EXCEPT !.rev = @ + 1]
             V == OnCred(c) \cup IF profile[p].cred = None THEN OnProfile({p}) ELSE {}
  <1>1. profile[p] \in ProfileRecord /\ cred[c] \in CredRecord BY RowTypes
  <1>2. n \in Nat /\ profile[p].rev <= n /\ (profile[p].cred = None => profile[p].rev < n)
    BY <1>1 DEF ProfileRecord
  <1>3. /\ profile' = [profile EXCEPT ![p] = q] /\ cred' = [cred EXCEPT ![c] = r]
        /\ Edit(V) /\ UNCHANGED <<account, binary>> /\ profile[p].state = "row"
    BY <1>1 DEF ReplaceVaultItemEnrollmentCAS, Rows, RegOK, ProfileRecord
  <1>4. profile[p].account \in Accounts BY <1>3 DEF RowInv
  <1>5. /\ r \in CredRecord /\ cred[c].rev < r.rev /\ cred[c].rev <= r.rev
        /\ cred[c].revoking => r.revoking
        /\ cred[c].status = "revoked" => r.status = "revoked"
    <2>1. CASE cred[c] = NoCred
      <3>1. r = [account |-> profile[p].account, status |-> "healthy", rev |-> 2, revoking |-> FALSE]
        BY <2>1
      <3>2. cred[c].rev = 0 /\ ~cred[c].revoking /\ cred[c].status = "none" BY <2>1 DEF NoCred
      <3> HIDE DEF r
      <3>3. r \in CredRecord BY <3>1, <1>4 DEF CredRecord
      <3> QED BY <3>1, <3>2, <3>3
    <2>2. CASE cred[c] # NoCred
      <3>1. r = [cred[c] EXCEPT !.rev = @ + 1] BY <2>2
      <3> HIDE DEF r
      <3>2. r \in CredRecord /\ r.revoking = cred[c].revoking /\ r.status = cred[c].status
            /\ cred[c].rev < r.rev /\ cred[c].rev <= r.rev
        BY <1>1, <3>1 DEF CredRecord
      <3> QED BY <3>2
    <2> QED BY <2>1, <2>2
  <1> HIDE DEF n
  <1>6. q \in ProfileRecord /\ q.state = profile[p].state /\ q.rev = n /\ q.account = profile[p].account
    BY <1>1, <1>2 DEF ProfileRecord
  <1>7. \A v \in Previews : v \in V => v \in OnCred(c) \/ (profile[p].cred = None /\ v \in OnProfile({p}))
    OBVIOUS
  <1> HIDE DEF q, r, V
  <1>8. /\ profile' \in [Profiles -> ProfileRecord] /\ profile'[p] = q
        /\ \A o \in Profiles : PMoves(o)
        /\ \A o \in Profiles : profile'[o].state = "row" => profile'[o].account \in Accounts
    BY <1>2, <1>3, <1>4, <1>6, ProfileSet
  <1>9. cred' \in [Credentials -> CredRecord] /\ cred'[c] = r /\ \A d \in Credentials : CMoves(d)
    BY <1>3, <1>5, CredSet
  <1>10. account' \in [Accounts -> AccountRecord] /\ binary' \in Nat BY <1>3 DEF RegOK
  <1>11. Moves BY <1>3, <1>8, <1>9, AccountsStay DEF Moves
  <1>12. RowInv' BY <1>3, <1>8 DEF RowInv
  <1>13. Kept /\ edits' \in 0..MaxEdits /\ Touch(V) BY <1>3, EditFacts
  <1>14. cred[c].rev \in Nat /\ r.rev \in Nat /\ profile[p].rev \in Nat
    BY <1>1, <1>5 DEF CredRecord, ProfileRecord
  <1>15. CHit(c) BY <1>5, <1>9, <1>14 DEF CHit
  <1>16. profile[p].cred = None => PHit(p) BY <1>2, <1>3, <1>6, <1>8, <1>14 DEF PHit
  <1>17. ASSUME NEW v \in Previews, v \in V PROVE Hit(v)
    <2>1. CASE v \in OnCred(c)
      <3>1. v \in Reading /\ Shows(v) /\ preview[v].shown.cred = c BY <2>1, HitSets
      <3> QED BY <3>1, <1>15 DEF Hit
    <2>2. CASE profile[p].cred = None /\ v \in OnProfile({p})
      <3>1. v \in Reading /\ preview[v].shown.profile = p BY <2>2, HitSets
      <3> QED BY <3>1, <2>2, <1>16 DEF Hit
    <2> QED BY <1>7, <1>17, <2>1, <2>2
  <1> QED BY <1>8, <1>9, <1>10, <1>11, <1>12, <1>13, <1>17, RegDone

(* FinalizeVaultCredentialRevocation revokes and moves the revision of     *)
(* every profile it unbinds.                                               *)
LEMMA FinalizeStep ==
  ASSUME RegOK, RowInv, NEW c \in Credentials, FinalizeVaultCredentialRevocation(c)
  PROVE  RegStep
  <1> DEFINE P == {p \in Rows : profile[p].cred = c}
             r == [cred[c] EXCEPT !.status = "revoked", !.revoking = FALSE]
             new(p) == [profile[p] EXCEPT !.cred = None, !.rev = profile[p].rev + 1]
             V == OnProfile(P) \cup OnCred(c)
  <1>1. cred[c] \in CredRecord BY RowTypes
  <1>a. r \in CredRecord BY <1>1 DEF CredRecord
  <1>b. r.status = "revoked" /\ cred[c].rev <= r.rev BY <1>1 DEF CredRecord
  <1>2. r \in CredRecord /\ r.status = "revoked" /\ cred[c].rev <= r.rev
    BY <1>a, <1>b
  <1>3. /\ cred' = [cred EXCEPT ![c] = r] /\ UNCHANGED <<account, binary, edits>> /\ Kept /\ Touch(V)
    BY DEF FinalizeVaultCredentialRevocation, Kept
  <1>4. profile' = [p \in Profiles |-> IF p \in P THEN new(p) ELSE profile[p]]
    BY RowTypes DEF FinalizeVaultCredentialRevocation, ProfileRecord
  <1>5. ASSUME NEW p \in Profiles, p \in P
        PROVE  /\ new(p) \in ProfileRecord /\ new(p).state = "row" /\ profile[p].state = "row"
               /\ new(p).account = profile[p].account
               /\ new(p).rev > profile[p].rev /\ new(p).rev \in Nat /\ profile[p].rev \in Nat
    <2> DEFINE n == profile[p].rev + 1
    <2>1. profile[p] \in ProfileRecord BY RowTypes
    <2>2. n \in Nat /\ n > profile[p].rev /\ profile[p].rev \in Nat BY <2>1 DEF ProfileRecord
    <2>3. profile[p].state = "row" BY <1>5 DEF Rows
    <2> HIDE DEF n
    <2>4. LET o == [profile[p] EXCEPT !.cred = None, !.rev = n] IN
          o \in ProfileRecord /\ o.state = profile[p].state /\ o.rev = n /\ o.account = profile[p].account
      BY <2>1, <2>2 DEF ProfileRecord
    <2>5. new(p) = [profile[p] EXCEPT !.cred = None, !.rev = n] BY DEF n
    <2> HIDE DEF new
    <2> QED BY <2>2, <2>3, <2>4, <2>5
  <1>6. \A p \in P : p \in Profiles BY DEF Rows
  <1> HIDE DEF P, r, new, V
  <1>7. /\ \A p \in Profiles : p \in P => profile'[p] = new(p)
        /\ \A p \in Profiles : p \notin P => profile'[p] = profile[p]
        /\ profile' \in [Profiles -> ProfileRecord]
    BY <1>4, <1>5 DEF RegOK
  <1>8. ASSUME NEW p \in Profiles PROVE PMoves(p)
    <2>1. CASE p \in P BY <1>5, <1>7, <2>1 DEF PMoves
    <2>2. CASE p \notin P BY <1>7, <2>2, RowTypes DEF PMoves, ProfileRecord
    <2> QED BY <2>1, <2>2
  <1>9. cred' \in [Credentials -> CredRecord] /\ cred'[c] = r /\ \A d \in Credentials : CMoves(d)
    BY <1>2, <1>3, CredSet
  <1>10. account' \in [Accounts -> AccountRecord] /\ binary' \in Nat /\ edits' \in 0..MaxEdits
    BY <1>3 DEF RegOK
  <1>11. Moves BY <1>3, <1>8, <1>9, AccountsStay DEF Moves
  <1>12. RowInv'
    <2>1. ASSUME NEW p \in Profiles, profile'[p].state = "row" PROVE profile'[p].account \in Accounts
      BY <1>5, <1>7, <2>1 DEF RowInv
    <2> QED BY <2>1, <1>3 DEF RowInv
  <1>15. CHit(c) BY <1>2, <1>9 DEF CHit
  <1>16. \A p \in P : PHit(p) BY <1>5, <1>6, <1>7 DEF PHit
  <1>17. ASSUME NEW v \in Previews, v \in V PROVE Hit(v)
    <2>1. CASE v \in OnCred(c)
      <3>1. v \in Reading /\ Shows(v) /\ preview[v].shown.cred = c BY <2>1, HitSets
      <3> QED BY <3>1, <1>15 DEF Hit
    <2>2. CASE v \in OnProfile(P)
      <3>1. v \in Reading /\ preview[v].shown.profile \in P BY <2>2, HitSets
      <3> QED BY <3>1, <1>6, <1>16 DEF Hit
    <2> QED BY <1>17, <2>1, <2>2 DEF V
  <1> QED BY <1>3, <1>7, <1>9, <1>10, <1>11, <1>12, <1>17, RegDone

(* Every registry and credential step is a RegStep.                        *)
LEMMA RegistrySteps ==
  ASSUME RegOK, RowInv, RegistryStep \/ CredentialStep \/ InstallBinary
  PROVE  RegStep
  <1>1. CASE RegistryStep
    BY <1>1, CreateAccountStep, CreateProfileStep, UpdateAccountStep, DeleteAccountStep,
       UsageStep, SetAccountEnabledStep, UpdateProfileStep, SetProfileEnabledStep,
       DeleteProfileStep DEF RegistryStep
  <1>2. CASE CredentialStep
    BY <1>2, SealStep, ReserveStep, FinalizeStep, CommitStep DEF CredentialStep
  <1> QED BY <1>1, <1>2, BinaryStep

(* The rows have moved past tuple t; all is false while only its profile   *)
(* was read.                                                               *)
Stale(t, all) ==
  \/ profile[t.profile].state = "deleted"
  \/ profile[t.profile].rev > t.prev
  \/ /\ all
     /\ \/ account[t.account].state = "deleted"
        \/ account[t.account].rev > t.arev
        \/ account[t.account].usage > t.usage
        \/ cred[t.cred].rev > t.crev
        \/ cred[t.cred].revoking
        \/ cred[t.cred].status = "revoked"

(* Tuple t was read from rows that existed, and is not newer than they     *)
(* are.                                                                    *)
Behind(t, all) ==
  /\ t.profile \in Profiles /\ t.account \in Accounts /\ t.cred \in Credentials
  /\ profile[t.profile].state # "none"
  /\ profile[t.profile].state = "row" => t.prev <= profile[t.profile].rev
  /\ all => /\ account[t.account].state # "none"
            /\ account[t.account].state = "row" =>
                 t.arev <= account[t.account].rev /\ t.usage <= account[t.account].usage
            /\ t.crev <= cred[t.cred].rev

(* What holds of a preview row and of its mark in the history.             *)
Sound(row, hit) ==
  /\ row.pc = "idle" => ~hit
  /\ row.pc \in {"account", "create", "open"} /\ row.session = 0 =>
       /\ Behind(row.shown, row.pc # "account")
       /\ hit => Stale(row.shown, row.pc # "account")

(* Every touched preview that is not consumed is stale.                    *)
FreshInv == \A v \in Previews : Sound(preview[v], touched[v])

(* Rows that move forward keep a stale tuple stale.                        *)
LEMMA TupleMoves ==
  ASSUME RegOK, RegStep, NEW t \in TupleType, NEW all \in BOOLEAN, Behind(t, all)
  PROVE  Behind(t, all)' /\ (Stale(t, all) => Stale(t, all)')
  <1> DEFINE p == t.profile
             a == t.account
             c == t.cred
  <1>1. p \in Profiles /\ a \in Accounts /\ c \in Credentials BY DEF Behind
  <1>2. PMoves(p) /\ AMoves(a) /\ CMoves(c) BY <1>1 DEF RegStep, Moves
  <1>3. /\ profile[p] \in ProfileRecord /\ account[a] \in AccountRecord /\ cred[c] \in CredRecord
        /\ profile'[p] \in ProfileRecord /\ account'[a] \in AccountRecord /\ cred'[c] \in CredRecord
    BY <1>1 DEF RegOK, RegStep
  <1>4. /\ profile[p].rev \in Nat /\ profile'[p].rev \in Nat
        /\ account[a].rev \in Nat /\ account'[a].rev \in Nat
        /\ account[a].usage \in Nat /\ account'[a].usage \in Nat
        /\ cred[c].rev \in Nat /\ cred'[c].rev \in Nat
        /\ profile[p].state \in States /\ account[a].state \in States
        /\ t.prev \in Nat /\ t.arev \in Nat /\ t.usage \in Nat /\ t.crev \in Nat
    BY <1>3 DEF ProfileRecord, AccountRecord, CredRecord, TupleType
  <1>5. /\ profile[p].state # "none"
        /\ profile[p].state = "row" => t.prev <= profile[p].rev
        /\ all => /\ account[a].state # "none"
                  /\ account[a].state = "row" =>
                       t.arev <= account[a].rev /\ t.usage <= account[a].usage
                  /\ t.crev <= cred[c].rev
    BY DEF Behind
  <1>6. /\ profile'[p].state # "none"
        /\ profile'[p].state = "row" => t.prev <= profile'[p].rev
    BY <1>2, <1>4, <1>5 DEF PMoves, States
  <1>7. all => /\ account'[a].state # "none"
               /\ account'[a].state = "row" =>
                    t.arev <= account'[a].rev /\ t.usage <= account'[a].usage
    BY <1>2, <1>4, <1>5 DEF AMoves, States
  <1>8. all => t.crev <= cred'[c].rev
    BY <1>2, <1>4, <1>5 DEF CMoves
  <1>9. Behind(t, all)' BY <1>1, <1>6, <1>7, <1>8 DEF Behind
  <1>10. ASSUME Stale(t, all) PROVE Stale(t, all)'
    <2>1. CASE profile[p].state = "deleted" BY <2>1, <1>2 DEF Stale, PMoves
    <2>2. CASE profile[p].rev > t.prev
      <3>1. profile'[p].state = "deleted" \/ profile'[p].rev > t.prev
        BY <2>2, <1>2, <1>4, <1>5 DEF PMoves, States
      <3> QED BY <3>1 DEF Stale
    <2>3. CASE all /\ (account[a].state = "deleted" \/ account[a].rev > t.arev
                       \/ account[a].usage > t.usage)
      <3>1. account'[a].state = "deleted" \/ account'[a].rev > t.arev \/ account'[a].usage > t.usage
        BY <2>3, <1>2, <1>4, <1>5 DEF AMoves, States
      <3> QED BY <2>3, <3>1 DEF Stale
    <2>4. CASE all /\ cred[c].rev > t.crev
      <3>1. cred'[c].rev > t.crev BY <2>4, <1>2, <1>4 DEF CMoves
      <3> QED BY <2>4, <3>1 DEF Stale
    <2>5. CASE all /\ (cred[c].revoking \/ cred[c].status = "revoked")
      BY <2>5, <1>2 DEF Stale, CMoves
    <2> QED BY <1>10, <2>1, <2>2, <2>3, <2>4, <2>5 DEF Stale
  <1> QED BY <1>9, <1>10

(* A preview that a registry step hits is stale after it.                  *)
LEMMA HitStale ==
  ASSUME RegOK, PrevOK, RegStep, NEW v \in Previews, Hit(v),
         Behind(preview[v].shown, preview[v].pc # "account")
  PROVE  Stale(preview[v].shown, preview[v].pc # "account")'
  <1> DEFINE t == preview[v].shown
  <1>0. preview[v] \in PreviewRecord /\ preview' = preview BY DEF PrevOK, RegStep, Kept
  <1>1. t.prev \in Nat /\ t.arev \in Nat /\ t.usage \in Nat /\ t.crev \in Nat
    BY <1>0 DEF PreviewRecord, TupleType
  <1>2. CASE \E p \in Profiles : t.profile = p /\ PHit(p)
    <2>1. PHit(t.profile) /\ t.profile \in Profiles BY <1>2
    <2>2. profile[t.profile] \in ProfileRecord /\ profile'[t.profile] \in ProfileRecord
          /\ PMoves(t.profile)
      BY <2>1 DEF RegOK, RegStep, Moves
    <2>3. profile[t.profile].rev \in Nat /\ profile'[t.profile].rev \in Nat
          /\ profile[t.profile].state \in States
      BY <2>2 DEF ProfileRecord
    <2>4. profile'[t.profile].state = "deleted" \/ profile'[t.profile].rev > t.prev
      BY <1>1, <2>1, <2>2, <2>3 DEF PHit, PMoves, States, Behind
    <2> QED BY <1>0, <2>4 DEF Stale
  <1>3. CASE Shows(v) /\ \E a \in Accounts : t.account = a /\ AHit(a)
    <2>0. preview[v].pc # "account" BY <1>3 DEF Shows
    <2>1. AHit(t.account) /\ t.account \in Accounts BY <1>3
    <2>2. account[t.account] \in AccountRecord /\ account'[t.account] \in AccountRecord
          /\ AMoves(t.account)
      BY <2>1 DEF RegOK, RegStep, Moves
    <2>3. account[t.account].rev \in Nat /\ account'[t.account].rev \in Nat
          /\ account[t.account].usage \in Nat /\ account'[t.account].usage \in Nat
          /\ account[t.account].state \in States
      BY <2>2 DEF AccountRecord
    <2>4. account'[t.account].state = "deleted" \/ account'[t.account].rev > t.arev
          \/ account'[t.account].usage > t.usage
      BY <1>1, <2>0, <2>1, <2>2, <2>3 DEF AHit, AMoves, States, Behind
    <2> QED BY <1>0, <2>0, <2>4 DEF Stale
  <1>4. CASE Shows(v) /\ \E c \in Credentials : t.cred = c /\ CHit(c)
    <2>0. preview[v].pc # "account" BY <1>4 DEF Shows
    <2>1. CHit(t.cred) /\ t.cred \in Credentials BY <1>4
    <2>2. cred[t.cred] \in CredRecord /\ cred'[t.cred] \in CredRecord
      BY <2>1 DEF RegOK, RegStep
    <2>3. cred[t.cred].rev \in Nat /\ cred'[t.cred].rev \in Nat BY <2>2 DEF CredRecord
    <2>4. cred'[t.cred].rev > t.crev \/ cred'[t.cred].revoking \/ cred'[t.cred].status = "revoked"
      BY <1>1, <2>0, <2>1, <2>3 DEF CHit, Behind
    <2> QED BY <1>0, <2>0, <2>4 DEF Stale
  <1> QED BY <1>2, <1>3, <1>4 DEF Hit

(* Registry and credential steps preserve FreshInv.                        *)
LEMMA FreshRegistry ==
  ASSUME RegOK, PrevOK, FreshInv, RegStep
  PROVE  FreshInv'
  <1> SUFFICES ASSUME NEW v \in Previews PROVE Sound(preview[v], touched[v])'
    BY DEF FreshInv
  <1>1. Sound(preview[v], touched[v]) BY DEF FreshInv
  <1>2. preview[v] \in PreviewRecord /\ preview' = preview BY DEF PrevOK, RegStep, Kept
  <1>3. preview[v].shown \in TupleType BY <1>2 DEF PreviewRecord
  <1>4. touched[v] \in BOOLEAN /\ touched'[v] \in BOOLEAN BY DEF RegOK, RegStep
  <1>5. touched'[v] /\ ~touched[v] => Hit(v) BY DEF RegStep
  <1>6. Hit(v) => preview[v].pc # "idle" BY DEF Hit, Reading
  <1>7. (preview[v].pc = "idle" => ~touched[v])' BY <1>1, <1>2, <1>4, <1>5, <1>6 DEF Sound
  <1>8. ASSUME preview[v].pc \in {"account", "create", "open"}, preview[v].session = 0
        PROVE  /\ Behind(preview[v].shown, preview[v].pc # "account")'
               /\ touched'[v] => Stale(preview[v].shown, preview[v].pc # "account")'
    <2>1. Behind(preview[v].shown, preview[v].pc # "account")
          /\ (touched[v] => Stale(preview[v].shown, preview[v].pc # "account"))
      BY <1>1, <1>8 DEF Sound
    <2> DEFINE all == preview[v].pc # "account"
               t == preview[v].shown
    <2>2. all \in BOOLEAN /\ t \in TupleType BY <1>3
    <2>3. Behind(t, all)' /\ (Stale(t, all) => Stale(t, all)')
      <3>1. \A u \in TupleType, b \in BOOLEAN :
               Behind(u, b) => Behind(u, b)' /\ (Stale(u, b) => Stale(u, b)')
        BY TupleMoves
      <3>2. Behind(t, all) BY <2>1
      <3> QED BY <3>1, <3>2, <2>2, <1>2 DEF Behind, Stale
    <2>4. ASSUME touched'[v] PROVE Stale(t, all)'
      <3>1. CASE touched[v] BY <2>1, <2>3, <3>1
      <3>2. CASE ~touched[v] BY <2>1, <2>4, <3>2, <1>5, HitStale
      <3> QED BY <3>1, <3>2
    <2> QED BY <2>3, <2>4
  <1> QED BY <1>2, <1>7, <1>8 DEF Sound

(* The Session of a preview: an open preview names the one Session         *)
(* inserted from it, a purged one is never issued again.                   *)
Used ==
  /\ \A s \in DOMAIN session :
       \/ preview[session[s].preview].pc = "gone"
       \/ /\ preview[session[s].preview].pc = "open"
          /\ preview[session[s].preview].session = s
  /\ \A v \in Previews : preview[v].session # 0 =>
       /\ preview[v].pc = "open" /\ preview[v].session \in DOMAIN session
       /\ session[preview[v].session].preview = v
  /\ \A s, t \in DOMAIN session : session[s].preview = session[t].preview => s = t

(* What every step of sessions.preview does to its row.                    *)
PrevSet(v, row) ==
  /\ preview' = [preview EXCEPT ![v] = row] /\ row \in PreviewRecord
  /\ preview[v].session = 0 /\ row.session = 0
  /\ preview[v].pc # "gone" /\ (preview[v].pc = "open" => row.pc = "open")
  /\ UNCHANGED <<registry, session, ledger, call, edits, faults, answers>>
  /\ touched' \in [Previews -> BOOLEAN]
  /\ \A w \in Previews : w # v => touched'[w] = touched[w]
  /\ Sound(row, touched'[v])

(* The initial records.                                                    *)
LEMMA EmptyRows ==
  /\ NoTuple \in TupleType /\ NoPreview \in PreviewRecord
  /\ NoPreview.pc = "idle" /\ NoPreview.session = 0 /\ NoPreview.shown = NoTuple
  /\ Idle \in CallRecord /\ Idle.pc = "idle" /\ Idle.session = 0
  <1>1. NoTuple \in TupleType BY DEF NoTuple, TupleType
  <1>2. NoPreview \in PreviewRecord BY <1>1 DEF NoPreview, PreviewRecord
  <1>3. Idle \in CallRecord BY <1>1 DEF Idle, CallRecord
  <1> QED BY <1>1, <1>2, <1>3 DEF NoPreview, Idle

(* A refused sessions.preview leaves no row.                               *)
LEMMA RefuseRow ==
  ASSUME RegOK, PrevOK, NEW v \in Previews, Refuse(v),
         preview[v].session = 0, preview[v].pc \in {"account", "create"}
  PROVE  PrevSet(v, NoPreview)
  BY EmptyRows DEF Refuse, SetPreview, PrevSet, RegOK, Sound

(* The first read of sessions.preview.                                     *)
LEMMA ResolveRow ==
  ASSUME RegOK, RowInv, PrevOK, FreshInv, NEW v \in Previews, NEW x, ResolveCodexProfile(v, x)
  PROVE  \E row : PrevSet(v, row)
  <1>0. preview[v] = NoPreview BY DEF ResolveCodexProfile
  <1>1. PICK p \in {p \in ProfileOf(x) : profile[p].enabled /\ profile[p].cred # None} :
          SetPreview(v, [NoPreview EXCEPT !.pc = "account",
            !.shown = [NoTuple EXCEPT !.binary = binary, !.profile = p,
                       !.prev = profile[p].rev, !.account = profile[p].account,
                       !.cred = profile[p].cred]])
    BY DEF ResolveCodexProfile
  <1> DEFINE n == profile[p].rev
             a == profile[p].account
             c == profile[p].cred
             t == [NoTuple EXCEPT !.binary = binary, !.profile = p, !.prev = n,
                                  !.account = a, !.cred = c]
             row == [NoPreview EXCEPT !.pc = "account", !.shown = t]
  <1>2. p \in Profiles /\ profile[p].state = "row" /\ profile[p].cred # None
    BY DEF ProfileOf, Rows
  <1>3. a \in Accounts BY <1>2 DEF RowInv
  <1>4. profile[p] \in ProfileRecord BY <1>2, RowTypes
  <1>5. c \in Credentials /\ n \in Nat /\ n <= n
    BY <1>2, <1>4 DEF ProfileRecord
  <1>7. binary \in Nat BY DEF RegOK
  <1>11. SetPreview(v, row) BY <1>1
  <1>6. n = profile[p].rev /\ a = profile[p].account /\ c = profile[p].cred OBVIOUS
  <1> HIDE DEF n, a, c
  <1>8. t \in TupleType BY <1>2, <1>3, <1>5, <1>7 DEF TupleType, NoTuple
  <1>9. t.profile = p /\ t.prev = n /\ t.account = a /\ t.cred = c
    BY DEF NoTuple
  <1> HIDE DEF t
  <1>10. row \in PreviewRecord /\ row.pc = "account" /\ row.shown = t /\ row.session = 0
    BY <1>8 DEF NoPreview, PreviewRecord
  <1> HIDE DEF row
  <1>12. touched' = touched /\ touched[v] = FALSE
    BY <1>0, EmptyRows DEF ResolveCodexProfile, FreshInv, Sound, RegOK
  <1>13. Behind(t, FALSE) BY <1>2, <1>3, <1>5, <1>6, <1>9 DEF Behind
  <1>14. Sound(row, touched'[v]) BY <1>10, <1>12, <1>13 DEF Sound
  <1>15. PrevSet(v, row)
    BY <1>0, <1>10, <1>11, <1>12, <1>14, EmptyRows DEF PrevSet, SetPreview, RegOK
  <1> QED BY <1>15

(* FreshInv of one preview.                                                *)
LEMMA SoundRow ==
  ASSUME FreshInv, PrevOK, NEW v \in Previews, preview[v].session = 0,
         preview[v].pc \in {"account", "create", "open"}
  PROVE  /\ Behind(preview[v].shown, preview[v].pc # "account")
         /\ touched[v] => Stale(preview[v].shown, preview[v].pc # "account")
         /\ preview[v] \in PreviewRecord /\ preview[v].shown \in TupleType
         /\ preview[v].shown.account \in Accounts /\ preview[v].shown.cred \in Credentials
         /\ preview[v].shown.profile \in Profiles
  BY DEF FreshInv, Sound, PrevOK, PreviewRecord, Behind

(* The second read of sessions.preview.                                    *)
LEMMA ReadRow ==
  ASSUME RegOK, RowInv, PrevOK, FreshInv, NEW v \in Previews, preview[v].session = 0,
         ReadBinding(v)
  PROVE  \E row : PrevSet(v, row)
  <1> DEFINE t == preview[v].shown
             acc == account[t.account]
             crd == cred[t.cred]
  <1>0. preview[v].pc = "account" BY DEF ReadBinding
  <1>1. /\ Behind(t, FALSE) /\ (touched[v] => Stale(t, FALSE))
        /\ preview[v] \in PreviewRecord /\ t \in TupleType
        /\ t.account \in Accounts /\ t.cred \in Credentials /\ t.profile \in Profiles
    BY <1>0, SoundRow
  <1>2. CASE acc.enabled /\ crd.status = "healthy"
    <2> DEFINE ar == acc.rev
               cr == crd.rev
               us == acc.usage
               u == [t EXCEPT !.arev = ar, !.crev = cr, !.usage = us]
               row == [preview[v] EXCEPT !.pc = "create", !.shown = u]
    <2>1. acc \in AccountRecord /\ crd \in CredRecord BY <1>1, RowTypes
    <2>2. ar \in Nat /\ us \in Nat /\ cr \in Nat /\ ar <= ar /\ us <= us /\ cr <= cr
      BY <2>1 DEF AccountRecord, CredRecord
    <2>3. acc.state = "row" BY <1>1, <1>2 DEF RowInv
    <2>5. SetPreview(v, row) /\ touched' = touched
      BY <1>1, <1>2 DEF ReadBinding, PreviewRecord, TupleType
    <2>6. ar = acc.rev /\ us = acc.usage /\ cr = crd.rev OBVIOUS
    <2> HIDE DEF ar, us, cr
    <2>7. u \in TupleType BY <1>1, <2>2 DEF TupleType
    <2>9. /\ u.profile = t.profile /\ u.prev = t.prev /\ u.account = t.account /\ u.cred = t.cred
          /\ u.arev = ar /\ u.crev = cr /\ u.usage = us
      BY <1>1 DEF TupleType
    <2> HIDE DEF u
    <2>8. row \in PreviewRecord /\ row.pc = "create" /\ row.shown = u /\ row.session = 0
      BY <1>1, <2>7 DEF PreviewRecord
    <2> HIDE DEF row
    <2>10. Behind(u, TRUE) BY <1>1, <2>2, <2>3, <2>6, <2>9 DEF Behind
    <2>11. Stale(t, FALSE) => Stale(u, TRUE) BY <2>9 DEF Stale
    <2>12. Sound(row, touched'[v]) BY <1>1, <2>5, <2>8, <2>10, <2>11 DEF Sound
    <2>13. PrevSet(v, row)
      BY <1>0, <2>5, <2>8, <2>12 DEF PrevSet, SetPreview, RegOK
    <2> QED BY <2>13
  <1>3. CASE ~(acc.enabled /\ crd.status = "healthy")
    <2>1. Refuse(v) BY <1>3 DEF ReadBinding
    <2> QED BY <2>1, <1>0, RefuseRow
  <1> QED BY <1>2, <1>3

(* The insert of sessions.preview.                                         *)
LEMMA CreateRow ==
  ASSUME RegOK, RowInv, PrevOK, FreshInv, NEW v \in Previews, preview[v].session = 0,
         CreateSessionStartPreview(v)
  PROVE  \E row : PrevSet(v, row)
  <1> DEFINE row == [preview[v] EXCEPT !.pc = "open"]
  <1>0. preview[v].pc = "create" BY DEF CreateSessionStartPreview
  <1>1. /\ Behind(preview[v].shown, TRUE) /\ (touched[v] => Stale(preview[v].shown, TRUE))
        /\ preview[v] \in PreviewRecord
    BY <1>0, SoundRow
  <1>2. CASE SetPreview(v, row) /\ touched' = touched
    <2>1. row \in PreviewRecord /\ row.pc = "open" /\ row.shown = preview[v].shown /\ row.session = 0
      BY <1>1 DEF PreviewRecord
    <2> HIDE DEF row
    <2>2. Sound(row, touched'[v]) BY <1>1, <1>2, <2>1 DEF Sound
    <2>3. PrevSet(v, row) BY <1>0, <1>2, <2>1, <2>2 DEF PrevSet, SetPreview, RegOK
    <2> QED BY <2>3
  <1>3. CASE Refuse(v) BY <1>0, <1>3, RefuseRow
  <1> QED BY <1>2, <1>3 DEF CreateSessionStartPreview

(* Expiry changes only the age.                                            *)
LEMMA ExpireRow ==
  ASSUME RegOK, RowInv, PrevOK, FreshInv, NEW v \in Previews, Expires(v)
  PROVE  \E row : PrevSet(v, row)
  <1> DEFINE row == [preview[v] EXCEPT !.age = "expired"]
  <1>0. preview[v].pc = "open" /\ preview[v].session = 0 BY DEF Expires
  <1>1. /\ Behind(preview[v].shown, TRUE) /\ (touched[v] => Stale(preview[v].shown, TRUE))
        /\ preview[v] \in PreviewRecord
    BY <1>0, SoundRow
  <1>2. SetPreview(v, row) /\ touched' = touched BY DEF Expires
  <1>3. row \in PreviewRecord /\ row.pc = "open" /\ row.shown = preview[v].shown /\ row.session = 0
    BY <1>0, <1>1 DEF PreviewRecord
  <1> HIDE DEF row
  <1>4. Sound(row, touched'[v]) BY <1>1, <1>2, <1>3 DEF Sound
  <1>5. PrevSet(v, row) BY <1>0, <1>2, <1>3, <1>4 DEF PrevSet, SetPreview, RegOK
  <1> QED BY <1>5

(* Every step of sessions.preview is a PrevSet.                            *)
LEMMA PreviewSteps ==
  ASSUME RegOK, RowInv, PrevOK, FreshInv, Used, PreviewStep
  PROVE  \E v \in Previews : \E row : PrevSet(v, row)
  <1>1. PICK v \in Previews : \/ \E x \in {r.alias : r \in Requests} : ResolveCodexProfile(v, x)
                              \/ ReadBinding(v) \/ CreateSessionStartPreview(v) \/ Expires(v)
    BY DEF PreviewStep
  <1>2. preview[v].pc # "open" => preview[v].session = 0 BY DEF Used
  <1>3. CASE \E x \in {r.alias : r \in Requests} : ResolveCodexProfile(v, x)
    BY <1>3, ResolveRow
  <1>4. CASE ReadBinding(v)
    <2>1. preview[v].session = 0 BY <1>2, <1>4 DEF ReadBinding
    <2> QED BY <1>4, <2>1, ReadRow
  <1>5. CASE CreateSessionStartPreview(v)
    <2>1. preview[v].session = 0 BY <1>2, <1>5 DEF CreateSessionStartPreview
    <2> QED BY <1>5, <2>1, CreateRow
  <1>6. CASE Expires(v) BY <1>6, ExpireRow
  <1> QED BY <1>1, <1>3, <1>4, <1>5, <1>6

(* Where a call already names its Session.                                 *)
Tried == {"reserved", "launch", "record"}

(* Client u has been, or will be, told Session s for the request with      *)
(* digest d: by an answer, the ledger, a consumed preview or the running   *)
(* call.                                                                   *)
Claim(u, d, s) ==
  \/ \E a \in answers : a.session = s /\ a.req.client = u /\ Digest(a.req) = d
  \/ \E e \in ledger : e.session = s /\ e.client = u /\ e.digest = d
  \/ \E v \in Previews : preview[v].session = s /\ s # 0 /\ Owner[v] = u /\ preview[v].digest = d
  \/ call.pc \in Tried /\ call.session = s /\ call.req.client = u /\ Digest(call.req) = d

(* A claim is made by the owner of the Session's preview, and all claims   *)
(* on a Session are of one request.                                        *)
ClaimInv ==
  /\ \A u, d, s : Claim(u, d, s) =>
       /\ s \in DOMAIN session
       /\ session[s].preview = d[2] /\ Owner[d[2]] = u
  /\ \A u, w, d, e, s : Claim(u, d, s) /\ Claim(w, e, s) => d = e

(* StartedWhatWasConfirmed for one Session.                                *)
RanOK(x) == x.ran # NoTuple =>
  SameTuple(x.ran, x.shown) /\ (x.ran.binary = x.shown.binary \/ x.replayed)

(* Every Session has the tuple that was shown; the running call has the    *)
(* shown binary unless it is a replay, and launches only the Session's own *)
(* tuple.                                                                  *)
ShownInv ==
  /\ \A s \in DOMAIN session : SameTuple(session[s], session[s].shown) /\ RanOK(session[s])
  /\ call.pc \in {"reserved", "launch"} =>
       \/ call.tuple.binary = session[call.session].shown.binary
       \/ session[call.session].replayed
  /\ call.pc = "launch" => SameTuple(session[call.session], call.tuple)

(* What no step changes in a Session.                                      *)
SameSession(x, y) ==
  /\ y.profile = x.profile /\ y.account = x.account /\ y.cred = x.cred
  /\ y.preview = x.preview /\ y.shown = x.shown
  /\ x.replayed => y.replayed
  /\ RanOK(x) => RanOK(y)

(* No Session is inserted, and none changes its identity.                  *)
SessKept ==
  /\ session' \in Seq(SessionRecord) /\ Len(session') = Len(session)
  /\ DOMAIN session' = DOMAIN session
  /\ \A s \in DOMAIN session : SameSession(session[s], session'[s])

(* The type of one Session.                                                *)
LEMMA SessTypes ==
  ASSUME SessOK
  PROVE  /\ Len(session) \in Nat /\ DOMAIN session = 1..Len(session)
         /\ \A s \in DOMAIN session : session[s] \in SessionRecord
  BY DEF SessOK

(* An unchanged table keeps its Sessions.                                  *)
LEMMA SessSame ==
  ASSUME SessOK, session' = session
  PROVE  SessKept
  BY DEF SessOK, SessKept, SameSession

(* An update of one Session.                                               *)
LEMMA SessSet ==
  ASSUME SessOK, NEW i \in DOMAIN session, NEW r \in SessionRecord,
         session' = [session EXCEPT ![i] = r], SameSession(session[i], r)
  PROVE  SessKept /\ session'[i] = r
  <1>1. i \in 1..Len(session) /\ DOMAIN session = 1..Len(session) BY SessTypes
  <1>2. /\ session' \in Seq(SessionRecord) /\ Len(session') = Len(session)
        /\ \A j \in 1..Len(session) : session'[j] = IF j = i THEN r ELSE session[j]
    BY <1>1, ExceptSeq DEF SessOK
  <1>3. DOMAIN session' = DOMAIN session BY <1>1, <1>2
  <1>4. session'[i] = r BY <1>1, <1>2
  <1>5. ASSUME NEW j \in DOMAIN session PROVE SameSession(session[j], session'[j])
    <2>1. CASE j = i BY <1>4, <2>1
    <2>2. CASE j # i
      <3>1. session'[j] = session[j] BY <1>1, <1>2, <2>2
      <3> QED BY <3>1 DEF SameSession
    <2> QED BY <2>1, <2>2
  <1> QED BY <1>2, <1>3, <1>4, <1>5 DEF SessKept

(* Without a new Session and a new claim, ClaimInv is kept.                *)
LEMMA ClaimFrame ==
  ASSUME ClaimInv, SessKept, \A u, d, s : Claim(u, d, s)' => Claim(u, d, s)
  PROVE  ClaimInv'
  <1>1. ASSUME NEW u, NEW d, NEW s, Claim(u, d, s)'
        PROVE  s \in DOMAIN session' /\ session'[s].preview = d[2] /\ Owner[d[2]] = u
    <2>1. s \in DOMAIN session /\ session[s].preview = d[2] /\ Owner[d[2]] = u
      BY <1>1 DEF ClaimInv
    <2> QED BY <2>1 DEF SessKept, SameSession
  <1>2. ASSUME NEW u, NEW w, NEW d, NEW e, NEW s, Claim(u, d, s)', Claim(w, e, s)'
        PROVE  d = e
    BY <1>2 DEF ClaimInv
  <1> QED BY <1>1, <1>2 DEF ClaimInv

(* Without a new Session and a change of previews, Used is kept.           *)
LEMMA UsedFrame ==
  ASSUME Used, SessKept, preview' = preview
  PROVE  Used'
  BY DEF Used, SessKept, SameSession

(* FreshInv depends on registry and previews only.                         *)
LEMMA FreshFrame ==
  ASSUME RegOK, RowInv, FreshInv, UNCHANGED <<registry, edits, touched, preview>>
  PROVE  RegOK' /\ RowInv' /\ FreshInv'
  <1>1. RegOK' BY DEF RegOK, registry
  <1>2. RowInv' BY DEF RowInv, registry
  <1>3. FreshInv' BY DEF FreshInv, Sound, Behind, Stale, registry
  <1> QED BY <1>1, <1>2, <1>3

(* A call that names a Session names one that exists, and is from the      *)
(* owner of its preview.                                                   *)
LEMMA CallDomain ==
  ASSUME ClaimInv, call.pc \in Tried
  PROVE  call.session \in DOMAIN session /\ session[call.session].preview = call.req.preview
         /\ Owner[call.req.preview] = call.req.client
  <1>1. Claim(call.req.client, Digest(call.req), call.session) BY DEF Claim
  <1>2. Digest(call.req)[2] = call.req.preview BY DEF Digest
  <1> QED BY <1>1, <1>2 DEF ClaimInv

(* ShownInv is kept while the call does not move.                          *)
LEMMA ShownQuiet ==
  ASSUME ShownInv, ClaimInv, SessKept, call' = call
  PROVE  ShownInv'
  <1>1. \A s \in DOMAIN session' : SameTuple(session'[s], session'[s].shown) /\ RanOK(session'[s])
    BY DEF ShownInv, SessKept, SameSession, SameTuple
  <1>2. ASSUME call.pc \in {"reserved", "launch"}
        PROVE  SameSession(session[call.session], session'[call.session])
    BY <1>2, CallDomain DEF Tried, SessKept
  <1>3. call.pc \in {"reserved", "launch"} =>
         call.tuple.binary = session'[call.session].shown.binary \/ session'[call.session].replayed
    BY <1>2 DEF ShownInv, SameSession
  <1>4. call.pc = "launch" => SameTuple(session'[call.session], call.tuple)
    BY <1>2 DEF ShownInv, SameSession, SameTuple
  <1> QED BY <1>1, <1>3, <1>4 DEF ShownInv

(* The inductive invariant.                                                *)
IInv == Shape /\ FreshInv /\ Used /\ ClaimInv /\ ShownInv

(* Registry and credential steps keep the invariant.                       *)
LEMMA RegistryInv ==
  ASSUME IInv, RegStep
  PROVE  IInv'
  <1>1. RegOK /\ RowInv /\ PrevOK /\ SessOK /\ CallOK /\ LedgerOK BY DEF IInv, Shape
  <1>2. FreshInv' BY <1>1, FreshRegistry DEF IInv
  <1>3. UNCHANGED <<preview, session, ledger, call, faults, answers>> BY DEF RegStep, Kept
  <1>4. SessKept BY <1>1, <1>3, SessSame
  <1>5. PrevOK' /\ SessOK' /\ CallOK' /\ LedgerOK'
    BY <1>1, <1>3 DEF PrevOK, SessOK, CallOK, LedgerOK
  <1>6. Used' BY <1>3, <1>4, UsedFrame DEF IInv
  <1>7. \A u, d, s : Claim(u, d, s)' => Claim(u, d, s) BY <1>3 DEF Claim
  <1>8. ClaimInv' BY <1>4, <1>7, ClaimFrame DEF IInv
  <1>9. ShownInv' BY <1>3, <1>4, ShownQuiet DEF IInv
  <1>10. Shape' BY <1>5 DEF Shape, RegStep
  <1> QED BY <1>2, <1>6, <1>8, <1>9, <1>10 DEF IInv

(* sessions.preview keeps the invariant.                                   *)
LEMMA PreviewInv ==
  ASSUME IInv, NEW v \in Previews, NEW row, PrevSet(v, row)
  PROVE  IInv'
  <1>1. RegOK /\ RowInv /\ PrevOK /\ SessOK /\ CallOK /\ LedgerOK BY DEF IInv, Shape
  <1>2. /\ preview' = [preview EXCEPT ![v] = row] /\ row \in PreviewRecord
        /\ preview[v].session = 0 /\ row.session = 0
        /\ preview[v].pc # "gone" /\ (preview[v].pc = "open" => row.pc = "open")
        /\ UNCHANGED <<registry, session, ledger, call, edits, faults, answers>>
        /\ touched' \in [Previews -> BOOLEAN]
        /\ \A w \in Previews : w # v => touched'[w] = touched[w]
        /\ Sound(row, touched'[v])
    BY DEF PrevSet
  <1>3. /\ preview' \in [Previews -> PreviewRecord] /\ preview'[v] = row
        /\ \A w \in Previews : w # v => preview'[w] = preview[w]
    BY <1>1, <1>2 DEF PrevOK
  <1>4. RegOK' /\ RowInv' /\ SessOK' /\ CallOK' /\ LedgerOK' /\ PrevOK'
    <2>1. RegOK' BY <1>1, <1>2 DEF RegOK, registry
    <2>2. RowInv' BY <1>1, <1>2 DEF RowInv, registry
    <2>3. SessOK' /\ CallOK' /\ LedgerOK' BY <1>1, <1>2 DEF SessOK, CallOK, LedgerOK
    <2> QED BY <2>1, <2>2, <2>3, <1>3 DEF PrevOK
  <1>5. FreshInv'
    <2> SUFFICES ASSUME NEW w \in Previews PROVE Sound(preview[w], touched[w])'
      BY DEF FreshInv
    <2>1. CASE w = v
      BY <2>1, <1>2, <1>3 DEF Sound, Behind, Stale, registry
    <2>2. CASE w # v
      <3>1. Sound(preview[w], touched[w]) BY DEF IInv, FreshInv
      <3>2. preview'[w] = preview[w] /\ touched'[w] = touched[w] BY <2>2, <1>2, <1>3
      <3> QED BY <3>1, <3>2, <1>2 DEF Sound, Behind, Stale, registry
    <2> QED BY <2>1, <2>2
  <1>6. SessKept BY <1>1, <1>2, SessSame
  <1>7. \A s \in DOMAIN session : s # 0 /\ session[s].preview \in Previews
    BY <1>1, SessTypes DEF SessionRecord
  <1>8. \A s \in DOMAIN session : session[s].preview # v
    BY <1>2, <1>7 DEF IInv, Used
  <1>9. Used'
    BY <1>2, <1>3, <1>7, <1>8 DEF IInv, Used
  <1>10. \A u, d, s : Claim(u, d, s)' => Claim(u, d, s)
    BY <1>2, <1>3 DEF Claim
  <1>11. ClaimInv' BY <1>6, <1>10, ClaimFrame DEF IInv
  <1>12. ShownInv' BY <1>2, <1>6, ShownQuiet DEF IInv
  <1> QED BY <1>4, <1>5, <1>9, <1>11, <1>12 DEF IInv, Shape

(* The part of ShownInv about the running call.                            *)
CallShown ==
  /\ call.pc \in {"reserved", "launch"} =>
       \/ call.tuple.binary = session[call.session].shown.binary
       \/ session[call.session].replayed
  /\ call.pc = "launch" => SameTuple(session[call.session], call.tuple)

(* A step of sessions.start that inserts no Session keeps the invariant.   *)
LEMMA StartDone ==
  ASSUME IInv, UNCHANGED <<registry, edits, touched, preview>>, SessKept,
         CallOK', LedgerOK', CallShown', \A u, d, s : Claim(u, d, s)' => Claim(u, d, s)
  PROVE  IInv'
  <1>1. RegOK' /\ RowInv' /\ FreshInv' BY FreshFrame DEF IInv, Shape
  <1>2. PrevOK' BY DEF IInv, Shape, PrevOK
  <1>3. SessOK' BY DEF SessKept, SessOK
  <1>4. Used' BY UsedFrame DEF IInv
  <1>5. ClaimInv' BY ClaimFrame DEF IInv
  <1>6. \A s \in DOMAIN session' : SameTuple(session'[s], session'[s].shown) /\ RanOK(session'[s])
    BY DEF IInv, ShownInv, SessKept, SameSession, SameTuple
  <1>7. ShownInv' BY <1>6 DEF ShownInv, CallShown
  <1> QED BY <1>1, <1>2, <1>3, <1>4, <1>5, <1>7 DEF IInv, Shape

(* A call that has ended.                                                  *)
LEMMA IdleCall ==
  ASSUME call' = Idle
  PROVE  CallOK' /\ CallShown' /\ call'.pc = "idle" /\ call'.pc \notin Tried
  BY EmptyRows DEF CallOK, CallShown, Tried

(* The types that steps of a call rely on.                                 *)
LEMMA StartTypes ==
  ASSUME IInv
  PROVE  /\ RegOK /\ RowInv /\ PrevOK /\ SessOK /\ CallOK /\ LedgerOK
         /\ call \in CallRecord
         /\ call.pc # "idle" => /\ call.req \in Requests /\ call.tuple.profile \in Profiles
                                /\ call.tuple.account \in Accounts
                                /\ call.tuple.cred \in Credentials /\ call.tuple \in TupleType
  BY DEF IInv, Shape, CallOK, CallRecord

(* An answer from the ledger repeats a claim.                              *)
LEMMA IdempotentInv ==
  ASSUME IInv, NEW r \in Requests, WithIdempotency(r)
  PROVE  IInv'
  <1>1. /\ call' = Idle /\ UNCHANGED <<registry, edits, faults, touched, preview, session, ledger>>
        /\ answers' = answers \cup {[req |-> r, session |-> e.session] :
                                e \in {e \in Recorded(r) : e.digest = Digest(r)}}
    BY DEF WithIdempotency, Goto
  <1>2. \A a \in answers' : \/ a \in answers
                            \/ \E e \in ledger : /\ e.client = r.client /\ e.digest = Digest(r)
                                                 /\ a = [req |-> r, session |-> e.session]
    BY <1>1 DEF Recorded
  <1>3. SessKept BY <1>1, StartTypes, SessSame
  <1>4. \A e \in ledger : e.session \in Nat BY StartTypes DEF LedgerOK
  <1>5. LedgerOK'
    <2>1. ASSUME NEW a \in answers' PROVE a \in [req : Requests, session : Nat]
      BY <1>2, <1>4, StartTypes DEF LedgerOK
    <2> QED BY <1>1, <2>1, StartTypes DEF LedgerOK
  <1>6. ASSUME NEW u, NEW d, NEW s, Claim(u, d, s)' PROVE Claim(u, d, s)
    <2>1. CASE \E a \in answers' : a.session = s /\ a.req.client = u /\ Digest(a.req) = d
      <3>1. PICK a \in answers' : a.session = s /\ a.req.client = u /\ Digest(a.req) = d BY <2>1
      <3>2. CASE a \in answers BY <3>1, <3>2 DEF Claim
      <3>3. CASE a \notin answers
        <4>1. PICK e \in ledger : e.client = r.client /\ e.digest = Digest(r)
                                  /\ a = [req |-> r, session |-> e.session]
          BY <1>2, <3>3
        <4>2. e.session = s /\ e.client = u /\ e.digest = d BY <3>1, <4>1
        <4> QED BY <4>2 DEF Claim
      <3> QED BY <3>2, <3>3
    <2>2. CASE ~\E a \in answers' : a.session = s /\ a.req.client = u /\ Digest(a.req) = d
      <3>1. call'.pc \notin Tried BY <1>1, IdleCall
      <3> QED BY <1>6, <2>2, <3>1, <1>1 DEF Claim
    <2> QED BY <2>1, <2>2
  <1> QED BY <1>1, <1>3, <1>5, <1>6, IdleCall, StartDone

(* A call that keeps its Session makes no new claim.                       *)
LEMMA QuietClaims ==
  ASSUME UNCHANGED <<answers, ledger, preview>>,
         call'.pc \in Tried => call.pc \in Tried /\ call'.session = call.session /\ call'.req = call.req
  PROVE  \A u, d, s : Claim(u, d, s)' => Claim(u, d, s)
  BY DEF Claim

(* A resolved binding keeps the invariant.                                 *)
LEMMA ResolveInv ==
  ASSUME IInv, NEW r \in Requests, ResolveProfile(r)
  PROVE  IInv'
  <1>1. PICK p \in ProfileOf(r.alias) :
         /\ profile[p].cred # None
         /\ Goto([Idle EXCEPT !.pc = "consume", !.req = r, !.tuple = [NoTuple EXCEPT
              !.profile = p, !.account = profile[p].account, !.cred = profile[p].cred,
              !.binary = binary]])
    BY DEF ResolveProfile
  <1> DEFINE a == profile[p].account
             c == profile[p].cred
             t == [NoTuple EXCEPT !.profile = p, !.account = a, !.cred = c, !.binary = binary]
             new == [Idle EXCEPT !.pc = "consume", !.req = r, !.tuple = t]
  <1>2. p \in Profiles /\ profile[p].state = "row" BY DEF ProfileOf, Rows
  <1>3. a \in Accounts BY <1>2, StartTypes DEF RowInv
  <1>4. profile[p] \in ProfileRecord BY <1>2, RowTypes, StartTypes
  <1>5. c \in Credentials BY <1>1, <1>4 DEF ProfileRecord
  <1>6. binary \in Nat BY StartTypes DEF RegOK
  <1>7. call' = new /\ UNCHANGED <<registry, edits, faults, touched, preview, session, ledger, answers>>
    BY <1>1 DEF Goto, ResolveProfile
  <1> HIDE DEF a, c
  <1>8. t \in TupleType BY <1>2, <1>3, <1>5, <1>6 DEF TupleType, NoTuple
  <1>9. t.profile = p /\ t.account = a /\ t.cred = c BY DEF NoTuple
  <1> HIDE DEF t
  <1>10. new \in CallRecord /\ new.pc = "consume" /\ new.req = r /\ new.tuple = t /\ new.session = 0
    BY <1>8 DEF Idle, CallRecord
  <1> HIDE DEF new
  <1>11. CallOK' BY <1>2, <1>3, <1>5, <1>7, <1>9, <1>10 DEF CallOK
  <1>12. CallShown' BY <1>7, <1>10 DEF CallShown
  <1>13. LedgerOK' BY <1>7, StartTypes DEF LedgerOK
  <1>14. SessKept BY <1>7, StartTypes, SessSame
  <1>15. \A u, d, s : Claim(u, d, s)' => Claim(u, d, s)
    BY <1>7, <1>10, QuietClaims DEF Tried
  <1> QED BY <1>7, <1>11, <1>12, <1>13, <1>14, <1>15, StartDone

(* A call that moves on keeps its request and its tuple.                   *)
LEMMA MovedCall ==
  ASSUME IInv, NEW pc \in Tried, NEW s \in Nat, call.pc # "idle",
         call' = [call EXCEPT !.pc = pc, !.session = s]
  PROVE  CallOK' /\ call'.pc = pc /\ call'.session = s /\ call'.req = call.req
         /\ call'.tuple = call.tuple
  <1>1. call \in CallRecord BY StartTypes
  <1>2. call' \in CallRecord /\ call'.pc = pc /\ call'.session = s /\ call'.req = call.req
        /\ call'.tuple = call.tuple
    BY <1>1 DEF CallRecord, Tried
  <1> QED BY <1>2, StartTypes DEF CallOK, Tried

(* A call that ends without an answer.                                     *)
LEMMA EndedCall ==
  ASSUME IInv, call.pc # "idle", call' = Idle, UNCHANGED <<registry, edits, touched, preview>>,
         SessKept, UNCHANGED <<ledger, answers, faults>>
  PROVE  IInv'
  <1>1. CallOK' /\ CallShown' /\ call'.pc \notin Tried BY IdleCall
  <1>2. LedgerOK' BY StartTypes DEF LedgerOK
  <1>3. \A u, d, s : Claim(u, d, s)' => Claim(u, d, s) BY <1>1, QuietClaims
  <1> QED BY <1>1, <1>2, <1>3, StartDone

(* StartReserved launches only the tuple of the Session.                   *)
LEMMA StartReservedInv ==
  ASSUME IInv, StartReserved
  PROVE  IInv'
  <1>1. call.pc = "reserved" /\ UNCHANGED <<preview, session, ledger, answers>>
    BY DEF StartReserved
  <1>2. SessKept BY <1>1, StartTypes, SessSame
  <1>3. call.session \in Nat /\ call \in CallRecord BY StartTypes DEF CallRecord
  <1>4. ASSUME NEW pc \in {"record", "launch"}, Goto([call EXCEPT !.pc = pc]),
               pc = "launch" => SameTuple(session[call.session], call.tuple)
        PROVE  IInv'
    <2>1. call' = [call EXCEPT !.pc = pc, !.session = call.session]
      BY <1>3, <1>4 DEF Goto, CallRecord
    <2>2. CallOK' /\ call'.pc = pc /\ call'.session = call.session /\ call'.req = call.req
          /\ call'.tuple = call.tuple
      BY <1>1, <1>3, <1>4, <2>1, MovedCall DEF Tried
    <2>3. CallShown' BY <1>1, <1>4, <2>2 DEF CallShown, IInv, ShownInv, SameTuple
    <2>4. LedgerOK' BY <1>1, <1>4, StartTypes DEF LedgerOK, Goto
    <2>5. \A u, d, s : Claim(u, d, s)' => Claim(u, d, s)
      BY <1>1, <2>2, QuietClaims DEF Tried
    <2> QED BY <1>1, <1>2, <1>4, <2>2, <2>3, <2>4, <2>5, StartDone DEF Goto
  <1>5. CASE Goto(Idle) BY <1>1, <1>2, <1>5, EndedCall DEF Goto
  <1> QED BY <1>4, <1>5 DEF StartReserved

(* The ledger record and the answer repeat the claim of the call.          *)
LEMMA RecordInv ==
  ASSUME IInv, Record
  PROVE  IInv'
  <1> DEFINE r == call.req
  <1>1. /\ call.pc = "record" /\ call' = Idle
        /\ UNCHANGED <<registry, edits, touched, preview, session>>
    BY DEF Record
  <1>2. SessKept BY <1>1, StartTypes, SessSame
  <1>3. r \in Requests /\ call.session \in Nat BY <1>1, StartTypes DEF CallRecord
  <1>4. CASE /\ ledger' = ledger \cup {[client |-> r.client, key |-> r.key,
                                   digest |-> Digest(r), session |-> call.session]}
             /\ answers' = answers \cup {[req |-> r, session |-> call.session]}
             /\ UNCHANGED faults
    <2>1. LedgerOK' BY <1>3, <1>4, StartTypes DEF LedgerOK, Digests
    <2>2. Claim(r.client, Digest(r), call.session) BY <1>1 DEF Claim, Tried
    <2>3. ASSUME NEW u, NEW d, NEW s, Claim(u, d, s)' PROVE Claim(u, d, s)
      <3>1. CASE \E a \in answers' : a.session = s /\ a.req.client = u /\ Digest(a.req) = d
        <4>1. PICK a \in answers' : a.session = s /\ a.req.client = u /\ Digest(a.req) = d BY <3>1
        <4>2. CASE a \in answers BY <4>1, <4>2 DEF Claim
        <4>3. CASE a = [req |-> r, session |-> call.session]
          <5>1. u = r.client /\ d = Digest(r) /\ s = call.session BY <4>1, <4>3
          <5> QED BY <5>1, <2>2
        <4> QED BY <1>4, <4>2, <4>3
      <3>2. CASE \E e \in ledger' : e.session = s /\ e.client = u /\ e.digest = d
        <4>1. PICK e \in ledger' : e.session = s /\ e.client = u /\ e.digest = d BY <3>2
        <4>2. CASE e \in ledger BY <4>1, <4>2 DEF Claim
        <4>3. CASE e = [client |-> r.client, key |-> r.key, digest |-> Digest(r), session |-> call.session]
          <5>1. u = r.client /\ d = Digest(r) /\ s = call.session BY <4>1, <4>3
          <5> QED BY <5>1, <2>2
        <4> QED BY <1>4, <4>2, <4>3
      <3>3. call'.pc \notin Tried BY <1>1, IdleCall
      <3> QED BY <2>3, <3>1, <3>2, <3>3, <1>1 DEF Claim
    <2> QED BY <1>1, <1>2, <2>1, <2>3, IdleCall, StartDone
  <1>5. CASE faults < MaxFaults /\ faults' = faults + 1 /\ UNCHANGED <<ledger, answers>>
    <2>1. LedgerOK' BY <1>5, StartTypes, Constants DEF LedgerOK
    <2>2. CallOK' /\ CallShown' /\ call'.pc \notin Tried BY <1>1, IdleCall
    <2>3. \A u, d, s : Claim(u, d, s)' => Claim(u, d, s) BY <1>1, <1>5, <2>2, QuietClaims
    <2> QED BY <1>1, <1>2, <2>1, <2>2, <2>3, StartDone
  <1> QED BY <1>4, <1>5 DEF Record

(* A new status keeps the Session.                                         *)
LEMMA StatusSet ==
  ASSUME SessOK, NEW s \in DOMAIN session, NEW st \in {"starting", "running", "failed", "ended"},
         SetStatus(s, st)
  PROVE  SessKept
  <1> DEFINE r == [session[s] EXCEPT !.status = st]
  <1>1. session[s] \in SessionRecord BY SessTypes
  <1>2. r \in SessionRecord BY <1>1 DEF SessionRecord
  <1>3. /\ r.profile = session[s].profile /\ r.account = session[s].account
        /\ r.cred = session[s].cred /\ r.preview = session[s].preview
        /\ r.shown = session[s].shown /\ r.replayed = session[s].replayed
        /\ r.ran = session[s].ran
    BY <1>1 DEF SessionRecord
  <1>4. session' = [session EXCEPT ![s] = r] BY DEF SetStatus
  <1> HIDE DEF r
  <1>5. SameSession(session[s], r) BY <1>3 DEF SameSession, RanOK
  <1> QED BY <1>2, <1>4, <1>5, SessSet

(* A Session that ends.                                                    *)
LEMMA EndsInv ==
  ASSUME IInv, NEW s \in DOMAIN session, SessionEnds(s)
  PROVE  IInv'
  <1>1. UNCHANGED <<registry, preview, ledger, call, edits, faults, touched, answers>>
        /\ SetStatus(s, "ended")
    BY DEF SessionEnds
  <1>2. SessKept BY <1>1, StatusSet, StartTypes
  <1>3. CallOK' /\ LedgerOK' BY <1>1, StartTypes DEF CallOK, LedgerOK
  <1>4. ShownInv' BY <1>1, <1>2, ShownQuiet DEF IInv
  <1>5. CallShown' BY <1>4 DEF ShownInv, CallShown
  <1>6. \A u, d, t : Claim(u, d, t)' => Claim(u, d, t) BY <1>1, QuietClaims
  <1> QED BY <1>1, <1>2, <1>3, <1>5, <1>6, StartDone

(* Launch runs the tuple of the call, which is the one that was shown.     *)
LEMMA LaunchInv ==
  ASSUME IInv, Launch
  PROVE  IInv'
  <1> DEFINE s == call.session
             x == session[call.session]
  <1>1. call.pc = "launch" /\ UNCHANGED <<preview, ledger, answers>> BY DEF Launch
  <1>2. s \in DOMAIN session BY <1>1, CallDomain DEF IInv, Tried
  <1>3. call \in CallRecord /\ call.tuple \in TupleType /\ s \in Nat
    BY <1>1, StartTypes DEF CallRecord
  <1>4. x \in SessionRecord /\ x.shown \in TupleType BY <1>2, SessTypes, StartTypes DEF SessionRecord
  <1>5. CASE /\ binary = call.tuple.binary
             /\ session' = [session EXCEPT ![s].status = "running",
                   ![s].ran = [call.tuple EXCEPT !.binary = binary]]
             /\ Goto([call EXCEPT !.pc = "record"])
    <2> DEFINE ran == [call.tuple EXCEPT !.binary = binary]
               r == [x EXCEPT !.status = "running", !.ran = ran]
    <2>1. binary \in Nat BY StartTypes DEF RegOK
    <2>2. ran \in TupleType BY <1>3, <2>1 DEF TupleType
    <2>3. ran.profile = call.tuple.profile /\ ran.account = call.tuple.account
          /\ ran.cred = call.tuple.cred /\ ran.binary = call.tuple.binary
      BY <1>3, <1>5 DEF TupleType
    <2>4. session' = [session EXCEPT ![s] = r] BY <1>2, <1>5, SessTypes, StartTypes DEF SessOK
    <2> HIDE DEF ran
    <2>5. r \in SessionRecord BY <1>4, <2>2 DEF SessionRecord
    <2>6. /\ r.profile = x.profile /\ r.account = x.account /\ r.cred = x.cred
          /\ r.preview = x.preview /\ r.shown = x.shown /\ r.replayed = x.replayed /\ r.ran = ran
      BY <1>4 DEF SessionRecord
    <2> HIDE DEF r
    <2>7. /\ SameTuple(x, call.tuple) /\ SameTuple(x, x.shown)
          /\ call.tuple.binary = x.shown.binary \/ x.replayed
      BY <1>1, <1>2 DEF IInv, ShownInv
    <2>8. RanOK(r) BY <2>3, <2>6, <2>7 DEF RanOK, SameTuple
    <2>9. SameSession(x, r) BY <2>6, <2>8 DEF SameSession
    <2>10. SessKept BY <1>2, <2>4, <2>5, <2>9, SessSet, StartTypes
    <2>11. call' = [call EXCEPT !.pc = "record", !.session = s]
           /\ UNCHANGED <<registry, edits, faults, touched>>
      BY <1>3, <1>5 DEF Goto, CallRecord
    <2>12. CallOK' /\ call'.pc = "record" /\ call'.session = s /\ call'.req = call.req
      BY <1>1, <1>3, <2>11, MovedCall DEF Tried
    <2>13. CallShown' BY <2>12 DEF CallShown
    <2>14. LedgerOK' BY <1>1, <2>11, StartTypes DEF LedgerOK
    <2>15. \A u, d, t : Claim(u, d, t)' => Claim(u, d, t)
      BY <1>1, <2>12, QuietClaims DEF Tried
    <2> QED BY <1>1, <2>10, <2>11, <2>12, <2>13, <2>14, <2>15, StartDone
  <1>6. CASE SetStatus(s, "failed") /\ Goto(Idle)
    <2>1. SessKept BY <1>2, <1>6, StatusSet, StartTypes
    <2> QED BY <1>1, <1>6, <2>1, EndedCall DEF Goto
  <1> QED BY <1>5, <1>6 DEF Launch

(* A replay names the Session of the preview it owns.                      *)
LEMMA ReplayInv ==
  ASSUME IInv, call.pc = "consume", preview[call.req.preview].pc = "open",
         Owner[call.req.preview] = call.req.client, preview[call.req.preview].session # 0,
         preview[call.req.preview].digest = Digest(call.req),
         Goto([call EXCEPT !.pc = "reserved", !.session = preview[call.req.preview].session]),
         session' = [session EXCEPT ![preview[call.req.preview].session].replayed = TRUE],
         UNCHANGED <<preview, ledger, answers>>
  PROVE  IInv'
  <1> DEFINE v == call.req.preview
             s == preview[call.req.preview].session
             r == [session[s] EXCEPT !.replayed = TRUE]
  <1>1. v \in Previews BY StartTypes, Constants
  <1>2. s \in DOMAIN session BY <1>1 DEF IInv, Used
  <1>3. s \in Nat BY <1>1, StartTypes DEF PrevOK, PreviewRecord
  <1>4. session[s] \in SessionRecord BY <1>2, SessTypes, StartTypes
  <1>5. r \in SessionRecord BY <1>4 DEF SessionRecord
  <1>6. /\ r.profile = session[s].profile /\ r.account = session[s].account
        /\ r.cred = session[s].cred /\ r.preview = session[s].preview
        /\ r.shown = session[s].shown /\ r.ran = session[s].ran
    BY <1>4 DEF SessionRecord
  <1>7. r.replayed BY <1>4 DEF SessionRecord
  <1> HIDE DEF r
  <1>8. SameSession(session[s], r) BY <1>6, <1>7 DEF SameSession, RanOK
  <1>9. session' = [session EXCEPT ![s] = r] BY DEF r
  <1>10. SessKept /\ session'[s] = r BY <1>2, <1>5, <1>8, <1>9, SessSet, StartTypes
  <1>11. CallOK' /\ call'.pc = "reserved" /\ call'.session = s /\ call'.req = call.req
         /\ UNCHANGED <<registry, edits, faults, touched>>
    BY <1>3, MovedCall DEF Tried, Goto
  <1>12. CallShown' BY <1>7, <1>10, <1>11 DEF CallShown
  <1>13. LedgerOK' BY <1>11, StartTypes DEF LedgerOK
  <1>14. ASSUME NEW u, NEW d, NEW t, Claim(u, d, t)' PROVE Claim(u, d, t)
    <2>1. Claim(call.req.client, Digest(call.req), s) BY <1>1 DEF Claim
    <2>2. CASE call'.session = t /\ call'.req.client = u /\ Digest(call'.req) = d
      BY <1>11, <2>1, <2>2
    <2>3. CASE ~(call'.session = t /\ call'.req.client = u /\ Digest(call'.req) = d)
      BY <1>14, <2>3 DEF Claim
    <2> QED BY <2>2, <2>3
  <1> QED BY <1>10, <1>11, <1>12, <1>13, <1>14, StartDone

(* What a consumed tuple keeps.                                            *)
LEMMA NamesFacts ==
  ASSUME NEW t \in TupleType
  PROVE  /\ Names(t) \in TupleType /\ Names(t).profile = t.profile
         /\ Names(t).account = t.account /\ Names(t).cred = t.cred
         /\ Names(t).binary = t.binary
  <1>1. Names(t) \in TupleType BY DEF Names, TupleType
  <1>2. /\ Names(t).profile = t.profile /\ Names(t).account = t.account
        /\ Names(t).cred = t.cred /\ Names(t).binary = t.binary
    BY DEF Names, TupleType
  <1> QED BY <1>1, <1>2

(* A new Session has the next number.                                      *)
LEMMA AppendFacts ==
  ASSUME SessOK, NEW x \in SessionRecord, session' = Append(session, x)
  PROVE  /\ session' \in Seq(SessionRecord) /\ Len(session) + 1 \in Nat \ {0}
         /\ Len(session) + 1 \notin DOMAIN session
         /\ DOMAIN session' = DOMAIN session \cup {Len(session) + 1}
         /\ session'[Len(session) + 1] = x
         /\ \A s \in DOMAIN session : session'[s] = session[s]
  <1>1. Len(session) \in Nat /\ DOMAIN session = 1..Len(session) BY SessTypes
  <1>2. /\ session' \in Seq(SessionRecord) /\ Len(session') = Len(session) + 1
        /\ \A i \in 1..Len(session) : session'[i] = session[i]
        /\ session'[Len(session) + 1] = x
    BY AppendProperties DEF SessOK
  <1>3. DOMAIN session' = 1..(Len(session) + 1) BY <1>2
  <1> QED BY <1>1, <1>2, <1>3

(* A preview that the transaction confirms is not stale, so nothing has    *)
(* touched it.                                                             *)
LEMMA ConfirmFresh ==
  ASSUME IInv, NEW v \in Previews, NEW t, preview[v].pc = "open", preview[v].session = 0,
         Confirms(v, t)
  PROVE  ~touched[v] /\ SameTuple(t, preview[v].shown) /\ t.binary = preview[v].shown.binary
  <1> DEFINE w == preview[v].shown
  <1>1. /\ SameTuple(t, w) /\ t.binary = w.binary /\ AccountIs(w) /\ ProfileIs(w) /\ CredIs(w)
        /\ account[w.account].usage = w.usage /\ ValidateSessionLinks(t)
    BY DEF Confirms
  <1>2. /\ touched[v] => Stale(w, TRUE)
        /\ w \in TupleType /\ w.account \in Accounts /\ w.cred \in Credentials /\ w.profile \in Profiles
    BY StartTypes, SoundRow DEF IInv
  <1>3. ~cred[w.cred].revoking /\ cred[w.cred].status = "healthy" /\ cred[w.cred].rev = w.crev
    BY <1>1 DEF ValidateSessionLinks, SameTuple, CredIs
  <1>4. account[w.account].state = "row" /\ account[w.account].rev = w.arev
        /\ account[w.account].usage = w.usage
    BY <1>1 DEF AccountIs
  <1>5. profile[w.profile].state = "row" /\ profile[w.profile].rev = w.prev
    BY <1>1 DEF ProfileIs, Rows
  <1>6. w.prev \in Nat /\ w.arev \in Nat /\ w.usage \in Nat /\ w.crev \in Nat
    BY <1>2 DEF TupleType
  <1>7. ~Stale(w, TRUE) BY <1>3, <1>4, <1>5, <1>6 DEF Stale
  <1> QED BY <1>1, <1>2, <1>7

(* The transaction that consumes a preview and inserts its Session.        *)
LEMMA InsertInv ==
  ASSUME IInv, call.pc = "consume", preview[call.req.preview].pc = "open",
         Owner[call.req.preview] = call.req.client, preview[call.req.preview].session = 0,
         Confirms(call.req.preview, call.tuple), Insert(call.req.preview),
         UNCHANGED <<ledger, answers>>
  PROVE  IInv'
  <1> DEFINE v == call.req.preview
             s == Len(session) + 1
             w == preview[v].shown
             nw == Names(w)
             dg == Digest(call.req)
             x == [profile |-> call.tuple.profile, account |-> call.tuple.account,
                   cred |-> call.tuple.cred, status |-> "starting", preview |-> v,
                   shown |-> nw, ran |-> NoTuple, replayed |-> FALSE]
             row == [preview[v] EXCEPT !.shown = nw, !.digest = dg, !.session = s]
  <1>1. v \in Previews /\ call.req \in Requests BY StartTypes, Constants
  <1>2. preview[v] \in PreviewRecord /\ w \in TupleType
    BY <1>1, StartTypes DEF PrevOK, PreviewRecord
  <1>3. /\ nw \in TupleType /\ nw.profile = w.profile
        /\ nw.account = w.account /\ nw.cred = w.cred /\ nw.binary = w.binary
    BY <1>2, NamesFacts
  <1>4. SameTuple(call.tuple, w) /\ call.tuple.binary = w.binary
    BY <1>1, ConfirmFresh
  <1>5. /\ session' = Append(session, x) /\ preview' = [preview EXCEPT ![v] = row]
        /\ call' = [call EXCEPT !.pc = "reserved", !.session = s]
        /\ UNCHANGED <<registry, edits, faults, touched, ledger, answers>>
    BY <1>1, StartTypes DEF Insert, Goto, PrevOK, PreviewRecord
  <1>6. dg \in Digests BY <1>1 DEF Digests
  <1> HIDE DEF nw, dg
  <1>7. x \in SessionRecord BY <1>1, <1>3, EmptyRows, StartTypes DEF SessionRecord
  <1>8. /\ x.profile = call.tuple.profile /\ x.account = call.tuple.account
        /\ x.cred = call.tuple.cred /\ x.preview = v /\ x.shown = nw /\ x.ran = NoTuple
    OBVIOUS
  <1> HIDE DEF x
  <1>9. /\ session' \in Seq(SessionRecord) /\ s \in Nat \ {0} /\ s \notin DOMAIN session
        /\ DOMAIN session' = DOMAIN session \cup {s} /\ session'[s] = x
        /\ \A t \in DOMAIN session : session'[t] = session[t]
    BY <1>5, <1>7, StartTypes, AppendFacts
  <1> HIDE DEF s
  <1>10. row \in PreviewRecord BY <1>2, <1>3, <1>6, <1>9 DEF PreviewRecord
  <1>11. row.pc = "open" /\ row.digest = dg /\ row.session = s
    BY <1>2 DEF PreviewRecord
  <1> HIDE DEF row
  <1>12. /\ preview' \in [Previews -> PreviewRecord] /\ preview'[v] = row
         /\ \A z \in Previews : z # v => preview'[z] = preview[z]
    BY <1>1, <1>5, <1>10, StartTypes DEF PrevOK
  <1>13. CallOK' /\ call'.pc = "reserved" /\ call'.session = s /\ call'.req = call.req
         /\ call'.tuple = call.tuple
    BY <1>5, <1>9, MovedCall DEF Tried
  <1>14. RegOK' /\ RowInv' /\ LedgerOK' /\ SessOK' /\ PrevOK'
    <2>1. RegOK' BY <1>5, StartTypes DEF RegOK, registry
    <2>2. RowInv' BY <1>5, StartTypes DEF RowInv, registry
    <2>3. LedgerOK' BY <1>5, StartTypes DEF LedgerOK
    <2> QED BY <2>1, <2>2, <2>3, <1>9, <1>12 DEF SessOK, PrevOK
  <1>15. FreshInv'
    <2> SUFFICES ASSUME NEW z \in Previews PROVE Sound(preview[z], touched[z])'
      BY DEF FreshInv
    <2>1. CASE z = v BY <2>1, <1>9, <1>11, <1>12 DEF Sound
    <2>2. CASE z # v
      <3>1. Sound(preview[z], touched[z]) BY DEF IInv, FreshInv
      <3>2. preview'[z] = preview[z] /\ touched'[z] = touched[z] BY <2>2, <1>5, <1>12
      <3> QED BY <3>1, <3>2, <1>5 DEF Sound, Behind, Stale, registry
    <2> QED BY <2>1, <2>2
  <1>16. \A t \in DOMAIN session : t # 0 /\ session[t].preview \in Previews
    BY SessTypes, StartTypes DEF SessionRecord
  <1>17. \A t \in DOMAIN session : session[t].preview # v
    BY <1>16 DEF IInv, Used
  <1>18. Used'
    <2>1. \A t \in DOMAIN session' :
            \/ preview'[session'[t].preview].pc = "gone"
            \/ /\ preview'[session'[t].preview].pc = "open"
               /\ preview'[session'[t].preview].session = t
      <3> SUFFICES ASSUME NEW t \in DOMAIN session'
                   PROVE  \/ preview'[session'[t].preview].pc = "gone"
                          \/ /\ preview'[session'[t].preview].pc = "open"
                             /\ preview'[session'[t].preview].session = t
        OBVIOUS
      <3>1. CASE t = s BY <3>1, <1>8, <1>9, <1>11, <1>12
      <3>2. CASE t \in DOMAIN session
        <4>1. session'[t] = session[t] /\ preview'[session[t].preview] = preview[session[t].preview]
          BY <3>2, <1>9, <1>12, <1>16, <1>17
        <4> QED BY <3>2, <4>1 DEF IInv, Used
      <3> QED BY <3>1, <3>2, <1>9
    <2>2. \A z \in Previews : preview'[z].session # 0 =>
            /\ preview'[z].pc = "open" /\ preview'[z].session \in DOMAIN session'
            /\ session'[preview'[z].session].preview = z
      <3> SUFFICES ASSUME NEW z \in Previews, preview'[z].session # 0
                   PROVE  /\ preview'[z].pc = "open" /\ preview'[z].session \in DOMAIN session'
                          /\ session'[preview'[z].session].preview = z
        OBVIOUS
      <3>1. CASE z = v BY <3>1, <1>8, <1>9, <1>11, <1>12
      <3>2. CASE z # v
        <4>1. preview'[z] = preview[z] BY <3>2, <1>12
        <4>2. /\ preview[z].pc = "open" /\ preview[z].session \in DOMAIN session
              /\ session[preview[z].session].preview = z
          BY <4>1 DEF IInv, Used
        <4> QED BY <4>1, <4>2, <1>9
      <3> QED BY <3>1, <3>2
    <2>3. \A t, y \in DOMAIN session' : session'[t].preview = session'[y].preview => t = y
      BY <1>8, <1>9, <1>17 DEF IInv, Used
    <2> QED BY <2>1, <2>2, <2>3 DEF Used
  <1>19. ASSUME NEW u, NEW d, NEW t, Claim(u, d, t)'
         PROVE  \/ Claim(u, d, t) /\ t \in DOMAIN session
                \/ t = s /\ d = dg /\ u = call.req.client
    <2>1. CASE \E z \in Previews : preview'[z].session = t /\ t # 0 /\ Owner[z] = u
                                   /\ preview'[z].digest = d
      <3>1. PICK z \in Previews : preview'[z].session = t /\ t # 0 /\ Owner[z] = u
                                   /\ preview'[z].digest = d
        BY <2>1
      <3>2. CASE z = v BY <3>1, <3>2, <1>11, <1>12
      <3>3. CASE z # v
        <4>1. Claim(u, d, t) BY <3>1, <3>3, <1>12 DEF Claim
        <4> QED BY <4>1 DEF IInv, ClaimInv
      <3> QED BY <3>2, <3>3
    <2>2. CASE call'.session = t /\ call'.req.client = u /\ Digest(call'.req) = d
      BY <2>2, <1>13 DEF dg
    <2>3. CASE \/ \E a \in answers' : a.session = t /\ a.req.client = u /\ Digest(a.req) = d
               \/ \E e \in ledger' : e.session = t /\ e.client = u /\ e.digest = d
      <3>1. Claim(u, d, t) BY <2>3, <1>5 DEF Claim
      <3> QED BY <3>1 DEF IInv, ClaimInv
    <2> QED BY <1>19, <2>1, <2>2, <2>3 DEF Claim
  <1>20. dg[2] = v BY DEF dg, Digest
  <1>21. ClaimInv'
    <2>1. ASSUME NEW u, NEW d, NEW t, Claim(u, d, t)'
          PROVE  t \in DOMAIN session' /\ session'[t].preview = d[2] /\ Owner[d[2]] = u
      <3>1. CASE Claim(u, d, t) /\ t \in DOMAIN session
        BY <3>1, <1>9 DEF IInv, ClaimInv
      <3>2. CASE t = s /\ d = dg /\ u = call.req.client
        BY <3>2, <1>8, <1>9, <1>20
      <3> QED BY <2>1, <3>1, <3>2, <1>19
    <2>2. ASSUME NEW u, NEW z, NEW d, NEW e, NEW t, Claim(u, d, t)', Claim(z, e, t)'
          PROVE  d = e
      <3>1. CASE t = s
        <4>1. t \notin DOMAIN session BY <3>1, <1>9
        <4> QED BY <2>2, <4>1, <1>19
      <3>2. CASE t # s
        <4>1. Claim(u, d, t) /\ Claim(z, e, t) BY <2>2, <3>2, <1>19
        <4> QED BY <4>1 DEF IInv, ClaimInv
      <3> QED BY <3>1, <3>2
    <2> QED BY <2>1, <2>2 DEF ClaimInv
  <1>22. ShownInv'
    <2>1. SameTuple(x, x.shown) /\ RanOK(x) BY <1>3, <1>4, <1>8 DEF SameTuple, RanOK
    <2>2. \A t \in DOMAIN session' : SameTuple(session'[t], session'[t].shown) /\ RanOK(session'[t])
      BY <2>1, <1>9 DEF IInv, ShownInv
    <2>3. call'.tuple.binary = session'[call'.session].shown.binary
      BY <1>3, <1>4, <1>8, <1>9, <1>13
    <2> QED BY <2>2, <2>3, <1>13 DEF ShownInv
  <1> QED BY <1>13, <1>14, <1>15, <1>18, <1>21, <1>22 DEF IInv, Shape

(* Every outcome of ConsumeSessionStartPreview.                            *)
LEMMA ConsumeInv ==
  ASSUME IInv, ConsumeSessionStartPreview
  PROVE  IInv'
  <1> DEFINE v == call.req.preview
             mine == preview[v].pc = "open" /\ Owner[v] = call.req.client
             replay == mine /\ preview[v].session # 0 /\ preview[v].digest = Digest(call.req)
             first == mine /\ preview[v].session = 0 /\ Confirms(v, call.tuple)
  <1>1. call.pc = "consume" /\ UNCHANGED <<ledger, answers>> BY DEF ConsumeSessionStartPreview
  <1>2. CASE /\ replay
             /\ Goto([call EXCEPT !.pc = "reserved", !.session = preview[v].session])
             /\ session' = [session EXCEPT ![preview[v].session].replayed = TRUE]
             /\ UNCHANGED preview
    BY <1>1, <1>2, ReplayInv
  <1>3. CASE first /\ Insert(v)
    BY <1>1, <1>3, InsertInv
  <1>4. CASE Goto(Idle) /\ UNCHANGED <<preview, session>>
    <2>1. SessKept BY <1>4, SessSame, StartTypes
    <2> QED BY <1>1, <1>4, <2>1, EndedCall DEF Goto
  <1> QED BY <1>2, <1>3, <1>4 DEF ConsumeSessionStartPreview

(* A crash, with the purge of old previews at start-up.                    *)
LEMMA RestartInv ==
  ASSUME IInv, NEW old \in SUBSET Previews, Restart(old)
  PROVE  IInv'
  <1>1. /\ faults < MaxFaults /\ faults' = faults + 1 /\ call' = Idle
        /\ \A v \in old : preview[v].pc = "open"
        /\ touched' = [v \in Previews |-> touched[v] /\ v \notin old /\ preview[v].pc = "open"]
        /\ preview' = [v \in Previews |->
              IF v \in old \/ preview[v].pc # "open"
              THEN [NoPreview EXCEPT !.pc = IF v \in old \/ preview[v].pc = "gone"
                                            THEN "gone" ELSE "idle"]
              ELSE preview[v]]
        /\ UNCHANGED <<registry, session, ledger, edits, answers>>
    BY DEF Restart
  <1>2. ASSUME NEW v \in Previews, v \in old \/ preview[v].pc # "open"
        PROVE  /\ preview'[v] \in PreviewRecord /\ preview'[v].session = 0
               /\ preview'[v].pc = IF v \in old \/ preview[v].pc = "gone" THEN "gone" ELSE "idle"
               /\ ~touched'[v]
    <2> DEFINE pc == IF v \in old \/ preview[v].pc = "gone" THEN "gone" ELSE "idle"
    <2>1. preview'[v] = [NoPreview EXCEPT !.pc = pc] BY <1>1, <1>2
    <2>2. pc \in {"gone", "idle"} OBVIOUS
    <2>3. ~touched'[v] BY <1>1, <1>2
    <2> HIDE DEF pc
    <2>4. [NoPreview EXCEPT !.pc = pc] \in PreviewRecord /\ [NoPreview EXCEPT !.pc = pc].session = 0
          /\ [NoPreview EXCEPT !.pc = pc].pc = pc
      BY <2>2, EmptyRows DEF PreviewRecord
    <2> QED BY <2>1, <2>3, <2>4 DEF pc
  <1>3. ASSUME NEW v \in Previews, ~(v \in old \/ preview[v].pc # "open")
        PROVE  preview'[v] = preview[v] /\ touched'[v] = touched[v] /\ preview[v].pc = "open"
    <2>1. touched[v] \in BOOLEAN BY StartTypes DEF RegOK
    <2> QED BY <1>1, <1>3, <2>1
  <1>4. PrevOK'
    <2>1. \A v \in Previews : preview'[v] \in PreviewRecord
      BY <1>2, <1>3, StartTypes DEF PrevOK
    <2>2. preview' = [v \in Previews |-> preview'[v]] BY <1>1
    <2> QED BY <2>1, <2>2 DEF PrevOK
  <1>5. RegOK' /\ RowInv'
    <2>1. touched' \in [Previews -> BOOLEAN] BY <1>1
    <2> QED BY <1>1, <2>1, StartTypes DEF RegOK, RowInv, registry
  <1>6. LedgerOK' BY <1>1, StartTypes, Constants DEF LedgerOK
  <1>7. SessKept BY <1>1, SessSame, StartTypes
  <1>8. SessOK' BY <1>7 DEF SessKept, SessOK
  <1>9. FreshInv'
    <2> SUFFICES ASSUME NEW z \in Previews PROVE Sound(preview[z], touched[z])'
      BY DEF FreshInv
    <2>1. CASE z \in old \/ preview[z].pc # "open"
      BY <2>1, <1>2 DEF Sound
    <2>2. CASE ~(z \in old \/ preview[z].pc # "open")
      <3>1. Sound(preview[z], touched[z]) BY DEF IInv, FreshInv
      <3>2. preview'[z] = preview[z] /\ touched'[z] = touched[z] BY <2>2, <1>3
      <3> QED BY <3>1, <3>2, <1>1 DEF Sound, Behind, Stale, registry
    <2> QED BY <2>1, <2>2
  <1>10. Used'
    <2>0. \A t \in DOMAIN session : session[t].preview \in Previews
      BY SessTypes, StartTypes DEF SessionRecord
    <2>1. ASSUME NEW t \in DOMAIN session
          PROVE  \/ preview'[session[t].preview].pc = "gone"
                 \/ /\ preview'[session[t].preview].pc = "open"
                    /\ preview'[session[t].preview].session = t
      <3>1. \/ preview[session[t].preview].pc = "gone"
            \/ /\ preview[session[t].preview].pc = "open"
               /\ preview[session[t].preview].session = t
        BY DEF IInv, Used
      <3> QED BY <2>0, <3>1, <1>2, <1>3
    <2>2. ASSUME NEW z \in Previews, preview'[z].session # 0
          PROVE  preview'[z] = preview[z]
      BY <2>2, <1>2, <1>3
    <2>3. ASSUME NEW z \in Previews, preview'[z].session # 0
          PROVE  /\ preview'[z].pc = "open" /\ preview'[z].session \in DOMAIN session
                 /\ session[preview'[z].session].preview = z
      BY <2>2, <2>3 DEF IInv, Used
    <2>4. \A s, t \in DOMAIN session : session[s].preview = session[t].preview => s = t
      BY DEF IInv, Used
    <2>5. session' = session BY <1>1
    <2> QED BY <2>1, <2>3, <2>4, <2>5 DEF Used
  <1>11. ASSUME NEW u, NEW d, NEW t, Claim(u, d, t)' PROVE Claim(u, d, t)
    <2>1. call'.pc \notin Tried BY <1>1, IdleCall
    <2>2. ASSUME NEW z \in Previews, preview'[z].session = t, t # 0
          PROVE  preview'[z] = preview[z]
      BY <2>2, <1>2, <1>3
    <2> QED BY <1>1, <1>11, <2>1, <2>2 DEF Claim
  <1>12. ClaimInv' BY <1>7, <1>11, ClaimFrame DEF IInv
  <1>13. ShownInv'
    <2>1. CallShown' BY <1>1, IdleCall
    <2> QED BY <1>1, <2>1 DEF IInv, ShownInv, CallShown
  <1>14. CallOK' BY <1>1, IdleCall
  <1> QED BY <1>4, <1>5, <1>6, <1>8, <1>9, <1>10, <1>12, <1>13, <1>14 DEF IInv, Shape

(* A migrated database.                                                    *)
LEMMA InitInv ==
  ASSUME Init
  PROVE  IInv
  <1>1. PICK D \in SUBSET Homes :
       /\ \A g, h \in D : g.profile = h.profile => g = h
       /\ account = [a \in Accounts |-> IF \E h \in D : h.account = a
            THEN [state |-> "row", enabled |-> TRUE, rev |-> 1, usage |-> 0]
            ELSE NoAccount]
       /\ profile = [p \in Profiles |-> IF \E h \in D : h.profile = p
            THEN LET h == CHOOSE h \in D : h.profile = p IN
                 [state |-> "row", account |-> h.account, alias |-> h.alias,
                  cred |-> h.cred, enabled |-> TRUE, settings |-> TRUE, rev |-> 2]
            ELSE NoProfile]
       /\ cred = [c \in Credentials |-> IF \E h \in D : h.cred = c
            THEN [account |-> (CHOOSE h \in D : h.cred = c).account,
                  status |-> "healthy", rev |-> 2, revoking |-> FALSE]
            ELSE NoCred]
    BY DEF Init
  <1>2. /\ binary = 1 /\ preview = [v \in Previews |-> NoPreview] /\ session = <<>>
        /\ ledger = {} /\ call = Idle /\ edits = 0 /\ faults = 0
        /\ touched = [v \in Previews |-> FALSE] /\ answers = {}
    BY DEF Init
  <1>3. \A h \in D : /\ h.account \in Accounts /\ h.alias \in Aliases \cup {None}
                     /\ h.cred \in Credentials \cup {None}
    BY PreviewAssumption
  <1>4. ASSUME NEW a \in Accounts
        PROVE  account[a] \in AccountRecord /\ (account[a].enabled => account[a].state = "row")
    <2>1. account[a] = NoAccount
          \/ account[a] = [state |-> "row", enabled |-> TRUE, rev |-> 1, usage |-> 0]
      BY <1>1
    <2>2. account[a] \in AccountRecord
      <3>1. NoAccount \in AccountRecord BY DEF NoAccount, AccountRecord, States
      <3>2. [state |-> "row", enabled |-> TRUE, rev |-> 1, usage |-> 0] \in AccountRecord
        BY DEF AccountRecord, States
      <3> QED BY <2>1, <3>1, <3>2
    <2>3. account[a].enabled => account[a].state = "row" BY <2>1 DEF NoAccount
    <2> QED BY <2>2, <2>3
  <1>5. ASSUME NEW p \in Profiles
        PROVE  profile[p] \in ProfileRecord
               /\ (profile[p].state = "row" => profile[p].account \in Accounts)
    <2>1. CASE \E h \in D : h.profile = p
      <3> DEFINE h == CHOOSE h \in D : h.profile = p
      <3>1. h \in D BY <2>1
      <3>2. profile[p] = [state |-> "row", account |-> h.account, alias |-> h.alias,
                  cred |-> h.cred, enabled |-> TRUE, settings |-> TRUE, rev |-> 2]
        BY <1>1, <2>1
      <3> HIDE DEF h
      <3>3. h.account \in Accounts /\ h.alias \in Aliases \cup {None}
            /\ h.cred \in Credentials \cup {None}
        BY <1>3, <3>1
      <3> QED BY <3>2, <3>3 DEF ProfileRecord, States
    <2>2. CASE ~\E h \in D : h.profile = p
      <3>1. profile[p] = NoProfile BY <1>1, <2>2
      <3> QED BY <3>1 DEF NoProfile, ProfileRecord, States
    <2> QED BY <2>1, <2>2
  <1>6. ASSUME NEW c \in Credentials PROVE cred[c] \in CredRecord
    <2>1. CASE \E h \in D : h.cred = c
      <3> DEFINE h == CHOOSE h \in D : h.cred = c
      <3>1. h \in D BY <2>1
      <3>2. cred[c] = [account |-> h.account, status |-> "healthy", rev |-> 2, revoking |-> FALSE]
        BY <1>1, <2>1
      <3> HIDE DEF h
      <3>3. h.account \in Accounts BY <1>3, <3>1
      <3> QED BY <3>2, <3>3 DEF CredRecord
    <2>2. CASE ~\E h \in D : h.cred = c
      <3>1. cred[c] = NoCred BY <1>1, <2>2
      <3> QED BY <3>1 DEF NoCred, CredRecord
    <2> QED BY <2>1, <2>2
  <1>7. /\ account \in [Accounts -> AccountRecord] /\ profile \in [Profiles -> ProfileRecord]
        /\ cred \in [Credentials -> CredRecord]
    <2>1. account \in [Accounts -> AccountRecord] BY <1>1, <1>4
    <2>2. profile \in [Profiles -> ProfileRecord]
      <3>1. profile = [p \in Profiles |-> profile[p]] BY <1>1
      <3> QED BY <3>1, <1>5
    <2>3. cred \in [Credentials -> CredRecord]
      <3>1. cred = [c \in Credentials |-> cred[c]] BY <1>1
      <3> QED BY <3>1, <1>6
    <2> QED BY <2>1, <2>2, <2>3
  <1>8. RegOK BY <1>2, <1>7, Constants DEF RegOK
  <1>9. RowInv BY <1>4, <1>5 DEF RowInv
  <1>10. PrevOK BY <1>2, EmptyRows DEF PrevOK
  <1>11. SessOK BY <1>2 DEF SessOK
  <1>12. CallOK BY <1>2, EmptyRows DEF CallOK
  <1>13. LedgerOK BY <1>2, Constants DEF LedgerOK
  <1>14. FreshInv
    <2>1. \A v \in Previews : preview[v].pc = "idle" /\ ~touched[v] BY <1>2, EmptyRows
    <2> QED BY <2>1 DEF FreshInv, Sound
  <1>15. DOMAIN session = {} BY <1>2
  <1>16. \A v \in Previews : preview[v].session = 0 BY <1>2, EmptyRows
  <1>17. Used BY <1>15, <1>16 DEF Used
  <1>18. call.pc = "idle" BY <1>2, EmptyRows
  <1>19. \A u, d, s : ~Claim(u, d, s) BY <1>2, <1>16, <1>18 DEF Claim, Tried
  <1>20. ClaimInv BY <1>19 DEF ClaimInv
  <1>21. ShownInv BY <1>15, <1>18 DEF ShownInv
  <1> QED BY <1>8, <1>9, <1>10, <1>11, <1>12, <1>13, <1>14, <1>17, <1>20, <1>21 DEF IInv, Shape

(* Every step keeps the invariant.                                         *)
LEMMA NextInv ==
  ASSUME IInv, [Next]_vars
  PROVE  IInv'
  <1>1. CASE RegistryStep \/ CredentialStep \/ InstallBinary
    BY <1>1, RegistrySteps, RegistryInv, StartTypes
  <1>2. CASE PreviewStep
    <2>1. PICK v \in Previews : \E row : PrevSet(v, row)
      BY <1>2, PreviewSteps, StartTypes DEF IInv
    <2> QED BY <2>1, PreviewInv
  <1>3. CASE StartStep
    BY <1>3, IdempotentInv, ResolveInv, ConsumeInv, StartReservedInv, LaunchInv, RecordInv
       DEF StartStep
  <1>4. CASE \E s \in DOMAIN session : SessionEnds(s)
    BY <1>4, EndsInv
  <1>5. CASE \E old \in SUBSET Previews : Restart(old)
    BY <1>5, RestartInv
  <1>6. CASE UNCHANGED vars
    <2>1. UNCHANGED <<registry, edits, touched, preview, session, ledger, answers, faults, call>>
      BY <1>6 DEF vars
    <2>2. SessKept BY <2>1, SessSame, StartTypes
    <2>3. CallOK' /\ LedgerOK' BY <2>1, StartTypes DEF CallOK, LedgerOK
    <2>4. ShownInv' BY <2>1, <2>2, ShownQuiet DEF IInv
    <2>5. CallShown' BY <2>4 DEF ShownInv, CallShown
    <2>6. \A u, d, s : Claim(u, d, s)' => Claim(u, d, s) BY <2>1, QuietClaims
    <2> QED BY <2>1, <2>2, <2>3, <2>5, <2>6, StartDone
  <1> QED BY <1>1, <1>2, <1>3, <1>4, <1>5, <1>6 DEF Next

(* The invariant holds in every state of the confirmed start.              *)
THEOREM PreviewInvariant == Spec => []IInv
  BY InitInv, NextInv, PTL DEF Spec

(* Every variable keeps its type, and every number of a Session in a       *)
(* preview, a record, an answer or the call is that of an existing row.    *)
THEOREM PreviewTypeCorrect == Spec => []TypeOK
  <1>1. ASSUME IInv PROVE TypeOK
    <2>1. Len(session) \in Nat /\ DOMAIN session = 1..Len(session)
          /\ \A s \in DOMAIN session : session[s] \in SessionRecord
      BY <1>1, SessTypes, StartTypes
    <2>2. ASSUME NEW v \in Previews PROVE preview[v].session \in 0..Len(session)
      BY <1>1, <2>1 DEF IInv, Used
    <2>3. ASSUME NEW v \in Previews
          PROVE  preview[v] \in [pc : {"idle", "account", "create", "open", "gone"},
                   shown : TupleType, age : {"fresh", "expired"}, digest : Digests \cup {None},
                   session : 0..Len(session)]
      <3>1. preview[v] \in PreviewRecord BY <1>1, StartTypes DEF PrevOK
      <3> QED BY <2>2, <3>1 DEF PreviewRecord
    <2>4. preview \in [Previews -> [pc : {"idle", "account", "create", "open", "gone"},
                   shown : TupleType, age : {"fresh", "expired"}, digest : Digests \cup {None},
                   session : 0..Len(session)]]
      <3>1. preview = [v \in Previews |-> preview[v]] BY <1>1, StartTypes DEF PrevOK
      <3> QED BY <2>3, <3>1
    <2>5. ASSUME NEW e \in ledger
          PROVE  e \in [client : {r.client : r \in Requests}, key : {r.key : r \in Requests},
                        digest : Digests, session : DOMAIN session]
      <3>1. Claim(e.client, e.digest, e.session) BY DEF Claim
      <3>2. e.session \in DOMAIN session BY <1>1, <3>1 DEF IInv, ClaimInv
      <3>3. e \in [client : {r.client : r \in Requests}, key : {r.key : r \in Requests},
                   digest : Digests, session : Nat]
        BY <1>1, StartTypes DEF LedgerOK
      <3> QED BY <3>2, <3>3
    <2>6. ASSUME NEW a \in answers PROVE a \in [req : Requests, session : DOMAIN session]
      <3>1. Claim(a.req.client, Digest(a.req), a.session) BY DEF Claim
      <3>2. a.session \in DOMAIN session BY <1>1, <3>1 DEF IInv, ClaimInv
      <3>3. a \in [req : Requests, session : Nat] BY <1>1, StartTypes DEF LedgerOK
      <3> QED BY <3>2, <3>3
    <2>7. call.session \in 0..Len(session)
      <3>1. CASE call.pc \in Tried BY <1>1, <3>1, <2>1, CallDomain DEF IInv
      <3>2. CASE call.pc \notin Tried
        BY <1>1, <3>2, <2>1, StartTypes DEF CallOK, CallRecord, Tried
      <3> QED BY <3>1, <3>2
    <2>8. call \in [pc : {"idle", "consume", "reserved", "launch", "record"},
               req : Requests \cup {None}, tuple : TupleType, session : 0..Len(session)]
      BY <1>1, <2>7, StartTypes DEF CallRecord
    <2>9. RegOK /\ faults \in 0..MaxFaults BY <1>1, StartTypes DEF LedgerOK
    <2> QED BY <2>1, <2>4, <2>5, <2>6, <2>8, <2>9
         DEF TypeOK, RegOK, AccountRecord, ProfileRecord, CredRecord, States, SessionRecord
  <1> QED BY <1>1, PreviewInvariant, PTL

(* A preview yields at most one Session; every answer to one request names *)
(* one Session, two requests never share one, and only the owner of a      *)
(* preview gets one from it, whatever is retried after whatever crash      *)
(* (ConsumeSessionStartPreview, withIdempotency).                          *)
THEOREM OneSessionEach == Spec => []OneSessionPerPreview
  <1>1. ASSUME IInv PROVE OneSessionPerPreview
    <2>1. \A s, t \in DOMAIN session : session[s].preview = session[t].preview => s = t
      BY <1>1 DEF IInv, Used
    <2>2. ASSUME NEW a \in answers
          PROVE  /\ a.req \in Requests /\ a.session \in DOMAIN session
                 /\ session[a.session].preview = a.req.preview
                 /\ Owner[a.req.preview] = a.req.client
      <3>1. Claim(a.req.client, Digest(a.req), a.session) BY DEF Claim
      <3>2. Digest(a.req)[2] = a.req.preview BY DEF Digest
      <3>3. a.req \in Requests BY <1>1, StartTypes DEF LedgerOK
      <3> QED BY <1>1, <3>1, <3>2, <3>3 DEF IInv, ClaimInv
    <2>3. ASSUME NEW a \in answers, NEW b \in answers, a.session = b.session
          PROVE  a.req = b.req
      <3>1. Claim(a.req.client, Digest(a.req), a.session)
            /\ Claim(b.req.client, Digest(b.req), b.session)
        BY DEF Claim
      <3>2. Digest(a.req) = Digest(b.req) BY <1>1, <2>3, <3>1 DEF IInv, ClaimInv
      <3>3. /\ a.req.key = b.req.key /\ a.req.preview = b.req.preview /\ a.req.alias = b.req.alias
        BY <3>2 DEF Digest
      <3>4. a.req.client = b.req.client BY <2>2, <3>3
      <3>5. /\ a.req = [client |-> a.req.client, key |-> a.req.key,
                        preview |-> a.req.preview, alias |-> a.req.alias]
            /\ b.req = [client |-> b.req.client, key |-> b.req.key,
                        preview |-> b.req.preview, alias |-> b.req.alias]
        BY <2>2, PreviewAssumption
      <3> QED BY <3>3, <3>4, <3>5
    <2>4. ASSUME NEW a \in answers, NEW b \in answers, a.req = b.req
          PROVE  a.session = b.session
      BY <2>1, <2>2, <2>4
    <2> QED BY <2>1, <2>2, <2>3, <2>4 DEF OneSessionPerPreview
  <1> QED BY <1>1, PreviewInvariant, PTL

(* The Provider is only started with the account, profile, credential and  *)
(* binary that the client confirmed, except for the binary of a replay     *)
(* (StartReserved, Launch).                                                *)
THEOREM ProviderRunsConfirmed == Spec => []StartedWhatWasConfirmed
  <1>1. IInv => StartedWhatWasConfirmed
    BY DEF IInv, ShownInv, RanOK, StartedWhatWasConfirmed
  <1> QED BY <1>1, PreviewInvariant, PTL

(* A step that gives a preview its Session finds it untouched.             *)
LEMMA ConsumeStep ==
  ASSUME IInv, [Next]_vars, NEW v \in Previews, preview'[v].session # 0,
         preview[v].session # preview'[v].session
  PROVE  ~touched[v]
  <1>1. CASE RegistryStep \/ CredentialStep \/ InstallBinary
    BY <1>1, RegistrySteps, StartTypes DEF RegStep, Kept
  <1>2. CASE PreviewStep
    <2>1. PICK w \in Previews : \E row : PrevSet(w, row)
      BY <1>2, PreviewSteps, StartTypes DEF IInv
    <2>2. PICK row : PrevSet(w, row) BY <2>1
    <2> QED BY <2>2, StartTypes DEF PrevSet, PrevOK
  <1>3. CASE StartStep
    <2>1. preview' = preview \/ ConsumeSessionStartPreview
      BY <1>3 DEF StartStep, WithIdempotency, ResolveProfile, StartReserved, Launch, Record
    <2>2. ConsumeSessionStartPreview BY <2>1
    <2> DEFINE w == call.req.preview
    <2>3. /\ call.pc = "consume" /\ preview[w].pc = "open" /\ preview[w].session = 0
          /\ Confirms(w, call.tuple) /\ Insert(w)
      BY <2>2 DEF ConsumeSessionStartPreview
    <2>4. w \in Previews BY <2>3, StartTypes, Constants
    <2>5. v = w BY <2>3, <2>4, StartTypes DEF Insert, PrevOK
    <2> QED BY <2>3, <2>4, <2>5, ConfirmFresh
  <1>4. CASE \E s \in DOMAIN session : SessionEnds(s)
    BY <1>4 DEF SessionEnds
  <1>5. CASE \E old \in SUBSET Previews : Restart(old)
    <2>1. PICK old \in SUBSET Previews : Restart(old) BY <1>5
    <2>2. preview'[v] = preview[v] \/ preview'[v].session = 0
      BY <2>1, EmptyRows DEF Restart, NoPreview
    <2> QED BY <2>2
  <1>6. CASE UNCHANGED vars BY <1>6 DEF vars
  <1> QED BY <1>1, <1>2, <1>3, <1>4, <1>5, <1>6 DEF Next

(* A Session is only reserved from a preview of which nothing shown has    *)
(* changed since it was read (ConsumeSessionStartPreview).                 *)
THEOREM ConsumesOnlyFresh == Spec => ConsumedUntouched
  <1>1. IInv /\ [Next]_vars =>
          [\A v \in Previews :
             preview'[v].session # 0 /\ preview[v].session # preview'[v].session
               => ~touched[v]]_vars
    BY ConsumeStep
  <1> QED BY <1>1, PreviewInvariant, PTL DEF Spec, ConsumedUntouched
=============================================================================
