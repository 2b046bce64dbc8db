------------------------ MODULE ControllerLeaseProofs ------------------------
(***************************************************************************)
(* The lease fences every effect and is never stolen, and inputs reach the *)
(* Provider in order, for every number of clients and every bound.         *)
(* The second part is about the other half of the same Manager, the child  *)
(* processes of the Fake Provider (module FakeRuntime, instantiated below).*)
(***************************************************************************)
EXTENDS ControllerLease, FakeState, TLAPS

(* FencedControl needs MutexOwner: Acquire is refused while any request is *)
(* between its check and its effect only because that request owns mutex.  *)
LeaseInv == TypeOK /\ MutexOwner /\ FencedControl

(* The initial state satisfies the inductive invariant.                    *)
LEMMA InitLeaseInv == Init => LeaseInv
<1> SUFFICES ASSUME Init PROVE LeaseInv
  OBVIOUS
<1> USE LeaseAssumption DEF Init, NoLease, Idle
<1>1. TypeOK
  BY DEF TypeOK, Time, Lease, Request, Kinds, Effect
<1>2. MutexOwner
  BY DEF MutexOwner
<1>3. FencedControl
  BY DEF FencedControl
<1> QED BY <1>1, <1>2, <1>3 DEF LeaseInv

(* Every action keeps the types.                                           *)
LEMMA TypeStep == TypeOK /\ [Next]_vars => TypeOK'
<1> SUFFICES ASSUME TypeOK, [Next]_vars PROVE TypeOK'
  OBVIOUS
<1> USE LeaseAssumption DEF TypeOK, Time
<1>1. ASSUME NEW t \in Time, Clock(t) PROVE TypeOK'
  BY <1>1 DEF Clock
<1>2. ASSUME NEW c \in Clients, Acquire(c) PROVE TypeOK'
  BY <1>2 DEF Acquire, NewLease, Lease
<1>3. ASSUME NEW c \in Clients, NEW r \in 1..MaxRevision, Heartbeat(c, r) PROVE TypeOK'
  <2>1. now + LeaseDuration \in Int
    OBVIOUS
  <2>2. lease' \in Lease
    BY <1>3, <2>1 DEF Heartbeat, HeartbeatLease, Lease
  <2> QED BY <1>3, <2>2 DEF Heartbeat
<1>4. ASSUME NEW c \in Clients, NEW r \in 1..MaxRevision, Release(c, r) PROVE TypeOK'
  <2>1. lease' \in Lease
    <3>1. lease.revision + 1 \in 0..MaxRevision
      BY <1>4 DEF Release, Lease
    <3>2. now \in Int
      OBVIOUS
    <3> QED BY <1>4, <3>1, <3>2 DEF Release, ReleaseLease, Lease
  <2> QED BY <1>4, <2>1 DEF Release
<1>5. ASSUME NEW c \in Clients, NEW r \in 1..MaxRevision, NEW q \in 1..(MaxInputs + 1),
             InputCheck(c, r, q) PROVE TypeOK'
  BY <1>5 DEF InputCheck, Request, Kinds
<1>6. ASSUME NEW c \in Clients, InputDeliver(c) PROVE TypeOK'
  <2>1. PICK acked \in BOOLEAN :
          /\ effects' = Append(effects, [client |-> c, kind |-> "input",
                                 sequence |-> request[c].sequence, acked |-> acked])
          /\ inputSeq' = [inputSeq EXCEPT ![c] = NextSequence(c, acked)]
    BY <1>6 DEF InputDeliver
  <2>2. request[c].sequence \in Nat
    BY DEF Request
  <2>3. effects' \in Seq(Effect)
    BY <2>1, <2>2 DEF Effect, Kinds
  <2>4. inputSeq' \in [Clients -> Nat]
    BY <2>1, <2>2 DEF NextSequence
  <2> QED BY <1>6, <2>3, <2>4 DEF InputDeliver, Idle, Request, Kinds
<1>7. ASSUME NEW c \in Clients, RequestFail(c) PROVE TypeOK'
  BY <1>7 DEF RequestFail, Idle, Request, Kinds
<1>8. ASSUME NEW c \in Clients, NEW r \in 1..MaxRevision, StopCheck(c, r) PROVE TypeOK'
  BY <1>8 DEF StopCheck, Request, Kinds
<1>9. ASSUME NEW c \in Clients, StopEffect(c) PROVE TypeOK'
  <2>1. effects' \in Seq(Effect)
    BY <1>9 DEF StopEffect, Effect, Kinds
  <2>2. request' \in [Clients -> Request]
    BY <1>9 DEF StopEffect, Idle, Request, Kinds
  <2>3. UNCHANGED <<now, lease, inputSeq>> /\ mutex' = NoClient /\ bound' = FALSE
    BY <1>9 DEF StopEffect
  <2> QED BY <2>1, <2>2, <2>3
<1>10. CASE ProviderExit
  BY <1>10 DEF ProviderExit
<1>11. CASE Restart
  <2>1. request' \in [Clients -> Request] /\ inputSeq' \in [Clients -> Nat]
    BY <1>11 DEF Restart, Idle, Request, Kinds
  <2>2. UNCHANGED <<now, lease, effects>> /\ mutex' = NoClient /\ bound' = FALSE
    BY <1>11 DEF Restart
  <2> QED BY <2>1, <2>2
<1>12. CASE UNCHANGED vars
  BY <1>12 DEF vars
<1> QED
  BY <1>1, <1>2, <1>3, <1>4, <1>5, <1>6, <1>7, <1>8, <1>9, <1>10, <1>11, <1>12 DEF Next

(* The mutex owner and the fence are kept together: taking the mutex is    *)
(* the only way to start a request, and a grant needs it free.             *)
LEMMA FenceStep == LeaseInv /\ [Next]_vars => (MutexOwner /\ FencedControl)'
<1> SUFFICES ASSUME LeaseInv, [Next]_vars PROVE (MutexOwner /\ FencedControl)'
  OBVIOUS
<1> USE LeaseAssumption DEF LeaseInv, MutexOwner, FencedControl
<1>0. /\ request \in [Clients -> Request]
      /\ lease \in Lease
  BY DEF TypeOK
<1>1. ASSUME NEW t \in Time, Clock(t) PROVE (MutexOwner /\ FencedControl)'
  BY <1>1 DEF Clock
<1>2. ASSUME NEW c \in Clients, Acquire(c) PROVE (MutexOwner /\ FencedControl)'
  <2>1. \A d \in Clients : request[d].kind = "idle"
    BY <1>2 DEF Acquire, ServiceFree
  <2> QED BY <1>2, <2>1 DEF Acquire
<1>3. ASSUME NEW c \in Clients, NEW r \in 1..MaxRevision, Heartbeat(c, r)
      PROVE (MutexOwner /\ FencedControl)'
  BY <1>0, <1>3 DEF Heartbeat, HeartbeatLease, Lease
<1>4. ASSUME NEW c \in Clients, NEW r \in 1..MaxRevision, Release(c, r)
      PROVE (MutexOwner /\ FencedControl)'
  <2>1. ~lease.released
    BY <1>4 DEF Release, RequireControl, Active
  <2> QED BY <1>0, <1>4, <2>1 DEF Release, ReleaseLease, Lease
<1>5. ASSUME NEW c \in Clients, NEW r \in 1..MaxRevision, NEW q \in 1..(MaxInputs + 1),
             InputCheck(c, r, q) PROVE (MutexOwner /\ FencedControl)'
  <2>1. \A d \in Clients : request[d].kind = "idle"
    BY <1>5 DEF InputCheck, ServiceFree
  <2>2. lease.holder = c /\ lease.revision = r
    BY <1>5 DEF InputCheck, RequireControl
  <2> QED BY <1>0, <1>5, <2>1, <2>2 DEF InputCheck
<1>6. ASSUME NEW c \in Clients, InputDeliver(c) PROVE (MutexOwner /\ FencedControl)'
  <2>1. \A d \in Clients : d # c => request[d].kind = "idle"
    BY <1>6 DEF InputDeliver
  <2> QED BY <1>0, <1>6, <2>1 DEF InputDeliver, Idle
<1>7. ASSUME NEW c \in Clients, RequestFail(c) PROVE (MutexOwner /\ FencedControl)'
  <2>1. \A d \in Clients : d # c => request[d].kind = "idle"
    BY <1>7 DEF RequestFail
  <2> QED BY <1>0, <1>7, <2>1 DEF RequestFail, Idle
<1>8. ASSUME NEW c \in Clients, NEW r \in 1..MaxRevision, StopCheck(c, r)
      PROVE (MutexOwner /\ FencedControl)'
  <2>1. \A d \in Clients : request[d].kind = "idle"
    BY <1>8 DEF StopCheck, ServiceFree
  <2>2. lease.holder = c /\ lease.revision = r
    BY <1>8 DEF StopCheck, RequireControl
  <2> QED BY <1>0, <1>8, <2>1, <2>2 DEF StopCheck
<1>9. ASSUME NEW c \in Clients, StopEffect(c) PROVE (MutexOwner /\ FencedControl)'
  <2>1. \A d \in Clients : d # c => request[d].kind = "idle"
    BY <1>9 DEF StopEffect
  <2> QED BY <1>0, <1>9, <2>1 DEF StopEffect, Idle
<1>10. CASE ProviderExit
  BY <1>10 DEF ProviderExit
<1>11. CASE Restart
  BY <1>11 DEF Restart, Idle
<1>12. CASE UNCHANGED vars
  BY <1>12 DEF vars
<1> QED
  BY <1>1, <1>2, <1>3, <1>4, <1>5, <1>6, <1>7, <1>8, <1>9, <1>10, <1>11, <1>12 DEF Next

(* The inductive invariant of the lease service.                           *)
THEOREM LeaseInvariant == Spec => []LeaseInv
<1>1. LeaseInv /\ [Next]_vars => LeaseInv'
  BY TypeStep, FenceStep DEF LeaseInv
<1> QED BY InitLeaseInv, <1>1, PTL DEF Spec

(* Every state of the lease service is well typed.                         *)
THEOREM LeaseTypeCorrect == Spec => []TypeOK
<1>1. LeaseInv => TypeOK
  BY DEF LeaseInv
<1> QED BY LeaseInvariant, <1>1, PTL

(* No effect ever runs under another client's lease: for every number of   *)
(* clients, over heartbeats and releases that run beside the request,      *)
(* expiry, a clock that is set back and daemon restarts.                   *)
THEOREM EffectsAreFenced == Spec => []FencedControl
<1>1. LeaseInv => FencedControl
  BY DEF LeaseInv
<1> QED BY LeaseInvariant, <1>1, PTL

(* AcquireControllerLease's promise: an active lease is never stolen, and  *)
(* neither is an inactive one renewed.                                     *)
THEOREM ActiveLeaseNeverStolen == Spec => NeverStolen
<1>1. TypeOK /\ [Next]_vars => [lease.revision # 0 => LeaseMoves]_vars
  <2> SUFFICES ASSUME TypeOK, Next, lease.revision # 0 PROVE LeaseMoves
    BY DEF vars
  <2>0. lease.lastHeartbeat \in Int /\ now \in Int
    BY DEF TypeOK, Lease, Time
  <2>1. \/ UNCHANGED lease
        \/ \E c \in Clients : Acquire(c)
        \/ \E c \in Clients, r \in 1..MaxRevision : Heartbeat(c, r)
        \/ \E c \in Clients, r \in 1..MaxRevision : Release(c, r)
    BY DEF Next, Clock, InputCheck, InputDeliver, RequestFail, StopCheck,
           StopEffect, ProviderExit, Restart
  <2>2. ASSUME NEW c \in Clients, Acquire(c)
        PROVE  /\ lease'.revision = lease.revision + 1 /\ lease'.lastHeartbeat = now
               /\ ~Active(lease, now) /\ now >= lease.lastHeartbeat
    BY <2>2 DEF Acquire, NewLease, MayAcquire, Active, TypeOK, Lease, Time
  <2>3. ASSUME NEW c \in Clients, NEW r \in 1..MaxRevision, Heartbeat(c, r)
        PROVE  /\ lease'.revision = lease.revision /\ lease'.holder = lease.holder
               /\ lease'.lastHeartbeat = now /\ now >= lease.lastHeartbeat
               /\ Active(lease, now) /\ ~lease'.released
    BY <2>3 DEF Heartbeat, HeartbeatLease, RequireControl, Active, TypeOK, Lease
  <2>4. ASSUME NEW c \in Clients, NEW r \in 1..MaxRevision, Release(c, r)
        PROVE  /\ lease'.revision = lease.revision + 1
               /\ lease'.lastHeartbeat = now /\ now >= lease.lastHeartbeat
               /\ lease'.holder = lease.holder /\ lease'.released
    BY <2>4 DEF Release, ReleaseLease, RequireControl, TypeOK, Lease
  <2>5. CASE UNCHANGED lease
    BY <2>0, <2>5 DEF LeaseMoves
  <2> QED BY <2>0, <2>1, <2>2, <2>3, <2>4, <2>5 DEF LeaseMoves
<1> QED BY LeaseTypeCorrect, <1>1, PTL DEF Spec, NeverStolen

(* InputsInOrder needs the manager's counter: while the Provider is bound, *)
(* inputSeq[c] follows the last input of c that reached it, and an input   *)
(* past its check still carries that sequence.  Once unbound no effect     *)
(* follows, which is why Restart may reset the counters.                   *)
SeqInv ==
  /\ bound => \A c \in Clients : Follows(effects, c, Len(effects), inputSeq[c])
  /\ \A c \in Clients :
       request[c].kind = "input" => request[c].sequence = inputSeq[c]

OrderInv == LeaseInv /\ SeqInv /\ InputsInOrder

(* An appended effect leaves the first Len(s) effects as they were.        *)
LEMMA FollowsPrefix ==
  ASSUME NEW s \in Seq(Effect), NEW e \in Effect, NEW c \in Clients,
         NEW n \in 0..Len(s), NEW q \in Nat, Follows(s, c, n, q)
  PROVE  Follows(Append(s, e), c, n, q)
<1> DEFINE t == Append(s, e)
<1>1. \A i \in 1..n : t[i] = s[i]
  OBVIOUS
<1>2. \A i \in 1..n : InputBy(t, c, i) <=> InputBy(s, c, i)
  BY <1>1 DEF InputBy
<1>3. \A i \in 1..n : \A j \in (i+1)..n : j \in 1..n
  OBVIOUS
<1> HIDE DEF t
<1>4. Follows(t, c, n, q)
  BY <1>1, <1>2, <1>3 DEF Follows
<1> QED BY <1>4 DEF t

(* An effect that is not an input of c leaves the sequence c goes on with. *)
LEMMA FollowsOther ==
  ASSUME NEW s \in Seq(Effect), NEW e \in Effect, NEW c \in Clients,
         NEW q \in Nat, Follows(s, c, Len(s), q),
         e.client # c \/ e.kind # "input"
  PROVE  Follows(Append(s, e), c, Len(s) + 1, q)
<1> DEFINE t == Append(s, e)  n == Len(s)
<1>0. n \in Nat
  OBVIOUS
<1>1. (\A i \in 1..n : t[i] = s[i]) /\ t[n + 1] = e
  OBVIOUS
<1>2. \A i \in 1..n : InputBy(t, c, i) <=> InputBy(s, c, i)
  BY <1>1 DEF InputBy
<1>3. ~InputBy(t, c, n + 1)
  BY <1>1 DEF InputBy
<1>4. Follows(s, c, n, q)
  OBVIOUS
<1> HIDE DEF t, n
<1>5. (\A i \in 1..(n + 1) : ~InputBy(t, c, i)) => q = 1
  BY <1>0, <1>2, <1>4 DEF Follows
<1>6. ASSUME NEW i \in 1..(n + 1), InputBy(t, c, i),
             \A j \in (i+1)..(n + 1) : ~InputBy(t, c, j)
      PROVE  q = t[i].sequence + (IF t[i].acked THEN 1 ELSE 0)
  <2>1. i \in 1..n
    BY <1>0, <1>3, <1>6
  <2>2. \A j \in (i+1)..n : ~InputBy(s, c, j)
    BY <1>0, <1>2, <1>6
  <2>3. q = s[i].sequence + (IF s[i].acked THEN 1 ELSE 0)
    BY <1>2, <1>4, <1>6, <2>1, <2>2 DEF Follows
  <2> QED BY <1>1, <2>1, <2>3
<1>7. Follows(t, c, n + 1, q)
  BY <1>5, <1>6 DEF Follows
<1> QED BY <1>7 DEF t, n

(* After an input of c, c goes on with its sequence, or with the next one. *)
LEMMA FollowsOwn ==
  ASSUME NEW s \in Seq(Effect), NEW e \in Effect, NEW c \in Clients,
         e.client = c, e.kind = "input"
  PROVE  Follows(Append(s, e), c, Len(s) + 1,
                 e.sequence + (IF e.acked THEN 1 ELSE 0))
<1> DEFINE t == Append(s, e)  n == Len(s)
<1>0. n \in Nat
  OBVIOUS
<1>1. t[n + 1] = e
  OBVIOUS
<1>2. InputBy(t, c, n + 1)
  BY <1>1 DEF InputBy
<1> HIDE DEF t, n
<1>3. ASSUME NEW i \in 1..(n + 1),
             \A j \in (i+1)..(n + 1) : ~InputBy(t, c, j)
      PROVE  t[i] = e
  <2>1. i = n + 1
    BY <1>0, <1>2, <1>3
  <2> QED BY <1>1, <2>1
<1>4. n + 1 \in 1..(n + 1)
  BY <1>0
<1>5. Follows(t, c, n + 1, e.sequence + (IF e.acked THEN 1 ELSE 0))
  BY <1>2, <1>3, <1>4 DEF Follows
<1> QED BY <1>5 DEF t, n

(* An appended effect keeps the order when, if it is an input, it carries  *)
(* the sequence its client goes on with.                                   *)
LEMMA OrderAppend ==
  ASSUME TypeOK, InputsInOrder, NEW e \in Effect, effects' = Append(effects, e),
         e.kind = "input" => Follows(effects, e.client, Len(effects), e.sequence)
  PROVE  InputsInOrder'
<1>0. effects \in Seq(Effect) /\ Len(effects) \in Nat
  BY DEF TypeOK
<1>1. /\ Len(effects') = Len(effects) + 1
      /\ \A i \in 1..Len(effects) : effects'[i] = effects[i]
      /\ effects'[Len(effects) + 1] = e
  BY <1>0
<1>2. ASSUME NEW c \in Clients, NEW i \in 1..(Len(effects) + 1), InputBy(effects', c, i)
      PROVE  Follows(effects', c, i - 1, effects'[i].sequence)
  <2>1. CASE i \in 1..Len(effects)
    <3>1. effects'[i] = effects[i] /\ effects[i] \in Effect
      BY <1>0, <1>1, <2>1
    <3>2. InputBy(effects, c, i)
      BY <1>2, <3>1 DEF InputBy
    <3>3. Follows(effects, c, i - 1, effects[i].sequence)
      BY <2>1, <3>2 DEF InputsInOrder
    <3>4. i - 1 \in 0..Len(effects) /\ effects[i].sequence \in Nat
      BY <1>0, <2>1, <3>1 DEF Effect
    <3>5. Follows(Append(effects, e), c, i - 1, effects[i].sequence)
      BY <1>0, <3>3, <3>4, FollowsPrefix
    <3> QED BY <3>1, <3>5
  <2>2. CASE i = Len(effects) + 1
    <3>1. effects'[i] = e /\ e.client = c /\ e.kind = "input"
      BY <1>1, <1>2, <2>2 DEF InputBy
    <3>2. Follows(effects, c, Len(effects), e.sequence)
      BY <3>1
    <3>3. Len(effects) \in 0..Len(effects) /\ e.sequence \in Nat
      BY <1>0 DEF Effect
    <3>4. Follows(Append(effects, e), c, Len(effects), e.sequence)
      BY <1>0, <3>2, <3>3, FollowsPrefix
    <3>5. i - 1 = Len(effects)
      BY <1>0, <2>2
    <3> QED BY <3>1, <3>4, <3>5
  <2> QED BY <1>0, <2>1, <2>2
<1> QED BY <1>1, <1>2 DEF InputsInOrder

(* The initial state satisfies OrderInv: nothing was delivered.            *)
LEMMA InitOrderInv == Init => OrderInv
<1> SUFFICES ASSUME Init PROVE OrderInv
  OBVIOUS
<1>1. LeaseInv
  BY InitLeaseInv
<1>2. Len(effects) = 0 /\ inputSeq = [c \in Clients |-> 1]
        /\ request = [c \in Clients |-> Idle]
  BY DEF Init
<1>3. InputsInOrder
  BY <1>2 DEF InputsInOrder
<1>4. SeqInv
  BY <1>2 DEF SeqInv, Follows, Idle
<1> QED BY <1>1, <1>3, <1>4 DEF OrderInv

(* The two actions that reach the Provider append what the counter allows, *)
(* and every other one leaves effects alone and binds nothing again.       *)
LEMMA OrderStep == OrderInv /\ [Next]_vars => (SeqInv /\ InputsInOrder)'
<1> SUFFICES ASSUME OrderInv, [Next]_vars PROVE (SeqInv /\ InputsInOrder)'
  OBVIOUS
<1>0. /\ TypeOK /\ MutexOwner /\ SeqInv /\ InputsInOrder
      /\ request \in [Clients -> Request] /\ inputSeq \in [Clients -> Nat]
      /\ effects \in Seq(Effect) /\ Len(effects) \in Nat
  BY DEF OrderInv, LeaseInv, TypeOK
<1>1. ASSUME UNCHANGED <<request, inputSeq, effects>>, bound' => bound
      PROVE  (SeqInv /\ InputsInOrder)'
  BY <1>0, <1>1 DEF SeqInv, InputsInOrder
<1>2. ASSUME NEW c \in Clients, NEW r \in 1..MaxRevision, NEW q \in 1..(MaxInputs + 1),
             InputCheck(c, r, q) PROVE (SeqInv /\ InputsInOrder)'
  <2>1. UNCHANGED <<inputSeq, effects, bound>>
    BY <1>2 DEF InputCheck
  <2>2. \A d \in Clients :
          request'[d].kind = "input" => request'[d].sequence = inputSeq[d]
    BY <1>0, <1>2 DEF InputCheck, SeqInv
  <2> QED BY <1>0, <2>1, <2>2 DEF SeqInv, InputsInOrder
<1>3. ASSUME NEW c \in Clients, InputDeliver(c) PROVE (SeqInv /\ InputsInOrder)'
  <2>1. PICK acked \in BOOLEAN :
          /\ effects' = Append(effects, [client |-> c, kind |-> "input",
                                 sequence |-> request[c].sequence, acked |-> acked])
          /\ inputSeq' = [inputSeq EXCEPT ![c] = NextSequence(c, acked)]
    BY <1>3 DEF InputDeliver
  <2> DEFINE e == [client |-> c, kind |-> "input",
                   sequence |-> request[c].sequence, acked |-> acked]
  <2>2. request[c].sequence = inputSeq[c] /\ inputSeq[c] \in Nat /\ bound
    BY <1>0, <1>3 DEF InputDeliver, SeqInv
  <2>3. /\ e \in Effect /\ e.client = c /\ e.kind = "input"
        /\ e.sequence = inputSeq[c] /\ e.acked = acked
    BY <2>2 DEF Effect, Kinds
  <2>4. inputSeq'[c] = inputSeq[c] + (IF acked THEN 1 ELSE 0)
    BY <1>0, <2>1, <2>2 DEF NextSequence
  <2>5. \A d \in Clients : d # c => inputSeq'[d] = inputSeq[d]
    BY <1>0, <2>1
  <2>6. effects' = Append(effects, e) /\ Len(effects') = Len(effects) + 1
    BY <1>0, <2>1
  <2> HIDE DEF e
  <2>7. \A d \in Clients : Follows(effects, d, Len(effects), inputSeq[d])
    BY <1>0, <2>2 DEF SeqInv
  <2>8. InputsInOrder'
    BY <1>0, <2>3, <2>6, <2>7, OrderAppend
  <2>9. ASSUME NEW d \in Clients
        PROVE  Follows(effects', d, Len(effects'), inputSeq'[d])
    <3>1. CASE d = c
      <4>1. Follows(Append(effects, e), c, Len(effects) + 1,
                    e.sequence + (IF e.acked THEN 1 ELSE 0))
        BY <1>0, <2>3, FollowsOwn
      <4> QED BY <2>3, <2>4, <2>6, <3>1, <4>1
    <3>2. CASE d # c
      <4>1. inputSeq[d] \in Nat
        BY <1>0
      <4>2. Follows(Append(effects, e), d, Len(effects) + 1, inputSeq[d])
        BY <1>0, <2>3, <2>7, <3>2, <4>1, FollowsOther
      <4> QED BY <2>5, <2>6, <3>2, <4>2
    <3> QED BY <3>1, <3>2
  <2>10. \A d \in Clients :
           request'[d].kind = "input" => request'[d].sequence = inputSeq'[d]
    BY <1>0, <1>3, <2>5 DEF InputDeliver, Idle, SeqInv
  <2> QED BY <2>8, <2>9, <2>10 DEF SeqInv
<1>4. ASSUME NEW c \in Clients, RequestFail(c) PROVE (SeqInv /\ InputsInOrder)'
  <2>1. UNCHANGED <<inputSeq, effects, bound>>
    BY <1>4 DEF RequestFail
  <2>2. \A d \in Clients :
          request'[d].kind = "input" => request'[d].sequence = inputSeq[d]
    BY <1>0, <1>4 DEF RequestFail, Idle, SeqInv
  <2> QED BY <1>0, <2>1, <2>2 DEF SeqInv, InputsInOrder
<1>5. ASSUME NEW c \in Clients, NEW r \in 1..MaxRevision, StopCheck(c, r)
      PROVE  (SeqInv /\ InputsInOrder)'
  <2>1. UNCHANGED <<inputSeq, effects, bound>>
    BY <1>5 DEF StopCheck
  <2>2. \A d \in Clients :
          request'[d].kind = "input" => request'[d].sequence = inputSeq[d]
    BY <1>0, <1>5 DEF StopCheck, SeqInv
  <2> QED BY <1>0, <2>1, <2>2 DEF SeqInv, InputsInOrder
<1>6. ASSUME NEW c \in Clients, StopEffect(c) PROVE (SeqInv /\ InputsInOrder)'
  <2> DEFINE e == [client |-> c, kind |-> "stop", sequence |-> 0, acked |-> TRUE]
  <2>1. e \in Effect /\ e.kind = "stop" /\ effects' = Append(effects, e)
    BY <1>6 DEF StopEffect, Effect, Kinds
  <2> HIDE DEF e
  <2>2. InputsInOrder'
    BY <1>0, <2>1, OrderAppend
  <2>3. ~bound' /\ inputSeq' = inputSeq
    BY <1>6 DEF StopEffect
  <2>4. \A d \in Clients :
          request'[d].kind = "input" => request'[d].sequence = inputSeq[d]
    BY <1>0, <1>6 DEF StopEffect, Idle, SeqInv
  <2> QED BY <2>2, <2>3, <2>4 DEF SeqInv
<1>7. CASE Restart
  <2>1. ~bound' /\ effects' = effects /\ \A d \in Clients : request'[d].kind = "idle"
    BY <1>7 DEF Restart, Idle
  <2> QED BY <1>0, <2>1 DEF SeqInv, InputsInOrder
<1>8. CASE UNCHANGED vars
  BY <1>1, <1>8 DEF vars
<1>9. CASE \/ \E t \in Time : Clock(t)
           \/ \E c \in Clients : Acquire(c)
           \/ \E c \in Clients, r \in 1..MaxRevision : Heartbeat(c, r)
           \/ \E c \in Clients, r \in 1..MaxRevision : Release(c, r)
           \/ ProviderExit
  BY <1>1, <1>9 DEF Clock, Acquire, Heartbeat, Release, ProviderExit
<1> QED BY <1>2, <1>3, <1>4, <1>5, <1>6, <1>7, <1>8, <1>9 DEF Next

(* SendInput's counter keeps every client's inputs in order, whatever is   *)
(* retried after an unacknowledged delivery, for every number of clients.  *)
THEOREM InputsStayInOrder == Spec => []InputsInOrder
<1>1. OrderInv /\ LeaseInv' /\ [Next]_vars => OrderInv'
  BY OrderStep DEF OrderInv
<1>2. OrderInv => InputsInOrder
  BY DEF OrderInv
<1> QED BY InitOrderInv, LeaseInvariant, <1>1, <1>2, PTL DEF Spec

-----------------------------------------------------------------------------
(***************************************************************************)
(* The Fake Provider (module FakeRuntime), the other half of               *)
(* internal/runtime/manager.go: Stop and Kill pass the lease check above   *)
(* and then act on what Manager.processes holds.  `call' is the request    *)
(* inside SessionService.mu, for any set of Sessions.                      *)
(***************************************************************************)
CONSTANT None

Fake == INSTANCE FakeRuntime

(* Where a child that nobody signalled can be found, and why handleExit    *)
(* never drops the entry of a living one: it is called only for an exit    *)
(* that was posted.                                                        *)
ChildKnown(s) ==
  /\ child[s] = "alive" =>
       process[s] \/ (call.s = s /\ call.pc \in {"ready", "torunning"})
  /\ exits[s] > 0 => child[s] = "dead"
  /\ observer[s] \notin {"off", "idle"} => exits[s] > 0
  /\ status[s] = "none" => child[s] = "none"

(* A request works on a row that exists, and a start spawns the first      *)
(* child of its Session.                                                   *)
CallKnown ==
  call.pc # "idle" =>
    /\ call.s \in Sessions
    /\ status[call.s] # "none"
    /\ call.pc = "spawn" => child[call.s] = "none"

(* ChildIsReachable alone is not inductive: HandleExit drops an entry, and *)
(* only the other parts say that its child is dead by then.                *)
FakeInv == Fake!TypeOK /\ CallKnown /\ \A s \in Sessions : ChildKnown(s)

(* No row, no child and no request: the invariant holds at first.          *)
LEMMA FakeInit == Fake!Init => FakeInv
<1> SUFFICES ASSUME Fake!Init PROVE FakeInv
  OBVIOUS
<1>1. Fake!TypeOK
  BY DEF Fake!Init, Fake!TypeOK, Fake!Idle, Fake!PCs, Fake!Statuses, Fake!Children, Fake!Terminal
<1>2. CallKnown /\ \A s \in Sessions : ChildKnown(s)
  BY DEF Fake!Init, CallKnown, ChildKnown, Fake!Idle
<1> QED BY <1>1, <1>2 DEF FakeInv

(* The transition table of domain/session.go leads only to statuses, and from no    *)
(* status back to the missing row.                                         *)
LEMMA TransitionKeeps ==
  ASSUME FakeInv, NEW s \in Sessions, NEW read, NEW next \in Fake!Statuses \ {"none"},
         Fake!Transition(s, read, next)
  PROVE  /\ status' \in [Sessions -> Fake!Statuses]
         /\ \A t \in Sessions : status'[t] = "none" <=> status[t] = "none"
<1>1. status \in [Sessions -> Fake!Statuses]
  BY DEF FakeInv, Fake!TypeOK
<1>2. Fake!CanTransition(s, read, next) => status[s] # "none"
  BY DEF Fake!CanTransition, Fake!Transitions
<1>3. status' = [status EXCEPT ![s] = next] \/ status' = status
  BY <1>1 DEF Fake!Transition
<1>4. CASE ~Fake!CanTransition(s, read, next)
  <2>1. status' = status
    BY <1>1, <1>4 DEF Fake!Transition
  <2> QED BY <1>1, <2>1
<1>5. CASE Fake!CanTransition(s, read, next)
  BY <1>1, <1>2, <1>3, <1>5
<1> QED BY <1>4, <1>5

(* Every step of a start keeps the invariant.                              *)
LEMMA FakeStartStep ==
  ASSUME FakeInv, Fake!Spawn \/ Fake!Ready \/ Fake!ToRunning \/ Fake!ToRunningFails
  PROVE  FakeInv'
<1> DEFINE s == call.s
<1>0. s \in Sessions /\ status[s] # "none"
  BY DEF FakeInv, CallKnown, Fake!Spawn, Fake!Ready, Fake!ToRunning, Fake!ToRunningFails
<1>a. {"failed", "running"} \subseteq Fake!Statuses \ {"none"}
  BY DEF Fake!Statuses, Fake!Terminal
<1>1. CASE Fake!Spawn
  <2>1. CASE child' = [child EXCEPT ![s] = "alive"] /\ Fake!Goto("ready") /\ UNCHANGED status
    <3>1. Fake!TypeOK'
      BY <1>0, <1>1, <2>1 DEF FakeInv, Fake!TypeOK, Fake!Spawn, Fake!Goto, Fake!PCs, Fake!Children
    <3>2. CallKnown' /\ \A t \in Sessions : ChildKnown(t)'
      BY <1>0, <1>1, <2>1 DEF FakeInv, Fake!TypeOK, Fake!Spawn, Fake!Goto, CallKnown, ChildKnown
    <3> QED BY <3>1, <3>2 DEF FakeInv
  <2>2. CASE Fake!Transition(s, "starting", "failed") /\ Fake!Return /\ UNCHANGED child
    <3>1. Fake!TypeOK'
      BY <1>0, <1>a, <1>1, <2>2, TransitionKeeps
      DEF FakeInv, Fake!TypeOK, Fake!Spawn, Fake!Return, Fake!Idle, Fake!PCs, Fake!Statuses
    <3>2. CallKnown' /\ \A t \in Sessions : ChildKnown(t)'
      BY <1>0, <1>a, <1>1, <2>2, TransitionKeeps
      DEF FakeInv, Fake!Spawn, Fake!Return, Fake!Idle, CallKnown, ChildKnown
    <3> QED BY <3>1, <3>2 DEF FakeInv
  <2> QED BY <1>1, <2>1, <2>2 DEF Fake!Spawn
<1>2. CASE Fake!Ready
  <2>1. CASE Fake!Goto("torunning") /\ UNCHANGED <<status, child>>
    BY <1>0, <1>2, <2>1 DEF FakeInv, Fake!TypeOK, Fake!Ready, Fake!Goto, Fake!PCs, CallKnown, ChildKnown
  <2>2. CASE /\ child' = [child EXCEPT ![s] = Fake!Signalled(s)]
             /\ Fake!Transition(s, "starting", "failed")
             /\ Fake!Return
    <3>1. Fake!TypeOK'
      BY <1>0, <1>a, <1>2, <2>2, TransitionKeeps
      DEF FakeInv, Fake!TypeOK, Fake!Ready, Fake!Return, Fake!Idle, Fake!PCs, Fake!Statuses,
          Fake!Signalled, Fake!Children
    <3>2. CallKnown' /\ \A t \in Sessions : ChildKnown(t)'
      BY <1>0, <1>a, <1>2, <2>2, TransitionKeeps
      DEF FakeInv, Fake!TypeOK, Fake!Ready, Fake!Return, Fake!Idle, CallKnown, ChildKnown, Fake!Signalled
    <3> QED BY <3>1, <3>2 DEF FakeInv
  <2> QED BY <1>2, <2>1, <2>2 DEF Fake!Ready
<1>3. CASE Fake!ToRunning
  <2>1. Fake!TypeOK'
    BY <1>0, <1>a, <1>3, TransitionKeeps
    DEF FakeInv, Fake!TypeOK, Fake!ToRunning, Fake!Return, Fake!Idle, Fake!PCs, Fake!Statuses
  <2>2. CallKnown' /\ \A t \in Sessions : ChildKnown(t)'
    BY <1>0, <1>a, <1>3, TransitionKeeps
    DEF FakeInv, Fake!TypeOK, Fake!ToRunning, Fake!Return, Fake!Idle, CallKnown, ChildKnown
  <2> QED BY <2>1, <2>2 DEF FakeInv
<1>4. CASE Fake!ToRunningFails
  BY <1>0, <1>4 DEF FakeInv, Fake!TypeOK, Fake!ToRunningFails, Fake!Return, Fake!Idle, Fake!PCs,
     Fake!Statuses, Fake!Signalled, Fake!Children, CallKnown, ChildKnown
<1> QED BY <1>1, <1>2, <1>3, <1>4

(* Every step of Stop and of Kill keeps the invariant.                     *)
LEMMA FakeStopStep ==
  ASSUME FakeInv,
         \/ Fake!StopCas \/ Fake!StopSend \/ Fake!StopDone \/ Fake!WaitTerminal
         \/ Fake!KillChild \/ Fake!KillCas
  PROVE  FakeInv'
<1> DEFINE s == call.s
<1>0. s \in Sessions /\ status[s] # "none"
  BY DEF FakeInv, CallKnown, Fake!StopCas, Fake!StopSend, Fake!StopDone, Fake!WaitTerminal,
         Fake!KillChild, Fake!KillCas
<1>a. {"stopping", "killed"} \subseteq Fake!Statuses \ {"none"}
  BY DEF Fake!Statuses, Fake!Terminal
<1>b. (call' = Fake!Idle \/ \E pc \in Fake!PCs \ {"spawn"} : call' = [call EXCEPT !.pc = pc])
      => call' \in [pc: Fake!PCs, s: Sessions \cup {None}, read: Fake!Statuses]
  BY DEF FakeInv, Fake!TypeOK, Fake!Idle, Fake!PCs, Fake!Statuses
<1> USE DEF Fake!Goto, Fake!Return
<1>1. CASE Fake!StopCas
  <2>1. Fake!TypeOK'
    BY <1>0, <1>a, <1>b, <1>1, TransitionKeeps DEF FakeInv, Fake!TypeOK, Fake!StopCas, Fake!PCs
  <2>2. CallKnown' /\ \A t \in Sessions : ChildKnown(t)'
    BY <1>0, <1>a, <1>1, TransitionKeeps
    DEF FakeInv, Fake!TypeOK, Fake!StopCas, Fake!Idle, CallKnown, ChildKnown
  <2> QED BY <2>1, <2>2 DEF FakeInv
<1>2. CASE Fake!StopSend
  <2>1. Fake!TypeOK'
    BY <1>0, <1>b, <1>2 DEF FakeInv, Fake!TypeOK, Fake!StopSend, Fake!PCs
  <2>2. CallKnown' /\ \A t \in Sessions : ChildKnown(t)'
    BY <1>0, <1>2 DEF FakeInv, Fake!TypeOK, Fake!StopSend, Fake!Idle, CallKnown, ChildKnown
  <2> QED BY <2>1, <2>2 DEF FakeInv
<1>3. CASE Fake!StopDone
  BY <1>0, <1>b, <1>3 DEF FakeInv, Fake!TypeOK, Fake!StopDone, Fake!PCs, Fake!Idle, CallKnown, ChildKnown
<1>4. CASE Fake!WaitTerminal
  BY <1>0, <1>b, <1>4 DEF FakeInv, Fake!TypeOK, Fake!WaitTerminal, Fake!Idle, CallKnown, ChildKnown
<1>5. CASE Fake!KillChild
  BY <1>0, <1>b, <1>5 DEF FakeInv, Fake!TypeOK, Fake!KillChild, Fake!PCs, Fake!Signalled, Fake!Children,
     CallKnown, ChildKnown
<1>6. CASE Fake!KillCas
  <2>1. Fake!TypeOK'
    BY <1>0, <1>a, <1>b, <1>6, TransitionKeeps DEF FakeInv, Fake!TypeOK, Fake!KillCas
  <2>2. CallKnown' /\ \A t \in Sessions : ChildKnown(t)'
    BY <1>0, <1>a, <1>6, TransitionKeeps
    DEF FakeInv, Fake!TypeOK, Fake!KillCas, Fake!Idle, CallKnown, ChildKnown
  <2> QED BY <2>1, <2>2 DEF FakeInv
<1> QED BY <1>1, <1>2, <1>3, <1>4, <1>5, <1>6

(* Admission, the child, its observer and shutdown keep the invariant.     *)
LEMMA FakeStep == FakeInv /\ [Fake!Next]_Fake!vars => FakeInv'
<1> SUFFICES ASSUME FakeInv, [Fake!Next]_Fake!vars PROVE FakeInv'
  OBVIOUS
<1>1. ASSUME NEW s \in Sessions, Fake!BeginStart(s) \/ Fake!BeginStop(s) \/ Fake!BeginKill(s)
      PROVE  FakeInv'
  <2>1. Fake!TypeOK'
    BY <1>1 DEF FakeInv, Fake!TypeOK, Fake!BeginStart, Fake!BeginStop, Fake!BeginKill,
         Fake!PCs, Fake!Statuses
  <2>2. CallKnown' /\ \A t \in Sessions : ChildKnown(t)'
    BY <1>1 DEF FakeInv, Fake!TypeOK, Fake!BeginStart, Fake!BeginStop, Fake!BeginKill,
         Fake!Statuses, CallKnown, ChildKnown
  <2> QED BY <2>1, <2>2 DEF FakeInv
<1>2. CASE Fake!Request
  BY <1>2, FakeStartStep, FakeStopStep DEF Fake!Request
<1>3. ASSUME NEW s \in Sessions, Fake!ObserveExit(s) PROVE FakeInv'
  BY <1>3 DEF FakeInv, Fake!TypeOK, Fake!ObserveExit, CallKnown, ChildKnown
<1>4. ASSUME NEW s \in Sessions, Fake!HandleExit(s) PROVE FakeInv'
  <2>1. /\ Fake!ExitStatus(observer[s]) \in Fake!Statuses \ {"none"}
        /\ observer[s] \notin {"off", "idle"}
    BY <1>4 DEF Fake!HandleExit, Fake!ExitStatus, Fake!Statuses, Fake!Terminal
  <2>2. exits[s] > 0 /\ child[s] = "dead"
    BY <2>1 DEF FakeInv, ChildKnown
  <2>3. Fake!TypeOK'
    BY <1>4, <2>1, <2>2, TransitionKeeps DEF FakeInv, Fake!TypeOK, Fake!HandleExit
  <2>4. CallKnown' /\ \A t \in Sessions : ChildKnown(t)'
    BY <1>4, <2>1, <2>2, TransitionKeeps DEF FakeInv, Fake!TypeOK, Fake!HandleExit, CallKnown, ChildKnown
  <2> QED BY <2>3, <2>4 DEF FakeInv
<1>5. ASSUME NEW s \in Sessions, NEW clean \in BOOLEAN, Fake!ChildExits(s, clean) PROVE FakeInv'
  BY <1>5 DEF FakeInv, Fake!TypeOK, Fake!ChildExits, Fake!ExitCalls, Fake!Children, CallKnown, ChildKnown
<1>6. CASE Fake!Close
  BY <1>6 DEF FakeInv, Fake!TypeOK, Fake!Close, Fake!Signalled, Fake!Children, CallKnown, ChildKnown
<1>7. CASE Fake!Exit
  BY <1>7 DEF FakeInv, Fake!TypeOK, Fake!Exit, Fake!Idle, Fake!PCs, Fake!Statuses, Fake!Children,
     CallKnown, ChildKnown
<1>8. CASE UNCHANGED Fake!vars
  BY <1>8 DEF Fake!vars, FakeInv, Fake!TypeOK, CallKnown, ChildKnown
<1> QED BY <1>1, <1>2, <1>3, <1>4, <1>5, <1>6, <1>7, <1>8 DEF Fake!Next, Fake!Observe

(* For any set of Sessions, every child process that was not signalled is  *)
(* in Manager.processes or belongs to the start still inside the mutex:    *)
(* handleExit removes an entry only after its child has died, and every    *)
(* way out of StartFake registers the child or signals it.                 *)
THEOREM FakeChildIsReachable == Fake!Spec => []ChildIsReachable
<1>1. FakeInv => ChildIsReachable
  BY DEF FakeInv, ChildKnown, ChildIsReachable
<1> QED BY <1>1, FakeInit, FakeStep, PTL DEF Fake!Spec

(* Manager.processes loses the entry of a child only when it has died, or  *)
(* with the daemon.                                                        *)
EntryOutlivesChild ==
  \A s \in Sessions : process[s] /\ ~process'[s] => child[s] = "dead" \/ daemon' = "down"

(* What handleExit drops is never the entry of a living child, whichever   *)
(* of the two exit calls it answers.                                       *)
THEOREM FakeEntryOutlivesChild == Fake!Spec => [][EntryOutlivesChild]_Fake!vars
<1>1. FakeInv /\ [Fake!Next]_Fake!vars => [EntryOutlivesChild]_Fake!vars
  <2> SUFFICES ASSUME FakeInv, Fake!Next, NEW s \in Sessions, process[s], ~process'[s]
               PROVE  child[s] = "dead" \/ daemon' = "down"
    BY DEF EntryOutlivesChild
  <2>0. process \in [Sessions -> BOOLEAN] /\ (call.pc # "idle" => call.s \in Sessions)
    BY DEF FakeInv, Fake!TypeOK, CallKnown
  <2>1. process' # process
    OBVIOUS
  <2>2. CASE Fake!ToRunning
    BY <2>0, <2>2 DEF Fake!ToRunning
  <2>3. ASSUME NEW t \in Sessions, Fake!HandleExit(t) PROVE child[s] = "dead"
    <3>1. t = s
      BY <2>0, <2>3 DEF Fake!HandleExit
    <3>2. observer[s] \notin {"off", "idle"}
      BY <2>3, <3>1 DEF Fake!HandleExit, Fake!Statuses, Fake!Terminal
    <3> QED BY <3>2 DEF FakeInv, ChildKnown
  <2>4. CASE Fake!Exit
    BY <2>4 DEF Fake!Exit
  <2> QED BY <2>1, <2>2, <2>3, <2>4
      DEF Fake!Next, Fake!BeginStart, Fake!BeginStop, Fake!BeginKill, Fake!Request, Fake!Spawn,
          Fake!Ready, Fake!ToRunningFails, Fake!StopCas, Fake!StopSend, Fake!StopDone,
          Fake!WaitTerminal, Fake!KillChild, Fake!KillCas, Fake!Observe, Fake!ObserveExit,
          Fake!ChildExits, Fake!Close
<1> QED BY <1>1, FakeInit, FakeStep, PTL DEF Fake!Spec

-----------------------------------------------------------------------------
(* The exit of a child.  handleExit reads the row, then moves it with a    *)
(* compare-and-swap whose failure it ignores; Stop and Kill move the same  *)
(* row in between.                                                         *)

(* Only a terminal status can still be written to the row.                 *)
Settled(s) == status[s] \in {"stopping"} \cup Fake!Terminal

(* A clean exit, handled once, follows a stop request and so finds the row *)
(* settled; the first of the two calls for an unclean one may lose to      *)
(* Stop, but then it leaves the row settled for the second.                *)
ExitKnown(s) ==
  /\ asked[s] => Settled(s)
  /\ observer[s] # "off" => status[s] = "running" \/ Settled(s)
  /\ observer[s] \notin {"off", "idle"} => observer[s] \in {"running", "stopping"}
  /\ observer[s] = "stopping" => Settled(s)
  /\ exits[s] = 1 => Settled(s) /\ observer[s] # "running"
  /\ child[s] = "dead" /\ exits[s] = 0 => status[s] \in Fake!Terminal \/ daemon = "down"

ExitInv ==
  /\ \A s \in Sessions : ExitKnown(s)
  /\ call.pc = "stopsend" => Settled(call.s)

(* The transition table never leads back from a settled row.               *)
LEMMA TransitionSettles ==
  ASSUME FakeInv, NEW s \in Sessions, NEW read, NEW next, Fake!Transition(s, read, next),
         NEW t \in Sessions
  PROVE  /\ Settled(t) => Settled(t)'
         /\ status[t] \in Fake!Terminal => status'[t] \in Fake!Terminal
         /\ status[t] = "running" => status'[t] = "running" \/ Settled(t)'
         /\ t # s => status'[t] = status[t]
<1>1. status \in [Sessions -> Fake!Statuses]
  BY DEF FakeInv, Fake!TypeOK
<1>2. CASE ~Fake!CanTransition(s, read, next)
  BY <1>1, <1>2 DEF Fake!Transition, Settled
<1>3. CASE Fake!CanTransition(s, read, next)
  <2>1. status' = [status EXCEPT ![s] = next] /\ status[s] = read
    BY <1>1, <1>3 DEF Fake!Transition, Fake!CanTransition
  <2>2. /\ read \in {"starting", "running", "stopping"}
        /\ read = "running" => next \in {"stopping", "failed", "killed"}
        /\ read = "stopping" => next \in {"exited", "failed", "killed"}
    BY <1>3 DEF Fake!CanTransition, Fake!Transitions
  <2> QED BY <1>1, <2>1, <2>2 DEF Settled, Fake!Terminal
<1> QED BY <1>2, <1>3

(* A step of a request that neither asks the child to stop nor kills it.   *)
LEMMA ExitFrame ==
  ASSUME FakeInv, ExitInv, NEW t \in Sessions,
         UNCHANGED <<exits, observer, daemon>>,
         asked'[t] => asked[t] \/ Settled(t),
         child'[t] = "dead" => child[t] = "dead",
         Settled(t) => Settled(t)',
         status[t] \in Fake!Terminal => status'[t] \in Fake!Terminal,
         status[t] = "running" => status'[t] = "running" \/ Settled(t)'
  PROVE  ExitKnown(t)'
<1>1. ExitKnown(t)
  BY DEF ExitInv
<1> QED BY <1>1 DEF ExitKnown

(* The requests keep it.                                                   *)
LEMMA ExitRequestStep ==
  ASSUME FakeInv, ExitInv, Fake!Request
  PROVE  ExitInv'
<1> DEFINE s == call.s
<1>0. /\ s \in Sessions /\ asked \in [Sessions -> BOOLEAN]
      /\ child \in [Sessions -> Fake!Children] /\ status \in [Sessions -> Fake!Statuses]
      /\ call \in [pc: Fake!PCs, s: Sessions \cup {None}, read: Fake!Statuses]
  BY DEF FakeInv, CallKnown, Fake!TypeOK, Fake!Request, Fake!Spawn, Fake!Ready, Fake!ToRunning,
     Fake!ToRunningFails, Fake!StopCas, Fake!StopSend, Fake!StopDone, Fake!WaitTerminal,
     Fake!KillChild, Fake!KillCas
<1>1. ASSUME ~Fake!ToRunning, NEW t \in Sessions
      PROVE  ExitKnown(t)'
  <2>1. UNCHANGED <<exits, observer, daemon>>
    BY <1>1 DEF Fake!Request, Fake!Spawn, Fake!Ready, Fake!ToRunningFails, Fake!StopCas,
       Fake!StopSend, Fake!StopDone, Fake!WaitTerminal, Fake!KillChild, Fake!KillCas
  <2>2. asked'[t] => asked[t] \/ Settled(t)
    <3>1. CASE Fake!StopSend
      BY <1>0, <3>1 DEF Fake!StopSend, ExitInv
    <3>2. CASE ~Fake!StopSend
      BY <1>1, <3>2 DEF Fake!Request, Fake!Spawn, Fake!Ready, Fake!ToRunningFails, Fake!StopCas,
         Fake!StopDone, Fake!WaitTerminal, Fake!KillChild, Fake!KillCas
    <3> QED BY <3>1, <3>2
  <2>3. child'[t] = "dead" => child[t] = "dead"
    BY <1>0, <1>1 DEF Fake!Request, Fake!Spawn, Fake!Ready, Fake!ToRunningFails, Fake!StopCas,
       Fake!StopSend, Fake!StopDone, Fake!WaitTerminal, Fake!KillChild, Fake!KillCas, Fake!Signalled
  <2>4. status' = status \/ \E read, next : Fake!Transition(s, read, next)
    BY <1>1 DEF Fake!Request, Fake!Spawn, Fake!Ready, Fake!ToRunningFails, Fake!StopCas,
       Fake!StopSend, Fake!StopDone, Fake!WaitTerminal, Fake!KillChild, Fake!KillCas
  <2>5. /\ Settled(t) => Settled(t)'
        /\ status[t] \in Fake!Terminal => status'[t] \in Fake!Terminal
        /\ status[t] = "running" => status'[t] = "running" \/ Settled(t)'
    <3>1. CASE status' = status
      BY <3>1 DEF Settled
    <3>2. ASSUME NEW read, NEW next, Fake!Transition(s, read, next)
          PROVE  /\ Settled(t) => Settled(t)'
                 /\ status[t] \in Fake!Terminal => status'[t] \in Fake!Terminal
                 /\ status[t] = "running" => status'[t] = "running" \/ Settled(t)'
      BY <1>0, <3>2, TransitionSettles
    <3> QED BY <2>4, <3>1, <3>2
  <2> QED BY <2>1, <2>2, <2>3, <2>5, ExitFrame
<1>2. ASSUME Fake!ToRunning, NEW t \in Sessions
      PROVE  ExitKnown(t)'
  <2>1. /\ status[s] = "starting" /\ status' = [status EXCEPT ![s] = "running"]
        /\ observer' = [observer EXCEPT ![s] = "idle"]
        /\ UNCHANGED <<child, asked, exits, daemon>>
    BY <1>0, <1>2 DEF Fake!ToRunning, Fake!Transition, Fake!CanTransition
  <2>2. ExitKnown(t) /\ observer \in [Sessions -> {"off", "idle"} \cup (Fake!Statuses \ Fake!Terminal)]
    BY DEF ExitInv, FakeInv, Fake!TypeOK
  <2>3. CASE t # s
    BY <1>0, <2>1, <2>2, <2>3 DEF ExitKnown, Settled
  <2>4. CASE t = s
    BY <1>0, <2>1, <2>2, <2>4 DEF ExitKnown, Settled, Fake!Terminal
  <2> QED BY <2>3, <2>4
<1>3. (call'.pc = "stopsend") => Settled(call.s)' /\ call'.s = call.s
  <2>1. CASE Fake!StopCas
    BY <1>0, <2>1 DEF Fake!StopCas, Fake!Transition, Fake!Goto, Fake!Return, Fake!Idle, Settled
  <2>2. CASE ~Fake!StopCas
    BY <1>0, <2>2 DEF Fake!Request, Fake!Spawn, Fake!Ready, Fake!ToRunning, Fake!ToRunningFails,
       Fake!StopSend, Fake!StopDone, Fake!WaitTerminal, Fake!KillChild, Fake!KillCas,
       Fake!Goto, Fake!Return, Fake!Idle
  <2> QED BY <2>1, <2>2
<1>4. (call.pc = "stopsend" => Settled(call.s))'
  BY <1>3
<1> QED BY <1>1, <1>2, <1>4 DEF ExitInv

(* handleExit: the call that finds the row moved by Stop has another one   *)
(* behind it.                                                              *)
LEMMA HandleExitStep ==
  ASSUME FakeInv, ExitInv, NEW s \in Sessions, Fake!HandleExit(s)
  PROVE  ExitInv'
<1>1. /\ status \in [Sessions -> Fake!Statuses] /\ exits \in [Sessions -> 0..2]
      /\ observer \in [Sessions -> {"off", "idle"} \cup (Fake!Statuses \ Fake!Terminal)]
      /\ \A t \in Sessions : ExitKnown(t)
  BY DEF FakeInv, Fake!TypeOK, ExitInv
<1>2. /\ Fake!Transition(s, observer[s], Fake!ExitStatus(observer[s]))
      /\ exits' = [exits EXCEPT ![s] = exits[s] - 1]
      /\ observer' = [observer EXCEPT ![s] = "idle"]
      /\ UNCHANGED <<child, asked, call, daemon>>
  BY DEF Fake!HandleExit
<1>3. observer[s] \notin {"off", "idle"}
  BY DEF Fake!HandleExit, Fake!Statuses, Fake!Terminal
<1>4. observer[s] \in {"running", "stopping"} /\ exits[s] \in 1..2
  <2>1. exits[s] > 0
    BY <1>3 DEF FakeInv, ChildKnown
  <2> QED BY <1>1, <1>3, <2>1 DEF ExitKnown
<1>5. \A t \in Sessions :
        /\ Settled(t) => Settled(t)'
        /\ status[t] \in Fake!Terminal => status'[t] \in Fake!Terminal
        /\ status[t] = "running" => status'[t] = "running" \/ Settled(t)'
        /\ t # s => status'[t] = status[t]
  BY <1>2, TransitionSettles
<1>6. ASSUME NEW t \in Sessions PROVE ExitKnown(t)'
  <2>1. CASE t # s
    <3>1. exits'[t] = exits[t] /\ observer'[t] = observer[t] /\ status'[t] = status[t]
      BY <1>1, <1>2, <1>5, <2>1
    <3> QED BY <1>1, <1>2, <3>1 DEF ExitKnown, Settled
  <2>2. CASE t = s
    <3>1. exits'[s] = exits[s] - 1 /\ observer'[s] = "idle"
      BY <1>1, <1>2
    <3>2. CASE observer[s] = "stopping"
      <4>1. status'[s] \in Fake!Terminal
        <5>1. status[s] \in {"stopping"} \cup Fake!Terminal
          BY <1>1, <3>2 DEF ExitKnown, Settled
        <5>2. CASE status[s] = "stopping"
          BY <1>1, <1>2, <3>2, <5>2 DEF Fake!Transition, Fake!CanTransition, Fake!Transitions,
             Fake!ExitStatus, Fake!Terminal
        <5> QED BY <1>5, <5>1, <5>2
      <4> QED BY <1>2, <2>2, <3>1, <4>1 DEF ExitKnown, Settled
    <3>3. CASE observer[s] = "running"
      <4>1. exits[s] = 2
        BY <1>1, <1>4, <3>3 DEF ExitKnown
      <4>2. Settled(s)'
        <5>1. status[s] = "running" \/ Settled(s)
          BY <1>1, <3>3 DEF ExitKnown
        <5>2. CASE status[s] = "running"
          BY <1>1, <1>2, <3>3, <5>2 DEF Fake!Transition, Fake!CanTransition, Fake!Transitions,
             Fake!ExitStatus, Fake!Terminal, Settled
        <5> QED BY <1>5, <5>1, <5>2
      <4> QED BY <1>2, <2>2, <3>1, <4>1, <4>2 DEF ExitKnown
    <3> QED BY <1>4, <3>2, <3>3
  <2> QED BY <2>1, <2>2
<1>7. (call.pc = "stopsend" => Settled(call.s))'
  <2>1. call.pc = "stopsend" => call.s \in Sessions /\ Settled(call.s)
    BY DEF FakeInv, CallKnown, ExitInv
  <2>2. call'.pc = "stopsend" => Settled(call.s)'
    <3> SUFFICES ASSUME call.pc = "stopsend" PROVE Settled(call.s)'
      BY <1>2
    <3>1. PICK u \in Sessions : u = call.s
      BY <2>1
    <3>2. Settled(u) /\ call' = call
      BY <1>2, <2>1, <3>1
    <3> QED BY <1>5, <3>1, <3>2 DEF Settled
  <2> QED BY <2>2
<1> QED BY <1>6, <1>7 DEF ExitInv

(* Every other step keeps it.                                              *)
LEMMA ExitStep == FakeInv /\ ExitInv /\ [Fake!Next]_Fake!vars => ExitInv'
<1> SUFFICES ASSUME FakeInv, ExitInv, [Fake!Next]_Fake!vars PROVE ExitInv'
  OBVIOUS
<1>0. /\ Fake!TypeOK /\ CallKnown /\ \A t \in Sessions : ChildKnown(t) /\ ExitKnown(t)
      /\ call.pc = "stopsend" => Settled(call.s)
  BY DEF FakeInv, ExitInv
<1>1. ASSUME NEW s \in Sessions, Fake!BeginStart(s) PROVE ExitInv'
  BY <1>0, <1>1 DEF Fake!TypeOK, ChildKnown, Fake!BeginStart, ExitInv, ExitKnown, Settled, Fake!Terminal
<1>2. ASSUME NEW s \in Sessions, Fake!BeginStop(s) \/ Fake!BeginKill(s) PROVE ExitInv'
  BY <1>0, <1>2 DEF Fake!BeginStop, Fake!BeginKill, ExitInv, ExitKnown, Settled
<1>3. CASE Fake!Request
  BY <1>3, ExitRequestStep
<1>4. ASSUME NEW s \in Sessions, Fake!ObserveExit(s) PROVE ExitInv'
  <2>1. /\ exits[s] \in 1..2 /\ observer[s] = "idle" /\ exits \in [Sessions -> 0..2]
        /\ status[s] = "running" \/ Settled(s)
        /\ observer \in [Sessions -> {"off", "idle"} \cup (Fake!Statuses \ Fake!Terminal)]
        /\ UNCHANGED <<status, child, asked, call, daemon>>
    BY <1>0, <1>4 DEF Fake!ObserveExit, ExitKnown, Fake!TypeOK
  <2>2. CASE /\ status[s] \in Fake!Terminal
             /\ exits' = [exits EXCEPT ![s] = exits[s] - 1] /\ observer' = observer
    BY <1>0, <2>1, <2>2 DEF ExitInv, ExitKnown, Settled
  <2>3. CASE /\ status[s] \notin Fake!Terminal
             /\ observer' = [observer EXCEPT ![s] = status[s]] /\ exits' = exits
    BY <1>0, <2>1, <2>3 DEF ExitInv, ExitKnown, Settled
  <2> QED BY <1>4, <2>2, <2>3 DEF Fake!ObserveExit
<1>5. ASSUME NEW s \in Sessions, Fake!HandleExit(s) PROVE ExitInv'
  BY <1>5, HandleExitStep
<1>6. ASSUME NEW s \in Sessions, NEW clean \in BOOLEAN, Fake!ChildExits(s, clean) PROVE ExitInv'
  <2>1. /\ child[s] # "dead" /\ (clean => asked[s])
        /\ child' = [child EXCEPT ![s] = "dead"]
        /\ exits' = [exits EXCEPT ![s] = Fake!ExitCalls(clean)]
        /\ UNCHANGED <<status, asked, process, observer, call, daemon>>
    BY <1>6 DEF Fake!ChildExits
  <2>2. observer[s] \in {"off", "idle"}
    BY <1>0, <2>1 DEF ChildKnown
  <2>3. Fake!ExitCalls(clean) \in 1..2 /\ (Fake!ExitCalls(clean) = 1 => clean)
    BY DEF Fake!ExitCalls
  <2> HIDE DEF Fake!ExitCalls
  <2> QED BY <1>0, <2>1, <2>2, <2>3 DEF Fake!TypeOK, ExitInv, ExitKnown, Settled
<1>7. CASE Fake!Close
  BY <1>0, <1>7 DEF Fake!TypeOK, Fake!Close, Fake!Signalled, ExitInv, ExitKnown, Settled
<1>8. CASE Fake!Exit
  BY <1>0, <1>8 DEF Fake!TypeOK, Fake!Exit, Fake!Idle, ExitInv, ExitKnown, Settled
<1>9. CASE UNCHANGED Fake!vars
  BY <1>0, <1>9 DEF Fake!vars, ExitInv, ExitKnown, Settled
<1> QED BY <1>1, <1>2, <1>3, <1>4, <1>5, <1>6, <1>7, <1>8, <1>9 DEF Fake!Next, Fake!Observe

(* No exit is lost between the compare-and-swaps of handleExit, Stop and   *)
(* Kill: once the observer has no call left for a dead child, the row of   *)
(* its Session is terminal.                                                *)
ExitAccounted ==
  \A s \in Sessions :
    child[s] = "dead" /\ exits[s] = 0 => status[s] \in Fake!Terminal \/ daemon = "down"

(* The safety half of ExitIsRecorded: two handleExit calls for an unclean  *)
(* exit and one for a clean one are enough, although each ignores a lost   *)
(* compare-and-swap.                                                       *)
THEOREM FakeExitAccounted == Fake!Spec => []ExitAccounted
<1>1. Fake!Init => ExitInv
  BY DEF Fake!Init, Fake!Idle, ExitInv, ExitKnown
<1>2. ExitInv => ExitAccounted
  BY DEF ExitInv, ExitKnown, ExitAccounted
<1> QED BY <1>1, <1>2, ExitStep, FakeInit, FakeStep, PTL DEF Fake!Spec

(* Every variable of the Fake Provider's runtime keeps its type.           *)
THEOREM FakeTypeCorrect == Fake!Spec => []Fake!TypeOK
<1>1. FakeInv => Fake!TypeOK
  BY DEF FakeInv
<1> QED BY <1>1, FakeInit, FakeStep, PTL DEF Fake!Spec

=============================================================================
