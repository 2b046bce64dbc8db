--------------------------- MODULE ControllerLease ---------------------------
(***************************************************************************)
(* The controller lease of one Session and the mutating requests it        *)
(* fences: internal/domain/lease.go, the lease and input methods of        *)
(* internal/runtime/manager.go, SaveControllerLease in                     *)
(* internal/storage/repository.go and the request mutex that               *)
(* SessionService.withIdempotency holds (internal/app/session_service.go). *)
(*                                                                         *)
(* Two locks matter.  Manager.mu makes each of Acquire, Heartbeat and      *)
(* Release one step.  SessionService.mu (here: mutex) is held from the     *)
(* lease check of an input or a stop to its effect on the Provider, and by *)
(* control.acquire, but NOT by control.heartbeat and control.release.      *)
(* The wall clock may be set back.                                         *)
(***************************************************************************)
EXTENDS Integers, Sequences

CONSTANTS
  Clients,        \* client Device IDs attached to the Session
  NoClient,       \* no Device ID
  LeaseDuration,  \* Manager.LeaseDuration, in clock ticks
  MaxTime,        \* bound: readings of the wall clock
  MaxRevision,    \* bound: lease revisions handed out
  MaxInputs       \* bound: effects that reach the Provider

ASSUME LeaseAssumption ==
  /\ NoClient \notin Clients
  /\ LeaseDuration \in Nat \ {0}
  /\ MaxTime \in Nat
  /\ MaxRevision \in Nat
  /\ MaxInputs \in Nat

VARIABLES
  now,       \* the reading m.now() returns
  lease,     \* the controller_leases row of the Session
  mutex,     \* holder of SessionService.mu between two steps, or NoClient
  request,   \* per client: the request that passed requireLease
  inputSeq,  \* Manager.inputSeq: next sequence expected from each client
  effects,   \* history: effects on the Provider, in order
  bound      \* the Provider process or binding of the Session exists

vars == <<now, lease, mutex, request, inputSeq, effects, bound>>

Time == 0..MaxTime

(* A row with revision 0 stands for "no row": Revision is >= 1 in a row.   *)
Lease == [holder: Clients \cup {NoClient}, revision: 0..MaxRevision,
          expiresAt: Int, lastHeartbeat: Time, released: BOOLEAN]

NoLease == [holder |-> NoClient, revision |-> 0, expiresAt |-> 0,
            lastHeartbeat |-> 0, released |-> FALSE]

Kinds == {"idle", "input", "stop"}

Request == [kind: Kinds, revision: 0..MaxRevision, sequence: Nat]

Idle == [kind |-> "idle", revision |-> 0, sequence |-> 0]

Effect == [client: Clients, kind: Kinds, sequence: Nat, acked: BOOLEAN]

-----------------------------------------------------------------------------
(* internal/domain/lease.go *)

Active(l, at) == ~l.released /\ l.revision > 0 /\ at < l.expiresAt

(* ControllerLease.require: holder, revision, a clock that has not gone    *)
(* behind the last heartbeat, and an active lease.                         *)
RequireControl(l, c, r, at) ==
  /\ l.revision # 0
  /\ r = l.revision
  /\ l.holder = c
  /\ at >= l.lastHeartbeat
  /\ Active(l, at)

Mutant_MayAcquire(l, at) == l.revision = 0 \/ at >= l.lastHeartbeat
MayAcquire(l, at) ==
  l.revision = 0 \/ (at >= l.lastHeartbeat /\ ~Active(l, at))

NewLease(l, c, at) ==
  [holder |-> c, revision |-> l.revision + 1, expiresAt |-> at + LeaseDuration,
   lastHeartbeat |-> at, released |-> FALSE]

HeartbeatLease(l, at) ==
  [l EXCEPT !.lastHeartbeat = at, !.expiresAt = at + LeaseDuration]

ReleaseLease(l, at) ==
  [l EXCEPT !.revision = l.revision + 1, !.expiresAt = at,
            !.lastHeartbeat = at, !.released = TRUE]

-----------------------------------------------------------------------------
Init ==
  /\ now = 0
  /\ lease = NoLease
  /\ mutex = NoClient
  /\ request = [c \in Clients |-> Idle]
  /\ inputSeq = [c \in Clients |-> 1]
  /\ effects = <<>>
  /\ bound = TRUE

(* SessionService.mu is free: withIdempotency may enter its handler.       *)
Mutant_ServiceFree == TRUE
ServiceFree == mutex = NoClient

(* The wall clock advances, or is stepped back by the host.                *)
Clock(t) ==
  /\ t # now
  /\ now' = t
  /\ UNCHANGED <<lease, mutex, request, inputSeq, effects, bound>>

(* control.acquire: serialised by the service mutex, one step under        *)
(* Manager.mu; the revision CAS of SaveControllerLease cannot miss there.  *)
Acquire(c) ==
  /\ ServiceFree
  /\ lease.revision < MaxRevision
  /\ MayAcquire(lease, now)
  /\ lease' = NewLease(lease, c, now)
  /\ UNCHANGED <<now, mutex, request, inputSeq, effects, bound>>

(* control.heartbeat: not serialised with the requests.                    *)
Heartbeat(c, r) ==
  /\ RequireControl(lease, c, r, now)
  /\ lease' = HeartbeatLease(lease, now)
  /\ UNCHANGED <<now, mutex, request, inputSeq, effects, bound>>

(* control.release: not serialised with the requests.                      *)
Release(c, r) ==
  /\ lease.revision < MaxRevision
  /\ RequireControl(lease, c, r, now)
  /\ lease' = ReleaseLease(lease, now)
  /\ UNCHANGED <<now, mutex, request, inputSeq, effects, bound>>

(* terminal.input up to the effect: requireLease, then the sequence check. *)
(* A sequence below the expected one answers "duplicate" and one above it  *)
(* a gap conflict: neither changes any state.                              *)
InputCheck(c, r, q) ==
  /\ ServiceFree
  /\ RequireControl(lease, c, r, now)
  /\ q = inputSeq[c]
  /\ bound
  /\ mutex' = c
  /\ request' = [request EXCEPT ![c] =
                   [kind |-> "input", revision |-> r, sequence |-> q]]
  /\ UNCHANGED <<now, lease, inputSeq, effects, bound>>

(* m.inputSeq after the Provider call.                                     *)
Mutant_NextSequence(c, acked) == inputSeq[c]
NextSequence(c, acked) == IF acked THEN request[c].sequence + 1 ELSE inputSeq[c]

(* The input reaches the Provider; the expected sequence advances only     *)
(* when the Provider call reports no error.                                *)
InputDeliver(c) ==
  /\ request[c].kind = "input"
  /\ bound
  /\ Len(effects) < MaxInputs
  /\ \E acked \in BOOLEAN :
       /\ effects' = Append(effects, [client |-> c, kind |-> "input",
                              sequence |-> request[c].sequence, acked |-> acked])
       /\ inputSeq' = [inputSeq EXCEPT ![c] = NextSequence(c, acked)]
  /\ mutex' = NoClient
  /\ request' = [request EXCEPT ![c] = Idle]
  /\ UNCHANGED <<now, lease, bound>>

(* The Provider refuses the request, or is gone: nothing reached it.       *)
RequestFail(c) ==
  /\ request[c].kind # "idle"
  /\ mutex' = NoClient
  /\ request' = [request EXCEPT ![c] = Idle]
  /\ UNCHANGED <<now, lease, inputSeq, effects, bound>>

(* sessions.stop and sessions.kill up to the effect.                       *)
StopCheck(c, r) ==
  /\ ServiceFree
  /\ RequireControl(lease, c, r, now)
  /\ bound
  /\ mutex' = c
  /\ request' = [request EXCEPT ![c] =
                   [kind |-> "stop", revision |-> r, sequence |-> 0]]
  /\ UNCHANGED <<now, lease, inputSeq, effects, bound>>

StopEffect(c) ==
  /\ request[c].kind = "stop"
  /\ bound
  /\ effects' = Append(effects, [client |-> c, kind |-> "stop",
                                 sequence |-> 0, acked |-> TRUE])
  /\ bound' = FALSE
  /\ mutex' = NoClient
  /\ request' = [request EXCEPT ![c] = Idle]
  /\ UNCHANGED <<now, lease, inputSeq>>

(* The Provider process exits on its own: its binding is removed.          *)
ProviderExit ==
  /\ bound
  /\ bound' = FALSE
  /\ UNCHANGED <<now, lease, mutex, request, inputSeq, effects>>

(* The daemon stops and starts again: the lease row is kept, every         *)
(* in-memory map is empty and no process or binding is adopted.            *)
Restart ==
  /\ mutex' = NoClient
  /\ request' = [c \in Clients |-> Idle]
  /\ inputSeq' = [c \in Clients |-> 1]
  /\ bound' = FALSE
  /\ UNCHANGED <<now, lease, effects>>

Next ==
  \/ \E t \in Time : Clock(t)
  \/ \E c \in Clients : Acquire(c)
  \/ \E c \in Clients, r \in 1..MaxRevision : Heartbeat(c, r)
  \/ \E c \in Clients, r \in 1..MaxRevision : Release(c, r)
  \/ \E c \in Clients, r \in 1..MaxRevision, q \in 1..(MaxInputs + 1) :
       InputCheck(c, r, q)
  \/ \E c \in Clients : InputDeliver(c)
  \/ \E c \in Clients : RequestFail(c)
  \/ \E c \in Clients, r \in 1..MaxRevision : StopCheck(c, r)
  \/ \E c \in Clients : StopEffect(c)
  \/ ProviderExit
  \/ Restart

Spec == Init /\ [][Next]_vars

-----------------------------------------------------------------------------
(* Every variable has its type.                                            *)
TypeOK ==
  /\ now \in Time
  /\ lease \in Lease
  /\ mutex \in Clients \cup {NoClient}
  /\ request \in [Clients -> Request]
  /\ inputSeq \in [Clients -> Nat]
  /\ effects \in Seq(Effect)
  /\ bound \in BOOLEAN

(* While a request is between its lease check and its effect, the row is   *)
(* still that client's grant, or that grant released by the client itself: *)
(* the effect can never run under another client's lease, although the     *)
(* lease may expire or be released in between (Manager.requireLease reads  *)
(* the row without holding Manager.mu).                                    *)
FencedControl ==
  \A c \in Clients :
    request[c].kind # "idle" =>
      /\ lease.holder = c
      /\ \/ lease.revision = request[c].revision
         \/ lease.revision = request[c].revision + 1 /\ lease.released

(* At most one request is between its lease check and its effect.          *)
MutexOwner ==
  \A c \in Clients : request[c].kind # "idle" => mutex = c

(* What a step may make of a row: renew the grant of its holder while it  *)
(* is active, release it, or replace one that is inactive on a clock not   *)
(* behind its last heartbeat.                                              *)
LeaseMoves ==
  /\ lease'.lastHeartbeat >= lease.lastHeartbeat
  /\ \/ lease' = lease
     \/ /\ lease'.revision = lease.revision /\ lease'.holder = lease.holder
        /\ Active(lease, now) /\ ~lease'.released
     \/ /\ lease'.revision = lease.revision + 1
        /\ \/ lease'.holder = lease.holder /\ lease'.released
           \/ ~Active(lease, now) /\ now >= lease.lastHeartbeat

(* An active lease is never stolen ("including by its current holder",     *)
(* domain/lease.go): the row changes its revision only by the release of   *)
(* its holder or, once it is inactive, by a new grant with the next one.   *)
(* Nor is a grant renewed that was released or has expired by the clock,   *)
(* and the heartbeat does not follow a clock that was set back             *)
(* (AcquireControllerLease, Heartbeat, Release, require).                  *)
NeverStolen == [][lease.revision # 0 => LeaseMoves]_vars

(* Effect i of s is an input of c.                                         *)
InputBy(s, c, i) == s[i].client = c /\ s[i].kind = "input"

(* The sequence q follows the last input of c among the first n effects of *)
(* s: its own again if that one was not acknowledged, 1 if there is none.  *)
Follows(s, c, n, q) ==
  /\ (\A i \in 1..n : ~InputBy(s, c, i)) => q = 1
  /\ \A i \in 1..n :
       InputBy(s, c, i) /\ (\A j \in (i+1)..n : ~InputBy(s, c, j)) =>
         q = s[i].sequence + (IF s[i].acked THEN 1 ELSE 0)

(* Inputs of a client reach the Provider in sequence order, without a gap, *)
(* and an input the client was told succeeded is never delivered again,    *)
(* whatever it retries, over lease changes and restarts.                   *)
InputsInOrder ==
  \A c \in Clients, i \in 1..Len(effects) : InputBy(effects, c, i) =>
    Follows(effects, c, i - 1, effects[i].sequence)

=============================================================================
