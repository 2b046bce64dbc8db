---------------------------- MODULE DeviceServer ----------------------------
(* The Device endpoint: the root that multidesk init creates, the client   *)
(* identities in its database, the daemon with its socket, connection      *)
(* limit and authentication, the authorization of each request, and the    *)
(* command line client that repeats an idempotent command once when its    *)
(* answer is lost (internal/device, app/authorization.go,                  *)
(* cmd/multidesk/commands.go).                                             *)
(*                                                                         *)
(* A signature verifies iff the two sides use the same client key; both    *)
(* nonces are fresh.  Whether the table of nonces is full, for the other   *)
(* handshakes of the last 30 minutes, is left open, and so is whether a    *)
(* context has expired.  A deadline may pass whenever the code waits under *)
(* one.  What a command does is one step that succeeds or fails; the other *)
(* modules have its inside.                                                *)
(*                                                                         *)
(* The CLI repeats more commands than SessionService.Handle keeps in its   *)
(* ledger.  Those of requiresIdempotency have a record; the others run     *)
(* directly, and what a repeat of them does is up to the store: a change   *)
(* of a row compares its revision (updates, enabling and deletion of the   *)
(* registry, the release of a control lease), the Vault remembers the      *)
(* request that initialized it, and unlocking or locking the Vault or a    *)
(* heartbeat is simply done again.                                         *)
EXTENDS Naturals, Sequences, FiniteSets

CONSTANTS
  Commands,        \* commands the CLI calls idempotent; each is its own request
  Ledgered,        \* of these, methods of requiresIdempotency
  Revisioned, Expected,  \* changes of a row at the revision they expect
  Initializers,    \* vault.initialize
  Peers,           \* clients that hold a connection and make several calls
  PeerRequests,    \* request IDs of the peers
  Owner, Peer,     \* the two client identities
  Capabilities, Needs, Caps,  \* capability of a request and of an identity
  None,
  Limits,          \* values of Server.MaxConnections (32)
  MaxRequests,     \* request IDs of one connection (128)
  Rows, Target,    \* rows that the target of a change may name, and does at first
  MaxRevision,     \* bound: revision of a row that others change
  MaxChanges,      \* bound: rotations and revocations
  MaxCalls,        \* bound: calls of a peer
  Rosters,         \* bound: clients that take part in one behaviour, for each limit
  MaxFaults        \* bound: crashes, failed accepts, unsaved records and changes of others

Actors == Commands \cup Peers
Requests == Commands \cup PeerRequests
Conns == {<<a, n>> : a \in Commands, n \in {1, 2}} \cup {<<a, 1>> : a \in Peers}
Identities == {Owner, Peer}
(* vault.unlock, vault.lock and control.heartbeat.                         *)
Repeated == Commands \ (Ledgered \cup Revisioned \cup Initializers)

ASSUME DeviceAssumption ==
  /\ Commands \cap Peers = {} /\ Commands \cap PeerRequests = {}
  /\ Ledgered \subseteq Commands /\ Revisioned \subseteq Commands /\ Initializers \subseteq Commands
  /\ Ledgered \cap Revisioned = {} /\ Ledgered \cap Initializers = {} /\ Revisioned \cap Initializers = {}
  /\ Expected \in [Revisioned -> Nat] /\ MaxRevision \in Nat /\ Target \in Rows
  /\ IsFiniteSet(Actors) /\ None \notin Conns \cup Requests
  /\ Owner # Peer
  /\ DOMAIN Needs \subseteq Requests /\ \A r \in DOMAIN Needs : Needs[r] \in Capabilities
  /\ Caps \in [Identities -> SUBSET Capabilities]
  /\ Limits \subseteq Nat \ {0} /\ MaxRequests \in Nat
  /\ MaxChanges \in Nat /\ MaxCalls \in Nat /\ Rosters \in [Limits -> SUBSET SUBSET Actors] /\ MaxFaults \in Nat

VARIABLES
  staging,   \* what the staging directory of a running Bootstrap holds
  root,      \* what the Device root holds; empty: there is no root
  row,       \* client_identities
  daemon,    \* the process: proc, ctx (cancelled), serve, closed (Server.Close)
  socket,    \* the socket file: none, live or stale
  accepted,  \* connection that Accept returned and Serve has not admitted
  limit,     \* capacity of the semaphore of Serve
  conn,      \* the daemon's end of each connection, and the two streams
  mu,        \* connection whose handler holds SessionService.mu
  ledger,    \* commands with an idempotency record
  client,    \* each client
  registry,  \* the row that the target names now, and the revisions of the rows
  vault,     \* vault_config: the command that initialized the Vault
  faults,
  effects,   \* history: times a request was carried out
  unsaved,   \* history: of these, times its record was not saved
  swaps      \* history: times a command changed a row

boot == <<staging, root, limit>>
data == <<registry, vault, swaps>>
work == <<mu, ledger, effects, unsaved, registry, vault, swaps>>
vars == <<staging, root, limit, row, daemon, socket, accepted, conn, mu, ledger, client, faults,
          effects, unsaved, registry, vault, swaps>>

Parts == {"db", "daemon", "owner"}
IdentityOf(a) == IF a \in Commands THEN Owner ELSE Peer
ActorOf(c) == c[1]

NoConn == [pc |-> "none", closed |-> FALSE, hung |-> FALSE, in |-> <<>>, out |-> <<>>,
           key |-> 0, rev |-> 0, seen |-> {}, req |-> None, at |-> None, ok |-> FALSE]
(* What is left of a connection that the daemon has closed: frames the     *)
(* client has not read.                                                    *)
Closed(r, pc) == [NoConn EXCEPT !.pc = pc, !.closed = TRUE, !.hung = r.hung, !.out = r.out]
Down == [proc |-> "down", ctx |-> FALSE, serve |-> "loop", closed |-> FALSE]

(* A goroutine of Serve runs serveConnection: it holds a slot of the       *)
(* semaphore and its connection is in Server.active.                       *)
Served(c) == conn[c].pc \notin {"none", "backlog", "accepted", "gone"}
Active == {c \in Conns : Served(c)}

Init ==
  /\ staging = {} /\ root = {} /\ limit \in Limits
  /\ row = [i \in Identities |-> [status |-> "none", rev |-> 0, key |-> 0]]
  /\ daemon = Down /\ socket = "none" /\ accepted = None
  /\ conn = [c \in Conns |-> NoConn]
  /\ mu = None /\ ledger = {}
  /\ \E roster \in Rosters[limit] :
       client = [a \in Actors |-> [pc |-> IF a \in roster THEN "idle" ELSE "done", n |-> 1, req |-> None, calls |-> 0, oks |-> {}]]
  /\ faults = 0
  /\ effects = [r \in Requests |-> 0] /\ unsaved = [r \in Requests |-> 0]
  /\ registry = [at |-> Target, rev |-> [w \in Rows |-> 1]] /\ vault = None
  /\ swaps = [a \in Revisioned |-> [w \in Rows |-> 0]]

-----------------------------------------------------------------------------
(* The Device root *)

(* Bootstrap: an absent root gets a staging directory, which receives the  *)
(* database with the Device and the owner, then the two identity files.    *)
Stage(p) ==
  /\ root = {} /\ p = (CASE staging = {} -> "db"
                         [] staging = {"db"} -> "daemon"
                         [] OTHER -> "owner")
  /\ p \notin staging
  /\ staging' = staging \cup {p}
  /\ UNCHANGED <<root, limit, row, daemon, socket, accepted, conn, work, client, faults>>

(* The rename that makes the staging directory the root: only then is the  *)
(* identity row of the owner a row of this Device.                         *)
CommitRoot ==
  /\ root = {} /\ staging = Parts
  /\ root' = staging /\ staging' = {}
  /\ row' = [row EXCEPT ![Owner] = [status |-> "active", rev |-> 1, key |-> 1]]
  /\ UNCHANGED <<limit, daemon, socket, accepted, conn, work, client, faults>>

(* An error removes the staging directory; a crash leaves one that nobody  *)
(* looks at, for the name of the next has its own random part.             *)
AbandonStaging ==
  /\ staging # {} /\ staging' = {}
  /\ UNCHANGED <<root, limit, row, daemon, socket, accepted, conn, work, client, faults>>

SaveRow(i, r) ==
  /\ row' = [row EXCEPT ![i] = r]
  /\ UNCHANGED <<boot, daemon, socket, accepted, conn, work, client, faults>>

(* CreateClient, for a peer that is yet to connect.                        *)
CreateClient ==
  /\ root # {} /\ row[Peer].status = "none"
  /\ \E a \in Peers : client[a].pc = "idle"
  /\ SaveRow(Peer, [status |-> "active", rev |-> 1, key |-> 1])

Changes(i) == IF row[i].rev = 0 THEN 0 ELSE row[i].rev - 1

(* Mutant: the key is replaced and the revision stays.                     *)
Mutant_RotateClientIdentity(i, expected, key) ==
  /\ row[i].status = "active" /\ row[i].rev = expected
  /\ row[i].key <= MaxChanges
  /\ SaveRow(i, [row[i] EXCEPT !.key = key])

(* RotateClientIdentity and RevokeClientIdentity: a compare-and-swap of an *)
(* active row on the revision that the administrator has seen.             *)
RotateClientIdentity(i, expected, key) ==
  /\ row[i].status = "active" /\ row[i].rev = expected
  /\ Changes(Owner) + Changes(Peer) < MaxChanges
  /\ SaveRow(i, [status |-> "active", rev |-> expected + 1, key |-> key])

RevokeClientIdentity(i, expected) ==
  /\ row[i].status = "active" /\ row[i].rev = expected
  /\ Changes(Owner) + Changes(Peer) < MaxChanges
  /\ SaveRow(i, [row[i] EXCEPT !.status = "revoked", !.rev = expected + 1])

(* RotateClient makes a new key pair; the owner file keeps the old one.    *)
RotateClient(i) == \E e \in 1..MaxChanges + 1 : RotateClientIdentity(i, e, row[i].key + 1)
RevokeClient(i) == \E e \in 1..MaxChanges + 1 : RevokeClientIdentity(i, e)

-----------------------------------------------------------------------------
(* The daemon process *)

(* VerifyIdentityStore: the owner row is active and has the key of the     *)
(* owner file, which is the one that Bootstrap wrote.                      *)
VerifyIdentityStore == root = Parts /\ row[Owner].status = "active" /\ row[Owner].key = 1

(* Listen takes a socket file of any kind for one in use and leaves it.    *)
Listen == socket = "none" /\ socket' = "live"

(* Closing the listener removes the socket file.                           *)
ListenerClose == socket' = "none"

(* runServe up to Serve.                                                   *)
RunServe ==
  /\ daemon.proc = "down"
  /\ VerifyIdentityStore
  /\ Listen
  /\ daemon' = [Down EXCEPT !.proc = "up"]
  /\ UNCHANGED <<boot, row, accepted, conn, work, client, faults>>

(* The operator removes a socket file that a killed daemon left behind.    *)
RemoveStaleSocket ==
  /\ daemon.proc = "down" /\ socket = "stale" /\ socket' = "none"
  /\ UNCHANGED <<boot, row, daemon, accepted, conn, work, client, faults>>

Cancel ==
  /\ daemon.proc = "up" /\ ~daemon.ctx
  /\ daemon' = [daemon EXCEPT !.ctx = TRUE]
  /\ UNCHANGED <<boot, row, socket, accepted, conn, work, client, faults>>

(* closeActive: the connections of Server.active are closed; those that    *)
(* the listener still has are reset when it closes.                        *)
CloseActive(reset) ==
  [c \in Conns |-> IF Served(c) THEN [conn[c] EXCEPT !.closed = TRUE, !.in = <<>>]
                   ELSE IF reset /\ conn[c].pc = "backlog"
                        THEN Closed(conn[c], "gone")
                        ELSE conn[c]]

(* Close, in the goroutine that waits for the context.                     *)
Close ==
  /\ daemon.proc = "up" /\ daemon.ctx /\ ~daemon.closed
  /\ daemon' = [daemon EXCEPT !.closed = TRUE] /\ ListenerClose
  /\ conn' = CloseActive(TRUE)
  /\ UNCHANGED <<boot, row, accepted, work, client, faults>>

(* acceptWithContext: the goroutine inside takes a connection whenever one *)
(* is there; Serve looks at it in Admit.                                   *)
Accept(c) ==
  /\ daemon.proc = "up" /\ daemon.serve = "loop" /\ ~daemon.closed
  /\ accepted = None /\ conn[c].pc = "backlog"
  /\ accepted' = c /\ conn' = [conn EXCEPT ![c].pc = "accepted"]
  /\ UNCHANGED <<boot, row, daemon, socket, work, client, faults>>

Admit ==
  /\ daemon.proc = "up" /\ daemon.serve = "loop" /\ accepted # None
  /\ accepted' = None
  /\ conn' = IF Cardinality(Active) < limit
             THEN [conn EXCEPT ![accepted].pc = "start"]
             ELSE [conn EXCEPT ![accepted] = Closed(@, "gone")]
  /\ UNCHANGED <<boot, row, daemon, socket, work, client, faults>>

(* Serve returns when the context is done, also with a connection that it  *)
(* has not looked at, or when accepting fails; closeActive is deferred.    *)
ServeReturns ==
  /\ daemon.proc = "up" /\ daemon.serve = "loop"
  /\ \/ daemon.ctx /\ faults' = faults
     \/ ~daemon.ctx /\ accepted = None /\ faults < MaxFaults /\ faults' = faults + 1
  /\ daemon' = [daemon EXCEPT !.serve = "returned"]
  /\ conn' = CloseActive(FALSE)
  /\ UNCHANGED <<boot, row, socket, accepted, work, client>>

(* The process is gone: its connections are, and what its handlers had     *)
(* done and not recorded stays unrecorded.                                 *)
ProcessEnds ==
  /\ daemon' = Down /\ accepted' = None /\ mu' = None
  /\ conn' = [c \in Conns |->
       IF conn[c].pc = "none" THEN conn[c]
       ELSE Closed(conn[c], "gone")]
  /\ unsaved' = [r \in Requests |->
       unsaved[r] + Cardinality({c \in Conns : conn[c].pc = "save" /\ conn[c].req = r})]
  /\ UNCHANGED <<boot, row, ledger, client, effects, data>>

(* runServe returns after Serve, without waiting for the handlers; its     *)
(* deferred calls close the Runtime manager, the listener and the store.   *)
Exit ==
  /\ daemon.proc = "up" /\ daemon.serve = "returned"
  /\ ProcessEnds /\ ListenerClose
  /\ UNCHANGED faults

Crash ==
  /\ daemon.proc = "up" /\ faults < MaxFaults /\ faults' = faults + 1
  /\ ProcessEnds /\ socket' = (IF socket = "live" THEN "stale" ELSE socket)

-----------------------------------------------------------------------------
(* serveConnection, in the goroutine of a connection *)

Moved(c, r) == conn' = [conn EXCEPT ![c] = r]
Ending(r) == Closed(r, "ending")
Ends(c) == Moved(c, Ending(conn[c]))

(* writeFrame, then continue at pc.  A write to a connection that either   *)
(* side has closed fails and ends the goroutine.                           *)
Write(r, frame, pc) ==
  IF r.closed \/ r.hung THEN Ending(r)
  ELSE [r EXCEPT !.out = Append(@, frame), !.pc = pc]

Response(r, code) == [t |-> "response", req |-> r, code |-> code]

Readable(c, t) == ~conn[c].closed /\ conn[c].in # <<>> /\ Head(conn[c].in).t = t
Taken(c) == [conn[c] EXCEPT !.in = Tail(@)]

(* setContextDeadline before the handshake and before each request.        *)
SetContextDeadline(c) ==
  /\ \/ conn[c].pc = "start"
     \/ conn[c].pc = "loop"
  /\ IF daemon.ctx THEN Ends(c)
     ELSE Moved(c, [conn[c] EXCEPT !.pc = IF @ = "start" THEN "hello" ELSE "read"])
  /\ UNCHANGED <<work, faults>>

(* Mutant: no deadline, only a client that hangs up ends a read.           *)
Mutant_ReadFails(c) ==
  /\ conn[c].pc \in {"hello", "proof", "read"}
  /\ conn[c].hung \/ conn[c].closed
  /\ Ends(c)
  /\ UNCHANGED <<work, faults>>

(* A read that fails: the deadline of 5 seconds or 5 minutes, the end of   *)
(* the stream, a frame that is not one JSON value, or a connection that    *)
(* closeActive has closed.                                                 *)
ReadFails(c) ==
  /\ conn[c].pc \in {"hello", "proof", "read"}
  /\ Ends(c)
  /\ UNCHANGED <<work, faults>>

(* Handshake up to markNonce, which precedes every other check and refuses *)
(* when its table is full.                                                 *)
ReadHello(c) ==
  /\ conn[c].pc = "hello" /\ Readable(c, "hello")
  /\ \/ Moved(c, [Taken(c) EXCEPT !.pc = "lookup"])
     \/ Ends(c)
  /\ UNCHANGED <<work, faults>>

ClientIdentity(c) == row[IdentityOf(ActorOf(c))]

(* A signature verifies: both sides have signed the transcript with the    *)
(* same client key in it.                                                  *)
Verifies(k1, k2) == k1 = k2

(* Handshake from the identity lookup to the server's proof: the row read  *)
(* here decides key and revision of the connection.                        *)
Lookup(c) ==
  LET i == ClientIdentity(c) IN
  /\ conn[c].pc = "lookup"
  /\ Moved(c, IF daemon.ctx \/ i.status # "active" THEN Ending(conn[c])
              ELSE Write([conn[c] EXCEPT !.key = i.key, !.rev = i.rev],
                         [t |-> "server", key |-> i.key], "proof"))
  /\ UNCHANGED <<work, faults>>

(* Handshake from the client's proof to AuthOK.                            *)
ReadProof(c) ==
  /\ conn[c].pc = "proof" /\ Readable(c, "proof")
  /\ Moved(c, IF ~Verifies(Head(conn[c].in).key, conn[c].key) THEN Ending(Taken(c))
              ELSE Write(Taken(c), [t |-> "authok"], "loop"))
  /\ UNCHANGED <<work, faults>>

(* validateRequest: an ID is used once, and there is a limit to them.      *)
ValidRequest(c, r) == r \notin conn[c].seen /\ Cardinality(conn[c].seen) < MaxRequests

(* A refused request is answered and ends the connection.                  *)
ReadRequest(c) ==
  LET r == Head(conn[c].in).req IN
  /\ conn[c].pc = "read" /\ Readable(c, "request")
  /\ Moved(c, IF ~ValidRequest(c, r)
              THEN Ending(Write(Taken(c), Response(r, "refused"), "ending"))
              ELSE [Taken(c) EXCEPT !.seen = @ \cup {r}, !.req = r, !.pc = "authorize"])
  /\ UNCHANGED <<work, faults>>

(* intersectCapabilities: the CLI asks for what its command needs, Connect *)
(* for everything.                                                         *)
Granted(a) == (IF a \in Commands THEN {Needs[a]} ELSE Capabilities) \cap Caps[IdentityOf(a)]

(* Another method is not available.                                        *)
RequiredCapability(r) == {Needs[q] : q \in {r} \cap DOMAIN Needs}

Authorized(c) ==
  LET a == ActorOf(c)  i == ClientIdentity(c)  need == RequiredCapability(conn[c].req) IN
  /\ need # {} /\ need \subseteq Granted(a)
  /\ ~daemon.ctx /\ i.status = "active" /\ i.rev = conn[c].rev
  /\ need \subseteq Caps[IdentityOf(a)]

(* Authorizer.Authorize: an error is answered and the connection goes on.  *)
(* The context of a connection is 30 minutes old at any time (ValidAt).    *)
Authorize(c) ==
  /\ conn[c].pc = "authorize"
  /\ \/ /\ Authorized(c)
        /\ Moved(c, [conn[c] EXCEPT !.pc = "handle"])
     \/ /\ \/ ~Authorized(c)
           \/ Authorized(c)  \* expired
        /\ Moved(c, Write(conn[c], Response(conn[c].req, "refused"), "loop"))
  /\ UNCHANGED <<work, faults>>

Replies(c, ok) == Moved(c, [conn[c] EXCEPT !.pc = "reply", !.ok = ok])

CarriedOut(c) == effects' = [effects EXCEPT ![conn[c].req] = @ + 1]

(* Handle, for a method that is dispatched without ledger and mutex and    *)
(* that neither of them is needed for: reads, and commands that may be     *)
(* done again.                                                             *)
Dispatch(c) ==
  /\ conn[c].pc = "handle" /\ conn[c].req \in PeerRequests \cup Repeated
  /\ \/ Replies(c, TRUE) /\ CarriedOut(c)
     \/ Replies(c, FALSE) /\ UNCHANGED effects
  /\ UNCHANGED <<mu, ledger, unsaved, faults, data>>

(* Handle, for a change of the registry or the release of a lease: no      *)
(* ledger and no mutex either.  The target, an ID or an alias, is resolved *)
(* in each attempt ...                                                     *)
Resolve(c) ==
  /\ conn[c].pc = "handle" /\ conn[c].req \in Revisioned
  /\ \/ Moved(c, [conn[c] EXCEPT !.pc = "swap", !.at = registry.at])
     \/ Replies(c, FALSE)
  /\ UNCHANGED <<work, faults>>

(* Mutant: the row is written whatever its revision.                       *)
Mutant_Swap(c) ==
  LET a == conn[c].req  w == conn[c].at IN
  /\ conn[c].pc = "swap" /\ ~daemon.ctx
  /\ registry' = [registry EXCEPT !.rev[w] = @ + 1]
  /\ swaps' = [swaps EXCEPT ![a][w] = @ + 1]
  /\ CarriedOut(c) /\ Replies(c, TRUE)
  /\ UNCHANGED <<mu, ledger, unsaved, vault, faults>>

(* ... and the row is written if it still has the expected revision; a     *)
(* deleted row has none that anyone expects.  The row is read back for the *)
(* answer, which may fail.                                                 *)
Swap(c) ==
  LET a == conn[c].req  w == conn[c].at IN
  /\ conn[c].pc = "swap"
  /\ \/ /\ ~daemon.ctx /\ registry.rev[w] = Expected[a]
        /\ registry' = [registry EXCEPT !.rev[w] = @ + 1]
        /\ swaps' = [swaps EXCEPT ![a][w] = @ + 1]
        /\ CarriedOut(c)
        /\ \E ok \in BOOLEAN : Replies(c, ok)
     \/ Replies(c, FALSE) /\ UNCHANGED <<registry, swaps, effects>>
  /\ UNCHANGED <<mu, ledger, unsaved, vault, faults>>

(* Handle, for vault.initialize: one transaction finds no Vault, or the    *)
(* Vault of this very request, whose success it repeats.                   *)
InitializeVault(c) ==
  /\ conn[c].pc = "handle" /\ conn[c].req \in Initializers
  /\ \/ ~daemon.ctx /\ vault = None /\ vault' = conn[c].req /\ CarriedOut(c) /\ Replies(c, TRUE)
     \/ ~daemon.ctx /\ vault = conn[c].req /\ Replies(c, TRUE) /\ UNCHANGED <<vault, effects>>
     \/ Replies(c, FALSE) /\ UNCHANGED <<vault, effects>>
  /\ UNCHANGED <<mu, ledger, unsaved, registry, swaps, faults>>

(* Mutant: the record is looked up without SessionService.mu.              *)
Mutant_WithIdempotency(c) ==
  /\ conn[c].pc = "handle" /\ conn[c].req \in Ledgered
  /\ IF conn[c].req \in ledger THEN Replies(c, TRUE)
     ELSE Moved(c, [conn[c] EXCEPT !.pc = "fn"])
  /\ UNCHANGED <<work, faults>>

(* withIdempotency, for a method of requiresIdempotency: under             *)
(* SessionService.mu a recorded command repeats its answer, another runs   *)
(* and is recorded, also when its connection is gone.                      *)
WithIdempotency(c) ==
  /\ conn[c].pc = "handle" /\ conn[c].req \in Ledgered /\ mu = None
  /\ \/ daemon.ctx /\ Replies(c, FALSE) /\ UNCHANGED mu
     \/ ~daemon.ctx /\ conn[c].req \in ledger /\ Replies(c, TRUE) /\ UNCHANGED mu
     \/ /\ ~daemon.ctx /\ conn[c].req \notin ledger
        /\ mu' = c /\ Moved(c, [conn[c] EXCEPT !.pc = "fn"])
  /\ UNCHANGED <<ledger, effects, unsaved, faults, data>>

RunFn(c) ==
  /\ conn[c].pc = "fn"
  /\ \/ /\ CarriedOut(c)
        /\ Moved(c, [conn[c] EXCEPT !.pc = "save"]) /\ UNCHANGED mu
     \/ /\ Replies(c, FALSE) /\ mu' = None
        /\ UNCHANGED effects
  /\ UNCHANGED <<ledger, unsaved, faults, data>>

SaveIdempotencyRecord(c) ==
  /\ conn[c].pc = "save" /\ mu' = None
  /\ \/ /\ ~daemon.ctx /\ ledger' = ledger \cup {conn[c].req}
        /\ Replies(c, TRUE) /\ UNCHANGED <<unsaved, faults>>
     \/ /\ \/ daemon.ctx /\ UNCHANGED faults
           \/ ~daemon.ctx /\ faults < MaxFaults /\ faults' = faults + 1
        /\ unsaved' = [unsaved EXCEPT ![conn[c].req] = @ + 1]
        /\ Replies(c, FALSE) /\ UNCHANGED ledger
  /\ UNCHANGED <<effects, data>>

(* The answer is written under the deadline of the request, which a long   *)
(* handler may have outlived.                                              *)
Reply(c) ==
  LET code == IF conn[c].ok THEN "ok" ELSE "error" IN
  /\ conn[c].pc = "reply"
  /\ \/ Moved(c, Write([conn[c] EXCEPT !.req = None, !.at = None, !.ok = FALSE],
                       Response(conn[c].req, code), "loop"))
     \/ Ends(c)
  /\ UNCHANGED <<work, faults>>

(* The deferred untrack and the release of the slot.                       *)
Untrack(c) ==
  /\ conn[c].pc = "ending"
  /\ Moved(c, Closed(conn[c], "gone"))
  /\ UNCHANGED <<work, faults>>

ConnectionStep(c) ==
  /\ Served(c)
  /\ UNCHANGED <<boot, row, daemon, socket, accepted, client>>
  /\ \/ SetContextDeadline(c) \/ ReadFails(c) \/ ReadHello(c) \/ Lookup(c) \/ ReadProof(c)
     \/ ReadRequest(c) \/ Authorize(c)
     \/ Dispatch(c) \/ Resolve(c) \/ Swap(c) \/ InitializeVault(c)
     \/ WithIdempotency(c) \/ RunFn(c) \/ SaveIdempotencyRecord(c)
     \/ Reply(c) \/ Untrack(c)

-----------------------------------------------------------------------------
(* The clients *)

ConnOf(a) == <<a, client[a].n>>
Sent(c, frame) == [conn[c] EXCEPT !.in = IF conn[c].closed THEN @ ELSE Append(@, frame)]
Client(a, r) == client' = [client EXCEPT ![a] = r]
Hung(c) == [conn[c] EXCEPT !.hung = TRUE, !.out = <<>>]

(* callWithLostResponseRetry: CodeDaemonUnavailable, and only that, makes  *)
(* the CLI send a command a second time, with the same request.  That it   *)
(* may is the CLI's own judgement: its idempotent flag is set for methods  *)
(* of every class, not only for those that have a record.                  *)
Retry(a) ==
  Client(a, IF a \in Commands /\ client[a].n = 1
            THEN [client[a] EXCEPT !.pc = "idle", !.n = 2, !.req = None]
            ELSE [client[a] EXCEPT !.pc = "done", !.req = None])

GiveUp(a) == Client(a, [client[a] EXCEPT !.pc = "done", !.req = None, !.calls = 0])

(* Dial, and ClientAuthenticator.Handshake up to its hello.                *)
Dial(a) ==
  /\ client[a].pc = "idle" /\ root # {}
  /\ row[IdentityOf(a)].status # "none"
  /\ \/ /\ socket = "live"
        /\ Moved(ConnOf(a), [NoConn EXCEPT !.pc = "backlog", !.in = <<[t |-> "hello"]>>])
        /\ Client(a, [client[a] EXCEPT !.pc = "hello"])
     \/ /\ socket # "live" /\ Retry(a) /\ UNCHANGED conn

(* The key a client signs with: the CLI has the owner file, a peer any key *)
(* that was issued to it.                                                  *)
Keys(a) == IF a \in Commands THEN {1} ELSE 1..row[IdentityOf(a)].key

Incoming(a, t) ==
  ~conn[ConnOf(a)].hung /\ conn[ConnOf(a)].out # <<>> /\ Head(conn[ConnOf(a)].out).t = t
Received(a) == [conn[ConnOf(a)] EXCEPT !.out = Tail(@)]

(* The client verifies the server's proof over its own key and signs the   *)
(* same transcript.                                                        *)
ClientProof(a) ==
  /\ client[a].pc = "hello" /\ Incoming(a, "server")
  /\ \E k \in Keys(a) :
       \/ /\ Verifies(k, Head(conn[ConnOf(a)].out).key)
          /\ Moved(ConnOf(a), [Received(a) EXCEPT
                     !.in = IF conn[ConnOf(a)].closed THEN @ ELSE Append(@, [t |-> "proof", key |-> k])])
          /\ Client(a, [client[a] EXCEPT !.pc = "proof"])
       \/ /\ ~Verifies(k, Head(conn[ConnOf(a)].out).key)
          /\ Moved(ConnOf(a), Hung(ConnOf(a))) /\ GiveUp(a)

ClientAccepted(a) ==
  /\ client[a].pc = "proof" /\ Incoming(a, "authok")
  /\ Moved(ConnOf(a), Received(a))
  /\ Client(a, [client[a] EXCEPT !.pc = "ready"])

(* The handshake fails on the client's side: the stream ends or 5 seconds  *)
(* pass.  That is CodeUnauthenticated, which is not retried.               *)
HandshakeFails(a) ==
  /\ client[a].pc \in {"hello", "proof"}
  /\ Moved(ConnOf(a), Hung(ConnOf(a))) /\ GiveUp(a)

(* Client.Call: the request goes out ...                                   *)
Call(a, r) ==
  /\ client[a].pc = "ready"
  /\ r \in (IF a \in Commands THEN {a} ELSE PeerRequests)
  /\ client[a].calls < MaxCalls
  /\ Moved(ConnOf(a), Sent(ConnOf(a), [t |-> "request", req |-> r]))
  /\ Client(a, [client[a] EXCEPT !.pc = "calling", !.req = r, !.calls = @ + 1])

(* Mutant: any answer is taken for the answer of this call.                *)
Mutant_CallReturns(a) ==
  /\ client[a].pc = "calling" /\ Incoming(a, "response")
  /\ Moved(ConnOf(a), IF a \in Commands THEN Hung(ConnOf(a)) ELSE Received(a))
  /\ Client(a, [client[a] EXCEPT !.pc = IF a \in Commands THEN "done" ELSE "ready",
                   !.oks = IF Head(conn[ConnOf(a)].out).code = "ok" THEN @ \cup {client[a].req} ELSE @,
                   !.req = None])

(* ... and the next frame is its answer if it has its ID.  A command then  *)
(* closes its connection; a peer may go on.                                *)
CallReturns(a) ==
  LET frame == Head(conn[ConnOf(a)].out)
      ok == frame.req = client[a].req /\ frame.code = "ok" IN
  /\ client[a].pc = "calling" /\ Incoming(a, "response")
  /\ Moved(ConnOf(a), IF a \in Commands THEN Hung(ConnOf(a)) ELSE Received(a))
  /\ Client(a, [client[a] EXCEPT !.pc = IF a \in Commands THEN "done" ELSE "ready",
                                 !.oks = IF ok THEN @ \cup {client[a].req} ELSE @,
                                 !.req = None])

(* The stream ends or the deadline of the call passes.  A peer keeps the   *)
(* connection, on which the answer may still come.                         *)
CallFails(a) ==
  /\ client[a].pc = "calling"
  /\ \/ /\ a \in Commands
        /\ Moved(ConnOf(a), Hung(ConnOf(a))) /\ Retry(a)
     \/ /\ a \notin Commands
        /\ Client(a, [client[a] EXCEPT !.pc = "ready", !.req = None]) /\ UNCHANGED conn

CloseConnection(a) ==
  /\ client[a].pc = "ready"
  /\ Moved(ConnOf(a), Hung(ConnOf(a))) /\ GiveUp(a)

ClientStep(a) ==
  /\ \/ Dial(a) \/ ClientProof(a) \/ ClientAccepted(a) \/ HandshakeFails(a)
     \/ \E r \in Requests : Call(a, r)
     \/ CallReturns(a) \/ CallFails(a) \/ CloseConnection(a)
  /\ UNCHANGED <<boot, row, daemon, socket, accepted, work, faults>>

-----------------------------------------------------------------------------
(* Another client changes a row or gives the alias that the target names   *)
(* to another row.  Nobody looks at the rows but the handler of a change,  *)
(* so it is enough to do this while there is one.                          *)
OtherClient ==
  /\ \E c \in Conns : conn[c].pc \in {"handle", "swap"} /\ conn[c].req \in Revisioned
  /\ faults < MaxFaults /\ faults' = faults + 1
  /\ \E w \in Rows :
       \/ registry.rev[w] < MaxRevision /\ registry' = [registry EXCEPT !.rev[w] = @ + 1]
       \/ w # registry.at /\ registry' = [registry EXCEPT !.at = w]
  /\ UNCHANGED <<boot, row, daemon, socket, accepted, conn, mu, ledger, client,
                 effects, unsaved, vault, swaps>>

Administration ==
  \/ \E p \in Parts : Stage(p)
  \/ CommitRoot \/ AbandonStaging \/ CreateClient
  \/ \E i \in Identities : RotateClient(i) \/ RevokeClient(i)
  \/ RunServe \/ RemoveStaleSocket \/ Cancel \/ OtherClient

Next ==
  \/ Administration
  \/ Close \/ Admit \/ ServeReturns \/ Exit \/ Crash
  \/ \E c \in Conns : Accept(c) \/ ConnectionStep(c)
  \/ \E a \in Actors : ClientStep(a)

Spec == Init /\ [][Next]_vars

(* The goroutine of a connection runs, its timers fire and a command that  *)
(* it runs returns.  Nothing is asked of the client or of the operator.    *)
FairSpec ==
  /\ Spec
  /\ \A c \in Conns : WF_vars(ConnectionStep(c))

-----------------------------------------------------------------------------
(* Every variable has its type.                                            *)
TypeOK ==
  /\ staging \subseteq Parts /\ root \subseteq Parts
  /\ row \in [Identities -> [status : {"none", "active", "revoked"}, rev : 0..MaxChanges + 1, key : 0..MaxChanges + 1]]
  /\ daemon \in [proc : {"down", "up"}, ctx : BOOLEAN, serve : {"loop", "returned"}, closed : BOOLEAN]
  /\ socket \in {"none", "live", "stale"}
  /\ accepted \in Conns \cup {None} /\ mu \in Conns \cup {None}
  /\ registry \in [at : Rows, rev : [Rows -> Nat]] /\ vault \in Initializers \cup {None}
  /\ ledger \subseteq Ledgered /\ faults \in 0..MaxFaults
  /\ Cardinality(Active) <= limit

(* A request passes its authorization only while its client is active,     *)
(* holds the capability and is still known by the key that the connection  *)
(* proved: a revocation or rotation ends what connections opened before it *)
(* may do (Handshake, Authorize, RotateClientIdentity).                    *)
AuthorizedIsCurrent ==
  [][\A c \in Conns : conn[c].pc = "authorize" /\ conn'[c].pc = "handle" =>
       LET i == ClientIdentity(c) IN
       /\ i.status = "active" /\ i.key = conn[c].key
       /\ Needs[conn[c].req] \in Caps[IdentityOf(ActorOf(c))]]_vars

(* A command of requiresIdempotency that is sent twice is carried out      *)
(* once, however late the first connection's handler is; only a record     *)
(* that was not saved lets a second run happen (withIdempotency).          *)
RecordedRunsOnce == \A a \in Ledgered : effects[a] <= 1 + unsaved[a]

(* What protects the commands that the CLI repeats and Handle does not     *)
(* record, with no mutex between the two handlers: the Vault is            *)
(* initialized once; a change made at an expected revision changes a row   *)
(* once, also when the first attempt is still running, the alias names     *)
(* another row by now or the success could not be reported; and the rest   *)
(* is done at most once for each time the CLI sent it (Handle,             *)
(* InitializeVault, UpdateAccount, SetAccountEnabledRevision, Release).    *)
DirectRunsOnce ==
  /\ \A a \in Initializers : effects[a] <= 1
  /\ \A a \in Revisioned, w \in Rows : swaps[a][w] <= 1
  /\ \A a \in Repeated : effects[a] <= client[a].n

(* What a command that the CLI sends twice may do, for each of the ways in *)
(* which Handle runs one (callWithLostResponseRetry, Handle).              *)
RetryRunsOnce == RecordedRunsOnce /\ DirectRunsOnce

(* A success that a client reports is the success of that very request,    *)
(* not the late answer of an earlier one; a request ID is carried out at   *)
(* most once on a connection (Call, validateRequest).                      *)
AnsweredIsDone ==
  /\ \A a \in Actors, r \in Requests : r \in client[a].oks => effects[r] >= 1
  /\ \A r \in PeerRequests : effects[r] <= Cardinality(Peers)

(* Every slot comes back: a connection ends whatever its client does or    *)
(* leaves undone.  Each client connects a bounded number of times, so      *)
(* there is a moment at which no slot is taken, and one connection that    *)
(* lasts for ever would prevent it (setContextDeadline, validateRequest,   *)
(* closeActive).                                                           *)
SlotsReturn == Active # {} ~> Active = {}
=============================================================================
