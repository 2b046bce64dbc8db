------------------------- MODULE DeviceServerProofs -------------------------
(***************************************************************************)
(* Proofs about DeviceServer for any commands, peers, requests, limits and *)
(* faults: a command of the ledger that is sent twice runs once unless its *)
(* record was lost, the other commands that the CLI repeats do what        *)
(* DirectRunsOnce allows, a reported success was carried out, the          *)
(* semaphore of Serve is kept, and a request passes its authorization only *)
(* under the key that its connection proved.                               *)
(*                                                                         *)
(* CountInv makes RecordedRunsOnce exact: each such run is recorded,       *)
(* lost, or about to be recorded by the one handler that MuInv allows.     *)
(* The frames of a stream carry the promise of AnsweredIsDone (OutFrames). *)
(* DirectInv charges each run of a request that is dispatched directly to  *)
(* the connection that spent the ID.  KeyOK ties a connection's key to its *)
(* row for as long as the row has the revision that the handshake has      *)
(* read.  StoreInv, about the rows and the Vault, says that a row that a   *)
(* command changed has left the revision which that command expects.       *)
(***************************************************************************)
EXTENDS DeviceServer, FiniteSetTheorems, TLAPS

(* Where the goroutine of a connection can be.                             *)
Pcs == {"none", "backlog", "accepted", "start", "hello", "lookup", "proof", "loop",
        "read", "authorize", "handle", "swap", "fn", "save", "reply", "ending", "gone"}

(* The requests an actor sends.                                            *)
Asks(a) == IF a \in Commands THEN {a} ELSE PeerRequests

(* The requests that were carried out.                                     *)
Done == {r \in Requests : effects[r] >= 1}

(* What a client sends: only requests of its own.                          *)
InFrames(a) ==
  [t : {"hello"}] \cup [t : {"proof"}, key : Nat] \cup [t : {"request"}, req : Asks(a)]

(* What the daemon sends: an answer is ok only for a request in D.         *)
OutFrames(D) ==
  [t : {"server"}, key : Nat] \cup [t : {"authok"}]
    \cup [t : {"response"}, req : Requests, code : {"error", "refused"}]
    \cup [t : {"response"}, req : D, code : {"ok"}]

(* A connection of actor a, when D is done.                                *)
ConnRec(a, D) ==
  [pc : Pcs, closed : BOOLEAN, hung : BOOLEAN, in : Seq(InFrames(a)),
   out : Seq(OutFrames(D)), key : Nat, rev : Nat, seen : SUBSET Asks(a),
   req : Asks(a) \cup {None}, at : Rows \cup {None}, ok : BOOLEAN]

(* A client_identities row.                                                *)
Row == [status : {"none", "active", "revoked"}, rev : Nat, key : Nat]

(* A client.                                                               *)
ClientRec ==
  [pc : {"idle", "hello", "proof", "ready", "calling", "done"}, n : {1, 2},
   req : Requests \cup {None}, calls : Nat, oks : SUBSET Requests]

(* The variables the argument is about have their types.                   *)
Shape ==
  /\ row \in [Identities -> Row]
  /\ conn = [c \in Conns |-> conn[c]]
  /\ \A c \in Conns : conn[c] \in ConnRec(ActorOf(c), Done)
  /\ client \in [Actors -> ClientRec]
  /\ effects \in [Requests -> Nat] /\ unsaved \in [Requests -> Nat]
  /\ ledger \subseteq Ledgered
  /\ mu \in Conns \cup {None} /\ accepted \in Conns \cup {None}
  /\ limit \in Nat

(* A Device without a root has no identities, and a row counts from 1.     *)
RowInv ==
  \A i \in Identities : /\ root = {} => row[i].status = "none"
                        /\ row[i].status = "none" => row[i].rev = 0
                        /\ row[i].status = "active" => row[i].rev >= 1

(* The places after the identity lookup.                                   *)
Known == {"proof", "loop", "read", "authorize", "handle", "swap", "fn", "save", "reply"}
(* The places where a request is being handled.                            *)
Busy == {"authorize", "handle", "swap", "fn", "save", "reply"}

(* A connection knows a revision that its row has had, and while the row   *)
(* still has it, the row's key.                                            *)
KeyOK(r, i) ==
  r.pc \in Known => /\ 1 <= r.rev /\ r.rev <= i.rev
                    /\ r.rev = i.rev => r.key = i.key

(* A handled request has spent its ID; fn and save are for commands of the *)
(* ledger, swap for changes of a row; a success that is to be answered was *)
(* carried out.                                                            *)
ReqOK(r, D) ==
  /\ r.pc = "none" => r.seen = {}
  /\ r.pc \in Busy => r.req \in r.seen
  /\ r.pc \in {"fn", "save"} => r.req \in Ledgered
  /\ r.pc = "swap" => r.req \in Revisioned
  /\ r.pc = "reply" /\ r.ok => r.req \in D

(* The last two of every connection.                                       *)
RecInv == \A c \in Conns : KeyOK(conn[c], ClientIdentity(c)) /\ ReqOK(conn[c], Done)

(* A handler between the look-up and the record of a command holds         *)
(* SessionService.mu, and the command has no record.                       *)
MuInv == \A c \in Conns : conn[c].pc \in {"fn", "save"} =>
           mu = c /\ conn[c].req \notin ledger

(* A handler has carried a out and not recorded it.                        *)
Saving(a) == \E c \in Conns : conn[c].pc = "save" /\ conn[c].req = a

(* Each time a command of the ledger was carried out is recorded, lost or  *)
(* about to be recorded.                                                   *)
CountInv == \A a \in Ledgered :
  effects[a] = unsaved[a] + (IF a \in ledger THEN 1 ELSE 0)
                          + (IF Saving(a) THEN 1 ELSE 0)

(* This connection can no longer carry out q, or has: it is over, or q is  *)
(* used and past its handler.                                              *)
Spent(r, q) ==
  \/ r.pc \in {"ending", "gone"}
  \/ q \in r.seen /\ ~(r.pc \in {"authorize", "handle"} /\ r.req = q)

(* The requests that are dispatched directly.                              *)
Direct == PeerRequests \cup Repeated

(* The connections on which q is asked for and can no longer be carried    *)
(* out.                                                                    *)
SpentBy(q) == {c \in Conns : q \in Asks(ActorOf(c)) /\ Spent(conn[c], q)}

(* Such a request was carried out at most once for each of them.           *)
DirectInv == \A q \in Direct : effects[q] <= Cardinality(SpentBy(q))

(* A client reports what was done, dials a connection that is not there    *)
(* yet, and only a command has a second one.                               *)
ClientInv ==
  \A a \in Actors :
    /\ client[a].oks \subseteq Done
    /\ client[a].pc = "idle" => conn[ConnOf(a)].pc = "none"
    /\ a \in Commands /\ client[a].n = 1 => conn[<<a, 2>>].pc = "none"
    /\ a \in Peers => client[a].n = 1

(* What Accept returned waits for Serve.                                   *)
AcceptInv == accepted # None => conn[accepted].pc = "accepted"

(* The semaphore of Serve is never overdrawn.                              *)
SlotInv == Cardinality(Active) <= limit

(* A row that a command has changed is past the revision which the command *)
(* expects, and the Vault knows who has initialized it.                    *)
StoreInv ==
  /\ registry \in [at : Rows, rev : [Rows -> Nat]]
  /\ swaps \in [Revisioned -> [Rows -> Nat]]
  /\ \A a \in Revisioned, w \in Rows :
       /\ swaps[a][w] <= 1
       /\ swaps[a][w] = 1 => registry.rev[w] > Expected[a]
  /\ vault \in Initializers \cup {None}
  /\ \A a \in Initializers : effects[a] = (IF vault = a THEN 1 ELSE 0)

(* The inductive invariant, with StoreInv.                                 *)
IInv == /\ Shape /\ RowInv /\ RecInv /\ MuInv /\ CountInv /\ DirectInv /\ ClientInv
        /\ AcceptInv /\ SlotInv

(* The connections of the actors.                                          *)
LEMMA ConnsFacts ==
  /\ \A c \in Conns : ActorOf(c) \in Actors
  /\ \A a \in Actors : <<a, 1>> \in Conns /\ ActorOf(<<a, 1>>) = a
  /\ \A a \in Commands : <<a, 2>> \in Conns /\ ActorOf(<<a, 2>>) = a
  /\ \A c \in Conns : ActorOf(c) \notin Commands => ActorOf(c) \in Peers /\ c = <<ActorOf(c), 1>>
  /\ \A p \in Peers : p \notin Commands /\ p \in Actors
  /\ None \notin Conns /\ None \notin Requests
  /\ IsFiniteSet(Conns) /\ IsFiniteSet(Peers)
<1>1. \A c \in Conns : ActorOf(c) \in Actors
  BY DEF Conns, ActorOf, Actors
<1>2. \A a \in Actors : <<a, 1>> \in Conns /\ ActorOf(<<a, 1>>) = a
  BY DEF Conns, ActorOf, Actors
<1>3. \A a \in Commands : <<a, 2>> \in Conns /\ ActorOf(<<a, 2>>) = a
  BY DEF Conns, ActorOf, Actors
<1>4. \A c \in Conns : ActorOf(c) \notin Commands => ActorOf(c) \in Peers /\ c = <<ActorOf(c), 1>>
  BY DEF Conns, ActorOf
<1>5. IsFiniteSet(Conns)
  <2>1. IsFiniteSet({1} \cup {2})
    BY FS_Singleton, FS_AddElement
  <2>2. IsFiniteSet(Actors \X ({1} \cup {2}))
    BY <2>1, DeviceAssumption, FS_Product
  <2>3. Conns \subseteq Actors \X ({1} \cup {2})
    BY DEF Conns, Actors
  <2> QED BY <2>2, <2>3, FS_Subset
<1>6. IsFiniteSet(Peers)
  <2>1. Peers \subseteq Actors
    BY DEF Actors
  <2> QED BY <2>1, DeviceAssumption, FS_Subset
<1>7. \A p \in Peers : p \notin Commands /\ p \in Actors
  BY DeviceAssumption DEF Actors
<1> QED BY <1>1, <1>2, <1>3, <1>4, <1>5, <1>6, <1>7, DeviceAssumption

(* Commands and peers ask for different requests.                          *)
LEMMA AsksFacts ==
  /\ \A a \in Actors : Asks(a) \subseteq Requests
  /\ \A a \in Commands : Asks(a) = {a}
  /\ \A p \in Peers : Asks(p) = PeerRequests
  /\ \A r \in PeerRequests : r \notin Commands
BY DeviceAssumption DEF Asks, Requests, Actors

(* The classes of requests.                                                *)
LEMMA ClassFacts ==
  /\ Direct \subseteq Requests /\ Ledgered \subseteq Requests
  /\ Revisioned \subseteq Requests /\ Initializers \subseteq Requests
  /\ \A q \in Direct : q \notin Ledgered /\ q \notin Revisioned /\ q \notin Initializers
  /\ \A q \in Revisioned : q \notin Ledgered /\ q \notin Initializers
  /\ \A q \in Initializers : q \notin Ledgered
BY DeviceAssumption DEF Direct, Repeated, Requests

(* Frames from the client.                                                 *)
LEMMA InFrameFacts ==
  ASSUME NEW a
  PROVE  /\ [t |-> "hello"] \in InFrames(a)
         /\ \A k \in Nat : [t |-> "proof", key |-> k] \in InFrames(a)
         /\ \A r \in Asks(a) : [t |-> "request", req |-> r] \in InFrames(a)
         /\ \A f \in InFrames(a) : f.t = "request" => f.req \in Asks(a)
BY DEF InFrames

(* Frames from the daemon.                                                 *)
LEMMA OutFrameFacts ==
  ASSUME NEW D \in SUBSET Requests
  PROVE  /\ \A k \in Nat : [t |-> "server", key |-> k] \in OutFrames(D)
         /\ [t |-> "authok"] \in OutFrames(D)
         /\ \A r \in Requests, k \in {"error", "refused"} : Response(r, k) \in OutFrames(D)
         /\ \A r \in D : Response(r, "ok") \in OutFrames(D)
         /\ \A f \in OutFrames(D) : f.t = "response" /\ f.code = "ok" => f.req \in D
         /\ \A f \in OutFrames(D) : f.t = "server" => f.key \in Nat
BY DEF OutFrames, Response

(* A frame stays true when more is done.                                   *)
LEMMA OutFramesGrow ==
  ASSUME NEW D, NEW E, D \subseteq E
  PROVE  OutFrames(D) \subseteq OutFrames(E) /\ Seq(OutFrames(D)) \subseteq Seq(OutFrames(E))
<1>1. OutFrames(D) \subseteq OutFrames(E)
  BY DEF OutFrames
<1>2. ASSUME NEW s \in Seq(OutFrames(D)) PROVE s \in Seq(OutFrames(E))
  <2>1. s \in [1..Len(s) -> OutFrames(D)]
    OBVIOUS
  <2>2. s \in [1..Len(s) -> OutFrames(E)]
    BY <1>1, <2>1
  <2> QED BY <2>2
<1> QED BY <1>1, <1>2

(* So does a connection.                                                   *)
LEMMA RecGrows ==
  ASSUME NEW a, NEW D, NEW E, D \subseteq E
  PROVE  ConnRec(a, D) \subseteq ConnRec(a, E)
BY OutFramesGrow DEF ConnRec

(* A connection that is not there yet.                                     *)
LEMMA NoConnFacts ==
  ASSUME NEW a, NEW D
  PROVE  /\ NoConn \in ConnRec(a, D)
         /\ NoConn.pc = "none" /\ NoConn.seen = {}
BY DEF NoConn, ConnRec, Pcs

(* A connection that the daemon has closed.                                *)
LEMMA ClosedFacts ==
  ASSUME NEW a, NEW D, NEW r \in ConnRec(a, D), NEW pc \in {"ending", "gone"}
  PROVE  /\ Closed(r, pc) \in ConnRec(a, D)
         /\ Closed(r, pc).pc = pc
<1>1. r.hung \in BOOLEAN /\ r.out \in Seq(OutFrames(D))
  BY DEF ConnRec
<1>2. /\ NoConn \in ConnRec(a, D)
      /\ pc \in Pcs
  BY NoConnFacts DEF Pcs
<1>3. Closed(r, pc).pc = pc
  BY DEF Closed, NoConn
<1> QED BY <1>1, <1>2, <1>3 DEF Closed, ConnRec

(* A change of a connection, from r to s, that takes no slot, enters or    *)
(* leaves no command's handler, and gives no ID back.                      *)
Calm(r, s) ==
  /\ s.pc = "none" <=> r.pc = "none"
  /\ s.pc = "fn" <=> r.pc = "fn"
  /\ s.pc = "save" <=> r.pc = "save"
  /\ s.pc \in {"fn", "save"} => s.req = r.req
  /\ r.pc = "accepted" => s.pc = "accepted"
  /\ s.pc \notin {"none", "backlog", "accepted", "gone"} =>
       r.pc \notin {"none", "backlog", "accepted", "gone"}
  /\ \A q \in Direct : Spent(r, q) => Spent(s, q)

(* s can replace connection c when nothing else changes.                   *)
Fits(c, s) ==
  /\ s \in ConnRec(ActorOf(c), Done)
  /\ KeyOK(s, ClientIdentity(c)) /\ ReqOK(s, Done)
  /\ Calm(conn[c], s)

(* The streams may differ, the state of the goroutine does not.            *)
SameState(r, s) ==
  /\ s.pc = r.pc /\ s.key = r.key /\ s.rev = r.rev
  /\ s.seen = r.seen /\ s.req = r.req /\ s.ok = r.ok

(* DirectInv survives when nobody gets an ID back.                         *)
LEMMA CalmDirect ==
  ASSUME DirectInv, effects \in [Requests -> Nat],
         \A q \in Direct : effects'[q] = effects[q],
         \A c \in Conns, q \in Direct : Spent(conn[c], q) => Spent(conn'[c], q)
  PROVE  DirectInv'
<1>1. ASSUME NEW q \in Direct
      PROVE  Cardinality(SpentBy(q)) <= Cardinality(SpentBy(q)')
             /\ Cardinality(SpentBy(q)) \in Nat /\ Cardinality(SpentBy(q)') \in Nat
  <2> DEFINE S == SpentBy(q)  T == SpentBy(q)'
  <2>1. S \subseteq T /\ T \subseteq Conns
    BY DEF SpentBy
  <2>2. IsFiniteSet(T)
    BY <2>1, ConnsFacts, FS_Subset
  <2>3. IsFiniteSet(S) /\ Cardinality(S) <= Cardinality(T)
    BY <2>1, <2>2, FS_Subset
  <2> QED BY <2>2, <2>3, FS_CardinalityType
<1>2. ASSUME NEW q \in Direct PROVE effects'[q] <= Cardinality(SpentBy(q)')
  <2>1. effects[q] <= Cardinality(SpentBy(q)) /\ effects[q] \in Nat
    BY ClassFacts DEF DirectInv
  <2> QED BY <1>1, <2>1
<1> QED BY <1>2 DEF DirectInv

(* SlotInv survives when nobody takes a slot.                              *)
LEMMA CalmSlots ==
  ASSUME SlotInv, limit' = limit, limit \in Nat,
         \A c \in Conns : Served(c)' => Served(c)
  PROVE  SlotInv'
<1> DEFINE S == Active  T == Active'
<1>1. T \subseteq S /\ S \subseteq Conns
  BY DEF Active
<1>2. IsFiniteSet(S)
  BY <1>1, ConnsFacts, FS_Subset
<1>3. IsFiniteSet(T) /\ Cardinality(T) <= Cardinality(S)
  BY <1>1, <1>2, FS_Subset
<1>4. Cardinality(S) \in Nat /\ Cardinality(T) \in Nat
  BY <1>2, <1>3, FS_CardinalityType
<1>5. Cardinality(T) <= limit
  BY <1>3, <1>4 DEF SlotInv
<1> QED BY <1>5 DEF SlotInv

(* Calm changes of connections keep what is not about clients.             *)
LEMMA CalmStep ==
  ASSUME IInv, Shape', RecInv', UNCHANGED <<root, limit, row, mu, ledger, effects, unsaved>>,
         \A c \in Conns : Calm(conn[c], conn'[c])
  PROVE  RowInv' /\ MuInv' /\ CountInv' /\ DirectInv' /\ SlotInv'
         /\ (accepted' = accepted => AcceptInv')
<1>1. RowInv'
  BY DEF IInv, RowInv
<1>2. MuInv'
  BY DEF IInv, MuInv, Calm
<1>3. \A a \in Ledgered : Saving(a)' <=> Saving(a)
  BY DEF Saving, Calm
<1>4. CountInv'
  BY <1>3 DEF IInv, CountInv
<1>5. DirectInv'
  <2>1. \A c \in Conns, q \in Direct : Spent(conn[c], q) => Spent(conn'[c], q)
    BY DEF Calm
  <2>2. \A q \in Direct : effects'[q] = effects[q]
    OBVIOUS
  <2> QED BY <2>1, <2>2, CalmDirect DEF IInv, Shape
<1>6. ASSUME accepted' = accepted PROVE AcceptInv'
  BY <1>6 DEF IInv, AcceptInv, Calm, Shape
<1>7. SlotInv'
  <2>1. \A c \in Conns : Served(c)' => Served(c)
    BY DEF Calm, Served
  <2> QED BY <2>1, CalmSlots DEF IInv, Shape
<1> QED BY <1>1, <1>2, <1>4, <1>5, <1>6, <1>7

(* ClientInv survives when no new connection appears.                      *)
LEMMA CalmClients ==
  ASSUME IInv, UNCHANGED <<client, effects>>,
         \A c \in Conns : conn[c].pc = "none" => conn'[c].pc = "none"
  PROVE  ClientInv'
<1>1. \A a \in Actors : ConnOf(a) \in Conns /\ ConnOf(a)' = ConnOf(a)
  BY ConnsFacts DEF IInv, ClientInv, ConnOf, Shape, ClientRec, Actors
<1>2. Done' = Done
  BY DEF Done
<1> QED BY <1>1, <1>2, ConnsFacts DEF IInv, ClientInv

(* Moved replaces one connection.                                          *)
LEMMA MovedFacts ==
  ASSUME Shape, NEW c \in Conns, NEW s, Moved(c, s)
  PROVE  /\ conn' = [d \in Conns |-> conn'[d]]
         /\ conn'[c] = s
         /\ \A d \in Conns : d # c => conn'[d] = conn[d]
BY DEF Moved, Shape

(* A change of the streams is calm.                                        *)
LEMMA SameCalm ==
  ASSUME NEW r, NEW s, SameState(r, s) PROVE Calm(r, s)
BY DEF Calm, SameState, Spent

(* A fitting change of one connection, beside a step of a client.          *)
LEMMA OneConn ==
  ASSUME IInv, NEW c \in Conns, NEW s, Fits(c, s), Moved(c, s),
         UNCHANGED <<root, limit, row, accepted, mu, ledger, effects, unsaved>>,
         client' \in [Actors -> ClientRec]
  PROVE  Shape' /\ RowInv' /\ RecInv' /\ MuInv' /\ CountInv' /\ DirectInv' /\ AcceptInv' /\ SlotInv'
<1>0. Shape /\ RecInv
  BY DEF IInv
<1>1. /\ conn' = [d \in Conns |-> conn'[d]]
      /\ conn'[c] = s
      /\ \A d \in Conns : d # c => conn'[d] = conn[d]
  BY <1>0, MovedFacts
<1>2. Done' = Done /\ \A d \in Conns : ClientIdentity(d)' = ClientIdentity(d)
  BY DEF Done, ClientIdentity
<1>3. \A d \in Conns : conn'[d] \in ConnRec(ActorOf(d), Done)
  BY <1>0, <1>1 DEF Fits, Shape
<1>4. Shape'
  BY <1>0, <1>1, <1>2, <1>3 DEF Shape
<1>5. RecInv'
  BY <1>0, <1>1, <1>2 DEF Fits, RecInv
<1>6. \A d \in Conns : Calm(conn[d], conn'[d])
  <2>1. \A d \in Conns : SameState(conn[d], conn[d])
    BY DEF SameState
  <2> QED BY <1>1, <2>1, SameCalm DEF Fits
<1> QED BY <1>4, <1>5, <1>6, CalmStep

(* A fitting change of one connection keeps the invariant.                 *)
LEMMA OneConnKept ==
  ASSUME IInv, NEW c \in Conns, NEW s, Fits(c, s), Moved(c, s),
         UNCHANGED <<root, limit, row, accepted, mu, ledger, effects, unsaved, client>>
  PROVE  IInv'
<1>1. client' \in [Actors -> ClientRec]
  BY DEF IInv, Shape
<1>2. \A d \in Conns : conn[d].pc = "none" => conn'[d].pc = "none"
  BY MovedFacts DEF IInv, Fits, Calm
<1>3. ClientInv'
  BY <1>2, CalmClients
<1> QED BY <1>1, <1>3, OneConn DEF IInv

(* The fields of a connection.                                             *)
LEMMA RecFields ==
  ASSUME NEW a, NEW D, NEW r \in ConnRec(a, D)
  PROVE  /\ r.pc \in Pcs /\ r.closed \in BOOLEAN /\ r.hung \in BOOLEAN
         /\ r.in \in Seq(InFrames(a)) /\ r.out \in Seq(OutFrames(D))
         /\ r.key \in Nat /\ r.rev \in Nat /\ r.seen \subseteq Asks(a)
         /\ r.req \in Asks(a) \cup {None} /\ r.at \in Rows \cup {None} /\ r.ok \in BOOLEAN
BY DEF ConnRec

(* All but the place and the streams.                                      *)
Rest(r, s) ==
  s.key = r.key /\ s.rev = r.rev /\ s.seen = r.seen /\ s.req = r.req /\ s.ok = r.ok

(* Going to another place.                                                 *)
LEMMA SetPc ==
  ASSUME NEW a, NEW D, NEW r \in ConnRec(a, D), NEW pc \in Pcs
  PROVE  /\ [r EXCEPT !.pc = pc] \in ConnRec(a, D)
         /\ [r EXCEPT !.pc = pc].pc = pc
         /\ Rest(r, [r EXCEPT !.pc = pc])
BY DEF ConnRec, Rest

(* A write succeeds and goes on, or ends the goroutine.                    *)
LEMMA WriteFacts ==
  ASSUME NEW a, NEW D, NEW r \in ConnRec(a, D), NEW f \in OutFrames(D), NEW pc \in Pcs
  PROVE  /\ Write(r, f, pc) \in ConnRec(a, D)
         /\ \/ Write(r, f, pc).pc = "ending"
            \/ Write(r, f, pc).pc = pc /\ Rest(r, Write(r, f, pc))
<1>1. CASE r.closed \/ r.hung
  BY <1>1, ClosedFacts DEF Write, Ending
<1>2. CASE ~(r.closed \/ r.hung)
  <2> DEFINE o == Append(r.out, f)  s == [r EXCEPT !.out = o, !.pc = pc]
  <2>1. o \in Seq(OutFrames(D))
    BY RecFields
  <2>2. Write(r, f, pc) = s
    BY <1>2 DEF Write
  <2> HIDE DEF o
  <2>3. s \in ConnRec(a, D)
    BY <2>1 DEF ConnRec
  <2>4. s.pc = pc /\ Rest(r, s)
    BY DEF ConnRec, Rest
  <2> QED BY <2>2, <2>3, <2>4
<1> QED BY <1>1, <1>2

(* Reading a frame.                                                        *)
LEMMA TakenFacts ==
  ASSUME Shape, NEW c \in Conns, conn[c].in # <<>>
  PROVE  /\ Taken(c) \in ConnRec(ActorOf(c), Done)
         /\ SameState(conn[c], Taken(c))
         /\ Head(conn[c].in) \in InFrames(ActorOf(c))
<1>1. conn[c] \in ConnRec(ActorOf(c), Done)
  BY DEF Shape
<1> DEFINE i == Tail(conn[c].in)
<1>2. conn[c].in \in Seq(InFrames(ActorOf(c)))
  BY <1>1, RecFields
<1>3. i \in Seq(InFrames(ActorOf(c))) /\ Head(conn[c].in) \in InFrames(ActorOf(c))
  BY <1>2
<1>4. Taken(c) = [conn[c] EXCEPT !.in = i]
  BY <1>1 DEF Taken, ConnRec
<1> HIDE DEF i
<1>5. Taken(c) \in ConnRec(ActorOf(c), Done) /\ SameState(conn[c], Taken(c))
  BY <1>1, <1>3, <1>4 DEF ConnRec, SameState
<1> QED BY <1>3, <1>5

(* Ending the goroutine fits outside a command's handler.                  *)
LEMMA FitsEnding ==
  ASSUME IInv, NEW c \in Conns, NEW s \in ConnRec(ActorOf(c), Done), s.pc = "ending",
         conn[c].pc \notin {"none", "backlog", "accepted", "gone", "fn", "save"}
  PROVE  Fits(c, s)
BY DEF Fits, Calm, KeyOK, ReqOK, Known, Busy, Spent

(* The steps that only move on fit.                                        *)
LEMMA FitsStep ==
  ASSUME IInv, NEW c \in Conns, NEW s \in ConnRec(ActorOf(c), Done), Rest(conn[c], s),
         \/ conn[c].pc \in {"start", "hello"} /\ s.pc \in {"hello", "lookup"}
         \/ conn[c].pc \in {"proof", "loop"} /\ s.pc \in {"loop", "read"}
         \/ conn[c].pc = "authorize" /\ s.pc \in {"handle", "loop"}
  PROVE  Fits(c, s)
<1>1. conn[c] \in ConnRec(ActorOf(c), Done)
  BY DEF IInv, Shape
<1>2. KeyOK(conn[c], ClientIdentity(c)) /\ ReqOK(conn[c], Done)
  BY DEF IInv, RecInv
<1>3. KeyOK(s, ClientIdentity(c))
  BY <1>2 DEF KeyOK, Rest, Known
<1>4. ReqOK(s, Done)
  BY <1>2 DEF ReqOK, Rest, Busy
<1>5. Calm(conn[c], s)
  BY DEF Calm, Rest, Spent
<1> QED BY <1>3, <1>4, <1>5 DEF Fits

(* What a step of a connection leaves alone.                               *)
Around == UNCHANGED <<root, limit, row, accepted, client>>

(* What the invariant says of one connection.                              *)
LEMMA HereFacts ==
  ASSUME IInv, NEW c \in Conns
  PROVE  /\ Shape /\ Done \in SUBSET Requests /\ ActorOf(c) \in Actors
         /\ conn[c] \in ConnRec(ActorOf(c), Done)
         /\ KeyOK(conn[c], ClientIdentity(c)) /\ ReqOK(conn[c], Done)
         /\ ClientIdentity(c) \in Row
<1>1. IdentityOf(ActorOf(c)) \in Identities
  BY DEF IdentityOf, Identities
<1> QED BY <1>1, ConnsFacts DEF IInv, Shape, RecInv, Done, ClientIdentity

(* A step that ends the goroutine.                                         *)
LEMMA EndsStep ==
  ASSUME IInv, NEW c \in Conns, NEW r \in ConnRec(ActorOf(c), Done), Moved(c, Ending(r)),
         conn[c].pc \notin {"none", "backlog", "accepted", "gone", "fn", "save"},
         UNCHANGED work, Around
  PROVE  IInv'
<1>1. Ending(r) \in ConnRec(ActorOf(c), Done) /\ Ending(r).pc = "ending"
  BY ClosedFacts DEF Ending
<1>2. Fits(c, Ending(r))
  BY <1>1, FitsEnding
<1> QED BY <1>2, OneConnKept DEF work, Around

(* SetContextDeadline keeps the invariant.                                 *)
LEMMA DeadlineStep ==
  ASSUME IInv, NEW c \in Conns, SetContextDeadline(c), Around
  PROVE  IInv'
<1>1. conn[c] \in ConnRec(ActorOf(c), Done)
  BY HereFacts
<1>2. CASE daemon.ctx
  BY <1>1, <1>2, EndsStep DEF SetContextDeadline, Ends
<1>3. CASE ~daemon.ctx
  <2> DEFINE p == IF conn[c].pc = "start" THEN "hello" ELSE "read"
             s == [conn[c] EXCEPT !.pc = p]
  <2>1. Moved(c, s)
    BY <1>1, <1>3 DEF SetContextDeadline, ConnRec
  <2>2. p \in Pcs
    BY DEF Pcs
  <2>3. /\ conn[c].pc = "start" => p = "hello"
        /\ conn[c].pc = "loop" => p = "read"
    OBVIOUS
  <2> HIDE DEF p
  <2>4. s \in ConnRec(ActorOf(c), Done) /\ s.pc = p /\ Rest(conn[c], s)
    BY <1>1, <2>2, SetPc
  <2> HIDE DEF s
  <2>5. Fits(c, s)
    BY <2>3, <2>4, FitsStep DEF SetContextDeadline
  <2> QED BY <2>1, <2>5, OneConnKept DEF SetContextDeadline, work, Around
<1> QED BY <1>2, <1>3

(* ReadFails keeps the invariant.                                          *)
LEMMA ReadFailsStep ==
  ASSUME IInv, NEW c \in Conns, ReadFails(c), Around
  PROVE  IInv'
BY HereFacts, EndsStep DEF ReadFails, Ends

(* ReadHello keeps the invariant.                                          *)
LEMMA ReadHelloStep ==
  ASSUME IInv, NEW c \in Conns, ReadHello(c), Around
  PROVE  IInv'
<1>1. conn[c] \in ConnRec(ActorOf(c), Done) /\ Shape /\ conn[c].in # <<>>
  BY HereFacts DEF ReadHello, Readable
<1>2. CASE Ends(c)
  BY <1>1, <1>2, EndsStep DEF ReadHello, Ends
<1>3. CASE Moved(c, [Taken(c) EXCEPT !.pc = "lookup"])
  <2> DEFINE r == Taken(c)  s == [r EXCEPT !.pc = "lookup"]
  <2>1. r \in ConnRec(ActorOf(c), Done) /\ SameState(conn[c], r)
    BY <1>1, TakenFacts
  <2> HIDE DEF r
  <2>2. "lookup" \in Pcs
    BY DEF Pcs
  <2>3. s \in ConnRec(ActorOf(c), Done) /\ s.pc = "lookup" /\ Rest(r, s)
    BY <2>1, <2>2, SetPc
  <2>4. Moved(c, s)
    BY <1>3 DEF r
  <2> HIDE DEF s
  <2>5. Rest(conn[c], s)
    BY <2>1, <2>3 DEF SameState, Rest
  <2>6. Fits(c, s)
    BY <2>3, <2>5, FitsStep DEF ReadHello
  <2> QED BY <2>4, <2>6, OneConnKept DEF ReadHello, work, Around
<1> QED BY <1>2, <1>3 DEF ReadHello

(* Lookup keeps the invariant: here KeyOK begins to hold of the            *)
(* connection.                                                             *)
LEMMA LookupStep ==
  ASSUME IInv, NEW c \in Conns, Lookup(c), Around
  PROVE  IInv'
<1> DEFINE i == ClientIdentity(c)
<1>1. /\ conn[c] \in ConnRec(ActorOf(c), Done) /\ Shape /\ i \in Row
      /\ Done \in SUBSET Requests
  BY HereFacts
<1>2. CASE daemon.ctx \/ i.status # "active"
  BY <1>1, <1>2, EndsStep DEF Lookup
<1>3. CASE ~(daemon.ctx \/ i.status # "active")
  <2> DEFINE r == [conn[c] EXCEPT !.key = i.key, !.rev = i.rev]
             f == [t |-> "server", key |-> i.key]
             s == Write(r, f, "proof")
  <2>1. Moved(c, s)
    BY <1>3 DEF Lookup
  <2>2. i.key \in Nat /\ i.rev \in Nat /\ i.rev >= 1
    <3>1. \E j \in Identities : i = row[j]
      BY DEF ClientIdentity, IdentityOf, Identities
    <3> QED BY <1>1, <1>3, <3>1 DEF Row, IInv, RowInv
  <2> HIDE DEF i
  <2>3. r \in ConnRec(ActorOf(c), Done)
    BY <1>1, <2>2 DEF ConnRec
  <2>4. r.key = i.key /\ r.rev = i.rev
    BY <1>1 DEF ConnRec
  <2>5. f \in OutFrames(Done)
    BY <1>1, <2>2, OutFrameFacts
  <2> HIDE DEF r, f
  <2>6. "proof" \in Pcs
    BY DEF Pcs
  <2>7. /\ s \in ConnRec(ActorOf(c), Done)
        /\ s.pc = "ending" \/ (s.pc = "proof" /\ Rest(r, s))
    BY <2>3, <2>5, <2>6, WriteFacts
  <2> HIDE DEF s
  <2>8. conn[c].pc = "lookup" /\ UNCHANGED work
    BY DEF Lookup
  <2>9. CASE s.pc = "ending"
    <3>1. Fits(c, s)
      BY <2>7, <2>8, <2>9, FitsEnding
    <3> QED BY <2>1, <2>8, <3>1, OneConnKept DEF work, Around
  <2>10. CASE s.pc = "proof" /\ Rest(r, s)
    <3>1. KeyOK(s, i)
      BY <2>2, <2>4, <2>10 DEF KeyOK, Rest
    <3>2. ReqOK(s, Done)
      BY <2>10 DEF ReqOK, Busy
    <3>3. s.seen = conn[c].seen
      BY <1>1, <2>10 DEF Rest, r, ConnRec
    <3>4. Calm(conn[c], s)
      BY <2>8, <2>10, <3>3 DEF Calm, Spent
    <3>5. Fits(c, s)
      BY <2>7, <3>1, <3>2, <3>4 DEF Fits, i
    <3> QED BY <2>1, <2>8, <3>5, OneConnKept DEF work, Around
  <2> QED BY <2>7, <2>9, <2>10
<1> QED BY <1>2, <1>3

(* ReadProof keeps the invariant.                                          *)
LEMMA ReadProofStep ==
  ASSUME IInv, NEW c \in Conns, ReadProof(c), Around
  PROVE  IInv'
<1>1. /\ conn[c] \in ConnRec(ActorOf(c), Done) /\ Shape /\ conn[c].in # <<>>
      /\ Done \in SUBSET Requests /\ conn[c].pc = "proof" /\ UNCHANGED work
  BY HereFacts DEF ReadProof, Readable
<1> DEFINE r == Taken(c)  f == [t |-> "authok"]  s == Write(r, f, "loop")
<1>2. r \in ConnRec(ActorOf(c), Done) /\ SameState(conn[c], r)
  BY <1>1, TakenFacts
<1>3. Moved(c, Ending(r)) \/ Moved(c, s)
  BY DEF ReadProof
<1> HIDE DEF r
<1>4. CASE Moved(c, Ending(r))
  BY <1>1, <1>2, <1>4, EndsStep
<1>5. CASE Moved(c, s)
  <2>1. f \in OutFrames(Done) /\ "loop" \in Pcs
    BY <1>1, OutFrameFacts DEF Pcs
  <2> HIDE DEF f
  <2>2. /\ s \in ConnRec(ActorOf(c), Done)
        /\ s.pc = "ending" \/ (s.pc = "loop" /\ Rest(r, s))
    BY <1>2, <2>1, WriteFacts
  <2> HIDE DEF s
  <2>3. s.pc = "loop" => Rest(conn[c], s)
    BY <1>2, <2>2 DEF Rest, SameState
  <2>4. Fits(c, s)
    BY <1>1, <2>2, <2>3, FitsEnding, FitsStep
  <2> QED BY <1>1, <1>5, <2>4, OneConnKept DEF work, Around
<1> QED BY <1>3, <1>4, <1>5

(* ReadRequest keeps the invariant: validateRequest has refused an ID that *)
(* was used, so none is given back.                                        *)
LEMMA ReadRequestStep ==
  ASSUME IInv, NEW c \in Conns, ReadRequest(c), Around
  PROVE  IInv'
<1> DEFINE q == Head(conn[c].in).req  t == Taken(c)
<1>1. /\ conn[c] \in ConnRec(ActorOf(c), Done) /\ Shape /\ conn[c].in # <<>>
      /\ Done \in SUBSET Requests /\ conn[c].pc = "read" /\ UNCHANGED work
      /\ Head(conn[c].in).t = "request" /\ ActorOf(c) \in Actors
      /\ KeyOK(conn[c], ClientIdentity(c))
  BY HereFacts DEF ReadRequest, Readable
<1>2. /\ t \in ConnRec(ActorOf(c), Done) /\ SameState(conn[c], t)
      /\ Head(conn[c].in) \in InFrames(ActorOf(c))
  BY <1>1, TakenFacts
<1>3. q \in Asks(ActorOf(c)) /\ q \in Requests
  BY <1>1, <1>2, InFrameFacts, AsksFacts
<1> DEFINE w == Write(t, Response(q, "refused"), "ending")
           sn == t.seen \cup {q}
           s == [t EXCEPT !.seen = sn, !.req = q, !.pc = "authorize"]
<1>4. IF ~ValidRequest(c, q) THEN Moved(c, Ending(w)) ELSE Moved(c, s)
  BY <1>2 DEF ReadRequest, ConnRec
<1>5. ValidRequest(c, q) => q \notin conn[c].seen
  BY DEF ValidRequest
<1>6. Response(q, "refused") \in OutFrames(Done) /\ "ending" \in Pcs /\ "authorize" \in Pcs
  BY <1>1, <1>3, OutFrameFacts DEF Pcs
<1> HIDE DEF q, t
<1>7. w \in ConnRec(ActorOf(c), Done)
  BY <1>2, <1>6, WriteFacts
<1> HIDE DEF w
<1>8. CASE ~ValidRequest(c, q)
  BY <1>1, <1>4, <1>7, <1>8, EndsStep
<1>9. CASE ValidRequest(c, q)
  <2>1. sn \subseteq Asks(ActorOf(c)) /\ q \in sn
    BY <1>2, <1>3, RecFields
  <2>2. \A x \in Direct : x \in conn[c].seen => x \in sn /\ x # q
    BY <1>2, <1>5, <1>9 DEF SameState
  <2> HIDE DEF sn
  <2>3. s \in ConnRec(ActorOf(c), Done)
    BY <1>2, <1>3, <1>6, <2>1 DEF ConnRec
  <2>4. /\ s.pc = "authorize" /\ s.seen = sn /\ s.req = q
        /\ s.key = t.key /\ s.rev = t.rev
    BY <1>2 DEF ConnRec
  <2> HIDE DEF s
  <2>5. KeyOK(s, ClientIdentity(c))
    BY <1>1, <1>2, <2>4 DEF KeyOK, SameState, Known
  <2>6. ReqOK(s, Done)
    BY <2>1, <2>4 DEF ReqOK
  <2>7. Calm(conn[c], s)
    BY <1>1, <2>2, <2>4 DEF Calm, Spent
  <2>8. Fits(c, s)
    BY <2>3, <2>5, <2>6, <2>7 DEF Fits
  <2> QED BY <1>1, <1>4, <1>9, <2>8, OneConnKept DEF work, Around
<1> QED BY <1>8, <1>9

(* Authorize keeps the invariant.                                          *)
LEMMA AuthorizeStep ==
  ASSUME IInv, NEW c \in Conns, Authorize(c), Around
  PROVE  IInv'
<1>1. /\ conn[c] \in ConnRec(ActorOf(c), Done) /\ Shape /\ ActorOf(c) \in Actors
      /\ Done \in SUBSET Requests /\ conn[c].pc = "authorize" /\ UNCHANGED work
      /\ ReqOK(conn[c], Done)
  BY HereFacts DEF Authorize
<1>2. conn[c].req \in Requests
  BY <1>1, RecFields, AsksFacts DEF ReqOK, Busy
<1> DEFINE h == [conn[c] EXCEPT !.pc = "handle"]
           w == Write(conn[c], Response(conn[c].req, "refused"), "loop")
<1>3. Moved(c, h) \/ Moved(c, w)
  BY DEF Authorize
<1>4. "handle" \in Pcs /\ "loop" \in Pcs /\ Response(conn[c].req, "refused") \in OutFrames(Done)
  BY <1>1, <1>2, OutFrameFacts DEF Pcs
<1>5. h \in ConnRec(ActorOf(c), Done) /\ h.pc = "handle" /\ Rest(conn[c], h)
  BY <1>1, <1>4, SetPc
<1>6. /\ w \in ConnRec(ActorOf(c), Done)
      /\ w.pc = "ending" \/ (w.pc = "loop" /\ Rest(conn[c], w))
  BY <1>1, <1>4, WriteFacts
<1> HIDE DEF h, w
<1>7. Fits(c, h) /\ Fits(c, w)
  BY <1>1, <1>5, <1>6, FitsEnding, FitsStep
<1> QED BY <1>1, <1>3, <1>7, OneConnKept DEF work, Around

(* Reply keeps the invariant: the frame is ok only if the request is done. *)
LEMMA ReplyStep ==
  ASSUME IInv, NEW c \in Conns, Reply(c), Around
  PROVE  IInv'
<1>1. /\ conn[c] \in ConnRec(ActorOf(c), Done) /\ Shape /\ ActorOf(c) \in Actors
      /\ Done \in SUBSET Requests /\ conn[c].pc = "reply" /\ UNCHANGED work
      /\ ReqOK(conn[c], Done) /\ KeyOK(conn[c], ClientIdentity(c))
  BY HereFacts DEF Reply
<1>2. conn[c].req \in Requests
  BY <1>1, RecFields, AsksFacts DEF ReqOK, Busy
<1> DEFINE code == IF conn[c].ok THEN "ok" ELSE "error"
           f == Response(conn[c].req, code)
           r == [conn[c] EXCEPT !.req = None, !.at = None, !.ok = FALSE]
           s == Write(r, f, "loop")
<1>3. Moved(c, s) \/ Ends(c)
  BY DEF Reply
<1>4. f \in OutFrames(Done)
  <2>1. CASE conn[c].ok
    <3>1. conn[c].req \in Done
      BY <1>1, <2>1 DEF ReqOK
    <3> QED BY <1>1, <2>1, <3>1, OutFrameFacts
  <2>2. CASE ~conn[c].ok
    BY <1>1, <1>2, <2>2, OutFrameFacts
  <2> QED BY <2>1, <2>2
<1>5. /\ r \in ConnRec(ActorOf(c), Done) /\ r.key = conn[c].key /\ r.rev = conn[c].rev
      /\ r.seen = conn[c].seen
  BY <1>1 DEF ConnRec
<1>6. "loop" \in Pcs
  BY DEF Pcs
<1> HIDE DEF f, r
<1>7. /\ s \in ConnRec(ActorOf(c), Done)
      /\ s.pc = "ending" \/ (s.pc = "loop" /\ Rest(r, s))
  BY <1>4, <1>5, <1>6, WriteFacts
<1> HIDE DEF s
<1>8. CASE Ends(c)
  BY <1>1, <1>8, EndsStep DEF Ends
<1>9. CASE Moved(c, s)
  <2>1. CASE s.pc = "ending"
    <3>1. Fits(c, s)
      BY <1>1, <1>7, <2>1, FitsEnding
    <3> QED BY <1>1, <1>9, <3>1, OneConnKept DEF work, Around
  <2>2. CASE s.pc = "loop" /\ Rest(r, s)
    <3>1. KeyOK(s, ClientIdentity(c))
      BY <1>1, <1>5, <2>2 DEF KeyOK, Rest, Known
    <3>2. ReqOK(s, Done)
      BY <2>2 DEF ReqOK, Busy
    <3>3. Calm(conn[c], s)
      BY <1>1, <1>5, <2>2 DEF Calm, Spent, Rest
    <3>4. Fits(c, s)
      BY <1>7, <3>1, <3>2, <3>3 DEF Fits
    <3> QED BY <1>1, <1>9, <3>4, OneConnKept DEF work, Around
  <2> QED BY <1>7, <2>1, <2>2
<1> QED BY <1>3, <1>8, <1>9

(* Untrack keeps the invariant.                                            *)
LEMMA UntrackStep ==
  ASSUME IInv, NEW c \in Conns, Untrack(c), Around
  PROVE  IInv'
<1> DEFINE s == Closed(conn[c], "gone")
<1>1. s \in ConnRec(ActorOf(c), Done) /\ s.pc = "gone"
  BY HereFacts, ClosedFacts
<1>2. conn[c].pc = "ending" /\ Moved(c, s) /\ UNCHANGED work
  BY DEF Untrack
<1> HIDE DEF s
<1>3. Fits(c, s)
  BY <1>1, <1>2 DEF Fits, Calm, KeyOK, ReqOK, Known, Busy, Spent
<1> QED BY <1>2, <1>3, OneConnKept DEF work, Around

(* A step inside a handler, for all parts but the counts.                  *)
LEMMA WorkStep ==
  ASSUME IInv, NEW c \in Conns, NEW s, Moved(c, s), Around,
         effects' \in [Requests -> Nat], unsaved' \in [Requests -> Nat],
         ledger' \subseteq Ledgered, mu' \in Conns \cup {None},
         \A q \in Requests : effects'[q] >= effects[q],
         s \in ConnRec(ActorOf(c), Done'), ReqOK(s, Done'),
         s.key = conn[c].key, s.rev = conn[c].rev,
         conn[c].pc \in {"handle", "swap", "fn", "save"}, s.pc \in {"fn", "save", "reply"}
  PROVE  Shape' /\ RowInv' /\ RecInv' /\ ClientInv' /\ AcceptInv' /\ SlotInv'
<1>0. /\ Shape /\ RecInv /\ RowInv /\ ClientInv /\ AcceptInv /\ SlotInv
      /\ UNCHANGED <<root, limit, row, accepted, client>>
  BY DEF IInv, Around
<1>1. /\ conn' = [d \in Conns |-> conn'[d]]
      /\ conn'[c] = s
      /\ \A d \in Conns : d # c => conn'[d] = conn[d]
  BY <1>0, MovedFacts
<1>2. Done \subseteq Done'
  BY <1>0 DEF Done, Shape
<1>3. \A d \in Conns : ClientIdentity(d)' = ClientIdentity(d)
  BY <1>0 DEF ClientIdentity
<1>4. ASSUME NEW d \in Conns PROVE conn'[d] \in ConnRec(ActorOf(d), Done')
  <2>1. CASE d = c
    BY <1>1, <2>1
  <2>2. CASE d # c
    BY <1>0, <1>1, <1>2, <2>2, RecGrows DEF Shape
  <2> QED BY <2>1, <2>2
<1>5. Shape'
  BY <1>0, <1>1, <1>4 DEF Shape
<1>6. ASSUME NEW d \in Conns PROVE KeyOK(conn'[d], ClientIdentity(d)')
  BY <1>0, <1>1, <1>3 DEF RecInv, KeyOK, Known
<1>7. ASSUME NEW d \in Conns PROVE ReqOK(conn'[d], Done')
  BY <1>0, <1>1, <1>2 DEF RecInv, ReqOK
<1>8. RecInv'
  BY <1>6, <1>7 DEF RecInv
<1>9. RowInv'
  BY <1>0 DEF RowInv
<1>10. ClientInv'
  <2>1. \A a \in Actors : ConnOf(a) \in Conns /\ ConnOf(a)' = ConnOf(a)
    BY <1>0, ConnsFacts DEF ClientInv, ConnOf, Shape, ClientRec, Actors
  <2>2. \A d \in Conns : conn[d].pc = "none" => conn'[d].pc = "none"
    BY <1>1
  <2>3. ASSUME NEW a \in Actors
        PROVE  /\ client'[a].oks \subseteq Done'
               /\ client'[a].pc = "idle" => conn'[ConnOf(a)'].pc = "none"
               /\ a \in Commands /\ client'[a].n = 1 => conn'[<<a, 2>>].pc = "none"
               /\ a \in Peers => client'[a].n = 1
    BY <1>0, <1>2, <2>1, <2>2, ConnsFacts DEF ClientInv
  <2> QED BY <2>3 DEF ClientInv
<1>11. AcceptInv'
  BY <1>0, <1>1 DEF AcceptInv, Shape
<1>12. SlotInv'
  <2>1. \A d \in Conns : Served(d)' => Served(d)
    BY <1>1 DEF Served
  <2> QED BY <1>0, <2>1, CalmSlots DEF Shape
<1> QED BY <1>5, <1>8, <1>9, <1>10, <1>11, <1>12

(* A handled request is one of its actor's, so a command is handled on a   *)
(* command's connection.                                                   *)
LEMMA CommandConn ==
  ASSUME IInv, NEW c \in Conns, conn[c].pc \in Busy
  PROVE  /\ conn[c].req \in Asks(ActorOf(c)) /\ conn[c].req \in conn[c].seen
         /\ conn[c].req \in Requests
         /\ conn[c].req \notin Commands =>
              /\ ActorOf(c) \in Peers /\ c = <<ActorOf(c), 1>>
              /\ conn[c].req \in PeerRequests
         /\ conn[c].req \in Commands => ActorOf(c) \in Commands
<1>1. conn[c] \in ConnRec(ActorOf(c), Done) /\ ReqOK(conn[c], Done) /\ ActorOf(c) \in Actors
  BY HereFacts
<1>2. conn[c].req \in Asks(ActorOf(c)) /\ conn[c].req \in conn[c].seen
  BY <1>1, RecFields DEF ReqOK
<1>3. conn[c].req \in Requests
  BY <1>1, <1>2, AsksFacts
<1>4. ASSUME ActorOf(c) \in Commands PROVE conn[c].req \in Commands
  BY <1>2, <1>4, AsksFacts
<1>5. ASSUME ActorOf(c) \notin Commands
      PROVE  ActorOf(c) \in Peers /\ c = <<ActorOf(c), 1>> /\ conn[c].req \in PeerRequests
             /\ conn[c].req \notin Commands
  BY <1>2, <1>5, ConnsFacts, AsksFacts
<1> QED BY <1>2, <1>3, <1>4, <1>5

(* A handler outside the ledger that answers keeps the invariant: a run is *)
(* charged to the connection, which had not spent the ID.                  *)
LEMMA AnswerStep ==
  ASSUME IInv, NEW c \in Conns, conn[c].pc \in {"handle", "swap"}, conn[c].req \notin Ledgered,
         NEW ok \in BOOLEAN, Replies(c, ok), NEW run \in BOOLEAN,
         IF run THEN CarriedOut(c) ELSE effects' = effects,
         ok => run \/ conn[c].req \in Done,
         UNCHANGED <<mu, ledger, unsaved>>, Around
  PROVE  IInv'
<1> DEFINE q == conn[c].req
<1>1. /\ conn[c] \in ConnRec(ActorOf(c), Done) /\ Shape /\ ReqOK(conn[c], Done)
  BY HereFacts
<1>2. q \in Requests /\ q \in conn[c].seen /\ q \in Asks(ActorOf(c))
  BY CommandConn DEF Busy
<1>3. effects' = IF run THEN [effects EXCEPT ![q] = effects[q] + 1] ELSE effects
  BY <1>1, <1>2 DEF CarriedOut, Shape
<1> DEFINE s == [conn[c] EXCEPT !.pc = "reply", !.ok = ok]
<1>4. Moved(c, s)
  BY DEF Replies
<1>5. effects \in [Requests -> Nat] /\ unsaved \in [Requests -> Nat]
  BY <1>1 DEF Shape
<1>6. /\ effects' \in [Requests -> Nat]
      /\ \A x \in Requests : effects'[x] >= effects[x]
      /\ \A x \in Requests : x # q => effects'[x] = effects[x]
      /\ effects'[q] = effects[q] + (IF run THEN 1 ELSE 0)
  BY <1>2, <1>3, <1>5
<1>7. Done \subseteq Done' /\ (ok => q \in Done')
  BY <1>2, <1>5, <1>6 DEF Done
<1>8. conn[c] \in ConnRec(ActorOf(c), Done')
  BY <1>1, <1>7, RecGrows
<1>9. /\ s \in ConnRec(ActorOf(c), Done') /\ s.pc = "reply" /\ s.ok = ok
      /\ s.key = conn[c].key /\ s.rev = conn[c].rev /\ s.seen = conn[c].seen /\ s.req = q
  BY <1>8 DEF ConnRec, Pcs
<1> HIDE DEF s
<1>10. ReqOK(s, Done')
  BY <1>2, <1>7, <1>9 DEF ReqOK
<1>11. Shape' /\ RowInv' /\ RecInv' /\ ClientInv' /\ AcceptInv' /\ SlotInv'
  <2>1. ledger' \subseteq Ledgered /\ mu' \in Conns \cup {None} /\ unsaved' \in [Requests -> Nat]
    BY <1>1 DEF Shape
  <2> HIDE DEF q
  <2> QED BY <1>1, <1>4, <1>6, <1>9, <1>10, <2>1, WorkStep
<1>12. /\ conn'[c] = s /\ \A d \in Conns : d # c => conn'[d] = conn[d]
  BY <1>1, <1>4, MovedFacts
<1>13. MuInv'
  BY <1>1, <1>9, <1>12 DEF IInv, MuInv
<1>14. CountInv'
  <2>1. \A a \in Ledgered : Saving(a)' <=> Saving(a)
    BY <1>1, <1>9, <1>12 DEF Saving
  <2>2. \A a \in Ledgered : effects'[a] = effects[a]
    BY <1>1, <1>6, ClassFacts
  <2> QED BY <1>1, <2>1, <2>2 DEF IInv, CountInv
<1>15. ASSUME NEW x \in Direct PROVE effects'[x] <= Cardinality(SpentBy(x)')
  <2> DEFINE S == SpentBy(x)  T == SpentBy(x)'
  <2>1. ASSUME NEW y \in Conns, Spent(conn[y], x) PROVE Spent(conn'[y], x)
    <3>1. CASE y = c
      BY <1>1, <1>9, <1>12, <2>1, <3>1 DEF Spent
    <3>2. CASE y # c
      BY <1>12, <2>1, <3>2
    <3> QED BY <3>1, <3>2
  <2>2. S \subseteq T /\ T \subseteq Conns /\ S \subseteq Conns
    BY <2>1 DEF SpentBy
  <2>3. IsFiniteSet(S) /\ IsFiniteSet(T)
    BY <2>2, ConnsFacts, FS_Subset
  <2>4. Cardinality(S) \in Nat /\ Cardinality(T) \in Nat /\ Cardinality(S) <= Cardinality(T)
    BY <2>2, <2>3, FS_Subset, FS_CardinalityType
  <2>5. x \in Requests /\ effects[x] \in Nat /\ effects[x] <= Cardinality(S)
    BY <1>5, ClassFacts DEF IInv, DirectInv
  <2>6. CASE x # q
    <3>1. effects'[x] = effects[x]
      BY <1>6, <2>5, <2>6
    <3> QED BY <2>4, <2>5, <3>1
  <2>7. CASE x = q
    <3>0. conn[c].pc = "handle"
      BY <1>1, <2>7, ClassFacts DEF ReqOK
    <3>1. c \notin S
      BY <1>2, <2>7, <3>0 DEF SpentBy, Spent
    <3>2. c \in T
      BY <1>2, <1>9, <1>12, <2>7 DEF SpentBy, Spent
    <3>3. Cardinality(S) # Cardinality(T)
      BY <2>2, <2>3, <3>1, <3>2, FS_Subset
    <3>4. effects'[x] <= effects[x] + 1
      BY <1>6, <2>5, <2>7
    <3>5. effects'[x] \in Nat
      BY <1>6, <2>5
    <3> HIDE DEF S, T
    <3> QED BY <2>4, <2>5, <3>3, <3>4, <3>5 DEF S, T
  <2> QED BY <2>6, <2>7
<1>16. DirectInv'
  BY <1>15 DEF DirectInv
<1> QED BY <1>11, <1>13, <1>14, <1>16 DEF IInv

(* Dispatch keeps the invariant.                                           *)
LEMMA DispatchStep ==
  ASSUME IInv, NEW c \in Conns, Dispatch(c), Around
  PROVE  IInv'
<1>1. /\ conn[c].pc = "handle" /\ conn[c].req \notin Ledgered
      /\ UNCHANGED <<mu, ledger, unsaved>>
  BY ClassFacts DEF Dispatch, Direct
<1>2. CASE Replies(c, TRUE) /\ CarriedOut(c)
  BY <1>1, <1>2, AnswerStep
<1>3. CASE Replies(c, FALSE) /\ UNCHANGED effects
  BY <1>1, <1>3, AnswerStep
<1> QED BY <1>2, <1>3 DEF Dispatch

(* Resolve keeps the invariant: nothing is carried out yet.                *)
LEMMA ResolveStep ==
  ASSUME IInv, StoreInv, NEW c \in Conns, Resolve(c), Around
  PROVE  IInv'
<1>1. /\ conn[c] \in ConnRec(ActorOf(c), Done) /\ ReqOK(conn[c], Done)
      /\ KeyOK(conn[c], ClientIdentity(c))
      /\ conn[c].pc = "handle" /\ conn[c].req \in Revisioned /\ UNCHANGED work
  BY HereFacts DEF Resolve
<1>2. conn[c].req \notin Ledgered
  BY <1>1, ClassFacts
<1>3. CASE Replies(c, FALSE)
  BY <1>1, <1>2, <1>3, AnswerStep DEF work
<1>4. CASE Moved(c, [conn[c] EXCEPT !.pc = "swap", !.at = registry.at])
  <2> DEFINE w == registry.at  s == [conn[c] EXCEPT !.pc = "swap", !.at = w]
  <2>1. w \in Rows /\ Moved(c, s)
    BY <1>4 DEF StoreInv
  <2> HIDE DEF w
  <2>2. /\ s \in ConnRec(ActorOf(c), Done) /\ s.pc = "swap" /\ Rest(conn[c], s)
    BY <1>1, <2>1 DEF ConnRec, Pcs, Rest
  <2> HIDE DEF s
  <2>3. KeyOK(s, ClientIdentity(c)) /\ ReqOK(s, Done)
    BY <1>1, <2>2 DEF KeyOK, ReqOK, Rest, Known, Busy
  <2>4. Calm(conn[c], s)
    BY <1>1, <2>2 DEF Calm, Spent, Rest
  <2>5. Fits(c, s)
    BY <2>2, <2>3, <2>4 DEF Fits
  <2> QED BY <1>1, <2>1, <2>5, OneConnKept DEF work, Around
<1> QED BY <1>3, <1>4 DEF Resolve

(* Swap keeps the invariant.                                               *)
LEMMA SwapStep ==
  ASSUME IInv, NEW c \in Conns, Swap(c), Around
  PROVE  IInv'
<1>1. conn[c].pc = "swap" /\ ReqOK(conn[c], Done) /\ UNCHANGED <<mu, ledger, unsaved>>
  BY HereFacts DEF Swap
<1>2. conn[c].req \notin Ledgered
  BY <1>1, ClassFacts DEF ReqOK
<1>3. ASSUME CarriedOut(c), NEW ok \in BOOLEAN, Replies(c, ok) PROVE IInv'
  BY <1>1, <1>2, <1>3, AnswerStep
<1>4. CASE Replies(c, FALSE) /\ UNCHANGED effects
  BY <1>1, <1>2, <1>4, AnswerStep
<1> QED BY <1>3, <1>4 DEF Swap

(* InitializeVault keeps the invariant: the Vault that a repeat finds was  *)
(* initialized by this request.                                            *)
LEMMA InitializeVaultStep ==
  ASSUME IInv, StoreInv, NEW c \in Conns, InitializeVault(c), Around
  PROVE  IInv'
<1>1. /\ conn[c].pc = "handle" /\ conn[c].req \in Initializers /\ UNCHANGED <<mu, ledger, unsaved>>
  BY DEF InitializeVault
<1>2. conn[c].req \notin Ledgered /\ conn[c].req \in Requests
  BY <1>1, ClassFacts
<1>3. CASE CarriedOut(c) /\ Replies(c, TRUE)
  BY <1>1, <1>2, <1>3, AnswerStep
<1>4. CASE vault = conn[c].req /\ Replies(c, TRUE) /\ UNCHANGED effects
  <2>1. conn[c].req \in Done
    BY <1>1, <1>2, <1>4 DEF StoreInv, Done
  <2> QED BY <1>1, <1>2, <1>4, <2>1, AnswerStep
<1>5. CASE Replies(c, FALSE) /\ UNCHANGED effects
  BY <1>1, <1>2, <1>5, AnswerStep
<1> QED BY <1>3, <1>4, <1>5 DEF InitializeVault

(* A handler of the ledger leaves the counts of the others alone.          *)
LEMMA LedgerDirect ==
  ASSUME IInv, NEW c \in Conns, conn[c].req \in Ledgered, conn[c].pc \in Busy,
         NEW s, Moved(c, s), s.seen = conn[c].seen, s.pc \in {"fn", "save", "reply"},
         \A q \in Requests : q # conn[c].req => effects'[q] = effects[q]
  PROVE  DirectInv'
<1>1. conn'[c] = s /\ \A d \in Conns : d # c => conn'[d] = conn[d]
  BY MovedFacts DEF IInv
<1>2. ASSUME NEW d \in Conns, NEW q \in Direct, Spent(conn[d], q) PROVE Spent(conn'[d], q)
  BY <1>1, <1>2 DEF Spent, Busy
<1>3. \A q \in Direct : effects'[q] = effects[q]
  BY ClassFacts
<1> QED BY <1>2, <1>3, CalmDirect DEF IInv, Shape

(* WithIdempotency keeps the invariant: with mu free no other handler is   *)
(* inside, and a recorded command was carried out.                         *)
LEMMA WithIdempotencyStep ==
  ASSUME IInv, NEW c \in Conns, WithIdempotency(c), Around
  PROVE  IInv'
<1>1. /\ conn[c] \in ConnRec(ActorOf(c), Done) /\ Shape /\ ReqOK(conn[c], Done)
      /\ conn[c].pc = "handle" /\ conn[c].req \in Ledgered /\ mu = None
      /\ UNCHANGED <<ledger, effects, unsaved>>
  BY HereFacts DEF WithIdempotency
<1>2. /\ effects \in [Requests -> Nat] /\ unsaved' \in [Requests -> Nat]
      /\ ledger \subseteq Ledgered /\ Done' = Done
  BY <1>1 DEF Shape, Done
<1>3. conn[c].req \in conn[c].seen /\ conn[c].req \in Requests
  BY <1>1, CommandConn DEF Busy
<1>4. \A d \in Conns : conn[d].pc \notin {"fn", "save"}
  BY <1>1, ConnsFacts DEF IInv, MuInv
<1>5. \A x \in Requests : effects'[x] >= effects[x]
  BY <1>1, <1>2
<1>6. ASSUME NEW ok \in BOOLEAN, Replies(c, ok), mu' = mu, ok => conn[c].req \in ledger
      PROVE  IInv'
  <2> DEFINE s == [conn[c] EXCEPT !.pc = "reply", !.ok = ok]
  <2>1. Moved(c, s)
    BY <1>6 DEF Replies
  <2>2. /\ s \in ConnRec(ActorOf(c), Done) /\ s.pc = "reply" /\ s.ok = ok
        /\ s.key = conn[c].key /\ s.rev = conn[c].rev /\ s.seen = conn[c].seen
        /\ s.req = conn[c].req
    BY <1>1 DEF ConnRec, Pcs
  <2> HIDE DEF s
  <2>3. ok => conn[c].req \in Done
    <3> SUFFICES ASSUME ok PROVE conn[c].req \in Done
      OBVIOUS
    <3>1. unsaved[conn[c].req] \in Nat
      BY <1>1, <1>3 DEF Shape
    <3>2. ~Saving(conn[c].req)
      BY <1>4 DEF Saving
    <3>3. effects[conn[c].req] = unsaved[conn[c].req] + 1 + 0
      BY <1>1, <1>6, <3>2 DEF IInv, CountInv
    <3> QED BY <1>3, <3>1, <3>3 DEF Done
  <2>4. ReqOK(s, Done)
    BY <1>3, <2>2, <2>3 DEF ReqOK
  <2>5. mu' \in Conns \cup {None}
    BY <1>1, <1>6
  <2>6. Shape' /\ RowInv' /\ RecInv' /\ ClientInv' /\ AcceptInv' /\ SlotInv'
    BY <1>1, <1>2, <1>5, <2>1, <2>2, <2>4, <2>5, WorkStep
  <2>7. conn'[c] = s /\ \A d \in Conns : d # c => conn'[d] = conn[d]
    BY <1>1, <2>1, MovedFacts
  <2>8. \A d \in Conns : conn'[d].pc \notin {"fn", "save"}
    BY <1>4, <2>2, <2>7
  <2>9. MuInv'
    BY <2>8 DEF MuInv
  <2>10. CountInv'
    <3>1. \A a \in Ledgered : ~Saving(a) /\ ~Saving(a)'
      BY <1>4, <2>8 DEF Saving
    <3> QED BY <1>1, <3>1 DEF IInv, CountInv
  <2>11. DirectInv'
    BY <1>1, <1>2, <2>1, <2>2, LedgerDirect DEF Busy
  <2> QED BY <2>6, <2>9, <2>10, <2>11 DEF IInv
<1>7. ASSUME conn[c].req \notin ledger, mu' = c, Moved(c, [conn[c] EXCEPT !.pc = "fn"])
      PROVE  IInv'
  <2> DEFINE s == [conn[c] EXCEPT !.pc = "fn"]
  <2>1. "fn" \in Pcs
    BY DEF Pcs
  <2>2. s \in ConnRec(ActorOf(c), Done) /\ s.pc = "fn" /\ Rest(conn[c], s)
    BY <1>1, <2>1, SetPc
  <2>3. Moved(c, s)
    BY <1>7
  <2> HIDE DEF s
  <2>4. ReqOK(s, Done)
    BY <1>1, <1>3, <2>2 DEF ReqOK, Rest
  <2>5. s.key = conn[c].key /\ s.rev = conn[c].rev /\ s.req = conn[c].req /\ s.seen = conn[c].seen
    BY <2>2 DEF Rest
  <2>6. Shape' /\ RowInv' /\ RecInv' /\ ClientInv' /\ AcceptInv' /\ SlotInv'
    BY <1>1, <1>2, <1>5, <1>7, <2>2, <2>3, <2>4, <2>5, WorkStep
  <2>7. conn'[c] = s /\ \A d \in Conns : d # c => conn'[d] = conn[d]
    BY <1>1, <2>3, MovedFacts
  <2>8. MuInv'
    BY <1>1, <1>4, <1>7, <2>5, <2>7 DEF MuInv
  <2>9. CountInv'
    <3>1. \A a \in Ledgered : ~Saving(a) /\ ~Saving(a)'
      BY <1>4, <2>2, <2>7 DEF Saving
    <3> QED BY <1>1, <3>1 DEF IInv, CountInv
  <2>10. DirectInv'
    BY <1>1, <1>2, <2>2, <2>3, <2>5, LedgerDirect DEF Busy
  <2> QED BY <2>6, <2>8, <2>9, <2>10 DEF IInv
<1> QED BY <1>6, <1>7 DEF WithIdempotency

(* A command's handler is alone.                                           *)
LEMMA AtFn ==
  ASSUME IInv, NEW c \in Conns, conn[c].pc \in {"fn", "save"}
  PROVE  /\ conn[c].req \in Ledgered /\ conn[c].req \in Requests
         /\ conn[c].req \in conn[c].seen /\ conn[c].req \notin ledger
         /\ \A d \in Conns : d # c => conn[d].pc \notin {"fn", "save"}
         /\ ledger \subseteq Ledgered
         /\ effects \in [Requests -> Nat] /\ unsaved \in [Requests -> Nat]
<1>1. conn[c].req \in Requests /\ conn[c].req \in conn[c].seen
  BY CommandConn DEF Busy
<1> QED BY <1>1 DEF IInv, MuInv, RecInv, ReqOK, Shape

(* RunFn keeps the invariant: the run is about to be recorded.             *)
LEMMA RunFnStep ==
  ASSUME IInv, NEW c \in Conns, RunFn(c), Around
  PROVE  IInv'
<1> DEFINE q == conn[c].req
<1>1. /\ conn[c] \in ConnRec(ActorOf(c), Done) /\ Shape
      /\ conn[c].pc = "fn" /\ UNCHANGED <<ledger, unsaved>>
  BY HereFacts DEF RunFn
<1>2. /\ q \in Ledgered /\ q \in Requests /\ q \in conn[c].seen /\ q \notin ledger
      /\ \A d \in Conns : d # c => conn[d].pc \notin {"fn", "save"}
      /\ ledger \subseteq Ledgered /\ mu \in Conns \cup {None}
      /\ effects \in [Requests -> Nat] /\ unsaved \in [Requests -> Nat]
  BY <1>1, AtFn DEF Shape
<1>3. \A a \in Ledgered : ~Saving(a)
  BY <1>1, <1>2 DEF Saving
<1>4. ASSUME effects' = [effects EXCEPT ![q] = effects[q] + 1], mu' = mu,
             Moved(c, [conn[c] EXCEPT !.pc = "save"])
      PROVE  IInv'
  <2> DEFINE s == [conn[c] EXCEPT !.pc = "save"]
  <2>1. /\ effects' \in [Requests -> Nat] /\ effects'[q] = effects[q] + 1
        /\ \A x \in Requests : effects'[x] >= effects[x]
        /\ \A x \in Requests : x # q => effects'[x] = effects[x]
    BY <1>2, <1>4
  <2>2. Done \subseteq Done'
    BY <1>2, <2>1 DEF Done
  <2>3. "save" \in Pcs /\ conn[c] \in ConnRec(ActorOf(c), Done')
    BY <1>1, <2>2, RecGrows DEF Pcs
  <2>4. s \in ConnRec(ActorOf(c), Done') /\ s.pc = "save" /\ Rest(conn[c], s)
    BY <2>3, SetPc
  <2>5. Moved(c, s)
    BY <1>4
  <2> HIDE DEF s
  <2>6. ReqOK(s, Done')
    BY <1>2, <2>4 DEF ReqOK, Rest
  <2>7. s.key = conn[c].key /\ s.rev = conn[c].rev /\ s.req = q /\ s.seen = conn[c].seen
    BY <2>4 DEF Rest
  <2>8. Shape' /\ RowInv' /\ RecInv' /\ ClientInv' /\ AcceptInv' /\ SlotInv'
    <3>1. mu' \in Conns \cup {None} /\ unsaved' \in [Requests -> Nat] /\ ledger' \subseteq Ledgered
      BY <1>1, <1>2, <1>4
    <3> QED BY <1>1, <2>1, <2>4, <2>5, <2>6, <2>7, <3>1, WorkStep
  <2>9. conn'[c] = s /\ \A d \in Conns : d # c => conn'[d] = conn[d]
    BY <1>1, <2>5, MovedFacts
  <2>10. MuInv'
    BY <1>1, <1>2, <1>4, <2>7, <2>9 DEF IInv, MuInv
  <2>11. \A a \in Ledgered : Saving(a)' <=> a = q
    BY <1>2, <2>4, <2>7, <2>9 DEF Saving
  <2>12. CountInv'
    <3>1. ASSUME NEW a \in Ledgered
          PROVE  effects'[a] = unsaved[a] + (IF a \in ledger THEN 1 ELSE 0)
                                          + (IF a = q THEN 1 ELSE 0)
      <4>1. a \in Requests /\ unsaved[a] \in Nat
        BY <1>2, ClassFacts
      <4>2. effects[a] = unsaved[a] + (IF a \in ledger THEN 1 ELSE 0) + 0
        BY <1>3 DEF IInv, CountInv
      <4>3. CASE a = q
        BY <1>2, <2>1, <4>1, <4>2, <4>3
      <4>4. CASE a # q
        BY <2>1, <4>1, <4>2, <4>4
      <4> QED BY <4>3, <4>4
    <3> QED BY <1>1, <2>11, <3>1 DEF CountInv
  <2>13. DirectInv'
    BY <1>1, <1>2, <2>1, <2>4, <2>5, <2>7, LedgerDirect DEF Busy
  <2> QED BY <2>8, <2>10, <2>12, <2>13 DEF IInv
<1>5. ASSUME Replies(c, FALSE), mu' = None, effects' = effects
      PROVE  IInv'
  <2> DEFINE s == [conn[c] EXCEPT !.pc = "reply", !.ok = FALSE]
  <2>1. Moved(c, s)
    BY <1>5 DEF Replies
  <2>2. /\ s \in ConnRec(ActorOf(c), Done) /\ s.pc = "reply" /\ s.ok = FALSE
        /\ s.key = conn[c].key /\ s.rev = conn[c].rev /\ s.seen = conn[c].seen
        /\ s.req = q
    BY <1>1 DEF ConnRec, Pcs
  <2> HIDE DEF s
  <2>3. Done' = Done /\ \A x \in Requests : effects'[x] >= effects[x]
    BY <1>2, <1>5 DEF Done
  <2>4. ReqOK(s, Done)
    BY <1>2, <2>2 DEF ReqOK
  <2>5. Shape' /\ RowInv' /\ RecInv' /\ ClientInv' /\ AcceptInv' /\ SlotInv'
    <3>1. /\ mu' \in Conns \cup {None} /\ unsaved' \in [Requests -> Nat] /\ ledger' \subseteq Ledgered
          /\ effects' \in [Requests -> Nat]
      BY <1>1, <1>2, <1>5
    <3> QED BY <1>1, <2>1, <2>2, <2>3, <2>4, <3>1, WorkStep
  <2>6. conn'[c] = s /\ \A d \in Conns : d # c => conn'[d] = conn[d]
    BY <1>1, <2>1, MovedFacts
  <2>7. \A d \in Conns : conn'[d].pc \notin {"fn", "save"}
    BY <1>2, <2>2, <2>6
  <2>8. MuInv'
    BY <2>7 DEF MuInv
  <2>9. CountInv'
    <3>1. \A a \in Ledgered : ~Saving(a)'
      BY <2>7 DEF Saving
    <3> QED BY <1>1, <1>3, <1>5, <3>1 DEF IInv, CountInv
  <2>10. DirectInv'
    BY <1>1, <1>2, <1>5, <2>1, <2>2, LedgerDirect DEF Busy
  <2> QED BY <2>5, <2>8, <2>9, <2>10 DEF IInv
<1> QED BY <1>1, <1>2, <1>4, <1>5 DEF RunFn, CarriedOut

(* SaveIdempotencyRecord keeps the invariant: the run is recorded, or      *)
(* counted as lost.                                                        *)
LEMMA SaveStep ==
  ASSUME IInv, NEW c \in Conns, SaveIdempotencyRecord(c), Around
  PROVE  IInv'
<1> DEFINE q == conn[c].req
<1>1. /\ conn[c] \in ConnRec(ActorOf(c), Done) /\ Shape
      /\ conn[c].pc = "save" /\ effects' = effects /\ mu' = None
  BY HereFacts DEF SaveIdempotencyRecord
<1>2. /\ q \in Ledgered /\ q \in Requests /\ q \in conn[c].seen /\ q \notin ledger
      /\ \A d \in Conns : d # c => conn[d].pc \notin {"fn", "save"}
      /\ ledger \subseteq Ledgered
      /\ effects \in [Requests -> Nat] /\ unsaved \in [Requests -> Nat]
  BY <1>1, AtFn DEF Shape
<1>3. \A a \in Ledgered : Saving(a) <=> a = q
  BY <1>1, <1>2 DEF Saving
<1>4. PICK ok \in BOOLEAN :
        /\ Replies(c, ok)
        /\ ledger' = IF ok THEN ledger \cup {q} ELSE ledger
        /\ unsaved' = IF ok THEN unsaved ELSE [unsaved EXCEPT ![q] = unsaved[q] + 1]
  BY <1>2 DEF SaveIdempotencyRecord
<1> DEFINE s == [conn[c] EXCEPT !.pc = "reply", !.ok = ok]
<1>5. Moved(c, s)
  BY <1>4 DEF Replies
<1>6. /\ s \in ConnRec(ActorOf(c), Done) /\ s.pc = "reply" /\ s.ok = ok
      /\ s.key = conn[c].key /\ s.rev = conn[c].rev /\ s.seen = conn[c].seen
      /\ s.req = q
  BY <1>1 DEF ConnRec, Pcs
<1> HIDE DEF s
<1>7. Done' = Done /\ \A x \in Requests : effects'[x] >= effects[x]
  BY <1>1, <1>2 DEF Done
<1>8. ASSUME NEW a \in Ledgered
      PROVE  effects[a] = unsaved'[a] + (IF a \in ledger' THEN 1 ELSE 0) + 0
  <2>1. a \in Requests /\ unsaved[a] \in Nat
    BY <1>2, ClassFacts
  <2>2. effects[a] = unsaved[a] + (IF a \in ledger THEN 1 ELSE 0) + (IF a = q THEN 1 ELSE 0)
    BY <1>3 DEF IInv, CountInv
  <2>3. CASE a = q
    <3>1. effects[a] = unsaved[a] + 1
      BY <1>2, <2>1, <2>2, <2>3
    <3>2. CASE ok
      BY <1>4, <2>1, <2>3, <3>1, <3>2
    <3>3. CASE ~ok
      <4>1. unsaved'[a] = unsaved[a] + 1 /\ a \notin ledger'
        BY <1>2, <1>4, <2>1, <2>3, <3>3
      <4> QED BY <2>1, <3>1, <4>1
    <3> QED BY <3>2, <3>3
  <2>4. CASE a # q
    <3>1. unsaved'[a] = unsaved[a] /\ (a \in ledger' <=> a \in ledger)
      BY <1>2, <1>4, <2>1, <2>4
    <3> QED BY <2>1, <2>2, <2>4, <3>1
  <2> QED BY <2>3, <2>4
<1>9. q \in Done
  <2>1. unsaved[q] \in Nat /\ effects[q] = unsaved[q] + 0 + 1
    BY <1>2, <1>3 DEF IInv, CountInv
  <2> QED BY <1>2, <2>1 DEF Done
<1>10. ReqOK(s, Done)
  BY <1>2, <1>6, <1>9 DEF ReqOK
<1>11. Shape' /\ RowInv' /\ RecInv' /\ ClientInv' /\ AcceptInv' /\ SlotInv'
  <2>1. /\ mu' \in Conns \cup {None} /\ unsaved' \in [Requests -> Nat] /\ ledger' \subseteq Ledgered
        /\ effects' \in [Requests -> Nat]
    BY <1>1, <1>2, <1>4
  <2> HIDE DEF q
  <2> QED BY <1>1, <1>5, <1>6, <1>7, <1>10, <2>1, WorkStep
<1>12. conn'[c] = s /\ \A d \in Conns : d # c => conn'[d] = conn[d]
  BY <1>1, <1>5, MovedFacts
<1>13. \A d \in Conns : conn'[d].pc \notin {"fn", "save"}
  BY <1>2, <1>6, <1>12
<1>14. MuInv'
  BY <1>13 DEF MuInv
<1>15. CountInv'
  <2>1. \A a \in Ledgered : ~Saving(a)'
    BY <1>13 DEF Saving
  <2> QED BY <1>1, <1>8, <2>1 DEF CountInv
<1>16. DirectInv'
  BY <1>1, <1>2, <1>5, <1>6, LedgerDirect DEF Busy
<1> QED BY <1>11, <1>14, <1>15, <1>16 DEF IInv

(* Every step of a connection keeps the invariant.                         *)
LEMMA ConnectionStepKeeps ==
  ASSUME IInv, StoreInv, NEW c \in Conns, ConnectionStep(c)
  PROVE  IInv'
<1>1. Around
  BY DEF ConnectionStep, Around, boot
<1> QED
  BY <1>1, DeadlineStep, ReadFailsStep, ReadHelloStep, LookupStep, ReadProofStep,
     ReadRequestStep, AuthorizeStep, DispatchStep, ResolveStep, SwapStep, InitializeVaultStep,
     WithIdempotencyStep, RunFnStep, SaveStep, ReplyStep, UntrackStep DEF ConnectionStep

(* What a step of a client leaves alone.                                   *)
Beside == UNCHANGED <<root, limit, row, accepted, mu, ledger, effects, unsaved>>

(* Only streams change.                                                    *)
Quiet ==
  /\ conn' = [d \in Conns |-> conn'[d]]
  /\ \A d \in Conns : conn'[d] \in ConnRec(ActorOf(d), Done) /\ SameState(conn[d], conn'[d])

(* What the invariant says of one client.                                  *)
LEMMA ActorFacts ==
  ASSUME IInv, NEW a \in Actors
  PROVE  /\ ConnOf(a) \in Conns /\ ActorOf(ConnOf(a)) = a
         /\ client[a] \in ClientRec /\ client[a].oks \subseteq Done
         /\ conn[ConnOf(a)] \in ConnRec(a, Done)
         /\ Shape /\ Done \in SUBSET Requests
         /\ a \in Commands /\ client[a].n = 1 => conn[<<a, 2>>].pc = "none"
<1>1. client[a] \in ClientRec /\ client[a].oks \subseteq Done /\ Shape
      /\ (a \in Peers => client[a].n = 1)
      /\ (a \in Commands /\ client[a].n = 1 => conn[<<a, 2>>].pc = "none")
  BY DEF IInv, Shape, ClientInv
<1>2. ConnOf(a) \in Conns /\ ActorOf(ConnOf(a)) = a
  BY <1>1, ConnsFacts DEF ConnOf, ClientRec, Actors
<1>3. conn[ConnOf(a)] \in ConnRec(a, Done)
  BY <1>1, <1>2 DEF Shape
<1> QED BY <1>1, <1>2, <1>3 DEF Done

(* Changing the streams of one connection.                                 *)
LEMMA QuietMove ==
  ASSUME IInv, NEW c \in Conns, NEW s \in ConnRec(ActorOf(c), Done), SameState(conn[c], s),
         Moved(c, s)
  PROVE  Quiet
<1>1. \A d \in Conns : conn[d] \in ConnRec(ActorOf(d), Done) /\ SameState(conn[d], conn[d])
  BY DEF IInv, Shape, SameState
<1>2. /\ conn' = [d \in Conns |-> conn'[d]]
      /\ conn'[c] = s
      /\ \A d \in Conns : d # c => conn'[d] = conn[d]
  BY MovedFacts DEF IInv
<1> QED BY <1>1, <1>2 DEF Quiet

(* Changing none.                                                          *)
LEMMA QuietStay ==
  ASSUME IInv, conn' = conn PROVE Quiet
BY DEF IInv, Shape, SameState, Quiet

(* Stream changes keep what is not about clients.                          *)
LEMMA QuietConns ==
  ASSUME IInv, Quiet, Beside, client' \in [Actors -> ClientRec]
  PROVE  Shape' /\ RowInv' /\ RecInv' /\ MuInv' /\ CountInv' /\ DirectInv' /\ AcceptInv' /\ SlotInv'
<1>1. Done' = Done /\ \A d \in Conns : ClientIdentity(d)' = ClientIdentity(d)
  BY DEF Done, ClientIdentity, Beside
<1>2. Shape'
  BY <1>1 DEF IInv, Shape, Quiet, Beside
<1>3. RecInv'
  <2>1. ASSUME NEW d \in Conns
        PROVE  KeyOK(conn'[d], ClientIdentity(d)) /\ ReqOK(conn'[d], Done)
    <3>1. KeyOK(conn[d], ClientIdentity(d)) /\ ReqOK(conn[d], Done) /\ SameState(conn[d], conn'[d])
      BY DEF IInv, RecInv, Quiet
    <3> QED BY <3>1 DEF SameState, KeyOK, ReqOK
  <2> QED BY <1>1, <2>1 DEF RecInv
<1>4. \A d \in Conns : Calm(conn[d], conn'[d])
  BY SameCalm DEF Quiet
<1> QED BY <1>2, <1>3, <1>4, CalmStep DEF Beside

(* A step of a client that only changes streams keeps the invariant, if    *)
(* the client reports what is done and does not dial again except with a   *)
(* command's second connection.                                            *)
LEMMA ClientKeeps ==
  ASSUME IInv, NEW a \in Actors, NEW r \in ClientRec, Client(a, r), Quiet, Beside,
         r.oks \subseteq Done,
         \/ r.n = client[a].n /\ r.pc # "idle"
         \/ a \in Commands /\ client[a].n = 1 /\ r.n = 2
  PROVE  IInv'
<1>1. /\ client' \in [Actors -> ClientRec]
      /\ client'[a] = r /\ \A b \in Actors : b # a => client'[b] = client[b]
  BY DEF Client, IInv, Shape
<1>2. Done' = Done /\ \A d \in Conns : conn'[d].pc = conn[d].pc
  BY DEF Done, Beside, Quiet, SameState
<1>3. ASSUME NEW b \in Actors
      PROVE  /\ client'[b].oks \subseteq Done'
             /\ client'[b].pc = "idle" => conn'[ConnOf(b)'].pc = "none"
             /\ b \in Commands /\ client'[b].n = 1 => conn'[<<b, 2>>].pc = "none"
             /\ b \in Peers => client'[b].n = 1
  <2>1. /\ client[b].oks \subseteq Done
        /\ client[b].pc = "idle" => conn[ConnOf(b)].pc = "none"
        /\ b \in Commands /\ client[b].n = 1 => conn[<<b, 2>>].pc = "none"
        /\ b \in Peers => client[b].n = 1
    BY DEF IInv, ClientInv
  <2>2. ConnOf(b) \in Conns /\ (b \in Commands => <<b, 2>> \in Conns) /\ (b \in Peers => b \notin Commands)
    BY ActorFacts, ConnsFacts
  <2>3. ConnOf(b)' = <<b, client'[b].n>> /\ ConnOf(b) = <<b, client[b].n>>
    BY DEF ConnOf
  <2>4. CASE b # a
    BY <1>1, <1>2, <2>1, <2>2, <2>3, <2>4
  <2>5. CASE b = a /\ r.n = client[a].n /\ r.pc # "idle"
    BY <1>1, <1>2, <2>1, <2>2, <2>5
  <2>6. CASE b = a /\ a \in Commands /\ client[a].n = 1 /\ r.n = 2
    BY <1>1, <1>2, <2>1, <2>2, <2>3, <2>6
  <2> QED BY <2>4, <2>5, <2>6
<1>4. ClientInv'
  BY <1>3 DEF ClientInv
<1> QED BY <1>1, <1>4, QuietConns DEF IInv

(* A connection that its client has closed.                                *)
LEMMA HungFacts ==
  ASSUME NEW a, NEW D, NEW c, conn[c] \in ConnRec(a, D)
  PROVE  Hung(c) \in ConnRec(a, D) /\ SameState(conn[c], Hung(c))
<1>1. <<>> \in Seq(OutFrames(D))
  OBVIOUS
<1>2. Hung(c) \in ConnRec(a, D)
  BY <1>1 DEF Hung, ConnRec
<1>3. SameState(conn[c], Hung(c))
  BY DEF Hung, ConnRec, SameState
<1> QED BY <1>2, <1>3

(* Closing it changes only streams.                                        *)
LEMMA HungQuiet ==
  ASSUME IInv, NEW a \in Actors, Moved(ConnOf(a), Hung(ConnOf(a)))
  PROVE  Quiet
BY ActorFacts, HungFacts, QuietMove

(* Retry keeps the invariant.                                              *)
LEMMA RetryKeeps ==
  ASSUME IInv, NEW a \in Actors, Retry(a), Quiet, Beside
  PROVE  IInv'
<1>1. client[a] \in ClientRec /\ client[a].oks \subseteq Done
  BY ActorFacts
<1>2. CASE a \in Commands /\ client[a].n = 1
  <2> DEFINE r == [client[a] EXCEPT !.pc = "idle", !.n = 2, !.req = None]
  <2>1. r \in ClientRec /\ r.n = 2 /\ r.oks = client[a].oks
    BY <1>1 DEF ClientRec
  <2>2. Client(a, r)
    BY <1>2 DEF Retry
  <2> HIDE DEF r
  <2> QED BY <1>1, <1>2, <2>1, <2>2, ClientKeeps
<1>3. CASE ~(a \in Commands /\ client[a].n = 1)
  <2> DEFINE r == [client[a] EXCEPT !.pc = "done", !.req = None]
  <2>1. r \in ClientRec /\ r.n = client[a].n /\ r.oks = client[a].oks /\ r.pc = "done"
    BY <1>1 DEF ClientRec
  <2>2. Client(a, r)
    BY <1>3 DEF Retry
  <2> HIDE DEF r
  <2> QED BY <1>1, <2>1, <2>2, ClientKeeps
<1> QED BY <1>2, <1>3

(* GiveUp keeps the invariant.                                             *)
LEMMA GiveUpKeeps ==
  ASSUME IInv, NEW a \in Actors, GiveUp(a), Quiet, Beside
  PROVE  IInv'
<1> DEFINE r == [client[a] EXCEPT !.pc = "done", !.req = None, !.calls = 0]
<1>1. client[a] \in ClientRec /\ client[a].oks \subseteq Done
  BY ActorFacts
<1>2. r \in ClientRec /\ r.n = client[a].n /\ r.oks = client[a].oks /\ r.pc = "done"
  BY <1>1 DEF ClientRec
<1>3. Client(a, r)
  BY DEF GiveUp
<1> HIDE DEF r
<1> QED BY <1>1, <1>2, <1>3, ClientKeeps

(* A client that only moves on keeps the invariant.                        *)
LEMMA PcKeeps ==
  ASSUME IInv, NEW a \in Actors, NEW pc \in {"hello", "proof", "ready", "calling", "done"},
         Client(a, [client[a] EXCEPT !.pc = pc]), Quiet, Beside
  PROVE  IInv'
<1> DEFINE r == [client[a] EXCEPT !.pc = pc]
<1>1. client[a] \in ClientRec /\ client[a].oks \subseteq Done
  BY ActorFacts
<1>2. r \in ClientRec /\ r.n = client[a].n /\ r.oks = client[a].oks /\ r.pc = pc
  BY <1>1 DEF ClientRec
<1>3. Client(a, r)
  OBVIOUS
<1> HIDE DEF r
<1> QED BY <1>1, <1>2, <1>3, ClientKeeps

(* Reading a frame on the client's side.                                   *)
LEMMA ReceivedFacts ==
  ASSUME IInv, NEW a \in Actors, conn[ConnOf(a)].out # <<>>
  PROVE  /\ Received(a) \in ConnRec(a, Done) /\ SameState(conn[ConnOf(a)], Received(a))
         /\ Head(conn[ConnOf(a)].out) \in OutFrames(Done)
         /\ Received(a).closed = conn[ConnOf(a)].closed
         /\ Received(a).in = conn[ConnOf(a)].in
<1> DEFINE c == ConnOf(a)  o == Tail(conn[c].out)
<1>1. conn[c] \in ConnRec(a, Done)
  BY ActorFacts
<1>2. conn[c].out \in Seq(OutFrames(Done))
  BY <1>1, RecFields
<1>3. o \in Seq(OutFrames(Done)) /\ Head(conn[c].out) \in OutFrames(Done)
  BY <1>2
<1>4. Received(a) = [conn[c] EXCEPT !.out = o]
  BY <1>1 DEF Received, ConnRec
<1> HIDE DEF o, c
<1>5. Received(a) \in ConnRec(a, Done)
  BY <1>1, <1>3, <1>4 DEF ConnRec
<1>6. /\ SameState(conn[c], Received(a)) /\ Received(a).closed = conn[c].closed
      /\ Received(a).in = conn[c].in
  BY <1>1, <1>4 DEF ConnRec, SameState
<1> QED BY <1>3, <1>5, <1>6 DEF c

(* Dial keeps the invariant: the connection is new, so no handler runs on  *)
(* it and no ID is given back.                                             *)
LEMMA DialStep ==
  ASSUME IInv, NEW a \in Actors, Dial(a), Beside
  PROVE  IInv'
<1> DEFINE c == ConnOf(a)  i == <<[t |-> "hello"]>>
           s == [NoConn EXCEPT !.pc = "backlog", !.in = i]
           r == [client[a] EXCEPT !.pc = "hello"]
<1>1. /\ c \in Conns /\ ActorOf(c) = a /\ client[a] \in ClientRec /\ client[a].oks \subseteq Done
      /\ Shape /\ client[a].pc = "idle" /\ conn[c].pc = "none"
  BY ActorFacts DEF Dial, IInv, ClientInv
<1>2. CASE UNCHANGED conn /\ Retry(a)
  BY <1>2, QuietStay, RetryKeeps
<1>3. CASE Moved(c, s) /\ Client(a, r)
  <2>1. i \in Seq(InFrames(a)) /\ "backlog" \in Pcs
    BY InFrameFacts DEF Pcs
  <2>2. NoConn \in ConnRec(a, Done)
    BY NoConnFacts
  <2> HIDE DEF i
  <2>3. s \in ConnRec(a, Done) /\ s.pc = "backlog"
    BY <2>1, <2>2 DEF ConnRec
  <2>4. r \in ClientRec /\ r.pc = "hello" /\ r.n = client[a].n /\ r.oks = client[a].oks
    BY <1>1 DEF ClientRec
  <2> HIDE DEF s, r, c
  <2>5. /\ conn' = [d \in Conns |-> conn'[d]]
        /\ conn'[c] = s /\ \A d \in Conns : d # c => conn'[d] = conn[d]
    BY <1>1, <1>3, MovedFacts
  <2>6. /\ client' \in [Actors -> ClientRec]
        /\ client'[a] = r /\ \A b \in Actors : b # a => client'[b] = client[b]
    BY <1>1, <1>3, <2>4 DEF Client, Shape
  <2>7. Done' = Done /\ \A d \in Conns : ClientIdentity(d)' = ClientIdentity(d)
    BY DEF Done, ClientIdentity, Beside
  <2>8. Shape'
    <3>1. \A d \in Conns : conn'[d] \in ConnRec(ActorOf(d), Done)
      BY <1>1, <2>3, <2>5 DEF Shape
    <3> QED BY <1>1, <2>5, <2>6, <2>7, <3>1 DEF Shape, Beside
  <2>9. RecInv'
    <3>1. KeyOK(s, ClientIdentity(c)) /\ ReqOK(s, Done)
      BY <2>3 DEF KeyOK, ReqOK, Known, Busy
    <3> QED BY <2>5, <2>7, <3>1 DEF IInv, RecInv
  <2>10. RowInv'
    BY DEF IInv, RowInv, Beside
  <2>11. MuInv'
    BY <2>3, <2>5 DEF IInv, MuInv, Beside
  <2>12. CountInv'
    <3>1. \A b \in Ledgered : Saving(b)' <=> Saving(b)
      BY <1>1, <2>3, <2>5 DEF Saving
    <3> QED BY <3>1 DEF IInv, CountInv, Beside
  <2>13. DirectInv'
    <3>1. \A q \in Direct : ~Spent(conn[c], q)
      BY <1>1 DEF Spent, IInv, RecInv, ReqOK
    <3>2. \A d \in Conns, q \in Direct : Spent(conn[d], q) => Spent(conn'[d], q)
      BY <2>5, <3>1
    <3> QED BY <1>1, <3>2, CalmDirect DEF IInv, Shape, Beside
  <2>14. AcceptInv'
    BY <1>1, <2>5 DEF IInv, AcceptInv, Beside, Shape
  <2>15. SlotInv'
    <3>1. \A d \in Conns : Served(d)' => Served(d)
      BY <2>3, <2>5 DEF Served
    <3> QED BY <1>1, <3>1, CalmSlots DEF IInv, Shape, Beside
  <2>16. ASSUME NEW b \in Actors
         PROVE  /\ client'[b].oks \subseteq Done
                /\ client'[b].pc = "idle" => conn'[ConnOf(b)'].pc = "none"
                /\ b \in Commands /\ client'[b].n = 1 => conn'[<<b, 2>>].pc = "none"
                /\ b \in Peers => client'[b].n = 1
    <3>1. /\ client[b].oks \subseteq Done
          /\ client[b].pc = "idle" => conn[ConnOf(b)].pc = "none"
          /\ b \in Commands /\ client[b].n = 1 => conn[<<b, 2>>].pc = "none"
          /\ b \in Peers => client[b].n = 1
      BY DEF IInv, ClientInv
    <3>2. ConnOf(b) \in Conns /\ (b \in Commands => <<b, 2>> \in Conns)
      BY ActorFacts, ConnsFacts
    <3>3. /\ ConnOf(b)' = <<b, client'[b].n>> /\ ConnOf(b) = <<b, client[b].n>>
          /\ c = <<a, client[a].n>>
      BY DEF ConnOf, c
    <3>4. CASE b # a
      BY <2>5, <2>6, <3>1, <3>2, <3>3, <3>4
    <3>5. CASE b = a
      BY <2>4, <2>5, <2>6, <3>1, <3>2, <3>3, <3>5
    <3> QED BY <3>4, <3>5
  <2>17. ClientInv'
    BY <2>7, <2>16 DEF ClientInv
  <2> QED BY <2>8, <2>9, <2>10, <2>11, <2>12, <2>13, <2>14, <2>15, <2>17 DEF IInv
<1> QED BY <1>2, <1>3 DEF Dial

(* ClientProof keeps the invariant.                                        *)
LEMMA ClientProofStep ==
  ASSUME IInv, NEW a \in Actors, ClientProof(a), Beside
  PROVE  IInv'
<1> DEFINE c == ConnOf(a)
<1>1. /\ c \in Conns /\ ActorOf(c) = a /\ Shape /\ conn[c].out # <<>>
  BY ActorFacts DEF ClientProof, Incoming
<1>2. PICK k \in Keys(a) :
       \/ /\ Moved(c, [Received(a) EXCEPT
                     !.in = IF conn[c].closed THEN @ ELSE Append(@, [t |-> "proof", key |-> k])])
          /\ Client(a, [client[a] EXCEPT !.pc = "proof"])
       \/ Moved(c, Hung(c)) /\ GiveUp(a)
  BY DEF ClientProof
<1>3. k \in Nat
  <2>1. IdentityOf(a) \in Identities
    BY DEF IdentityOf, Identities
  <2> QED BY <1>1, <2>1 DEF Keys, Shape, Row
<1>4. CASE Moved(c, Hung(c)) /\ GiveUp(a)
  BY <1>4, HungQuiet, GiveUpKeeps
<1>5. CASE /\ Moved(c, [Received(a) EXCEPT
                !.in = IF conn[c].closed THEN @ ELSE Append(@, [t |-> "proof", key |-> k])])
           /\ Client(a, [client[a] EXCEPT !.pc = "proof"])
  <2> DEFINE r == Received(a)
             i == IF conn[c].closed THEN r.in ELSE Append(r.in, [t |-> "proof", key |-> k])
             s == [r EXCEPT !.in = i]
  <2>1. r \in ConnRec(a, Done) /\ SameState(conn[c], r)
    BY <1>1, ReceivedFacts
  <2>2. Moved(c, s)
    BY <1>5, <2>1 DEF ConnRec
  <2>3. i \in Seq(InFrames(a))
    BY <1>3, <2>1, RecFields, InFrameFacts
  <2> HIDE DEF r, i
  <2>4. s \in ConnRec(a, Done) /\ SameState(r, s)
    BY <2>1, <2>3 DEF ConnRec, SameState
  <2> HIDE DEF s
  <2>5. SameState(conn[c], s)
    BY <2>1, <2>4 DEF SameState
  <2>6. Quiet
    BY <1>1, <2>2, <2>4, <2>5, QuietMove
  <2> QED BY <1>5, <2>6, PcKeeps
<1> QED BY <1>2, <1>4, <1>5

(* ClientAccepted keeps the invariant.                                     *)
LEMMA ClientAcceptedStep ==
  ASSUME IInv, NEW a \in Actors, ClientAccepted(a), Beside
  PROVE  IInv'
<1>1. Quiet
  BY ActorFacts, ReceivedFacts, QuietMove DEF ClientAccepted, Incoming
<1> QED BY <1>1, PcKeeps DEF ClientAccepted

(* Call keeps the invariant.                                               *)
LEMMA CallStep ==
  ASSUME IInv, NEW a \in Actors, NEW q \in Requests, Call(a, q), Beside
  PROVE  IInv'
<1> DEFINE c == ConnOf(a)
           i == IF conn[c].closed THEN conn[c].in ELSE Append(conn[c].in, [t |-> "request", req |-> q])
           s == [conn[c] EXCEPT !.in = i]
           n == client[a].calls + 1
           r == [client[a] EXCEPT !.pc = "calling", !.req = q, !.calls = n]
<1>1. /\ c \in Conns /\ ActorOf(c) = a /\ conn[c] \in ConnRec(a, Done)
      /\ client[a] \in ClientRec /\ client[a].oks \subseteq Done
  BY ActorFacts
<1>2. q \in Asks(a)
  BY DEF Call, Asks
<1>3. i \in Seq(InFrames(a))
  BY <1>1, <1>2, RecFields, InFrameFacts
<1>4. Moved(c, s)
  BY <1>1 DEF Call, Sent, ConnRec
<1>5. Client(a, r) /\ n \in Nat
  BY <1>1 DEF Call, ClientRec
<1> HIDE DEF i, n
<1>6. s \in ConnRec(a, Done) /\ SameState(conn[c], s)
  BY <1>1, <1>3 DEF ConnRec, SameState
<1>7. r \in ClientRec /\ r.n = client[a].n /\ r.pc = "calling" /\ r.oks = client[a].oks
  BY <1>1, <1>5 DEF ClientRec
<1> HIDE DEF s, r, c
<1>8. Quiet
  BY <1>1, <1>4, <1>6, QuietMove
<1> QED BY <1>1, <1>5, <1>7, <1>8, ClientKeeps

(* CallReturns keeps the invariant: an ok frame with the ID of the call is *)
(* about a request that is done.                                           *)
LEMMA CallReturnsStep ==
  ASSUME IInv, NEW a \in Actors, CallReturns(a), Beside
  PROVE  IInv'
<1> DEFINE c == ConnOf(a)  f == Head(conn[c].out)
           o == IF f.req = client[a].req /\ f.code = "ok"
                THEN client[a].oks \cup {client[a].req} ELSE client[a].oks
           p == IF a \in Commands THEN "done" ELSE "ready"
           r == [client[a] EXCEPT !.pc = p, !.oks = o, !.req = None]
<1>1. /\ c \in Conns /\ ActorOf(c) = a /\ conn[c] \in ConnRec(a, Done)
      /\ client[a] \in ClientRec /\ client[a].oks \subseteq Done /\ Done \in SUBSET Requests
      /\ conn[c].out # <<>> /\ f.t = "response"
  BY ActorFacts DEF CallReturns, Incoming
<1>2. f \in OutFrames(Done)
  BY <1>1, ReceivedFacts
<1>3. f.code = "ok" => f.req \in Done
  BY <1>1, <1>2, OutFrameFacts
<1>4. o \subseteq Done /\ p \in {"done", "ready"}
  BY <1>1, <1>3
<1>5. Client(a, r)
  BY <1>1 DEF CallReturns, ClientRec
<1>6. Quiet
  <2>1. CASE a \in Commands
    BY <2>1, HungQuiet DEF CallReturns
  <2>2. CASE a \notin Commands
    BY <1>1, <2>2, ReceivedFacts, QuietMove DEF CallReturns
  <2> QED BY <2>1, <2>2
<1> HIDE DEF o, p
<1>7. r \in ClientRec /\ r.n = client[a].n /\ r.pc = p /\ r.oks = o
  BY <1>1, <1>4 DEF ClientRec
<1> HIDE DEF r
<1> QED BY <1>4, <1>5, <1>6, <1>7, ClientKeeps

(* CallFails keeps the invariant.                                          *)
LEMMA CallFailsStep ==
  ASSUME IInv, NEW a \in Actors, CallFails(a), Beside
  PROVE  IInv'
<1>1. CASE Moved(ConnOf(a), Hung(ConnOf(a))) /\ Retry(a)
  BY <1>1, HungQuiet, RetryKeeps
<1>2. CASE Client(a, [client[a] EXCEPT !.pc = "ready", !.req = None]) /\ UNCHANGED conn
  <2> DEFINE r == [client[a] EXCEPT !.pc = "ready", !.req = None]
  <2>1. client[a] \in ClientRec /\ client[a].oks \subseteq Done
    BY ActorFacts
  <2>2. r \in ClientRec /\ r.n = client[a].n /\ r.pc = "ready" /\ r.oks = client[a].oks
    BY <2>1 DEF ClientRec
  <2>3. Client(a, r)
    BY <1>2
  <2> HIDE DEF r
  <2> QED BY <1>2, <2>1, <2>2, <2>3, QuietStay, ClientKeeps
<1> QED BY <1>1, <1>2 DEF CallFails

(* Every step of a client keeps the invariant.                             *)
LEMMA ClientStepKeeps ==
  ASSUME IInv, NEW a \in Actors, ClientStep(a)
  PROVE  IInv'
<1>1. Beside
  BY DEF ClientStep, Beside, boot, work
<1>2. CASE HandshakeFails(a) \/ CloseConnection(a)
  BY <1>1, <1>2, HungQuiet, GiveUpKeeps DEF HandshakeFails, CloseConnection
<1> QED
  BY <1>1, <1>2, DialStep, ClientProofStep, ClientAcceptedStep, CallStep, CallReturnsStep,
     CallFailsStep DEF ClientStep

(* Steps on the other variables keep the invariant.                        *)
LEMMA Untouched ==
  ASSUME IInv, UNCHANGED <<root, limit, row, accepted, conn, mu, ledger, effects, unsaved, client>>
  PROVE  IInv'
<1>1. Quiet /\ Beside
  BY QuietStay DEF Beside
<1>2. client' \in [Actors -> ClientRec]
  BY DEF IInv, Shape
<1>3. ClientInv'
  BY CalmClients
<1> QED BY <1>1, <1>2, <1>3, QuietConns DEF IInv

(* Writing an identity row with the next revision keeps the invariant:     *)
(* connections of the old revision keep a smaller one.                     *)
LEMMA RowStep ==
  ASSUME IInv, NEW i \in Identities, NEW r \in Row, row' = [row EXCEPT ![i] = r],
         r.rev = row[i].rev + 1, r.status # "none",
         UNCHANGED <<limit, accepted, conn, mu, ledger, effects, unsaved, client>>,
         root' # {}
  PROVE  IInv'
<1>0. Shape /\ row[i] \in Row
  BY DEF IInv, Shape
<1>1. /\ row' \in [Identities -> Row]
      /\ row'[i] = r /\ \A j \in Identities : j # i => row'[j] = row[j]
  BY <1>0 DEF Shape
<1>2. Done' = Done
  BY DEF Done
<1>3. Shape'
  BY <1>0, <1>1, <1>2 DEF Shape
<1>4. RowInv'
  <2>1. r.rev >= 1
    BY <1>0 DEF Row
  <2> QED BY <1>1, <2>1 DEF IInv, RowInv
<1>5. ASSUME NEW c \in Conns PROVE KeyOK(conn'[c], ClientIdentity(c)') /\ ReqOK(conn'[c], Done')
  <2>1. /\ KeyOK(conn[c], ClientIdentity(c)) /\ ReqOK(conn[c], Done)
        /\ conn[c] \in ConnRec(ActorOf(c), Done)
    BY HereFacts
  <2>2. conn[c].rev \in Nat /\ row[i].rev \in Nat
    BY <1>0, <2>1, RecFields DEF Row
  <2> DEFINE j == IdentityOf(ActorOf(c))
  <2>3. j \in Identities /\ ClientIdentity(c) = row[j] /\ ClientIdentity(c)' = row'[j]
    BY DEF ClientIdentity, IdentityOf, Identities
  <2> HIDE DEF j
  <2>4. CASE j = i
    BY <1>1, <2>1, <2>2, <2>3, <2>4, <1>2 DEF KeyOK
  <2>5. CASE j # i
    BY <1>1, <1>2, <2>1, <2>3, <2>5
  <2> QED BY <2>4, <2>5
<1>6. RecInv'
  BY <1>5 DEF RecInv
<1>7. ClientInv'
  BY CalmClients
<1>8. MuInv' /\ CountInv' /\ AcceptInv'
  <2>1. \A a \in Ledgered : Saving(a)' <=> Saving(a)
    BY DEF Saving
  <2> QED BY <2>1 DEF IInv, MuInv, CountInv, AcceptInv
<1>9. DirectInv'
  BY <1>0, CalmDirect DEF IInv, Shape
<1>10. SlotInv'
  <2>1. \A d \in Conns : Served(d)' => Served(d)
    BY DEF Served
  <2> QED BY <1>0, <2>1, CalmSlots DEF IInv, Shape
<1> QED BY <1>3, <1>4, <1>6, <1>7, <1>8, <1>9, <1>10 DEF IInv

(* Every administrative step keeps the invariant.                          *)
LEMMA AdministrationStep ==
  ASSUME IInv, Administration
  PROVE  IInv'
<1>0. /\ Shape /\ RowInv /\ Owner \in Identities /\ Peer \in Identities
      /\ row \in [Identities -> Row]
  BY DEF IInv, Shape, Identities
<1>1. ASSUME NEW p \in Parts, Stage(p) PROVE IInv'
  BY <1>1, Untouched DEF Stage, work
<1>2. CASE AbandonStaging
  BY <1>2, Untouched DEF AbandonStaging, work
<1>3. CASE RunServe \/ RemoveStaleSocket \/ Cancel \/ OtherClient
  BY <1>3, Untouched DEF RunServe, RemoveStaleSocket, Cancel, OtherClient, work, boot
<1>4. CASE CommitRoot
  <2> DEFINE r == [status |-> "active", rev |-> 1, key |-> 1]
  <2>1. r \in Row /\ r.rev = 1 /\ r.status = "active"
    BY DEF Row
  <2>2. row[Owner].rev = 0
    BY <1>0, <1>4 DEF CommitRoot, RowInv
  <2>3. root' # {}
    BY <1>4 DEF CommitRoot, Parts
  <2>4. row' = [row EXCEPT ![Owner] = r]
    BY <1>4 DEF CommitRoot
  <2> HIDE DEF r
  <2>5. r.rev = row[Owner].rev + 1
    BY <2>1, <2>2
  <2>6. UNCHANGED <<limit, accepted, conn, mu, ledger, effects, unsaved, client>>
    BY <1>4 DEF CommitRoot, work
  <2> QED BY <1>0, <2>1, <2>3, <2>4, <2>5, <2>6, RowStep
<1>5. CASE CreateClient
  <2> DEFINE r == [status |-> "active", rev |-> 1, key |-> 1]
  <2>1. r \in Row /\ r.rev = 1 /\ r.status = "active"
    BY DEF Row
  <2>2. row[Peer].rev = 0
    BY <1>0, <1>5 DEF CreateClient, RowInv
  <2>3. root' # {}
    BY <1>5 DEF CreateClient, SaveRow, boot
  <2>4. row' = [row EXCEPT ![Peer] = r]
    BY <1>5 DEF CreateClient, SaveRow
  <2> HIDE DEF r
  <2>5. r.rev = row[Peer].rev + 1
    BY <2>1, <2>2
  <2>6. UNCHANGED <<limit, accepted, conn, mu, ledger, effects, unsaved, client>>
    BY <1>5 DEF CreateClient, SaveRow, work, boot
  <2> QED BY <1>0, <2>1, <2>3, <2>4, <2>5, <2>6, RowStep
<1>6. ASSUME NEW i \in Identities, RotateClient(i) PROVE IInv'
  <2>1. row[i] \in Row /\ row[i].key \in Nat /\ row[i].rev \in Nat
    BY <1>0 DEF Row
  <2> DEFINE n == row[i].rev + 1  k == row[i].key + 1
             r == [status |-> "active", rev |-> n, key |-> k]
  <2>2. row[i].status = "active" /\ SaveRow(i, r)
    BY <1>6 DEF RotateClient, RotateClientIdentity
  <2>3. n \in Nat /\ k \in Nat
    BY <2>1
  <2>4. root # {}
    BY <1>0, <2>2 DEF RowInv
  <2> HIDE DEF n, k
  <2>5. r \in Row /\ r.rev = n /\ r.status = "active"
    BY <2>3 DEF Row
  <2> HIDE DEF r
  <2>6. r.rev = row[i].rev + 1
    BY <2>5 DEF n
  <2> QED BY <2>2, <2>4, <2>5, <2>6, RowStep DEF SaveRow, work, boot
<1>7. ASSUME NEW i \in Identities, RevokeClient(i) PROVE IInv'
  <2>1. row[i] \in Row /\ row[i].rev \in Nat
    BY <1>0 DEF Row
  <2> DEFINE n == row[i].rev + 1
             r == [row[i] EXCEPT !.status = "revoked", !.rev = n]
  <2>2. row[i].status = "active" /\ SaveRow(i, r)
    BY <1>7 DEF RevokeClient, RevokeClientIdentity
  <2>3. n \in Nat
    BY <2>1
  <2>4. root # {}
    BY <1>0, <2>2 DEF RowInv
  <2> HIDE DEF n
  <2>5. r \in Row /\ r.rev = n /\ r.status = "revoked"
    BY <2>1, <2>3 DEF Row
  <2> HIDE DEF r
  <2>6. r.rev = row[i].rev + 1
    BY <2>5 DEF n
  <2> QED BY <2>2, <2>4, <2>5, <2>6, RowStep DEF SaveRow, work, boot
<1> QED BY <1>1, <1>2, <1>3, <1>4, <1>5, <1>6, <1>7 DEF Administration

(* Fitting changes of all connections.                                     *)
LEMMA AllFit ==
  ASSUME IInv, conn' = [d \in Conns |-> conn'[d]], \A d \in Conns : Fits(d, conn'[d]),
         UNCHANGED <<root, limit, row, mu, ledger, effects, unsaved, client>>,
         accepted' \in Conns \cup {None}
  PROVE  /\ Shape' /\ RowInv' /\ RecInv' /\ MuInv' /\ CountInv' /\ DirectInv' /\ ClientInv' /\ SlotInv'
         /\ accepted' = accepted => AcceptInv'
<1>1. Done' = Done /\ \A d \in Conns : ClientIdentity(d)' = ClientIdentity(d)
  BY DEF Done, ClientIdentity
<1>2. Shape'
  BY <1>1 DEF IInv, Shape, Fits
<1>3. RecInv'
  BY <1>1 DEF RecInv, Fits
<1>4. \A d \in Conns : Calm(conn[d], conn'[d])
  BY DEF Fits
<1>5. ClientInv'
  BY <1>4, CalmClients DEF Calm
<1> QED BY <1>2, <1>3, <1>4, <1>5, CalmStep

(* A change of the streams fits.                                           *)
LEMMA SameFits ==
  ASSUME IInv, NEW c \in Conns, NEW s \in ConnRec(ActorOf(c), Done), SameState(conn[c], s)
  PROVE  Fits(c, s)
<1>1. KeyOK(conn[c], ClientIdentity(c)) /\ ReqOK(conn[c], Done)
  BY HereFacts
<1>2. KeyOK(s, ClientIdentity(c)) /\ ReqOK(s, Done)
  BY <1>1 DEF SameState, KeyOK, ReqOK
<1> QED BY <1>2, SameCalm DEF Fits

(* What closeActive does to each connection fits.                          *)
LEMMA CloseActiveFits ==
  ASSUME IInv, NEW reset \in BOOLEAN, conn' = CloseActive(reset)
  PROVE  conn' = [d \in Conns |-> conn'[d]] /\ \A d \in Conns : Fits(d, conn'[d])
<1>1. conn' = [d \in Conns |-> conn'[d]]
  BY DEF CloseActive
<1>2. ASSUME NEW d \in Conns PROVE Fits(d, conn'[d])
  <2>1. conn[d] \in ConnRec(ActorOf(d), Done)
    BY HereFacts
  <2>2. CASE conn'[d] = [conn[d] EXCEPT !.closed = TRUE, !.in = <<>>]
    <3> DEFINE s == [conn[d] EXCEPT !.closed = TRUE, !.in = <<>>]
    <3>1. <<>> \in Seq(InFrames(ActorOf(d)))
      OBVIOUS
    <3>2. s \in ConnRec(ActorOf(d), Done) /\ SameState(conn[d], s)
      BY <2>1, <3>1 DEF ConnRec, SameState
    <3> HIDE DEF s
    <3>3. Fits(d, s)
      BY <3>2, SameFits
    <3> QED BY <2>2, <3>3 DEF s
  <2>3. CASE conn'[d] = conn[d]
    BY <2>1, <2>3, SameFits DEF SameState
  <2>4. CASE conn[d].pc = "backlog" /\ conn'[d] = Closed(conn[d], "gone")
    <3>1. conn'[d] \in ConnRec(ActorOf(d), Done) /\ conn'[d].pc = "gone"
      BY <2>1, <2>4, ClosedFacts
    <3> QED BY <2>4, <3>1 DEF Fits, Calm, KeyOK, ReqOK, Known, Busy, Spent
  <2> QED BY <2>2, <2>3, <2>4 DEF CloseActive
<1> QED BY <1>1, <1>2

(* Close and ServeReturns keep the invariant.                              *)
LEMMA CloseStep ==
  ASSUME IInv, Close \/ ServeReturns
  PROVE  IInv'
<1>1. PICK reset \in BOOLEAN : conn' = CloseActive(reset)
  BY DEF Close, ServeReturns
<1>2. UNCHANGED <<root, limit, row, accepted, mu, ledger, effects, unsaved, client>>
  BY DEF Close, ServeReturns, boot, work
<1>3. conn' = [d \in Conns |-> conn'[d]] /\ \A d \in Conns : Fits(d, conn'[d])
  BY <1>1, CloseActiveFits
<1>4. accepted' \in Conns \cup {None}
  BY <1>2 DEF IInv, Shape
<1> QED BY <1>2, <1>3, <1>4, AllFit DEF IInv

(* Accept keeps the invariant.                                             *)
LEMMA AcceptStep ==
  ASSUME IInv, NEW c \in Conns, Accept(c)
  PROVE  IInv'
<1> DEFINE s == [conn[c] EXCEPT !.pc = "accepted"]
<1>1. /\ conn[c] \in ConnRec(ActorOf(c), Done) /\ conn[c].pc = "backlog" /\ accepted' = c
      /\ UNCHANGED <<root, limit, row, mu, ledger, effects, unsaved, client>>
  BY HereFacts DEF Accept, boot, work
<1>2. "accepted" \in Pcs
  BY DEF Pcs
<1>3. s \in ConnRec(ActorOf(c), Done) /\ s.pc = "accepted" /\ Rest(conn[c], s)
  BY <1>1, <1>2, SetPc
<1>4. Moved(c, s)
  BY DEF Accept, Moved
<1> HIDE DEF s
<1>5. Fits(c, s)
  BY <1>1, <1>3 DEF Fits, Calm, KeyOK, ReqOK, Known, Busy, Spent, Rest
<1>6. /\ conn' = [d \in Conns |-> conn'[d]]
      /\ conn'[c] = s /\ \A d \in Conns : d # c => conn'[d] = conn[d]
  BY <1>4, MovedFacts DEF IInv
<1>7. \A d \in Conns : Fits(d, conn[d])
  BY HereFacts, SameFits DEF SameState
<1>8. \A d \in Conns : Fits(d, conn'[d])
  BY <1>5, <1>6, <1>7
<1>9. AcceptInv'
  BY <1>1, <1>3, <1>6 DEF AcceptInv
<1> QED BY <1>1, <1>6, <1>8, <1>9, AllFit DEF IInv

(* Admit keeps the invariant: it takes a slot only when one is free.       *)
LEMMA AdmitStep ==
  ASSUME IInv, Admit
  PROVE  IInv'
<1> DEFINE c == accepted
<1>1. /\ c \in Conns /\ conn[c].pc = "accepted" /\ accepted' = None /\ Shape
      /\ UNCHANGED <<root, limit, row, mu, ledger, effects, unsaved, client>>
  BY DEF Admit, IInv, Shape, AcceptInv, boot, work
<1>2. conn[c] \in ConnRec(ActorOf(c), Done) /\ KeyOK(conn[c], ClientIdentity(c))
      /\ ReqOK(conn[c], Done)
  BY <1>1, HereFacts
<1> DEFINE g == Closed(conn[c], "gone")  s == [conn[c] EXCEPT !.pc = "start"]
<1>3. IF Cardinality(Active) < limit THEN Moved(c, s) ELSE Moved(c, g)
  BY <1>1 DEF Admit, Moved, Shape
<1> HIDE DEF c
<1>4. AcceptInv'
  BY <1>1 DEF AcceptInv
<1>5. \A d \in Conns : Fits(d, conn[d])
  BY HereFacts, SameFits DEF SameState
<1>6. "start" \in Pcs
  BY DEF Pcs
<1>7. s \in ConnRec(ActorOf(c), Done) /\ s.pc = "start" /\ Rest(conn[c], s)
  BY <1>2, <1>6, SetPc
<1>8. g \in ConnRec(ActorOf(c), Done) /\ g.pc = "gone"
  BY <1>2, ClosedFacts
<1> HIDE DEF g, s
<1>9. PICK r \in {g, s} : Moved(c, r) /\ (r = s => Cardinality(Active) < limit)
  BY <1>3, <1>7, <1>8
<1>10. /\ r \in ConnRec(ActorOf(c), Done) /\ r.pc \in {"start", "gone"}
       /\ r.pc = "start" => Rest(conn[c], r) /\ Cardinality(Active) < limit
  BY <1>7, <1>8, <1>9
<1>11. /\ conn' = [d \in Conns |-> conn'[d]]
       /\ conn'[c] = r /\ \A d \in Conns : d # c => conn'[d] = conn[d]
  BY <1>1, <1>9, MovedFacts
<1>12. Done' = Done /\ \A d \in Conns : ClientIdentity(d)' = ClientIdentity(d)
  BY <1>1 DEF Done, ClientIdentity
<1>13. Shape'
  <2>1. \A d \in Conns : conn'[d] \in ConnRec(ActorOf(d), Done)
    BY <1>1, <1>10, <1>11 DEF Shape
  <2> QED BY <1>1, <1>11, <1>12, <2>1 DEF Shape
<1>14. RecInv'
  <2>1. KeyOK(r, ClientIdentity(c)) /\ ReqOK(r, Done)
    BY <1>10 DEF KeyOK, ReqOK, Known, Busy
  <2> QED BY <1>11, <1>12, <2>1 DEF IInv, RecInv
<1>15. RowInv' /\ MuInv'
  BY <1>1, <1>10, <1>11 DEF IInv, RowInv, MuInv
<1>16. CountInv'
  <2>1. \A b \in Ledgered : Saving(b)' <=> Saving(b)
    BY <1>1, <1>10, <1>11 DEF Saving
  <2> QED BY <1>1, <2>1 DEF IInv, CountInv
<1>17. DirectInv'
  <2>1. \A q \in Direct : Spent(conn[c], q) => Spent(r, q)
    BY <1>1, <1>10 DEF Spent, Rest
  <2>2. \A d \in Conns, q \in Direct : Spent(conn[d], q) => Spent(conn'[d], q)
    BY <1>11, <2>1
  <2> QED BY <1>1, <2>2, CalmDirect DEF IInv, Shape
<1>18. ClientInv'
  BY <1>1, <1>11, CalmClients
<1>19. SlotInv'
  <2>1. CASE r.pc = "gone"
    <3>1. \A d \in Conns : Served(d)' => Served(d)
      BY <1>11, <2>1 DEF Served
    <3> QED BY <1>1, <3>1, CalmSlots DEF IInv, Shape
  <2>2. CASE r.pc = "start"
    <3> DEFINE S == Active  T == Active'
    <3>1. T = S \cup {c} /\ c \notin S /\ S \subseteq Conns
      BY <1>1, <1>11, <2>2 DEF Active, Served
    <3>2. IsFiniteSet(S)
      BY <3>1, ConnsFacts, FS_Subset
    <3>3. Cardinality(T) = Cardinality(S) + 1 /\ Cardinality(S) \in Nat
      BY <3>1, <3>2, FS_AddElement, FS_CardinalityType
    <3>4. Cardinality(S) < limit /\ limit \in Nat
      BY <1>1, <1>10, <2>2 DEF Shape
    <3>5. Cardinality(T) <= limit
      BY <3>3, <3>4
    <3> QED BY <1>1, <3>5 DEF SlotInv
  <2> QED BY <1>10, <2>1, <2>2
<1> QED BY <1>4, <1>13, <1>14, <1>15, <1>16, <1>17, <1>18, <1>19 DEF IInv

(* The end of the process keeps the invariant: a run that no record was    *)
(* saved for is counted as lost, and there is one at most.                 *)
LEMMA ProcessEndsStep ==
  ASSUME IInv, ProcessEnds
  PROVE  IInv'
<1>1. /\ Shape /\ accepted' = None /\ mu' = None
      /\ UNCHANGED <<root, limit, row, ledger, client, effects>>
      /\ effects \in [Requests -> Nat] /\ unsaved \in [Requests -> Nat]
  BY DEF ProcessEnds, IInv, Shape, boot
<1>2. Done' = Done /\ \A d \in Conns : ClientIdentity(d)' = ClientIdentity(d)
  BY <1>1 DEF Done, ClientIdentity
<1>3. conn' = [d \in Conns |-> conn'[d]]
  BY DEF ProcessEnds
<1>4. ASSUME NEW d \in Conns
      PROVE  /\ conn'[d] \in ConnRec(ActorOf(d), Done)
             /\ IF conn[d].pc = "none" THEN conn'[d] = conn[d] ELSE conn'[d].pc = "gone"
  <2>1. conn[d] \in ConnRec(ActorOf(d), Done)
    BY HereFacts
  <2>2. conn'[d] = IF conn[d].pc = "none" THEN conn[d] ELSE Closed(conn[d], "gone")
    BY DEF ProcessEnds
  <2> QED BY <2>1, <2>2, ClosedFacts
<1>5. ASSUME NEW a \in Requests
      PROVE  unsaved'[a] = unsaved[a] + (IF Saving(a) THEN 1 ELSE 0)
  <2> DEFINE K == {c \in Conns : conn[c].pc = "save" /\ conn[c].req = a}
  <2>1. unsaved'[a] = unsaved[a] + Cardinality(K)
    BY DEF ProcessEnds
  <2>2. CASE Saving(a)
    <3>1. PICK c \in Conns : conn[c].pc = "save" /\ conn[c].req = a
      BY <2>2 DEF Saving
    <3>2. K = {c}
      BY <3>1 DEF IInv, MuInv
    <3>3. Cardinality(K) = 1
      BY <3>2, FS_Singleton
    <3> QED BY <2>1, <2>2, <3>3
  <2>3. CASE ~Saving(a)
    <3>1. K = {}
      BY <2>3 DEF Saving
    <3>2. Cardinality(K) = 0
      BY <3>1, FS_EmptySet
    <3> QED BY <2>1, <2>3, <3>2
  <2> QED BY <2>2, <2>3
<1>6. unsaved' \in [Requests -> Nat]
  <2>1. unsaved' = [r \in Requests |-> unsaved'[r]]
    BY DEF ProcessEnds
  <2>2. \A r \in Requests : unsaved'[r] \in Nat
    BY <1>1, <1>5
  <2> QED BY <2>1, <2>2
<1>7. Shape'
  BY <1>1, <1>2, <1>3, <1>4, <1>6 DEF Shape
<1>8. RecInv'
  BY <1>2, <1>4 DEF IInv, RecInv, KeyOK, ReqOK, Known, Busy
<1>9. RowInv' /\ AcceptInv'
  BY <1>1 DEF IInv, RowInv, AcceptInv
<1>10. MuInv'
  BY <1>4 DEF MuInv
<1>11. CountInv'
  <2>1. \A a \in Ledgered : ~Saving(a)'
    BY <1>4 DEF Saving
  <2>2. ASSUME NEW a \in Ledgered
        PROVE  effects[a] = unsaved'[a] + (IF a \in ledger THEN 1 ELSE 0) + 0
    <3>1. a \in Requests /\ unsaved[a] \in Nat
      BY <1>1, ClassFacts
    <3>2. effects[a] = unsaved[a] + (IF a \in ledger THEN 1 ELSE 0) + (IF Saving(a) THEN 1 ELSE 0)
      BY DEF IInv, CountInv
    <3>3. unsaved'[a] = unsaved[a] + (IF Saving(a) THEN 1 ELSE 0)
      BY <1>5, <3>1
    <3> QED BY <3>1, <3>2, <3>3
  <2> QED BY <1>1, <2>1, <2>2 DEF CountInv
<1>12. DirectInv'
  <2>1. \A d \in Conns, q \in Direct : Spent(conn[d], q) => Spent(conn'[d], q)
    BY <1>4 DEF Spent
  <2> QED BY <1>1, <2>1, CalmDirect DEF IInv
<1>13. ClientInv'
  BY <1>1, <1>4, CalmClients
<1>14. SlotInv'
  <2>1. \A d \in Conns : Served(d)' => Served(d)
    BY <1>4 DEF Served
  <2> QED BY <1>1, <2>1, CalmSlots DEF IInv, Shape
<1> QED BY <1>7, <1>8, <1>9, <1>10, <1>11, <1>12, <1>13, <1>14 DEF IInv

(* The invariant holds initially.                                          *)
LEMMA InitIInv == Init => IInv
<1> SUFFICES ASSUME Init PROVE IInv
  OBVIOUS
<1>1. /\ conn = [c \in Conns |-> NoConn] /\ mu = None /\ ledger = {} /\ accepted = None
      /\ effects = [r \in Requests |-> 0] /\ unsaved = [r \in Requests |-> 0]
      /\ row = [i \in Identities |-> [status |-> "none", rev |-> 0, key |-> 0]]
      /\ limit \in Limits
  BY DEF Init
<1>2. \A c \in Conns : /\ conn[c] \in ConnRec(ActorOf(c), Done) /\ conn[c].pc = "none"
                       /\ conn[c].seen = {}
  BY <1>1, NoConnFacts
<1>3. PICK roster \in Rosters[limit] :
        client = [a \in Actors |-> [pc |-> IF a \in roster THEN "idle" ELSE "done",
                                    n |-> 1, req |-> None, calls |-> 0, oks |-> {}]]
  BY DEF Init
<1>4. client \in [Actors -> ClientRec]
  <2>1. \A a \in Actors : (IF a \in roster THEN "idle" ELSE "done") \in {"idle", "done"}
    OBVIOUS
  <2> QED BY <1>3, <2>1 DEF ClientRec
<1>5. \A a \in Actors : client[a].n = 1 /\ client[a].oks = {}
  BY <1>3
<1>6. Shape
  <2>1. row \in [Identities -> Row]
    BY <1>1 DEF Row
  <2>2. effects \in [Requests -> Nat] /\ unsaved \in [Requests -> Nat] /\ limit \in Nat
    BY <1>1, DeviceAssumption
  <2>3. conn = [c \in Conns |-> conn[c]]
    BY <1>1
  <2> QED BY <1>1, <1>2, <1>4, <2>1, <2>2, <2>3 DEF Shape
<1>7. RowInv
  BY <1>1 DEF RowInv
<1>8. RecInv /\ MuInv
  BY <1>2 DEF RecInv, KeyOK, ReqOK, Known, Busy, MuInv
<1>9. CountInv
  <2>1. \A a \in Ledgered : ~Saving(a)
    BY <1>2 DEF Saving
  <2> QED BY <1>1, <2>1, ClassFacts DEF CountInv
<1>10. DirectInv
  <2>1. ASSUME NEW q \in Direct PROVE effects[q] <= Cardinality(SpentBy(q))
    <3>1. SpentBy(q) \subseteq Conns
      BY DEF SpentBy
    <3>2. Cardinality(SpentBy(q)) \in Nat
      BY <3>1, ConnsFacts, FS_Subset, FS_CardinalityType
    <3>3. effects[q] = 0
      BY <1>1, ClassFacts
    <3> QED BY <3>2, <3>3
  <2> QED BY <2>1 DEF DirectInv
<1>11. ClientInv
  BY <1>2, <1>5, ConnsFacts DEF ClientInv, ConnOf
<1>12. AcceptInv
  BY <1>1 DEF AcceptInv
<1>13. SlotInv
  <2>1. Active = {}
    BY <1>2 DEF Active, Served
  <2> QED BY <1>6, <2>1, FS_EmptySet DEF SlotInv, Shape
<1> QED BY <1>6, <1>7, <1>8, <1>9, <1>10, <1>11, <1>12, <1>13 DEF IInv

(* StoreInv survives a step that leaves the rows, the Vault and the runs   *)
(* of vault.initialize alone.                                              *)
LEMMA StoreCalm ==
  ASSUME StoreInv, UNCHANGED <<registry, vault, swaps>>,
         \A a \in Initializers : effects'[a] = effects[a]
  PROVE  StoreInv'
BY DEF StoreInv

(* Another request's run is no run of vault.initialize.                    *)
LEMMA OtherRuns ==
  ASSUME IInv, NEW c \in Conns, conn[c].req \notin Initializers, CarriedOut(c)
  PROVE  \A a \in Initializers : effects'[a] = effects[a]
<1>1. effects \in [Requests -> Nat]
  BY DEF IInv, Shape
<1> QED BY <1>1, ClassFacts DEF CarriedOut

(* Adding one to one value of a function.                                  *)
LEMMA BumpFacts ==
  ASSUME NEW S, NEW f \in [S -> Nat], NEW v
  PROVE  /\ [f EXCEPT ![v] = f[v] + 1] \in [S -> Nat]
         /\ \A w \in S : [f EXCEPT ![v] = f[v] + 1][w] = IF w = v THEN f[w] + 1 ELSE f[w]
<1> DEFINE g == [f EXCEPT ![v] = f[v] + 1]
<1>1. DOMAIN g = S /\ g = [w \in S |-> IF w = v THEN f[v] + 1 ELSE f[w]]
  BY Zenon
<1>2. \A w \in S : g[w] = IF w = v THEN f[w] + 1 ELSE f[w]
  BY <1>1
<1>3. \A w \in S : g[w] \in Nat
  BY <1>2
<1> QED BY <1>1, <1>2, <1>3

(* Swap keeps StoreInv: the row leaves the revision which the command      *)
(* expects, so the command has not changed this row before.                *)
LEMMA SwapStore ==
  ASSUME IInv, StoreInv, NEW c \in Conns, Swap(c)
  PROVE  StoreInv'
<1> DEFINE b == conn[c].req  v == conn[c].at
<1>1. conn[c].pc = "swap" /\ ReqOK(conn[c], Done) /\ vault' = vault
  BY HereFacts DEF Swap
<1>2. b \in Revisioned /\ b \notin Initializers
  BY <1>1, ClassFacts DEF ReqOK
<1>3. CASE UNCHANGED <<registry, swaps, effects>>
  BY <1>1, <1>3, StoreCalm
<1>4. ASSUME registry.rev[v] = Expected[b], CarriedOut(c),
             registry' = [registry EXCEPT !.rev[v] = @ + 1],
             swaps' = [swaps EXCEPT ![b][v] = @ + 1]
      PROVE  StoreInv'
  <2>1. /\ registry \in [at : Rows, rev : [Rows -> Nat]] /\ swaps \in [Revisioned -> [Rows -> Nat]]
        /\ Expected \in [Revisioned -> Nat]
    BY DeviceAssumption DEF StoreInv
  <2>2. /\ registry' \in [at : Rows, rev : [Rows -> Nat]]
        /\ \A w \in Rows : registry'.rev[w] = IF w = v THEN registry.rev[w] + 1 ELSE registry.rev[w]
    <3> DEFINE f == registry.rev  g == [f EXCEPT ![v] = @ + 1]
    <3>1. registry' = [registry EXCEPT !.rev = g] /\ f \in [Rows -> Nat]
      BY <1>4, <2>1
    <3>2. g \in [Rows -> Nat] /\ \A w \in Rows : g[w] = IF w = v THEN f[w] + 1 ELSE f[w]
      <4> HIDE DEF f, v
      <4> QED BY <3>1, BumpFacts
    <3> HIDE DEF g
    <3>3. registry'.rev = g /\ registry' \in [at : Rows, rev : [Rows -> Nat]]
      BY <2>1, <3>1, <3>2
    <3> QED BY <3>2, <3>3
  <2>3. /\ swaps' \in [Revisioned -> [Rows -> Nat]]
        /\ \A a \in Revisioned, w \in Rows :
             swaps'[a][w] = IF a = b /\ w = v THEN swaps[a][w] + 1 ELSE swaps[a][w]
    <3> DEFINE f == swaps[b]  g == [f EXCEPT ![v] = @ + 1]
    <3>1. swaps' = [swaps EXCEPT ![b] = g] /\ f \in [Rows -> Nat]
      BY <1>2, <1>4, <2>1
    <3>2. g \in [Rows -> Nat] /\ \A w \in Rows : g[w] = IF w = v THEN f[w] + 1 ELSE f[w]
      <4> HIDE DEF f, v
      <4> QED BY <3>1, BumpFacts
    <3> HIDE DEF g
    <3>3. swaps' \in [Revisioned -> [Rows -> Nat]] /\ swaps'[b] = g
          /\ \A a \in Revisioned : a # b => swaps'[a] = swaps[a]
      BY <1>2, <2>1, <3>1, <3>2
    <3> QED BY <3>2, <3>3
  <2>4. ASSUME NEW a \in Revisioned, NEW w \in Rows
        PROVE  /\ swaps'[a][w] <= 1
               /\ swaps'[a][w] = 1 => registry'.rev[w] > Expected[a]
    <3>1. /\ swaps[a][w] \in Nat /\ registry.rev[w] \in Nat /\ Expected[a] \in Nat
          /\ swaps[a][w] <= 1 /\ (swaps[a][w] = 1 => registry.rev[w] > Expected[a])
      BY <2>1 DEF StoreInv
    <3>2. CASE a = b /\ w = v
      <4>1. registry.rev[w] = Expected[a]
        BY <1>4, <3>2
      <4>2. swaps[a][w] = 0
        BY <3>1, <4>1
      <4>3. swaps'[a][w] = 1 /\ registry'.rev[w] = registry.rev[w] + 1
        BY <2>2, <2>3, <3>2, <4>2
      <4> QED BY <3>1, <4>1, <4>3
    <3>3. CASE ~(a = b /\ w = v)
      <4>1. swaps'[a][w] = swaps[a][w] /\ registry'.rev[w] >= registry.rev[w] /\ registry'.rev[w] \in Nat
        BY <2>2, <2>3, <3>1, <3>3
      <4> QED BY <3>1, <4>1
    <3> QED BY <3>2, <3>3
  <2>5. \A a \in Initializers : effects'[a] = effects[a]
    BY <1>2, <1>4, OtherRuns
  <2> QED BY <1>1, <2>2, <2>3, <2>4, <2>5 DEF StoreInv
<1> QED BY <1>3, <1>4 DEF Swap

(* InitializeVault keeps StoreInv.                                         *)
LEMMA InitializeStore ==
  ASSUME IInv, StoreInv, NEW c \in Conns, InitializeVault(c)
  PROVE  StoreInv'
<1> DEFINE b == conn[c].req
<1>1. b \in Initializers /\ UNCHANGED <<registry, swaps>>
  BY DEF InitializeVault
<1>2. CASE UNCHANGED <<vault, effects>>
  BY <1>1, <1>2, StoreCalm
<1>3. CASE vault = None /\ vault' = b /\ CarriedOut(c)
  <2>1. effects \in [Requests -> Nat] /\ b \in Requests /\ \A a \in Initializers : a # None /\ a \in Requests
    BY <1>1, ClassFacts, ConnsFacts DEF IInv, Shape
  <2>2. \A a \in Initializers : effects[a] = 0
    BY <1>3, <2>1 DEF StoreInv
  <2>3. \A a \in Initializers : effects'[a] = IF a = b THEN 1 ELSE 0
    BY <1>3, <2>1, <2>2 DEF CarriedOut
  <2> QED BY <1>1, <1>3, <2>3 DEF StoreInv
<1> QED BY <1>2, <1>3 DEF InitializeVault

(* A row that another client changes gets a greater revision.              *)
LEMMA OtherClientStore ==
  ASSUME StoreInv, OtherClient
  PROVE  StoreInv'
<1>1. UNCHANGED <<vault, swaps, effects>>
  BY DEF OtherClient
<1>2. PICK v \in Rows : \/ registry' = [registry EXCEPT !.rev[v] = @ + 1]
                        \/ registry' = [registry EXCEPT !.at = v]
  BY DEF OtherClient
<1>3. /\ registry' \in [at : Rows, rev : [Rows -> Nat]]
      /\ \A w \in Rows : registry'.rev[w] >= registry.rev[w]
  <2>1. registry \in [at : Rows, rev : [Rows -> Nat]]
    BY DEF StoreInv
  <2>2. CASE registry' = [registry EXCEPT !.at = v]
    BY <2>1, <2>2
  <2>3. CASE registry' = [registry EXCEPT !.rev[v] = @ + 1]
    <3> DEFINE f == registry.rev  g == [f EXCEPT ![v] = @ + 1]
    <3>1. registry' = [registry EXCEPT !.rev = g] /\ f \in [Rows -> Nat]
      BY <2>1, <2>3
    <3>2. g \in [Rows -> Nat] /\ \A w \in Rows : g[w] >= f[w]
      BY <3>1
    <3> HIDE DEF g
    <3> QED BY <2>1, <3>1, <3>2
  <2> QED BY <1>2, <2>2, <2>3
<1>4. ASSUME NEW a \in Revisioned, NEW w \in Rows
      PROVE  swaps[a][w] = 1 => registry'.rev[w] > Expected[a]
  <2>1. registry.rev[w] \in Nat /\ registry'.rev[w] \in Nat /\ Expected[a] \in Nat
    BY <1>3, DeviceAssumption DEF StoreInv
  <2> QED BY <1>3, <2>1 DEF StoreInv
<1> QED BY <1>1, <1>3, <1>4 DEF StoreInv

(* Every step keeps StoreInv.                                              *)
LEMMA StoreKeeps ==
  ASSUME IInv, StoreInv, [Next]_vars
  PROVE  StoreInv'
<1>1. CASE OtherClient
  BY <1>1, OtherClientStore
<1>2. ASSUME NEW c \in Conns, ConnectionStep(c) PROVE StoreInv'
  <2>1. CASE Swap(c)
    BY <2>1, SwapStore
  <2>2. CASE InitializeVault(c)
    BY <2>2, InitializeStore
  <2>3. CASE Dispatch(c)
    <3>1. conn[c].req \notin Initializers
      BY <2>3, ClassFacts DEF Dispatch, Direct
    <3> QED BY <2>3, <3>1, OtherRuns, StoreCalm DEF Dispatch, data
  <2>4. CASE RunFn(c)
    <3>1. conn[c].req \notin Initializers
      BY <2>4, AtFn, ClassFacts DEF RunFn
    <3> QED BY <2>4, <3>1, OtherRuns, StoreCalm DEF RunFn, data
  <2>5. CASE \/ SetContextDeadline(c) \/ ReadFails(c) \/ ReadHello(c) \/ Lookup(c) \/ ReadProof(c)
             \/ ReadRequest(c) \/ Authorize(c) \/ Resolve(c) \/ WithIdempotency(c)
             \/ SaveIdempotencyRecord(c) \/ Reply(c) \/ Untrack(c)
    <3>1. UNCHANGED <<registry, vault, swaps, effects>>
      BY <2>5 DEF SetContextDeadline, ReadFails, ReadHello, Lookup, ReadProof, ReadRequest,
         Authorize, Resolve, WithIdempotency, SaveIdempotencyRecord, Reply, Untrack, work, data
    <3> QED BY <3>1, StoreCalm
  <2> QED BY <1>2, <2>1, <2>2, <2>3, <2>4, <2>5 DEF ConnectionStep
<1>3. CASE UNCHANGED <<registry, vault, swaps, effects>>
  BY <1>3, StoreCalm
<1>4. CASE Administration
  BY <1>1, <1>3, <1>4 DEF Administration, Stage, CommitRoot, AbandonStaging, CreateClient, SaveRow,
     RotateClient, RotateClientIdentity, RevokeClient, RevokeClientIdentity, RunServe,
     RemoveStaleSocket, Cancel, work
<1>5. CASE Close \/ Admit \/ ServeReturns \/ Exit \/ Crash \/ \E c \in Conns : Accept(c)
  BY <1>3, <1>5 DEF Close, Admit, ServeReturns, Exit, Crash, ProcessEnds, Accept, work, data
<1>6. CASE \E a \in Actors : ClientStep(a)
  BY <1>3, <1>6 DEF ClientStep, work
<1>7. CASE UNCHANGED vars
  BY <1>3, <1>7 DEF vars
<1> QED BY <1>2, <1>4, <1>5, <1>6, <1>7 DEF Next

(* StoreInv holds initially.                                               *)
LEMMA InitStore == Init => StoreInv
<1> SUFFICES ASSUME Init PROVE StoreInv
  OBVIOUS
<1>1. /\ registry = [at |-> Target, rev |-> [w \in Rows |-> 1]] /\ vault = None
      /\ swaps = [a \in Revisioned |-> [w \in Rows |-> 0]] /\ effects = [r \in Requests |-> 0]
  BY DEF Init
<1>2. Target \in Rows /\ \A a \in Initializers : a \in Requests /\ a # None
  BY DeviceAssumption, ClassFacts, ConnsFacts
<1>3. \A a \in Revisioned, w \in Rows : swaps[a][w] = 0
  BY <1>1
<1> QED BY <1>1, <1>2, <1>3 DEF StoreInv

(* Every step keeps the invariant.                                         *)
LEMMA NextKeeps == IInv /\ StoreInv /\ [Next]_vars => IInv' /\ StoreInv'
<1> SUFFICES ASSUME IInv, StoreInv, [Next]_vars PROVE IInv' /\ StoreInv'
  OBVIOUS
<1>1. CASE Exit \/ Crash
  BY <1>1, ProcessEndsStep, StoreKeeps DEF Exit, Crash
<1>2. CASE UNCHANGED vars
  BY <1>2, Untouched, StoreKeeps DEF vars
<1> QED
  BY <1>1, <1>2, AdministrationStep, CloseStep, AdmitStep, AcceptStep, ConnectionStepKeeps,
     ClientStepKeeps, StoreKeeps DEF Next

(* The invariant holds in every behaviour.                                 *)
THEOREM DeviceInvariant == Spec => [](IInv /\ StoreInv)
BY InitIInv, InitStore, NextKeeps, PTL DEF Spec

(* A command that withIdempotency records is carried out once, and once    *)
(* more for each record that was not saved.                                *)
LEMMA RecordedBound ==
  ASSUME IInv PROVE RecordedRunsOnce
<1> SUFFICES ASSUME NEW a \in Ledgered PROVE effects[a] <= 1 + unsaved[a]
  BY DEF RecordedRunsOnce
<1>1. unsaved[a] \in Nat
  BY ClassFacts DEF IInv, Shape
<1>2. ~(a \in ledger /\ Saving(a))
  BY DEF IInv, MuInv, Saving
<1>3. effects[a] = unsaved[a] + (IF a \in ledger THEN 1 ELSE 0) + (IF Saving(a) THEN 1 ELSE 0)
  BY DEF IInv, CountInv
<1> QED BY <1>1, <1>2, <1>3

(* A repeated command that is simply done again is done at most once on    *)
(* each of the connections that the CLI has opened for it.                 *)
LEMMA RepeatedBound ==
  ASSUME IInv, NEW a \in Repeated PROVE effects[a] <= client[a].n
<1>1. a \in Direct /\ a \in Commands /\ a \in Actors /\ a \in Requests /\ a \notin PeerRequests
  BY DeviceAssumption DEF Direct, Repeated, Actors, Requests
<1>2. client[a] \in ClientRec /\ (client[a].n = 1 => conn[<<a, 2>>].pc = "none")
  BY <1>1, ActorFacts
<1> DEFINE S == SpentBy(a)  one == <<a, 1>>  two == <<a, 2>>
<1>3. S \subseteq Conns /\ IsFiniteSet(S) /\ Cardinality(S) \in Nat
  <2>1. S \subseteq Conns
    BY DEF SpentBy
  <2> QED BY <2>1, ConnsFacts, FS_Subset, FS_CardinalityType
<1>4. effects[a] \in Nat /\ effects[a] <= Cardinality(S)
  BY <1>1 DEF IInv, Shape, DirectInv
<1>5. S \subseteq {one} \cup {two}
  <2> SUFFICES ASSUME NEW c \in S PROVE c \in {one} \cup {two}
    OBVIOUS
  <2>1. c \in Conns /\ a \in Asks(ActorOf(c))
    BY DEF SpentBy
  <2>2. ActorOf(c) \in Commands
    BY <1>1, <2>1, ConnsFacts, AsksFacts
  <2>3. ActorOf(c) = a
    BY <2>1, <2>2, AsksFacts
  <2>4. ActorOf(c) \notin Peers
    BY <2>2, ConnsFacts
  <2> QED BY <2>1, <2>3, <2>4 DEF Conns, ActorOf
<1>6. CASE client[a].n = 2
  <2>1. /\ IsFiniteSet({one} \cup {two})
        /\ Cardinality({one} \cup {two}) \in Nat /\ Cardinality({one} \cup {two}) <= 2
    <3>1. IsFiniteSet({one}) /\ Cardinality({one}) = 1
      BY FS_Singleton
    <3>2. IsFiniteSet({one} \cup {two})
          /\ Cardinality({one} \cup {two}) = IF two \in {one} THEN Cardinality({one}) ELSE Cardinality({one}) + 1
      BY <3>1, FS_AddElement
    <3> QED BY <3>1, <3>2
  <2>2. Cardinality(S) <= Cardinality({one} \cup {two})
    BY <1>5, <2>1, FS_Subset
  <2> QED BY <1>3, <1>4, <1>6, <2>1, <2>2
<1>7. CASE client[a].n = 1
  <2>1. two \in Conns /\ conn[two].pc = "none" /\ conn[two].seen = {}
    BY <1>1, <1>2, <1>7, ConnsFacts DEF IInv, RecInv, ReqOK
  <2>2. two \notin S
    BY <2>1 DEF SpentBy, Spent
  <2>3. S \subseteq {one}
    BY <1>5, <2>2
  <2>4. IsFiniteSet({one}) /\ Cardinality({one}) = 1
    BY FS_Singleton
  <2>5. Cardinality(S) <= Cardinality({one})
    BY <2>3, <2>4, FS_Subset
  <2> QED BY <1>3, <1>4, <1>7, <2>4, <2>5
<1> QED BY <1>2, <1>6, <1>7 DEF ClientRec

(* What the store guarantees of the commands that the daemon does not      *)
(* record.                                                                 *)
LEMMA DirectBound ==
  ASSUME IInv, StoreInv PROVE DirectRunsOnce
<1>1. \A a \in Initializers : effects[a] <= 1
  BY DEF StoreInv
<1>2. \A a \in Revisioned, w \in Rows : swaps[a][w] <= 1
  BY DEF StoreInv
<1> QED BY <1>1, <1>2, RepeatedBound DEF DirectRunsOnce

(* What a command that the CLI repeats after a lost answer can do, for any *)
(* number of commands of every class and over any cancellation, crash and  *)
(* restart of the daemon: a method of requiresIdempotency is carried out   *)
(* once, unless the daemon failed to record it; of the methods that run    *)
(* without a record, vault.initialize has its effect once, a change at a   *)
(* revision changes a row once, and the rest run no more often than they   *)
(* were sent (callWithLostResponseRetry, Handle, withIdempotency,          *)
(* InitializeVault, UpdateAccount, SetAccountEnabledRevision, Release).    *)
THEOREM CommandsRunOnce == Spec => []RetryRunsOnce
<1>1. IInv /\ StoreInv => RetryRunsOnce
  BY RecordedBound, DirectBound DEF RetryRunsOnce
<1> QED BY DeviceInvariant, <1>1, PTL

(* A success that a client reports is that of the request it sent, and a   *)
(* request ID is carried out at most once on each peer's connection        *)
(* (Client.Call, validateRequest).                                         *)
THEOREM AnswersAreDone == Spec => []AnsweredIsDone
<1>1. IInv => AnsweredIsDone
  <2> SUFFICES ASSUME IInv PROVE AnsweredIsDone
    OBVIOUS
  <2>1. \A a \in Actors, r \in Requests : r \in client[a].oks => effects[r] >= 1
    BY DEF IInv, ClientInv, Done
  <2>2. ASSUME NEW q \in PeerRequests PROVE effects[q] <= Cardinality(Peers)
    <3> DEFINE S == SpentBy(q)  f == [c \in S |-> ActorOf(c)]
    <3>1. \A c \in S : ActorOf(c) \in Peers /\ c = <<ActorOf(c), 1>>
      <4> SUFFICES ASSUME NEW c \in S PROVE ActorOf(c) \in Peers /\ c = <<ActorOf(c), 1>>
        OBVIOUS
      <4>1. c \in Conns /\ q \in Asks(ActorOf(c))
        BY DEF SpentBy
      <4>2. ActorOf(c) \notin Commands
        BY <4>1, AsksFacts
      <4> QED BY <4>1, <4>2, ConnsFacts
    <3>2. f \in Injection(S, Peers)
      BY <3>1 DEF Injection, IsInjective
    <3> HIDE DEF f
    <3>3. IsFiniteSet(S) /\ Cardinality(S) <= Cardinality(Peers)
      BY <3>2, ConnsFacts, FS_Injection
    <3>4. Cardinality(S) \in Nat /\ Cardinality(Peers) \in Nat
      BY <3>3, ConnsFacts, FS_CardinalityType
    <3>5. effects[q] \in Nat /\ effects[q] <= Cardinality(S)
      BY DEF IInv, Shape, DirectInv, Direct, Requests
    <3> QED BY <3>3, <3>4, <3>5
  <2> QED BY <2>1, <2>2 DEF AnsweredIsDone
<1> QED BY DeviceInvariant, <1>1, PTL

(* Serve never has more connections than MaxConnections, over every order  *)
(* of ends, closes and accepts (Serve).                                    *)
THEOREM ConnectionsBounded == Spec => [](Cardinality(Active) <= limit)
<1>1. IInv => Cardinality(Active) <= limit
  BY DEF IInv, SlotInv
<1> QED BY DeviceInvariant, <1>1, PTL

(* A request gets past its authorization only in Authorize.                *)
LEMMA OnlyAuthorize ==
  ASSUME IInv, Next, NEW c \in Conns, conn[c].pc = "authorize", conn'[c].pc = "handle"
  PROVE  Authorize(c)
<1>0. Shape /\ conn[c] \in ConnRec(ActorOf(c), Done)
  BY HereFacts
<1>1. conn' # conn
  OBVIOUS
<1>2. CASE Administration
  BY <1>1, <1>2 DEF Administration, Stage, CommitRoot, AbandonStaging, CreateClient, SaveRow,
     RotateClient, RotateClientIdentity, RevokeClient, RevokeClientIdentity, RunServe,
     RemoveStaleSocket, Cancel, OtherClient
<1>3. CASE Close \/ ServeReturns
  <2>1. PICK reset \in BOOLEAN : conn' = CloseActive(reset)
    BY <1>3 DEF Close, ServeReturns
  <2>2. conn'[c] = [conn[c] EXCEPT !.closed = TRUE, !.in = <<>>]
    BY <2>1 DEF CloseActive, Served
  <2> QED BY <1>0, <2>2 DEF ConnRec
<1>4. CASE Exit \/ Crash
  <2>1. conn'[c] = Closed(conn[c], "gone")
    BY <1>4 DEF Exit, Crash, ProcessEnds
  <2> QED BY <1>0, <2>1, ClosedFacts
<1>5. CASE Admit
  <2>1. accepted \in Conns /\ conn[accepted].pc = "accepted"
    BY <1>5 DEF Admit, IInv, Shape, AcceptInv
  <2>2. conn'[c] = conn[c]
    BY <1>0, <1>5, <2>1 DEF Admit, Shape
  <2> QED BY <2>2
<1>6. ASSUME NEW d \in Conns, Accept(d) PROVE FALSE
  <2>1. conn'[c] = conn[c]
    BY <1>0, <1>6 DEF Accept, Shape
  <2> QED BY <2>1
<1>7. ASSUME NEW d \in Conns, ConnectionStep(d) PROVE Authorize(c)
  <2>1. PICK s : Moved(d, s)
    BY <1>7 DEF ConnectionStep, SetContextDeadline, ReadFails, ReadHello, Lookup, ReadProof,
       ReadRequest, Authorize, Dispatch, Resolve, Swap, InitializeVault, WithIdempotency, RunFn, SaveIdempotencyRecord, Reply,
       Untrack, Ends, Replies
  <2>2. d = c
    BY <1>0, <2>1, MovedFacts
  <2> QED BY <1>7, <2>2 DEF ConnectionStep, SetContextDeadline, ReadFails, ReadHello, Lookup,
       ReadProof, ReadRequest, Dispatch, Resolve, Swap, InitializeVault, WithIdempotency, RunFn, SaveIdempotencyRecord, Reply,
       Untrack
<1>8. ASSUME NEW a \in Actors, ClientStep(a) PROVE FALSE
  <2> DEFINE d == ConnOf(a)
  <2>1. d \in Conns /\ conn[d] \in ConnRec(a, Done)
    BY ActorFacts
  <2>2. CASE UNCHANGED conn
    BY <1>1, <2>2
  <2>3. ASSUME NEW s, Moved(d, s), s.pc = conn[d].pc \/ s.pc = "backlog" PROVE FALSE
    BY <1>0, <2>1, <2>3, MovedFacts
  <2>4. Hung(d).pc = conn[d].pc
    BY <2>1, HungFacts DEF SameState
  <2>5. \A q : Sent(d, q).pc = conn[d].pc
    BY <2>1 DEF Sent, ConnRec
  <2>6. Received(a).pc = conn[d].pc
    BY <2>1 DEF Received, ConnRec
  <2>7. \A i : [Received(a) EXCEPT !.in = i].pc = conn[d].pc
    BY <2>1 DEF Received, ConnRec
  <2>8. \A i : [NoConn EXCEPT !.pc = "backlog", !.in = i].pc = "backlog"
    BY DEF NoConn
  <2>9. CASE Dial(a)
    BY <2>2, <2>3, <2>8, <2>9 DEF Dial
  <2>10. CASE ClientProof(a)
    BY <2>3, <2>4, <2>7, <2>10 DEF ClientProof
  <2>11. CASE ClientAccepted(a) \/ HandshakeFails(a) \/ CloseConnection(a)
    BY <2>3, <2>4, <2>6, <2>11 DEF ClientAccepted, HandshakeFails, CloseConnection
  <2>12. ASSUME NEW q, Call(a, q) PROVE FALSE
    BY <2>3, <2>5, <2>12 DEF Call
  <2>13. CASE CallReturns(a)
    BY <2>3, <2>4, <2>6, <2>13 DEF CallReturns
  <2>14. CASE CallFails(a)
    BY <2>2, <2>3, <2>4, <2>14 DEF CallFails
  <2> QED BY <1>8, <2>9, <2>10, <2>11, <2>12, <2>13, <2>14 DEF ClientStep
<1> QED BY <1>2, <1>3, <1>4, <1>5, <1>6, <1>7, <1>8 DEF Next

(* Authorize lets a request pass only for an active client with the        *)
(* capability, under the key that the connection has proved: rotation and  *)
(* revocation end what older connections may do (Handshake, Authorize,     *)
(* RotateClientIdentity).                                                  *)
THEOREM AuthorizationIsCurrent == Spec => AuthorizedIsCurrent
<1> DEFINE A == \A c \in Conns : conn[c].pc = "authorize" /\ conn'[c].pc = "handle" =>
                  LET i == ClientIdentity(c) IN
                  /\ i.status = "active" /\ i.key = conn[c].key
                  /\ Needs[conn[c].req] \in Caps[IdentityOf(ActorOf(c))]
<1>1. IInv /\ [Next]_vars => [A]_vars
  <2> SUFFICES ASSUME IInv, Next, NEW c \in Conns,
                      conn[c].pc = "authorize", conn'[c].pc = "handle"
               PROVE  /\ ClientIdentity(c).status = "active"
                      /\ ClientIdentity(c).key = conn[c].key
                      /\ Needs[conn[c].req] \in Caps[IdentityOf(ActorOf(c))]
    BY DEF vars
  <2>1. Authorize(c)
    BY OnlyAuthorize
  <2>2. /\ conn[c] \in ConnRec(ActorOf(c), Done) /\ KeyOK(conn[c], ClientIdentity(c))
        /\ Shape /\ ReqOK(conn[c], Done) /\ Done \in SUBSET Requests
        /\ ActorOf(c) \in Actors
    BY HereFacts
  <2>3. Authorized(c)
    <3> SUFFICES ASSUME ~Authorized(c) PROVE FALSE
      OBVIOUS
    <3> DEFINE w == Write(conn[c], Response(conn[c].req, "refused"), "loop")
    <3>1. Moved(c, w)
      BY <2>1 DEF Authorize
    <3>2. conn[c].req \in Requests
      BY <2>2, CommandConn DEF Busy
    <3>3. Response(conn[c].req, "refused") \in OutFrames(Done) /\ "loop" \in Pcs
      BY <2>2, <3>2, OutFrameFacts DEF Pcs
    <3>4. w.pc \in {"ending", "loop"}
      BY <2>2, <3>3, WriteFacts
    <3> HIDE DEF w
    <3>5. conn'[c] = w
      BY <2>2, <3>1, MovedFacts
    <3> QED BY <3>4, <3>5
  <2>4. /\ ClientIdentity(c).status = "active" /\ ClientIdentity(c).rev = conn[c].rev
        /\ RequiredCapability(conn[c].req) # {}
        /\ RequiredCapability(conn[c].req) \subseteq Caps[IdentityOf(ActorOf(c))]
    BY <2>3 DEF Authorized
  <2>5. ClientIdentity(c).key = conn[c].key
    BY <2>2, <2>4 DEF KeyOK, Known
  <2>6. Needs[conn[c].req] \in RequiredCapability(conn[c].req)
    BY <2>4 DEF RequiredCapability
  <2> QED BY <2>4, <2>5, <2>6
<1> QED BY DeviceInvariant, <1>1, PTL DEF Spec, AuthorizedIsCurrent
=============================================================================
