------------------------------ MODULE RpcClient ------------------------------
(* The JSON-RPC client of one Codex app-server child                       *)
(* (providers/codex/protocol.go, jsonl.go): calls of several goroutines,   *)
(* one reader and one writer goroutine, the two bounded queues, deadlines, *)
(* and the failure of the client, which ends all of them.                  *)
(*                                                                         *)
(* A request ID is unique, so the model uses the operation itself.  A      *)
(* select with several ready cases takes any of them.  The deadline of a   *)
(* write and the caller's cancellation are one event, Expire.  Whether the *)
(* inbound queue, which eventPump empties, has room for a notification is  *)
(* left open.                                                              *)
EXTENDS Naturals, Sequences, FiniteSets

CONSTANTS
  Ops,         \* operations of the callers
  Kind,        \* handshake, call or respond, for each of them
  Allowed,     \* operations whose method the schema enables
  Reader, Writer,  \* the goroutines of the client
  WritesCap,   \* capacity of the writes channel (32)
  StreamCap,   \* bound: frames of the Provider not yet read
  MaxExtra     \* bound: notifications and repeated answers of the Provider

Procs == Ops \cup {Reader, Writer}

ASSUME RpcAssumption ==
  /\ Kind \in [Ops -> {"handshake", "call", "respond"}]
  /\ Allowed \subseteq Ops
  /\ Reader \notin Ops /\ Writer \notin Ops /\ Reader # Writer
  /\ WritesCap \in Nat \ {0} /\ StreamCap \in Nat
  /\ MaxExtra \in Nat

VARIABLES
  pc,         \* where each goroutine is
  ret,        \* what an operation returned
  stage,      \* call: a frame with an ID that waits for an answer; write: one without
  expired,    \* operations whose write deadline has passed
  methods,    \* Client.capabilities
  shake,      \* handshakeStarted and handshaken
  pending,    \* keys of Client.pending
  writes,     \* Client.writes
  cur,        \* the operation whose frame the writer writes
  wres,       \* result channel of a write request
  resp,       \* response channel of a call
  done,       \* Client.done is closed
  once,       \* failOnce and the waiters it has still to send to
  transports, \* stdin and stdout of the child, as this side sees them
  stream,     \* frames of the Provider that the reader has not read
  written,    \* history: frames that are on the wire, whole
  answered,   \* requests the Provider has answered
  extra,      \* notifications and repeated answers it has sent
  sends       \* history: values sent to each response channel

client == <<methods, shake, pending, done, once, transports>>
queues == <<writes, wres, resp>>
provider == <<stream, answered, extra>>
vars == <<pc, ret, stage, expired, cur, client, queues, provider, written, sends>>

Note == "note"
None == "none"

Init ==
  /\ pc = [g \in Procs |-> IF g \in Ops THEN "idle" ELSE "off"]
  /\ ret = [o \in Ops |-> None]
  /\ stage = [o \in Ops |-> IF Kind[o] = "respond" THEN "write" ELSE "call"]
  /\ expired = {}
  /\ methods = {} /\ shake = "new"
  /\ pending = {}
  /\ writes = <<>>
  /\ cur = None
  /\ wres = [o \in Ops |-> None] /\ resp = [o \in Ops |-> <<>>]
  /\ done = FALSE /\ once = [state |-> "new", todo |-> {}] /\ transports = "open"
  /\ stream = <<>>
  /\ written = {}
  /\ answered = {} /\ extra = 0 /\ sends = [o \in Ops |-> 0]

Goto(g, l) == pc' = [pc EXCEPT ![g] = l]
Return(o, r) == Goto(o, "ret") /\ ret' = [ret EXCEPT ![o] = r]

-----------------------------------------------------------------------------
(* The callers.                                                            *)

(* The allowlist is frozen by the handshake.                               *)
ConfigureMethods ==
  /\ shake = "new"
  /\ methods' = Allowed
  /\ UNCHANGED <<pc, ret, stage, expired, cur, shake, pending, done, once, transports,
                 queues, provider, written, sends>>

(* An operation that the handshake or the allowlist refuses returns at     *)
(* once and has no effect.                                                 *)
Enter(o, l) ==
  /\ pc[o] = "idle"
  /\ Goto(o, l)
  /\ UNCHANGED <<ret, stage, expired, cur, methods, pending, done, once, transports, queues,
                 provider, written, sends>>

Handshake(o) ==
  /\ Kind[o] = "handshake" /\ shake = "new"
  /\ shake' = "started"
  /\ Enter(o, "register")

Call(o) ==
  /\ Kind[o] = "call" /\ shake = "done" /\ o \in methods
  /\ Enter(o, "register")
  /\ UNCHANGED shake

RespondServerRequest(o) ==
  /\ Kind[o] = "respond" /\ shake = "done"
  /\ Enter(o, "enqueue")
  /\ UNCHANGED shake

(* call: the waiter is registered before the frame is written, unless the  *)
(* client has failed.  The first call starts the reader.                   *)
Register(o) ==
  /\ pc[o] = "register"
  /\ IF done
     THEN Return(o, "error") /\ UNCHANGED pending
     ELSE /\ pending' = pending \cup {o}
          /\ pc' = [pc EXCEPT ![o] = "enqueue",
                              ![Reader] = IF @ = "off" THEN "read" ELSE @]
          /\ UNCHANGED ret
  /\ UNCHANGED <<stage, expired, cur, methods, shake, done, once, transports, queues,
                 provider, written, sends>>

(* An error of write is returned; a call takes its waiter back and fails   *)
(* the client.                                                             *)
WriteError(o) ==
  /\ pending' = pending \ {o}
  /\ IF stage[o] = "call"
     THEN Goto(o, "fail") /\ UNCHANGED ret
     ELSE Return(o, "error")

(* write, first select.  Past its deadline the write fails the client.     *)
Enqueue(o) ==
  /\ pc[o] = "enqueue"
  /\ \/ /\ Len(writes) < WritesCap
        /\ writes' = Append(writes, o)
        /\ wres' = [wres EXCEPT ![o] = None]
        /\ pc' = [pc EXCEPT ![o] = "result", ![Writer] = IF @ = "off" THEN "loop" ELSE @]
        /\ UNCHANGED <<ret, pending>>
     \/ done /\ WriteError(o) /\ UNCHANGED <<writes, wres>>
     \/ o \in expired /\ Goto(o, "fail") /\ UNCHANGED <<ret, pending, writes, wres>>
  /\ UNCHANGED <<stage, expired, cur, methods, shake, done, once, transports, resp,
                 provider, written, sends>>

(* The frame is out: a call waits for its answer, initialized ends the     *)
(* handshake.                                                              *)
Written(o) ==
  \/ stage[o] = "call" /\ Goto(o, "wait") /\ UNCHANGED <<ret, shake>>
  \/ /\ stage[o] = "write" /\ Return(o, "ok")
     /\ shake' = IF Kind[o] = "handshake" THEN "done" ELSE shake

(* A plausible bug: a write past its deadline leaves the client as it is.  *)
Mutant_Result(o) ==
  /\ pc[o] = "result"
  /\ \/ wres[o] = "ok" /\ Written(o) /\ UNCHANGED pending
     \/ wres[o] = "err" /\ WriteError(o) /\ UNCHANGED shake
     \/ done /\ WriteError(o) /\ UNCHANGED shake
     \/ /\ o \in expired /\ Return(o, "error")
        /\ pending' = pending \ {o} /\ UNCHANGED shake
  /\ UNCHANGED <<stage, expired, cur, methods, done, once, transports, queues, provider,
                 written, sends>>

(* A plausible bug: the second select of write has no deadline.            *)
Mutant_ResultWaits(o) ==
  /\ pc[o] = "result"
  /\ \/ wres[o] = "ok" /\ Written(o) /\ UNCHANGED pending
     \/ wres[o] = "err" /\ WriteError(o) /\ UNCHANGED shake
     \/ done /\ WriteError(o) /\ UNCHANGED shake
  /\ UNCHANGED <<stage, expired, cur, methods, done, once, transports, queues, provider,
                 written, sends>>

(* write, second select.                                                   *)
Result(o) ==
  /\ pc[o] = "result"
  /\ \/ wres[o] = "ok" /\ Written(o) /\ UNCHANGED pending
     \/ wres[o] = "err" /\ WriteError(o) /\ UNCHANGED shake
     \/ done /\ WriteError(o) /\ UNCHANGED shake
     \/ o \in expired /\ Goto(o, "fail") /\ UNCHANGED <<ret, pending, shake>>
  /\ UNCHANGED <<stage, expired, cur, methods, done, once, transports, queues, provider,
                 written, sends>>

(* The deadline of the write passes or the caller goes away.               *)
Expire(o) ==
  /\ pc[o] \in {"enqueue", "result"} /\ o \notin expired
  /\ expired' = expired \cup {o}
  /\ UNCHANGED <<pc, ret, stage, cur, client, queues, provider, written, sends>>

(* call, the select on the answer.  An initialize answer that is accepted  *)
(* is followed by the initialized notification.                            *)
Wait(o) ==
  /\ pc[o] = "wait"
  /\ \/ /\ resp[o] # <<>>
        /\ resp' = [resp EXCEPT ![o] = <<>>]
        /\ \/ Head(resp[o]) = "answer" /\ Kind[o] = "handshake"
              /\ Goto(o, "enqueue") /\ stage' = [stage EXCEPT ![o] = "write"]
              /\ expired' = expired \ {o}
              /\ UNCHANGED ret
           \/ Head(resp[o]) = "answer" /\ Kind[o] = "call" /\ Return(o, "ok")
              /\ UNCHANGED <<stage, expired>>
           \/ Return(o, "error") /\ UNCHANGED <<stage, expired>>
        /\ UNCHANGED pending
     \/ /\ done
        /\ Return(o, "error") /\ pending' = pending \ {o}
        /\ UNCHANGED <<resp, stage, expired>>
  /\ UNCHANGED <<cur, methods, shake, done, once, transports, writes, wres,
                 provider, written, sends>>

(* The timer or the context of the caller.                                 *)
Timeout(o) ==
  /\ pc[o] = "wait"
  /\ Return(o, "error") /\ pending' = pending \ {o}
  /\ UNCHANGED <<stage, expired, cur, methods, shake, done, once, transports, queues,
                 provider, written, sends>>

-----------------------------------------------------------------------------
(* The writer goroutine.                                                   *)

(* The context of a write ends with its deadline and when write returns.   *)
Cancelled(o) == o \in expired \/ pc[o] # "result"

WriterLoop ==
  /\ pc[Writer] = "loop"
  /\ \/ done /\ Goto(Writer, "end") /\ UNCHANGED <<writes, wres, cur>>
     \/ /\ writes # <<>>
        /\ writes' = Tail(writes)
        /\ LET o == Head(writes) IN
           IF Cancelled(o)
           THEN wres' = [wres EXCEPT ![o] = "err"] /\ UNCHANGED <<pc, cur>>
           ELSE cur' = o /\ Goto(Writer, "write") /\ UNCHANGED wres
  /\ UNCHANGED <<ret, stage, expired, client, resp, provider, written, sends>>

(* The child reads when it likes: the write may take for ever.             *)
WriteFrame ==
  LET o == cur IN
  /\ pc[Writer] = "write"
  /\ transports = "open"
  /\ written' = written \cup {<<o, stage[o]>>}
  /\ wres' = [wres EXCEPT ![o] = "ok"]
  /\ cur' = None
  /\ Goto(Writer, "loop")
  /\ UNCHANGED <<ret, stage, expired, client, writes, resp, provider, sends>>

(* The child is gone, the frame is too large, or this side has closed.     *)
WriteFails ==
  /\ pc[Writer] = "write"
  /\ wres' = [wres EXCEPT ![cur] = "err"]
  /\ cur' = None
  /\ Goto(Writer, "fail")
  /\ UNCHANGED <<ret, stage, expired, client, writes, resp, provider,
                 written, sends>>

-----------------------------------------------------------------------------
(* The reader goroutine.                                                   *)

SendTo(W, value) ==
  /\ \A o \in W : resp[o] = <<>>
  /\ resp' = [o \in Ops |-> IF o \in W THEN <<value>> ELSE resp[o]]
  /\ sends' = [o \in Ops |-> IF o \in W THEN sends[o] + 1 ELSE sends[o]]

(* A plausible bug: the waiter stays in the map.                           *)
Mutant_ReaderLoop ==
  LET f == Head(stream) IN
  /\ pc[Reader] = "read"
  /\ stream # <<>>
  /\ stream' = Tail(stream)
  /\ \/ f = Note /\ UNCHANGED <<pc, resp, sends, pending>>
     \/ f \in pending /\ SendTo({f}, "answer") /\ UNCHANGED <<pc, pending>>
     \/ f \notin pending /\ Goto(Reader, "fail") /\ UNCHANGED <<resp, sends, pending>>
  /\ UNCHANGED <<ret, stage, expired, cur, methods, shake, done, once, transports, writes,
                 wres, answered, extra, written>>

(* A frame with a method is queued, or the queue is full; one with an ID   *)
(* goes to its waiter, which is out of the map before it is sent to, so    *)
(* that nobody else can.  Full queue and unknown ID fail the client.       *)
ReaderLoop ==
  LET f == Head(stream) IN
  /\ pc[Reader] = "read"
  /\ stream # <<>>
  /\ stream' = Tail(stream)
  /\ \/ f = Note /\ UNCHANGED <<pc, resp, sends, pending>>
     \/ f \in pending /\ SendTo({f}, "answer") /\ pending' = pending \ {f} /\ UNCHANGED pc
     \/ f \notin pending /\ Goto(Reader, "fail") /\ UNCHANGED <<resp, sends, pending>>
  /\ UNCHANGED <<ret, stage, expired, cur, methods, shake, done, once, transports, writes,
                 wres, answered, extra, written>>

(* The child has closed its end or sends a malformed frame, or this side   *)
(* has closed.                                                             *)
ReadFails ==
  /\ pc[Reader] = "read"
  /\ stream = <<>> \/ transports = "closed"
  /\ Goto(Reader, "fail")
  /\ UNCHANGED <<ret, stage, expired, cur, client, queues, provider, written, sends>>

-----------------------------------------------------------------------------
(* fail: the first goroutine swaps the waiters out and closes done under   *)
(* the lock, sends the error to every waiter and closes the transports.    *)
(* The others wait for it (sync.Once).                                     *)

FailFirst ==
  /\ once.state = "new"
  /\ done' = TRUE
  /\ once' = [state |-> "run", todo |-> pending]
  /\ pending' = {}
  /\ UNCHANGED <<pc, ret, stage, expired, cur, methods, shake, transports, queues, provider,
                 written, sends>>

Fail(g) == pc[g] = "fail" /\ FailFirst

(* finalize closes the client.                                             *)
Close == FailFirst

Mutant_FailSends ==
  /\ once.state = "run"
  /\ SendTo(once.todo, "error")
  /\ once' = [state |-> "done", todo |-> {}]
  /\ UNCHANGED <<pc, ret, stage, expired, cur, methods, shake, pending, done, transports,
                 writes, wres, provider, written>>

FailSends ==
  /\ once.state = "run"
  /\ SendTo(once.todo, "error")
  /\ once' = [state |-> "done", todo |-> {}]
  /\ transports' = "closed"
  /\ UNCHANGED <<pc, ret, stage, expired, cur, methods, shake, pending, done, writes, wres,
                 provider, written>>

FailReturns(g) ==
  /\ pc[g] = "fail" /\ once.state = "done"
  /\ IF g \in Ops THEN Return(g, "error") ELSE Goto(g, "end") /\ UNCHANGED ret
  /\ UNCHANGED <<stage, expired, cur, client, queues, provider, written, sends>>

-----------------------------------------------------------------------------
(* The child: it answers what it has read in any order, late, twice or     *)
(* never, and notifies.                                                    *)
Emit(f) ==
  /\ transports = "open" /\ Len(stream) < StreamCap
  /\ stream' = Append(stream, f)
  /\ UNCHANGED <<pc, ret, stage, expired, cur, client, queues, written, sends>>

Extra == extra < MaxExtra /\ extra' = extra + 1

Answer(o) ==
  /\ <<o, "call">> \in written
  /\ answered' = answered \cup {o}
  /\ \/ o \notin answered /\ UNCHANGED extra
     \/ o \in answered /\ Extra
  /\ Emit(o)

Notify == Extra /\ Emit(Note) /\ UNCHANGED answered

CallerStep(o) == Register(o) \/ Enqueue(o) \/ Result(o) \/ Wait(o)
ReaderStep == ReaderLoop \/ ReadFails
FailStep == FailSends \/ \E g \in Procs : Fail(g) \/ FailReturns(g)

Next ==
  \/ ConfigureMethods
  \/ \E o \in Ops : \/ Handshake(o) \/ Call(o) \/ RespondServerRequest(o)
                    \/ CallerStep(o) \/ Expire(o) \/ Timeout(o) \/ Answer(o)
  \/ WriterLoop \/ WriteFrame \/ WriteFails \/ ReaderStep \/ FailStep
  \/ Close \/ Notify

Spec == Init /\ [][Next]_vars

(* Goroutines run and timers fire.  Nothing is assumed of the child, only  *)
(* that I/O on closed pipes returns.                                       *)
Fairness ==
  /\ \A o \in Ops : WF_vars(CallerStep(o)) /\ WF_vars(Expire(o)) /\ WF_vars(Timeout(o))
  /\ WF_vars(WriterLoop) /\ WF_vars(transports = "closed" /\ WriteFails)
  /\ WF_vars(ReaderLoop) /\ WF_vars(transports = "closed" /\ ReadFails)
  /\ WF_vars(FailStep)

FairSpec == Spec /\ Fairness

-----------------------------------------------------------------------------
(* Every variable has its type.                                            *)
TypeOK ==
  /\ pc \in [Procs -> {"off", "idle", "register", "enqueue", "result", "wait", "ret", "loop",
                       "write", "read", "fail", "end"}]
  /\ ret \in [Ops -> {None, "ok", "error"}]
  /\ stage \in [Ops -> {"call", "write"}]
  /\ expired \subseteq Ops
  /\ methods \subseteq Ops /\ shake \in {"new", "started", "done"}
  /\ pending \subseteq Ops
  /\ writes \in Seq(Ops) /\ Len(writes) <= WritesCap
  /\ cur \in Ops \cup {None}
  /\ wres \in [Ops -> {None, "ok", "err"}]
  /\ \A o \in Ops : resp[o] \in {<<>>, <<"answer">>, <<"error">>}
  /\ done \in BOOLEAN /\ transports \in {"open", "closed"}
  /\ once \in [state : {"new", "run", "done"}, todo : SUBSET Ops]
  /\ written \subseteq Ops \X {"call", "write"}
  /\ answered \subseteq Ops /\ extra \in Nat /\ sends \in [Ops -> Nat]

(* A response channel has room for one value and nobody empties it after   *)
(* the call has returned: readerLoop and fail together never send a second *)
(* one, whatever the Provider repeats and whatever times out, or the       *)
(* sender would hang, inside failOnce for ever.                            *)
AnsweredOnce == \A o \in Ops : sends[o] <= 1

(* What RespondServerRequest returns can be relied on: nil means that the  *)
(* frame is out, and an error of a client that has not failed means that   *)
(* the Provider has not got it and never will, although its write request  *)
(* may still be queued (write, writerLoop).                                *)
WriteOutcomeKnown ==
  \A o \in Ops : Kind[o] = "respond" /\ pc[o] = "ret" =>
    /\ ret[o] = "ok" => <<o, "write">> \in written
    /\ ret[o] = "error" /\ <<o, "write">> \in written => done

(* Every call returns, whatever the child reads, answers or leaves open:   *)
(* handshake, call or response (write, call, fail).                        *)
CallsReturn == \A o \in Ops : pc[o] # "idle" ~> pc[o] = "ret"

(* A client that has failed ends its reader and its writer, also when they *)
(* block in I/O, and leaves no waiter behind (fail, closeTransports).      *)
ClientEnds ==
  done ~> /\ pc[Reader] \in {"off", "end"} /\ pc[Writer] \in {"off", "end"}
          /\ pending = {}
=============================================================================
