-------------------------- MODULE RpcClientProofs --------------------------
(***************************************************************************)
(* Proofs about RpcClient for any number of operations, any capacity of    *)
(* the writes queue and anything the Provider may send: a waiter is sent   *)
(* to at most once, no sender ever blocks on a response channel, and what  *)
(* RespondServerRequest returns tells whether its frame is on the wire.    *)
(*                                                                         *)
(* The invariant IInv has two halves.  SendInv follows the waiters: who is *)
(* in the map or in the hands of fail has not been sent to.  WireInv       *)
(* follows the frames: one that is queued or in the writer's hands is not  *)
(* out and has no result yet.                                              *)
(***************************************************************************)
EXTENDS RpcClient, TLAPS

(* Where a caller can be.                                                  *)
CallerPCs == {"idle", "register", "enqueue", "result", "wait", "fail", "ret"}
(* Where readerLoop can be.                                                *)
ReaderPCs == {"off", "read", "fail", "end"}
(* Where writerLoop can be.                                                *)
WriterPCs == {"off", "loop", "write", "fail", "end"}
(* What a response channel of capacity one can hold.                       *)
Responses == {<<>>, <<"answer">>, <<"error">>}

(* Callers, reader and writer are at program points of their own code.     *)
PcFits ==
  /\ \A o \in Ops : pc[o] \in CallerPCs
  /\ pc[Reader] \in ReaderPCs
  /\ pc[Writer] \in WriterPCs

(* Every variable has its type, and a writer that writes has a frame.      *)
Shape ==
  /\ TypeOK
  /\ resp \in [Ops -> Responses]
  /\ PcFits
  /\ pc[Writer] = "write" => cur \in Ops

(* failOnce, done and the map agree: after the swap the map stays empty,   *)
(* and only the first failure has waiters in hand.                         *)
OnceInv ==
  /\ done <=> once.state # "new"
  /\ once.state # "run" => once.todo = {}
  /\ done => pending = {}

(* The response channel of o is in the map or in the hands of fail.        *)
Waiter(o) == o \in pending \/ o \in once.todo

(* The response channel of every waiter is empty: readerLoop and fail can  *)
(* send to it without blocking.                                            *)
NeverBlocks == \A o \in Ops : Waiter(o) => resp[o] = <<>>

(* A waiter has not been sent to, and an operation that has not registered *)
(* is none.                                                                *)
WaiterInv ==
  \A o \in Ops :
    /\ Waiter(o) => sends[o] = 0
    /\ pc[o] \in {"idle", "register"} => ~Waiter(o) /\ sends[o] = 0 /\ resp[o] = <<>>

(* The write request of o is in the queue.                                 *)
Queued(o) == \E i \in 1..Len(writes) : writes[i] = o
(* The writer writes the frame of o.                                       *)
InHand(o) == pc[Writer] = "write" /\ cur = o
(* The frame of o may still go out.                                        *)
InFlight(o) == Queued(o) \/ InHand(o)
(* The frame of the present stage of o is on the wire.                     *)
FrameOut(o) == <<o, stage[o]>> \in written

(* No operation is queued twice or both queued and in the writer's hands.  *)
QueueInv ==
  /\ \A i, j \in 1..Len(writes) : writes[i] = writes[j] => i = j
  /\ \A o \in Ops : ~(Queued(o) /\ InHand(o))

(* The stage follows the kind of the operation and its program point.      *)
StageFits(o) ==
  /\ Kind[o] = "respond" => stage[o] = "write"
  /\ pc[o] = "idle" /\ Kind[o] # "respond" => stage[o] = "call"
  /\ pc[o] \in {"register", "wait"} => stage[o] = "call"
  /\ stage[o] = "call" => <<o, "write">> \notin written

(* What o may conclude about its frame at each of its program points.      *)
FrameFits(o) ==
  /\ InFlight(o) => wres[o] = None /\ ~FrameOut(o)
  /\ pc[o] \in {"idle", "register", "enqueue"} => ~InFlight(o) /\ ~FrameOut(o)
  /\ pc[o] = "wait" => ~InFlight(o)
  /\ pc[o] = "result" /\ wres[o] = "ok" => FrameOut(o)
  /\ pc[o] = "result" /\ wres[o] = "err" => ~FrameOut(o)
  /\ pc[o] = "ret" /\ stage[o] = "write" =>
       /\ ret[o] = "ok" => FrameOut(o)
       /\ ret[o] = "error" => done \/ (~InFlight(o) /\ ~FrameOut(o))

(* Every operation is right about its frame.                               *)
FrameInv == \A o \in Ops : StageFits(o) /\ FrameFits(o)

(* The inductive invariant.                                                *)
IInv ==
  /\ Shape
  /\ OnceInv /\ AnsweredOnce /\ NeverBlocks /\ WaiterInv
  /\ QueueInv /\ FrameInv

-----------------------------------------------------------------------------
(* The part of Shape about program points.                                 *)
PcOK == pc \in [Procs -> {"off", "idle", "register", "enqueue", "result", "wait", "ret",
                          "loop", "write", "read", "fail", "end"}] /\ PcFits
(* The part of Shape about client state and operations.                    *)
RestOK ==
  /\ ret \in [Ops -> {None, "ok", "error"}]
  /\ stage \in [Ops -> {"call", "write"}]
  /\ expired \subseteq Ops
  /\ methods \subseteq Ops /\ shake \in {"new", "started", "done"}
  /\ pending \subseteq Ops
  /\ done \in BOOLEAN /\ transports \in {"open", "closed"}
  /\ once \in [state : {"new", "run", "done"}, todo : SUBSET Ops]
  /\ answered \subseteq Ops /\ extra \in Nat
(* The part of Shape about response channels.                              *)
SentOK == resp \in [Ops -> Responses] /\ sends \in [Ops -> Nat]
(* The part of Shape about the queue and the writer.                       *)
WriterOK ==
  /\ writes \in Seq(Ops) /\ Len(writes) <= WritesCap
  /\ cur \in Ops \cup {None}
  /\ wres \in [Ops -> {None, "ok", "err"}]
  /\ written \subseteq Ops \X {"call", "write"}
  /\ pc[Writer] = "write" => cur \in Ops

(* Shape is the conjunction of its four parts.                             *)
LEMMA ShapeParts == Shape <=> PcOK /\ RestOK /\ SentOK /\ WriterOK
  BY DEF Shape, TypeOK, PcOK, RestOK, SentOK, WriterOK, Responses

(* NewClient establishes the invariant.                                    *)
LEMMA InitInv == Init => IInv
<1> SUFFICES ASSUME Init PROVE IInv
  OBVIOUS
<1> USE RpcAssumption DEF Init, Procs
<1>1. Shape
  <2>1. PcOK
    BY DEF PcOK, PcFits, CallerPCs, ReaderPCs, WriterPCs
  <2>2. RestOK
    BY DEF RestOK
  <2>3. SentOK
    BY DEF SentOK, Responses
  <2>4. WriterOK
    BY DEF WriterOK
  <2> QED
    BY <2>1, <2>2, <2>3, <2>4, ShapeParts
<1>2. OnceInv /\ AnsweredOnce /\ NeverBlocks /\ WaiterInv
  BY DEF OnceInv, AnsweredOnce, NeverBlocks, WaiterInv, Waiter
<1>3. \A o \in Ops : ~Queued(o) /\ ~InHand(o)
  BY DEF Queued, InHand
<1>4. QueueInv
  BY <1>3 DEF QueueInv
<1>5. FrameInv
  BY <1>3 DEF FrameInv, StageFits, FrameFits, InFlight, FrameOut
<1> QED
  BY <1>1, <1>2, <1>4, <1>5 DEF IInv

-----------------------------------------------------------------------------
(* The next-state relation as a list of operations.                        *)
LEMMA Steps ==
  ASSUME Next
  PROVE  \/ ConfigureMethods
         \/ \E o \in Ops : \/ Handshake(o) \/ Call(o) \/ RespondServerRequest(o)
                           \/ Register(o) \/ Enqueue(o) \/ Result(o) \/ Wait(o)
                           \/ Expire(o) \/ Timeout(o) \/ Answer(o)
         \/ WriterLoop \/ WriteFrame \/ WriteFails \/ ReaderLoop \/ ReadFails
         \/ FailSends \/ FailFirst \/ (\E g \in Procs : FailReturns(g))
         \/ Notify
  BY DEF Next, CallerStep, ReaderStep, FailStep, Fail, Close

-----------------------------------------------------------------------------
(* A caller moves: nobody else does.                                       *)
LEMMA GotoCaller ==
  ASSUME PcOK, NEW o \in Ops, NEW l \in CallerPCs, Goto(o, l)
  PROVE  /\ PcOK'
         /\ pc'[o] = l
         /\ \A g \in Procs \ {o} : pc'[g] = pc[g]
         /\ pc'[Writer] = pc[Writer] /\ pc'[Reader] = pc[Reader]
  BY RpcAssumption DEF PcOK, PcFits, Goto, CallerPCs, ReaderPCs, WriterPCs, Procs

(* The reader moves: nobody else does.                                     *)
LEMMA GotoReader ==
  ASSUME PcOK, NEW l \in ReaderPCs, Goto(Reader, l)
  PROVE  /\ PcOK'
         /\ \A g \in Procs \ {Reader} : pc'[g] = pc[g]
         /\ pc'[Writer] = pc[Writer] /\ pc'[Reader] = l
  BY RpcAssumption DEF PcOK, PcFits, Goto, CallerPCs, ReaderPCs, WriterPCs, Procs

(* The writer moves: nobody else does.                                     *)
LEMMA GotoWriter ==
  ASSUME PcOK, NEW l \in WriterPCs, Goto(Writer, l)
  PROVE  /\ PcOK'
         /\ \A g \in Procs \ {Writer} : pc'[g] = pc[g]
         /\ pc'[Writer] = l /\ pc'[Reader] = pc[Reader]
  BY RpcAssumption DEF PcOK, PcFits, Goto, CallerPCs, ReaderPCs, WriterPCs, Procs

(* A caller moves and starts the reader if it is off (call).               *)
LEMMA GotoAndRead ==
  ASSUME PcOK, NEW o \in Ops, NEW l \in CallerPCs,
         pc' = [pc EXCEPT ![o] = l, ![Reader] = IF @ = "off" THEN "read" ELSE @]
  PROVE  /\ PcOK'
         /\ pc'[o] = l
         /\ \A p \in Ops \ {o} : pc'[p] = pc[p]
         /\ pc'[Writer] = pc[Writer]
  BY RpcAssumption DEF PcOK, PcFits, CallerPCs, ReaderPCs, WriterPCs, Procs

(* A caller moves and starts the writer if it is off (write).              *)
LEMMA GotoAndLoop ==
  ASSUME PcOK, NEW o \in Ops, NEW l \in CallerPCs,
         pc' = [pc EXCEPT ![o] = l, ![Writer] = IF @ = "off" THEN "loop" ELSE @]
  PROVE  /\ PcOK'
         /\ pc'[o] = l
         /\ \A p \in Ops \ {o} : pc'[p] = pc[p]
         /\ pc'[Writer] = "write" <=> pc[Writer] = "write"
  BY RpcAssumption DEF PcOK, PcFits, CallerPCs, ReaderPCs, WriterPCs, Procs

(* Every step keeps the program points.                                    *)
LEMMA PcStep == ASSUME PcOK, Next PROVE PcOK'
<1>1. CASE ConfigureMethods
  BY <1>1 DEF ConfigureMethods, PcOK, PcFits
<1>2. ASSUME NEW o \in Ops, Handshake(o) \/ Call(o) \/ RespondServerRequest(o)
      PROVE  PcOK'
  BY <1>2, GotoCaller DEF Handshake, Call, RespondServerRequest, Enter, CallerPCs
<1>3. ASSUME NEW o \in Ops, Register(o) PROVE PcOK'
  <2>1. CASE done
    BY <1>3, <2>1, GotoCaller DEF Register, Return, CallerPCs
  <2>2. CASE ~done
    BY <1>3, <2>2, GotoAndRead DEF Register, CallerPCs
  <2> QED
    BY <2>1, <2>2
<1>4. ASSUME NEW o \in Ops, WriteError(o) PROVE PcOK'
  BY <1>4, GotoCaller DEF WriteError, Return, CallerPCs
<1>5. ASSUME NEW o \in Ops, Enqueue(o) PROVE PcOK'
  <2>1. CASE pc' = [pc EXCEPT ![o] = "result", ![Writer] = IF @ = "off" THEN "loop" ELSE @]
    BY <2>1, GotoAndLoop DEF CallerPCs
  <2>2. CASE Goto(o, "fail")
    BY <2>2, GotoCaller DEF CallerPCs
  <2> QED
    BY <1>4, <1>5, <2>1, <2>2 DEF Enqueue
<1>6. ASSUME NEW o \in Ops, Result(o) PROVE PcOK'
  <2>1. CASE Written(o)
    BY <2>1, GotoCaller DEF Written, Return, CallerPCs
  <2>2. CASE Goto(o, "fail")
    BY <2>2, GotoCaller DEF CallerPCs
  <2> QED
    BY <1>4, <1>6, <2>1, <2>2 DEF Result
<1>7. ASSUME NEW o \in Ops, Wait(o) PROVE PcOK'
  <2>1. Goto(o, "enqueue") \/ Goto(o, "ret")
    BY <1>7 DEF Wait, Return
  <2> QED
    BY <2>1, GotoCaller DEF CallerPCs
<1>8. ASSUME NEW o \in Ops, Expire(o) PROVE PcOK'
  BY <1>8 DEF Expire, PcOK, PcFits
<1>9. ASSUME NEW o \in Ops, Timeout(o) PROVE PcOK'
  BY <1>9, GotoCaller DEF Timeout, Return, CallerPCs
<1>10. ASSUME NEW o \in Ops, Answer(o) PROVE PcOK'
  BY <1>10 DEF Answer, Emit, PcOK, PcFits
<1>11. CASE WriterLoop
  <2>1. Goto(Writer, "end") \/ Goto(Writer, "write") \/ UNCHANGED pc
    BY <1>11 DEF WriterLoop
  <2>2. CASE UNCHANGED pc
    BY <2>2 DEF PcOK, PcFits
  <2> QED
    BY <2>1, <2>2, GotoWriter DEF WriterPCs
<1>12. CASE WriteFrame \/ WriteFails
  BY <1>12, GotoWriter DEF WriteFrame, WriteFails, WriterPCs
<1>13. CASE ReaderLoop \/ ReadFails
  <2>1. Goto(Reader, "fail") \/ UNCHANGED pc
    BY <1>13 DEF ReaderLoop, ReadFails
  <2>2. CASE UNCHANGED pc
    BY <2>2 DEF PcOK, PcFits
  <2> QED
    BY <2>1, <2>2, GotoReader DEF ReaderPCs
<1>14. CASE FailSends \/ FailFirst \/ Notify
  BY <1>14 DEF FailSends, FailFirst, Notify, Emit, PcOK, PcFits
<1>15. ASSUME NEW g \in Procs, FailReturns(g) PROVE PcOK'
  <2>1. CASE g \in Ops
    BY <1>15, <2>1, GotoCaller DEF FailReturns, Return, CallerPCs
  <2>2. CASE g \notin Ops
    BY <1>15, <2>2, GotoReader, GotoWriter DEF FailReturns, Procs, ReaderPCs, WriterPCs
  <2> QED
    BY <2>1, <2>2
<1> QED
  BY <1>1, <1>2, <1>3, <1>5, <1>6, <1>7, <1>8, <1>9, <1>10, <1>11, <1>12, <1>13, <1>14,
     <1>15, Steps

(* Every step keeps the types of the client state.                         *)
LEMMA RestStep == ASSUME RestOK, Next PROVE RestOK'
<1> USE DEF RestOK
<1>1. CASE ConfigureMethods
  BY <1>1, RpcAssumption DEF ConfigureMethods, provider
<1>2. ASSUME NEW o \in Ops, Handshake(o) \/ Call(o) \/ RespondServerRequest(o)
      PROVE  RestOK'
  BY <1>2 DEF Handshake, Call, RespondServerRequest, Enter, provider
<1>3. ASSUME NEW o \in Ops, Register(o) PROVE RestOK'
  BY <1>3 DEF Register, Return, provider
<1>4. ASSUME NEW o \in Ops, WriteError(o)
      PROVE  ret' \in [Ops -> {None, "ok", "error"}] /\ pending' \subseteq Ops
  BY <1>4 DEF WriteError, Return
<1>5. ASSUME NEW o \in Ops, Enqueue(o) PROVE RestOK'
  <2>1. ret' \in [Ops -> {None, "ok", "error"}] /\ pending' \subseteq Ops
    BY <1>4, <1>5 DEF Enqueue
  <2> QED
    BY <1>5, <2>1 DEF Enqueue, provider
<1>6. ASSUME NEW o \in Ops, Result(o) PROVE RestOK'
  <2>1. ret' \in [Ops -> {None, "ok", "error"}] /\ pending' \subseteq Ops
    BY <1>4, <1>6 DEF Result, Written, Return
  <2>2. shake' \in {"new", "started", "done"}
    BY <1>6 DEF Result, Written
  <2> QED
    BY <1>6, <2>1, <2>2 DEF Result, provider
<1>7. ASSUME NEW o \in Ops, Wait(o) PROVE RestOK'
  <2>1. ret' \in [Ops -> {None, "ok", "error"}] /\ pending' \subseteq Ops
    BY <1>7 DEF Wait, Return
  <2>2. stage' \in [Ops -> {"call", "write"}] /\ expired' \subseteq Ops
    BY <1>7 DEF Wait
  <2> QED
    BY <1>7, <2>1, <2>2 DEF Wait, provider
<1>8. ASSUME NEW o \in Ops, Expire(o) PROVE RestOK'
  BY <1>8 DEF Expire, client, provider
<1>9. ASSUME NEW o \in Ops, Timeout(o) PROVE RestOK'
  BY <1>9 DEF Timeout, Return, provider
<1>10. ASSUME NEW o \in Ops, Answer(o) PROVE RestOK'
  BY <1>10 DEF Answer, Emit, Extra, client
<1>11. CASE WriterLoop \/ WriteFrame \/ WriteFails
  BY <1>11 DEF WriterLoop, WriteFrame, WriteFails, client, provider
<1>12. CASE ReaderLoop
  <2>1. pending' \subseteq Ops
    BY <1>12 DEF ReaderLoop
  <2> QED
    BY <1>12, <2>1 DEF ReaderLoop
<1>13. CASE ReadFails
  BY <1>13 DEF ReadFails, client, provider
<1>14. CASE FailSends
  BY <1>14 DEF FailSends, provider
<1>15. CASE FailFirst
  BY <1>15 DEF FailFirst, provider
<1>16. ASSUME NEW g \in Procs, FailReturns(g) PROVE RestOK'
  BY <1>16 DEF FailReturns, Return, client, provider
<1>17. CASE Notify
  BY <1>17 DEF Notify, Emit, Extra, client
<1> QED
  BY <1>1, <1>2, <1>3, <1>5, <1>6, <1>7, <1>8, <1>9, <1>10, <1>11, <1>12, <1>13, <1>14,
     <1>15, <1>16, <1>17, Steps

(* What a send to the channels W does.                                     *)
LEMMA SendFacts ==
  ASSUME SentOK, NEW W \in SUBSET Ops, NEW v \in {"answer", "error"}, SendTo(W, v)
  PROVE  /\ SentOK'
         /\ \A o \in W : resp[o] = <<>> /\ sends'[o] = sends[o] + 1
         /\ \A o \in Ops \ W : resp'[o] = resp[o] /\ sends'[o] = sends[o]
<1>1. resp' \in [Ops -> Responses]
  BY DEF SendTo, SentOK, Responses
<1>2. sends' \in [Ops -> Nat]
  BY DEF SendTo, SentOK
<1> QED
  BY <1>1, <1>2 DEF SendTo, SentOK

(* Every step keeps the types of the response channels.                    *)
LEMMA SentStep == ASSUME SentOK, RestOK, Next PROVE SentOK'
<1>1. CASE ReaderLoop
  <2>1. Head(stream) \in pending => {Head(stream)} \in SUBSET Ops
    BY DEF RestOK
  <2> QED
    BY <1>1, <2>1, SendFacts DEF ReaderLoop, SentOK
<1>2. CASE FailSends
  <2>1. once.todo \in SUBSET Ops
    BY DEF RestOK
  <2> QED
    BY <1>2, <2>1, SendFacts DEF FailSends
<1>3. ASSUME NEW o \in Ops, Wait(o) PROVE SentOK'
  BY <1>3 DEF Wait, SentOK, Responses
<1>4. CASE UNCHANGED <<resp, sends>>
  BY <1>4 DEF SentOK
<1> QED
  BY <1>1, <1>2, <1>3, <1>4, Steps
     DEF ConfigureMethods, Handshake, Call, RespondServerRequest, Enter, Register, Enqueue,
         Result, Expire, Timeout, Answer, Notify, Emit, WriterLoop, WriteFrame, WriteFails,
         ReadFails, FailFirst, FailReturns, queues

(* Every step keeps the types of the queue and of the writer's frame.      *)
LEMMA WriterStep == ASSUME WriterOK, PcOK, RestOK, Next PROVE WriterOK'
<1> USE RpcAssumption
<1>1. ASSUME NEW o \in Ops, Enqueue(o) PROVE WriterOK'
  <2>1. CASE /\ Len(writes) < WritesCap
             /\ writes' = Append(writes, o)
             /\ wres' = [wres EXCEPT ![o] = None]
             /\ pc' = [pc EXCEPT ![o] = "result", ![Writer] = IF @ = "off" THEN "loop" ELSE @]
    <3>1. pc'[Writer] = "write" <=> pc[Writer] = "write"
      BY <2>1, GotoAndLoop DEF CallerPCs
    <3>2. writes' \in Seq(Ops) /\ Len(writes') <= WritesCap
      BY <2>1 DEF WriterOK
    <3>3. wres' \in [Ops -> {None, "ok", "err"}]
      BY <2>1 DEF WriterOK
    <3> QED
      BY <1>1, <3>1, <3>2, <3>3 DEF Enqueue, WriterOK
  <2>2. CASE UNCHANGED <<writes, wres>> /\ (WriteError(o) \/ Goto(o, "fail"))
    <3>1. Goto(o, "fail") \/ Goto(o, "ret")
      BY <2>2 DEF WriteError, Return
    <3>2. pc'[Writer] = pc[Writer]
      BY <3>1, GotoCaller DEF CallerPCs
    <3> QED
      BY <1>1, <2>2, <3>2 DEF Enqueue, WriterOK
  <2> QED
    BY <1>1, <2>1, <2>2 DEF Enqueue
<1>2. CASE WriterLoop
  <2>1. CASE done /\ Goto(Writer, "end") /\ UNCHANGED <<writes, wres, cur>>
    <3>1. pc'[Writer] = "end"
      BY <2>1, GotoWriter DEF WriterPCs
    <3> QED
      BY <1>2, <2>1, <3>1 DEF WriterLoop, WriterOK
  <2>2. CASE writes # <<>> /\ writes' = Tail(writes)
    <3>1. Head(writes) \in Ops /\ writes' \in Seq(Ops) /\ Len(writes') <= WritesCap
      BY <2>2 DEF WriterOK
    <3>2. CASE Cancelled(Head(writes))
      BY <1>2, <2>2, <3>1, <3>2 DEF WriterLoop, WriterOK
    <3>3. CASE ~Cancelled(Head(writes))
      BY <1>2, <2>2, <3>1, <3>3 DEF WriterLoop, WriterOK
    <3> QED
      BY <3>2, <3>3
  <2> QED
    BY <1>2, <2>1, <2>2 DEF WriterLoop
<1>3. CASE WriteFrame
  <2>1. pc'[Writer] = "loop" /\ cur \in Ops
    BY <1>3, GotoWriter DEF WriteFrame, WriterPCs, WriterOK
  <2>2. written' \subseteq Ops \X {"call", "write"}
    BY <1>3, <2>1 DEF WriteFrame, WriterOK, RestOK
  <2> QED
    BY <1>3, <2>1, <2>2 DEF WriteFrame, WriterOK
<1>4. CASE WriteFails
  <2>1. pc'[Writer] = "fail"
    BY <1>4, GotoWriter DEF WriteFails, WriterPCs
  <2> QED
    BY <1>4, <2>1 DEF WriteFails, WriterOK
<1>5. ASSUME UNCHANGED <<writes, cur, wres, written>>, pc'[Writer] = "write" => pc[Writer] = "write"
      PROVE  WriterOK'
  BY <1>5 DEF WriterOK
<1>6. CASE UNCHANGED <<writes, cur, wres, written>> /\ UNCHANGED pc
  BY <1>5, <1>6
<1>7. ASSUME NEW o \in Ops, NEW l \in CallerPCs, Goto(o, l), UNCHANGED <<writes, cur, wres, written>>
      PROVE  WriterOK'
  BY <1>5, <1>7, GotoCaller
<1>8. ASSUME NEW o \in Ops, Handshake(o) \/ Call(o) \/ RespondServerRequest(o) \/ Timeout(o)
      PROVE  WriterOK'
  BY <1>7, <1>8 DEF Handshake, Call, RespondServerRequest, Enter, Timeout, Return, CallerPCs, queues
<1>9. ASSUME NEW o \in Ops, Register(o) PROVE WriterOK'
  <2>1. UNCHANGED <<writes, cur, wres, written>>
    BY <1>9 DEF Register, queues
  <2>2. pc'[Writer] = pc[Writer]
    BY <1>9, GotoCaller, GotoAndRead DEF Register, Return, CallerPCs
  <2> QED
    BY <1>5, <2>1, <2>2
<1>10. ASSUME NEW o \in Ops, Result(o) \/ Wait(o) PROVE WriterOK'
  <2>1. UNCHANGED <<writes, cur, wres, written>>
    BY <1>10 DEF Result, Wait, queues
  <2>2. Goto(o, "wait") \/ Goto(o, "ret") \/ Goto(o, "fail") \/ Goto(o, "enqueue")
    BY <1>10 DEF Result, Wait, Written, WriteError, Return
  <2> QED
    BY <1>7, <2>1, <2>2 DEF CallerPCs
<1>11. CASE ReaderLoop \/ ReadFails
  <2>1. UNCHANGED <<writes, cur, wres, written>>
    BY <1>11 DEF ReaderLoop, ReadFails, queues
  <2>2. Goto(Reader, "fail") \/ UNCHANGED pc
    BY <1>11 DEF ReaderLoop, ReadFails
  <2> QED
    BY <1>5, <2>1, <2>2, GotoReader DEF ReaderPCs
<1>12. ASSUME NEW g \in Procs, FailReturns(g) PROVE WriterOK'
  <2>1. UNCHANGED <<writes, cur, wres, written>>
    BY <1>12 DEF FailReturns, queues
  <2>2. CASE g \in Ops
    BY <1>7, <1>12, <2>1, <2>2 DEF FailReturns, Return, CallerPCs
  <2>3. CASE g \notin Ops
    BY <1>5, <1>12, <2>1, <2>3, GotoReader, GotoWriter
       DEF FailReturns, Procs, ReaderPCs, WriterPCs
  <2> QED
    BY <2>2, <2>3
<1> QED
  BY <1>1, <1>2, <1>3, <1>4, <1>6, <1>8, <1>9, <1>10, <1>11, <1>12, Steps
     DEF ConfigureMethods, Expire, Answer, Notify, Emit, FailSends, FailFirst, queues

(* Every step keeps Shape.                                                 *)
LEMMA ShapeStep == ASSUME Shape, [Next]_vars PROVE Shape'
<1>1. CASE Next
  <2>1. PcOK' /\ RestOK' /\ SentOK' /\ WriterOK'
    BY <1>1, ShapeParts, PcStep, RestStep, SentStep, WriterStep
  <2> QED
    BY <2>1 DEF Shape, TypeOK, PcOK, RestOK, SentOK, WriterOK, Responses
<1>2. CASE UNCHANGED vars
  BY <1>2 DEF vars, client, queues, provider, Shape, TypeOK, PcFits
<1> QED
  BY <1>1, <1>2

-----------------------------------------------------------------------------
(* The waiters. *)
(* The half of the invariant about waiters.                                *)
SendInv == OnceInv /\ AnsweredOnce /\ NeverBlocks /\ WaiterInv

(* A step that sends nothing, registers nobody and only empties channels   *)
(* keeps SendInv.                                                          *)
LEMMA SendFrame ==
  ASSUME SendInv, UNCHANGED <<done, once, sends>>, pending' \subseteq pending,
         \A o \in Ops : resp'[o] = resp[o] \/ resp'[o] = <<>>,
         \A o \in Ops : pc'[o] \in {"idle", "register"} => pc[o] \in {"idle", "register"}
  PROVE  SendInv'
<1>1. \A o \in Ops : Waiter(o)' => Waiter(o)
  BY DEF Waiter
<1>2. OnceInv'
  BY DEF SendInv, OnceInv
<1>3. AnsweredOnce'
  BY DEF SendInv, AnsweredOnce
<1>4. NeverBlocks'
  BY <1>1 DEF SendInv, NeverBlocks
<1>5. WaiterInv'
  BY <1>1 DEF SendInv, WaiterInv
<1> QED
  BY <1>2, <1>3, <1>4, <1>5 DEF SendInv

(* Every step keeps SendInv: registration adds an operation that was never *)
(* sent to, readerLoop and fail take a waiter out of the map before they   *)
(* send.                                                                   *)
LEMMA SendStep == ASSUME Shape, SendInv, Next PROVE SendInv'
<1>0. PcOK /\ RestOK /\ SentOK
  BY ShapeParts
<1>1. ASSUME UNCHANGED <<done, once, sends, resp>>, pending' \subseteq pending,
             NEW o \in Ops, NEW l \in CallerPCs \ {"idle"}, Goto(o, l),
             l = "register" => pc[o] = "idle"
      PROVE  SendInv'
  <2>1. \A p \in Ops : pc'[p] \in {"idle", "register"} => pc[p] \in {"idle", "register"}
    BY <1>0, <1>1, GotoCaller DEF Procs
  <2> QED
    BY <1>1, <2>1, SendFrame
<1>2. ASSUME UNCHANGED <<done, once, sends, resp, pending>>, \A o \in Ops : pc'[o] = pc[o]
      PROVE  SendInv'
  BY <1>2, SendFrame
<1>3. CASE ConfigureMethods
  BY <1>2, <1>3 DEF ConfigureMethods, queues
<1>4. ASSUME NEW o \in Ops, Handshake(o) \/ Call(o) \/ RespondServerRequest(o) \/ Timeout(o)
      PROVE  SendInv'
  <2>1. UNCHANGED <<done, once, sends, resp>> /\ pending' \subseteq pending
    BY <1>4 DEF Handshake, Call, RespondServerRequest, Timeout, Enter, queues
  <2>2. \/ Goto(o, "register") /\ pc[o] = "idle"
        \/ Goto(o, "enqueue") \/ Goto(o, "ret")
    BY <1>4 DEF Handshake, Call, RespondServerRequest, Timeout, Enter, Return
  <2> QED
    BY <1>1, <2>1, <2>2 DEF CallerPCs
<1>5. ASSUME NEW o \in Ops, Register(o) PROVE SendInv'
  <2>1. CASE done
    BY <1>1, <1>5, <2>1 DEF Register, Return, CallerPCs, queues
  <2>2. CASE ~done
    <3>1. /\ pending' = pending \cup {o} /\ UNCHANGED <<done, once, sends, resp>>
          /\ pc[o] = "register"
      BY <1>5, <2>2 DEF Register, queues
    <3>2. /\ pc'[o] = "enqueue"
          /\ \A p \in Ops \ {o} : pc'[p] = pc[p]
      BY <1>0, <1>5, <2>2, GotoAndRead DEF Register, CallerPCs
    <3>3. sends[o] = 0 /\ resp[o] = <<>>
      BY <3>1 DEF SendInv, WaiterInv
    <3>4. \A p \in Ops : Waiter(p)' <=> (Waiter(p) \/ p = o)
      BY <3>1 DEF Waiter
    <3>5. OnceInv'
      BY <2>2, <3>1 DEF SendInv, OnceInv
    <3>6. AnsweredOnce'
      BY <3>1 DEF SendInv, AnsweredOnce
    <3>7. NeverBlocks'
      BY <3>1, <3>3, <3>4 DEF SendInv, NeverBlocks
    <3>8. WaiterInv'
      BY <3>1, <3>2, <3>3, <3>4 DEF SendInv, WaiterInv
    <3> QED
      BY <3>5, <3>6, <3>7, <3>8 DEF SendInv
  <2> QED
    BY <2>1, <2>2
<1>6. ASSUME NEW o \in Ops, Enqueue(o) PROVE SendInv'
  <2>1. UNCHANGED <<done, once, sends, resp>> /\ pending' \subseteq pending
    BY <1>6 DEF Enqueue, WriteError
  <2>2. CASE pc' = [pc EXCEPT ![o] = "result", ![Writer] = IF @ = "off" THEN "loop" ELSE @]
    <3>1. \A p \in Ops : pc'[p] \in {"idle", "register"} => pc[p] \in {"idle", "register"}
      BY <1>0, <2>2, GotoAndLoop DEF CallerPCs
    <3> QED
      BY <2>1, <3>1, SendFrame
  <2>3. CASE Goto(o, "fail") \/ Goto(o, "ret")
    BY <1>1, <2>1, <2>3 DEF CallerPCs
  <2> QED
    BY <1>6, <2>2, <2>3 DEF Enqueue, WriteError, Return
<1>7. ASSUME NEW o \in Ops, Result(o) PROVE SendInv'
  <2>1. UNCHANGED <<done, once, sends, resp>> /\ pending' \subseteq pending
    BY <1>7 DEF Result, WriteError, queues
  <2>2. Goto(o, "wait") \/ Goto(o, "ret") \/ Goto(o, "fail")
    BY <1>7 DEF Result, Written, WriteError, Return
  <2> QED
    BY <1>1, <2>1, <2>2 DEF CallerPCs
<1>8. ASSUME NEW o \in Ops, Wait(o) PROVE SendInv'
  <2>1. UNCHANGED <<done, once, sends>> /\ pending' \subseteq pending
    BY <1>8 DEF Wait
  <2>2. \A p \in Ops : resp'[p] = resp[p] \/ resp'[p] = <<>>
    BY <1>0, <1>8 DEF Wait, SentOK
  <2>3. Goto(o, "enqueue") \/ Goto(o, "ret")
    BY <1>8 DEF Wait, Return
  <2>4. \A p \in Ops : pc'[p] \in {"idle", "register"} => pc[p] \in {"idle", "register"}
    BY <1>0, <2>3, GotoCaller DEF CallerPCs, Procs
  <2> QED
    BY <2>1, <2>2, <2>4, SendFrame
<1>9. ASSUME NEW o \in Ops, Expire(o) \/ Answer(o) PROVE SendInv'
  BY <1>2, <1>9 DEF Expire, Answer, Emit, client, queues
<1>10. CASE WriterLoop \/ WriteFrame \/ WriteFails
  <2>1. UNCHANGED <<done, once, sends, resp, pending>>
    BY <1>10 DEF WriterLoop, WriteFrame, WriteFails, client
  <2>2. \A p \in Ops : pc'[p] = pc[p]
    <3>1. Goto(Writer, "end") \/ Goto(Writer, "write") \/ Goto(Writer, "loop")
            \/ Goto(Writer, "fail") \/ UNCHANGED pc
      BY <1>10 DEF WriterLoop, WriteFrame, WriteFails
    <3> QED
      BY <1>0, <3>1, GotoWriter, RpcAssumption DEF WriterPCs, Procs
  <2> QED
    BY <1>2, <2>1, <2>2
<1>11. CASE ReadFails
  <2>1. \A p \in Ops : pc'[p] = pc[p]
    BY <1>0, <1>11, GotoReader, RpcAssumption DEF ReadFails, ReaderPCs, Procs
  <2> QED
    BY <1>2, <1>11, <2>1 DEF ReadFails, client, queues
<1>12. CASE ReaderLoop
  <2>1. ASSUME NEW f \in pending, SendTo({f}, "answer"), pending' = pending \ {f}, UNCHANGED pc
        PROVE  SendInv'
    <3>1. f \in Ops /\ {f} \in SUBSET Ops
      BY <1>0, <2>1 DEF RestOK
    <3>2. UNCHANGED <<done, once>>
      BY <1>12 DEF ReaderLoop
    <3>3. /\ sends'[f] = sends[f] + 1
          /\ \A o \in Ops \ {f} : resp'[o] = resp[o] /\ sends'[o] = sends[o]
      BY <1>0, <2>1, <3>1, SendFacts
    <3>4. Waiter(f) /\ ~Waiter(f)' /\ sends[f] = 0 /\ pc[f] \notin {"idle", "register"}
      <4>1. Waiter(f)
        BY <2>1 DEF Waiter
      <4>2. once.todo = {}
        BY <2>1 DEF SendInv, OnceInv
      <4> QED
        BY <2>1, <3>1, <3>2, <4>1, <4>2 DEF Waiter, SendInv, WaiterInv
    <3>5. \A o \in Ops \ {f} : Waiter(o)' <=> Waiter(o)
      BY <2>1, <3>2 DEF Waiter
    <3>6. OnceInv'
      BY <2>1, <3>2 DEF SendInv, OnceInv
    <3>7. AnsweredOnce'
      BY <3>1, <3>3, <3>4 DEF SendInv, AnsweredOnce
    <3>8. NeverBlocks'
      BY <3>3, <3>4, <3>5 DEF SendInv, NeverBlocks
    <3>9. WaiterInv'
      BY <2>1, <3>3, <3>4, <3>5 DEF SendInv, WaiterInv
    <3> QED
      BY <3>6, <3>7, <3>8, <3>9 DEF SendInv
  <2>2. CASE UNCHANGED <<resp, sends, pending>> /\ (UNCHANGED pc \/ Goto(Reader, "fail"))
    <3>1. \A p \in Ops : pc'[p] = pc[p]
      BY <1>0, <2>2, GotoReader, RpcAssumption DEF ReaderPCs, Procs
    <3> QED
      BY <1>2, <1>12, <2>2, <3>1 DEF ReaderLoop
  <2> QED
    BY <1>12, <2>1, <2>2 DEF ReaderLoop
<1>13. CASE FailSends
  <2>1. once.todo \in SUBSET Ops
    BY <1>0 DEF RestOK
  <2>2. /\ \A o \in once.todo : sends'[o] = sends[o] + 1
        /\ \A o \in Ops \ once.todo : resp'[o] = resp[o] /\ sends'[o] = sends[o]
    BY <1>0, <1>13, <2>1, SendFacts DEF FailSends
  <2>3. /\ UNCHANGED <<pc, done, pending>> /\ done /\ pending = {}
        /\ once'.todo = {} /\ once'.state = "done"
    BY <1>13 DEF FailSends, SendInv, OnceInv
  <2>4. \A o \in once.todo : sends[o] = 0 /\ pc[o] \notin {"idle", "register"}
    BY <2>1 DEF SendInv, WaiterInv, Waiter
  <2>5. \A o \in Ops : ~Waiter(o)'
    BY <2>3 DEF Waiter
  <2>6. OnceInv'
    BY <2>3 DEF OnceInv
  <2>7. AnsweredOnce'
    BY <2>2, <2>4 DEF SendInv, AnsweredOnce
  <2>8. NeverBlocks'
    BY <2>5 DEF NeverBlocks
  <2>9. WaiterInv'
    BY <2>2, <2>3, <2>4, <2>5 DEF SendInv, WaiterInv
  <2> QED
    BY <2>6, <2>7, <2>8, <2>9 DEF SendInv
<1>14. CASE FailFirst
  <2>1. /\ UNCHANGED <<pc, resp, sends>> /\ done' /\ pending' = {}
        /\ once'.state = "run" /\ once'.todo = pending
    BY <1>14 DEF FailFirst, queues
  <2>2. \A o \in Ops : Waiter(o)' => Waiter(o)
    BY <2>1 DEF Waiter
  <2>3. OnceInv'
    BY <2>1 DEF OnceInv
  <2>4. AnsweredOnce' /\ NeverBlocks' /\ WaiterInv'
    BY <2>1, <2>2 DEF SendInv, AnsweredOnce, NeverBlocks, WaiterInv
  <2> QED
    BY <2>3, <2>4 DEF SendInv
<1>15. ASSUME NEW g \in Procs, FailReturns(g) PROVE SendInv'
  <2>1. UNCHANGED <<done, once, sends, resp, pending>>
    BY <1>15 DEF FailReturns, client, queues
  <2>2. CASE g \in Ops
    BY <1>1, <1>15, <2>1, <2>2 DEF FailReturns, Return, CallerPCs
  <2>3. CASE g \notin Ops
    <3>1. \A p \in Ops : pc'[p] = pc[p]
      BY <1>0, <1>15, <2>3, GotoReader, GotoWriter, RpcAssumption
         DEF FailReturns, Procs, ReaderPCs, WriterPCs
    <3> QED
      BY <1>2, <2>1, <3>1
  <2> QED
    BY <2>2, <2>3
<1>16. CASE Notify
  BY <1>2, <1>16 DEF Notify, Emit, client, queues
<1> QED
  BY <1>3, <1>4, <1>5, <1>6, <1>7, <1>8, <1>9, <1>10, <1>11, <1>12, <1>13, <1>14, <1>15,
     <1>16, Steps

-----------------------------------------------------------------------------
(* The frames. *)
(* The half of the invariant about frames.                                 *)
WireInv == QueueInv /\ FrameInv

(* A step that leaves callers, queue and wire alone keeps WireInv.         *)
LEMMA WireFrame ==
  ASSUME WireInv, UNCHANGED <<writes, stage, wres, written>>,
         done => done',
         \A o \in Ops : InHand(o)' <=> InHand(o),
         \A o \in Ops : pc'[o] = pc[o] /\ ret'[o] = ret[o]
  PROVE  WireInv'
<1>1. \A o \in Ops : (Queued(o)' <=> Queued(o)) /\ (InFlight(o)' <=> InFlight(o))
                       /\ (FrameOut(o)' <=> FrameOut(o))
  BY DEF Queued, InFlight, FrameOut
<1>2. QueueInv'
  BY <1>1 DEF WireInv, QueueInv
<1>3. FrameInv'
  BY <1>1 DEF WireInv, FrameInv, StageFits, FrameFits
<1> QED
  BY <1>2, <1>3 DEF WireInv

(* An operation that a step leaves alone keeps what it knows of its frame. *)
LEMMA OtherFits ==
  ASSUME WireInv, NEW p \in Ops, pc'[p] = pc[p], ret'[p] = ret[p], stage'[p] = stage[p],
         wres'[p] = wres[p], UNCHANGED written, done => done',
         InFlight(p)' <=> InFlight(p)
  PROVE  StageFits(p)' /\ FrameFits(p)'
<1>1. StageFits(p) /\ FrameFits(p)
  BY DEF WireInv, FrameInv
<1>2. FrameOut(p)' <=> FrameOut(p)
  BY DEF FrameOut
<1>3. StageFits(p)'
  BY <1>1 DEF StageFits
<1>4. FrameFits(p)'
  BY <1>1, <1>2 DEF FrameFits
<1> QED
  BY <1>3, <1>4

(* A caller that moves and leaves queue and wire alone keeps WireInv when  *)
(* its own conclusions stay right.                                         *)
LEMMA WireCaller ==
  ASSUME PcOK, WireInv, NEW o \in Ops, NEW l \in CallerPCs, Goto(o, l),
         UNCHANGED <<writes, cur, wres, written>>, done => done',
         \A p \in Ops \ {o} : ret'[p] = ret[p] /\ stage'[p] = stage[p],
         StageFits(o)', FrameFits(o)'
  PROVE  WireInv'
<1>1. pc'[o] = l /\ pc'[Writer] = pc[Writer] /\ \A p \in Ops \ {o} : pc'[p] = pc[p]
  BY GotoCaller DEF Procs
<1>2. \A p \in Ops : (Queued(p)' <=> Queued(p)) /\ (InHand(p)' <=> InHand(p))
  BY <1>1 DEF Queued, InHand
<1>3. \A p \in Ops \ {o} : (InFlight(p)' <=> InFlight(p)) /\ (FrameOut(p)' <=> FrameOut(p))
  BY <1>2 DEF InFlight, FrameOut
<1>4. QueueInv'
  BY <1>2 DEF WireInv, QueueInv
<1>5. \A p \in Ops \ {o} : StageFits(p)' /\ FrameFits(p)'
  BY <1>1, <1>3, OtherFits
<1>6. FrameInv'
  BY <1>5 DEF FrameInv
<1> QED
  BY <1>4, <1>6 DEF WireInv

(* The frame of a caller that only moves stays where it is.                *)
LEMMA SameFrame ==
  ASSUME PcOK, NEW o \in Ops, NEW l \in CallerPCs, Goto(o, l),
         UNCHANGED <<writes, cur, wres, written>>
  PROVE  /\ pc'[o] = l
         /\ InFlight(o)' <=> InFlight(o)
         /\ stage'[o] = stage[o] => (FrameOut(o)' <=> FrameOut(o))
<1>1. pc'[o] = l /\ pc'[Writer] = pc[Writer]
  BY GotoCaller
<1> QED
  BY <1>1 DEF InFlight, Queued, InHand, FrameOut

(* Append of an operation that is not in the queue.                        *)
LEMMA Appended ==
  ASSUME writes \in Seq(Ops), NEW o \in Ops, writes' = Append(writes, o)
  PROVE  /\ \A p \in Ops : Queued(p)' <=> (Queued(p) \/ p = o)
         /\ /\ \A i, j \in 1..Len(writes) : writes[i] = writes[j] => i = j
            /\ ~Queued(o)
            => \A i, j \in 1..Len(writes') : writes'[i] = writes'[j] => i = j
<1>1. /\ Len(writes) \in Nat /\ Len(writes') = Len(writes) + 1
      /\ writes'[Len(writes) + 1] = o
      /\ \A i \in 1..Len(writes) : writes'[i] = writes[i]
  OBVIOUS
<1>2. \A i \in 1..Len(writes') : i \in 1..Len(writes) \/ i = Len(writes) + 1
  BY <1>1
<1>3. ASSUME NEW p \in Ops PROVE Queued(p)' <=> (Queued(p) \/ p = o)
  <2>1. ASSUME Queued(p)' PROVE Queued(p) \/ p = o
    BY <1>1, <1>2, <2>1 DEF Queued
  <2>2. ASSUME Queued(p) PROVE Queued(p)'
    <3>1. PICK i \in 1..Len(writes) : writes[i] = p
      BY <2>2 DEF Queued
    <3>2. i \in 1..Len(writes') /\ writes'[i] = p
      BY <1>1, <3>1
    <3> QED
      BY <3>2 DEF Queued
  <2>3. ASSUME p = o PROVE Queued(p)'
    <3>1. Len(writes) + 1 \in 1..Len(writes')
      BY <1>1
    <3> QED
      BY <1>1, <2>3, <3>1 DEF Queued
  <2> QED
    BY <2>1, <2>2, <2>3
<1>4. ASSUME \A i, j \in 1..Len(writes) : writes[i] = writes[j] => i = j, ~Queued(o),
             NEW i \in 1..Len(writes'), NEW j \in 1..Len(writes'), writes'[i] = writes'[j]
      PROVE  i = j
  BY <1>1, <1>2, <1>4 DEF Queued
<1> QED
  BY <1>3, <1>4

(* Tail of a queue without repetition takes the head out of it.            *)
LEMMA Popped ==
  ASSUME writes \in Seq(Ops), writes # <<>>, writes' = Tail(writes),
         \A i, j \in 1..Len(writes) : writes[i] = writes[j] => i = j
  PROVE  /\ Head(writes) \in Ops
         /\ \A p \in Ops : Queued(p)' <=> (Queued(p) /\ p # Head(writes))
         /\ Queued(Head(writes))
         /\ \A i, j \in 1..Len(writes') : writes'[i] = writes'[j] => i = j
<1>1. /\ Len(writes) \in Nat \ {0} /\ Len(writes') = Len(writes) - 1
      /\ Head(writes) = writes[1] /\ 1 \in 1..Len(writes) /\ Head(writes) \in Ops
      /\ \A i \in 1..Len(writes') : i + 1 \in 1..Len(writes) /\ writes'[i] = writes[i + 1]
  OBVIOUS
<1>2. ASSUME NEW p \in Ops PROVE Queued(p)' <=> (Queued(p) /\ p # Head(writes))
  <2>1. ASSUME Queued(p)' PROVE Queued(p) /\ p # Head(writes)
    <3>1. PICK i \in 1..Len(writes') : writes'[i] = p
      BY <2>1 DEF Queued
    <3>2. i + 1 \in 1..Len(writes) /\ writes[i + 1] = p /\ i + 1 # 1
      BY <1>1, <3>1
    <3> QED
      BY <1>1, <3>2 DEF Queued
  <2>2. ASSUME Queued(p), p # Head(writes) PROVE Queued(p)'
    <3>1. PICK i \in 1..Len(writes) : writes[i] = p
      BY <2>2 DEF Queued
    <3>2. i # 1
      BY <1>1, <2>2, <3>1
    <3>3. i - 1 \in 1..Len(writes') /\ (i - 1) + 1 = i
      BY <1>1, <3>2
    <3>4. writes'[i - 1] = p
      BY <1>1, <3>1, <3>3
    <3> QED
      BY <3>3, <3>4 DEF Queued
  <2> QED
    BY <2>1, <2>2
<1>3. ASSUME NEW i \in 1..Len(writes'), NEW j \in 1..Len(writes'), writes'[i] = writes'[j]
      PROVE  i = j
  <2>1. writes[i + 1] = writes[j + 1] /\ i + 1 \in 1..Len(writes) /\ j + 1 \in 1..Len(writes)
    BY <1>1, <1>3
  <2>2. i + 1 = j + 1
    BY <2>1
  <2> QED
    BY <2>2
<1>4. Queued(Head(writes))
  BY <1>1 DEF Queued
<1> QED
  BY <1>1, <1>2, <1>3, <1>4

(* The first select of write keeps WireInv.                                *)
LEMMA EnqueueWire ==
  ASSUME Shape, SendInv, WireInv, NEW o \in Ops, Enqueue(o)
  PROVE  WireInv'
<1>0. PcOK /\ RestOK /\ WriterOK
  BY ShapeParts
<1>1. /\ StageFits(o) /\ FrameFits(o) /\ ~InFlight(o) /\ ~FrameOut(o)
      /\ UNCHANGED <<stage, cur, written, done>>
  BY <1>0 DEF WireInv, FrameInv, FrameFits, Enqueue
<1>2. CASE /\ writes' = Append(writes, o)
           /\ wres' = [wres EXCEPT ![o] = None]
           /\ pc' = [pc EXCEPT ![o] = "result", ![Writer] = IF @ = "off" THEN "loop" ELSE @]
           /\ UNCHANGED ret
  <2>1. /\ pc'[o] = "result" /\ (pc'[Writer] = "write" <=> pc[Writer] = "write")
        /\ \A p \in Ops \ {o} : pc'[p] = pc[p]
    BY <1>0, <1>2, GotoAndLoop DEF CallerPCs
  <2>2. \A p \in Ops : InHand(p)' <=> InHand(p)
    BY <1>1, <2>1 DEF InHand
  <2>3. ~Queued(o) /\ ~InHand(o)
    BY <1>1 DEF InFlight
  <2>4. /\ \A p \in Ops : Queued(p)' <=> (Queued(p) \/ p = o)
        /\ \A i, j \in 1..Len(writes') : writes'[i] = writes'[j] => i = j
    BY <1>0, <1>2, <2>3, Appended DEF WriterOK, WireInv, QueueInv
  <2>5. QueueInv'
    BY <2>2, <2>3, <2>4 DEF WireInv, QueueInv
  <2>6. wres'[o] = None /\ \A p \in Ops \ {o} : wres'[p] = wres[p]
    BY <1>0, <1>2 DEF WriterOK
  <2>7. \A p \in Ops : FrameOut(p)' <=> FrameOut(p)
    BY <1>1 DEF FrameOut
  <2>8. StageFits(o)' /\ FrameFits(o)'
    BY <1>1, <2>1, <2>6, <2>7 DEF StageFits, FrameFits, None
  <2>9. \A p \in Ops \ {o} : InFlight(p)' <=> InFlight(p)
    BY <2>2, <2>4 DEF InFlight
  <2>10. \A p \in Ops \ {o} : StageFits(p)' /\ FrameFits(p)'
    BY <1>1, <1>2, <2>1, <2>6, <2>9, OtherFits
  <2>11. FrameInv'
    BY <2>8, <2>10 DEF FrameInv
  <2> QED
    BY <2>5, <2>11 DEF WireInv
<1>3. CASE /\ Goto(o, "fail") \/ (Return(o, "error") /\ done)
           /\ UNCHANGED <<writes, wres>>
           /\ \A p \in Ops \ {o} : ret'[p] = ret[p]
  <2>1. PICK l \in {"fail", "ret"} : Goto(o, l) /\ (l = "ret" => Return(o, "error") /\ done)
    BY <1>3 DEF Return
  <2>2. l \in CallerPCs
    BY DEF CallerPCs
  <2>3. /\ pc'[o] = l /\ (InFlight(o)' <=> InFlight(o))
        /\ FrameOut(o)' <=> FrameOut(o)
    BY <1>0, <1>1, <1>3, <2>1, <2>2, SameFrame
  <2>4. l = "ret" => ret'[o] = "error"
    BY <1>0, <2>1 DEF Return, RestOK
  <2>5. StageFits(o)'
    BY <1>1, <2>3 DEF StageFits
  <2>6. FrameFits(o)'
    BY <1>1, <2>1, <2>3, <2>4 DEF FrameFits
  <2> QED
    BY <1>0, <1>1, <1>3, <2>1, <2>2, <2>5, <2>6, WireCaller
<1>4. Return(o, "error") => \A p \in Ops \ {o} : ret'[p] = ret[p]
  BY <1>0 DEF Return, RestOK
<1> QED
  BY <1>2, <1>3, <1>4 DEF Enqueue, WriteError

(* The other steps of a caller keep WireInv; the second select of write is *)
(* the one that draws a conclusion.                                        *)
LEMMA CallerWire ==
  ASSUME Shape, SendInv, WireInv, NEW o \in Ops,
         \/ Handshake(o) \/ Call(o) \/ RespondServerRequest(o) \/ Result(o) \/ Wait(o)
         \/ Timeout(o) \/ (Register(o) /\ done)
  PROVE  WireInv'
<1>0. PcOK /\ RestOK /\ WriterOK /\ StageFits(o) /\ FrameFits(o)
  BY ShapeParts DEF WireInv, FrameInv
<1>1. /\ UNCHANGED <<writes, cur, wres, written>> /\ done' = done
  BY DEF Handshake, Call, RespondServerRequest, Enter, Result, Wait, Timeout, Register, queues
<1>2. ASSUME NEW r PROVE Return(o, r) => ret'[o] = r /\ \A p \in Ops \ {o} : ret'[p] = ret[p]
  BY <1>0 DEF Return, RestOK
<1>3. ASSUME NEW l \in CallerPCs, Goto(o, l), UNCHANGED stage, ret'[o] = ret[o] \/ l = "ret",
             \A p \in Ops \ {o} : ret'[p] = ret[p],
             l \in {"register", "wait"} => stage[o] = "call",
             l \in {"register", "enqueue"} => ~InFlight(o) /\ ~FrameOut(o),
             l \in {"register", "enqueue", "wait", "fail", "ret"},
             l = "wait" => ~InFlight(o),
             l = "ret" /\ stage[o] = "write" =>
               /\ ret'[o] = "ok" => FrameOut(o)
               /\ ret'[o] = "error" => done \/ (~InFlight(o) /\ ~FrameOut(o))
      PROVE  WireInv'
  <2>1. /\ pc'[o] = l /\ (InFlight(o)' <=> InFlight(o))
        /\ FrameOut(o)' <=> FrameOut(o)
    BY <1>0, <1>1, <1>3, SameFrame
  <2>2. StageFits(o)'
    BY <1>0, <1>1, <1>3, <2>1 DEF StageFits
  <2>3. FrameFits(o)'
    BY <1>0, <1>1, <1>3, <2>1 DEF FrameFits
  <2> QED
    BY <1>0, <1>1, <1>3, <2>2, <2>3, WireCaller
<1>4. CASE Handshake(o)
  BY <1>0, <1>3, <1>4 DEF Handshake, Enter, StageFits, FrameFits, CallerPCs
<1>5. CASE Call(o)
  BY <1>0, <1>3, <1>5 DEF Call, Enter, StageFits, FrameFits, CallerPCs
<1>6. CASE RespondServerRequest(o)
  BY <1>0, <1>3, <1>6 DEF RespondServerRequest, Enter, FrameFits, CallerPCs
<1>7. CASE Register(o) /\ done
  <2>1. Return(o, "error") /\ UNCHANGED stage /\ Goto(o, "ret")
    BY <1>7 DEF Register, Return
  <2> QED
    BY <1>2, <1>3, <1>7, <2>1 DEF CallerPCs
<1>8. CASE Timeout(o)
  <2>1. Return(o, "error") /\ UNCHANGED stage /\ Goto(o, "ret") /\ stage[o] = "call"
    BY <1>0, <1>8 DEF Timeout, Return, StageFits
  <2> QED
    BY <1>2, <1>3, <2>1 DEF CallerPCs
<1>9. CASE Result(o)
  <2>1. UNCHANGED stage /\ pc[o] = "result"
    BY <1>9 DEF Result
  <2>2. CASE wres[o] = "ok" /\ Written(o)
    <3>1. FrameOut(o) /\ ~InFlight(o)
      BY <1>0, <2>1, <2>2 DEF FrameFits, None
    <3>2. CASE stage[o] = "call" /\ Goto(o, "wait") /\ UNCHANGED ret
      BY <1>3, <2>1, <3>1, <3>2 DEF CallerPCs
    <3>3. CASE stage[o] = "write" /\ Return(o, "ok")
      <4>1. Goto(o, "ret") /\ ret'[o] = "ok" /\ \A p \in Ops \ {o} : ret'[p] = ret[p]
        BY <1>2, <3>3 DEF Return
      <4> QED
        BY <1>3, <2>1, <3>1, <4>1 DEF CallerPCs
    <3> QED
      BY <2>2, <3>2, <3>3 DEF Written
  <2>3. CASE (wres[o] = "err" \/ done) /\ WriteError(o)
    <3>1. done \/ (~FrameOut(o) /\ ~InFlight(o))
      BY <1>0, <2>1, <2>3 DEF FrameFits, None
    <3>2. CASE Goto(o, "fail") /\ UNCHANGED ret
      BY <1>3, <2>1, <3>2 DEF CallerPCs
    <3>3. CASE Return(o, "error")
      <4>1. Goto(o, "ret") /\ ret'[o] = "error" /\ \A p \in Ops \ {o} : ret'[p] = ret[p]
        BY <1>2, <3>3 DEF Return
      <4> QED
        BY <1>3, <2>1, <3>1, <4>1 DEF CallerPCs
    <3> QED
      BY <2>3, <3>2, <3>3 DEF WriteError
  <2>4. CASE Goto(o, "fail") /\ UNCHANGED ret
    BY <1>3, <2>1, <2>4 DEF CallerPCs
  <2> QED
    BY <1>9, <2>2, <2>3, <2>4 DEF Result
<1>10. CASE Wait(o)
  <2>1. pc[o] = "wait" /\ stage[o] = "call" /\ ~InFlight(o) /\ <<o, "write">> \notin written
    BY <1>0, <1>10 DEF Wait, StageFits, FrameFits
  <2>2. CASE Goto(o, "enqueue") /\ stage' = [stage EXCEPT ![o] = "write"] /\ UNCHANGED ret
             /\ Kind[o] = "handshake"
    <3>1. stage'[o] = "write" /\ \A p \in Ops \ {o} : stage'[p] = stage[p]
      BY <1>0, <2>2 DEF RestOK
    <3>2. pc'[o] = "enqueue" /\ (InFlight(o)' <=> InFlight(o))
      BY <1>0, <1>1, <2>2, SameFrame DEF CallerPCs
    <3>3. ~FrameOut(o)'
      BY <1>1, <2>1, <3>1 DEF FrameOut
    <3>4. StageFits(o)' /\ FrameFits(o)'
      BY <2>1, <2>2, <3>1, <3>2, <3>3 DEF StageFits, FrameFits
    <3> QED
      BY <1>0, <1>1, <2>2, <3>1, <3>4, WireCaller DEF CallerPCs
  <2>3. CASE UNCHANGED stage /\ (Return(o, "ok") \/ Return(o, "error"))
    <3>1. Goto(o, "ret") /\ \A p \in Ops \ {o} : ret'[p] = ret[p]
      BY <1>2, <2>3 DEF Return
    <3> QED
      BY <1>3, <2>1, <2>3, <3>1 DEF CallerPCs
  <2> QED
    BY <1>10, <2>2, <2>3 DEF Wait
<1> QED
  BY <1>4, <1>5, <1>6, <1>7, <1>8, <1>9, <1>10

(* writerLoop keeps WireInv: a frame that leaves its hands is out with     *)
(* result nil, or not out with an error.                                   *)
LEMMA WriterWire ==
  ASSUME Shape, SendInv, WireInv, WriterLoop \/ WriteFrame \/ WriteFails
  PROVE  WireInv'
<1>0. PcOK /\ RestOK /\ WriterOK
  BY ShapeParts
<1>1. UNCHANGED <<stage, ret, done>>
  BY DEF WriterLoop, WriteFrame, WriteFails, client
<1>2. \A p \in Ops : pc'[p] = pc[p]
  <2>1. \/ Goto(Writer, "end") \/ Goto(Writer, "write") \/ Goto(Writer, "loop")
        \/ Goto(Writer, "fail") \/ UNCHANGED pc
    BY DEF WriterLoop, WriteFrame, WriteFails
  <2> QED
    BY <1>0, <2>1, GotoWriter, RpcAssumption DEF WriterPCs, Procs
<1>3. ASSUME \A p \in Ops : InFlight(p)' => InFlight(p),
             NEW o \in Ops, InFlight(o), \A p \in Ops \ {o} : wres'[p] = wres[p],
             \A p \in Ops \ {o} : FrameOut(p)' <=> FrameOut(p),
             written \subseteq written', <<o, "write">> \in written' => stage[o] = "write",
             \A p \in Ops \ {o} : <<p, "write">> \in written' => <<p, "write">> \in written,
             \/ UNCHANGED <<wres, written>>
             \/ /\ ~InFlight(o)'
                /\ \/ wres'[o] = "ok" /\ FrameOut(o)'
                   \/ wres'[o] = "err" /\ UNCHANGED written
      PROVE  FrameInv'
  <2>1. ASSUME NEW p \in Ops PROVE StageFits(p)'
    <3>1. StageFits(p) /\ FrameFits(p) /\ FrameFits(o) /\ StageFits(o)
      BY DEF WireInv, FrameInv
    <3>2. stage[p] = "call" => <<p, "write">> \notin written'
      BY <1>0, <1>3, <3>1 DEF StageFits
    <3> QED
      BY <1>1, <1>2, <3>1, <3>2 DEF StageFits
  <2>2. ASSUME NEW p \in Ops \ {o} PROVE FrameFits(p)'
    BY <1>1, <1>2, <1>3 DEF WireInv, FrameInv, FrameFits
  <2>3. FrameFits(o)'
    <3>1. /\ FrameFits(o) /\ ~FrameOut(o) /\ wres[o] = None
          /\ pc[o] \notin {"idle", "register", "enqueue", "wait"}
          /\ pc[o] = "ret" /\ stage[o] = "write" => ret[o] # "ok" /\ (ret[o] = "error" => done)
      BY <1>3 DEF WireInv, FrameInv, FrameFits
    <3>2. UNCHANGED written => (FrameOut(o)' <=> FrameOut(o))
      BY <1>1 DEF FrameOut
    <3>3. pc'[o] = pc[o] /\ stage'[o] = stage[o] /\ ret'[o] = ret[o] /\ done' = done
      BY <1>1, <1>2
    <3>4. CASE UNCHANGED <<wres, written>>
      BY <1>3, <3>1, <3>2, <3>3, <3>4 DEF FrameFits
    <3>5. CASE ~InFlight(o)' /\ wres'[o] = "ok" /\ FrameOut(o)'
      BY <3>1, <3>3, <3>5 DEF FrameFits
    <3>6. CASE ~InFlight(o)' /\ wres'[o] = "err" /\ UNCHANGED written
      BY <3>1, <3>2, <3>3, <3>6 DEF FrameFits
    <3> QED
      BY <1>3, <3>4, <3>5, <3>6
  <2> QED
    BY <2>1, <2>2, <2>3 DEF FrameInv
<1>4. CASE WriteFrame \/ WriteFails
  <2>1. PICK o \in Ops : o = cur /\ pc[Writer] = "write"
    BY <1>0, <1>4 DEF WriteFrame, WriteFails, WriterOK
  <2>2. pc'[Writer] # "write" /\ UNCHANGED writes
    BY <1>0, <1>4, GotoWriter DEF WriteFrame, WriteFails, WriterPCs
  <2>3. \A p \in Ops : ~InHand(p)' /\ (Queued(p)' <=> Queued(p))
    BY <2>2 DEF InHand, Queued
  <2>4. InHand(o) /\ ~Queued(o)
    BY <2>1 DEF InHand, WireInv, QueueInv
  <2>5. (\A p \in Ops : InFlight(p)' => InFlight(p)) /\ InFlight(o) /\ ~InFlight(o)'
    BY <2>3, <2>4 DEF InFlight
  <2>6. QueueInv'
    BY <2>2, <2>3 DEF WireInv, QueueInv
  <2>7. \A p \in Ops \ {o} : wres'[p] = wres[p]
    BY <1>0, <1>4, <2>1 DEF WriteFrame, WriteFails, WriterOK
  <2>8. CASE WriteFrame
    <3>1. written' = written \cup {<<o, stage[o]>>} /\ wres'[o] = "ok"
      BY <1>0, <2>1, <2>8 DEF WriteFrame, WriterOK
    <3>2. FrameOut(o)' /\ \A p \in Ops \ {o} : FrameOut(p)' <=> FrameOut(p)
      BY <1>1, <3>1 DEF FrameOut
    <3>3. StageFits(o)
      BY DEF WireInv, FrameInv
    <3>4. <<o, "write">> \in written' => stage[o] = "write"
      BY <1>0, <3>1, <3>3 DEF StageFits, RestOK
    <3>5. \A p \in Ops \ {o} : <<p, "write">> \in written' => <<p, "write">> \in written
      BY <3>1
    <3> QED
      BY <1>3, <2>5, <2>6, <2>7, <3>1, <3>2, <3>4, <3>5 DEF WireInv
  <2>9. CASE WriteFails
    <3>1. written' = written /\ wres'[o] = "err"
      BY <1>0, <2>1, <2>9 DEF WriteFails, WriterOK
    <3>2. \A p \in Ops : FrameOut(p)' <=> FrameOut(p)
      BY <1>1, <3>1 DEF FrameOut
    <3>3. <<o, "write">> \in written' => stage[o] = "write"
      BY <1>0, <3>1 DEF WireInv, FrameInv, StageFits, RestOK
    <3> QED
      BY <1>3, <2>5, <2>6, <2>7, <3>1, <3>2, <3>3 DEF WireInv
  <2> QED
    BY <1>4, <2>8, <2>9
<1>5. CASE WriterLoop
  <2>1. pc[Writer] = "loop" /\ \A p \in Ops : ~InHand(p)
    BY <1>5 DEF WriterLoop, InHand
  <2>2. CASE Goto(Writer, "end") /\ UNCHANGED <<writes, wres, cur>>
    <3>1. \A p \in Ops : InHand(p)' <=> InHand(p)
      BY <1>0, <2>1, <2>2, GotoWriter DEF InHand, WriterPCs
    <3> QED
      BY <1>1, <1>2, <1>5, <2>2, <3>1, WireFrame DEF WriterLoop
  <2>3. CASE writes # <<>> /\ writes' = Tail(writes)
    <3>1. PICK o \in Ops : o = Head(writes)
      BY <1>0, <2>3, Popped DEF WriterOK, WireInv, QueueInv
    <3>2. /\ Queued(o) /\ \A p \in Ops : Queued(p)' <=> (Queued(p) /\ p # o)
          /\ \A i, j \in 1..Len(writes') : writes'[i] = writes'[j] => i = j
      BY <1>0, <2>3, <3>1, Popped DEF WriterOK, WireInv, QueueInv
    <3>3. UNCHANGED written /\ (\A p \in Ops : FrameOut(p)' <=> FrameOut(p)) /\ InFlight(o)
      BY <1>1, <1>5, <3>2 DEF WriterLoop, FrameOut, InFlight
    <3>4. <<o, "write">> \in written' => stage[o] = "write"
      BY <1>0, <3>3 DEF WireInv, FrameInv, StageFits, RestOK
    <3>5. CASE wres' = [wres EXCEPT ![o] = "err"] /\ UNCHANGED <<pc, cur>>
      <4>1. \A p \in Ops : ~InHand(p)'
        BY <2>1, <3>5 DEF InHand
      <4>2. (\A p \in Ops : InFlight(p)' => InFlight(p)) /\ ~InFlight(o)'
        BY <3>2, <4>1 DEF InFlight
      <4>3. wres'[o] = "err" /\ \A p \in Ops \ {o} : wres'[p] = wres[p]
        BY <1>0, <3>5 DEF WriterOK
      <4>4. QueueInv'
        BY <3>2, <4>1 DEF QueueInv
      <4> QED
        BY <1>3, <3>3, <3>4, <4>2, <4>3, <4>4 DEF WireInv
    <3>6. CASE cur' = o /\ Goto(Writer, "write") /\ UNCHANGED wres
      <4>1. \A p \in Ops : InHand(p)' <=> p = o
        BY <1>0, <3>6, GotoWriter DEF InHand, WriterPCs
      <4>2. \A p \in Ops : InFlight(p)' => InFlight(p)
        BY <3>2, <4>1 DEF InFlight
      <4>3. QueueInv'
        BY <3>2, <4>1 DEF QueueInv
      <4> QED
        BY <1>3, <3>3, <3>4, <3>6, <4>2, <4>3 DEF WireInv
    <3> QED
      BY <1>5, <2>3, <3>1, <3>5, <3>6, <2>2 DEF WriterLoop
  <2> QED
    BY <1>5, <2>2, <2>3 DEF WriterLoop
<1> QED
  BY <1>4, <1>5

(* Every step keeps WireInv.                                               *)
LEMMA WireStep == ASSUME Shape, SendInv, WireInv, Next PROVE WireInv'
<1>0. PcOK /\ RestOK /\ WriterOK
  BY ShapeParts
<1>1. ASSUME NEW o \in Ops, \/ Handshake(o) \/ Call(o) \/ RespondServerRequest(o) \/ Result(o)
                            \/ Wait(o) \/ Timeout(o)
      PROVE  WireInv'
  BY <1>1, CallerWire
<1>2. ASSUME NEW o \in Ops, Enqueue(o) PROVE WireInv'
  BY <1>2, EnqueueWire
<1>3. ASSUME NEW o \in Ops, Register(o) PROVE WireInv'
  <2>1. CASE done
    BY <1>3, <2>1, CallerWire
  <2>2. CASE ~done
    <3>1. /\ UNCHANGED <<writes, cur, wres, written, stage, ret, done>> /\ pc[o] = "register"
          /\ pc' = [pc EXCEPT ![o] = "enqueue", ![Reader] = IF @ = "off" THEN "read" ELSE @]
      BY <1>3, <2>2 DEF Register, queues
    <3>2. /\ pc'[o] = "enqueue" /\ pc'[Writer] = pc[Writer]
          /\ \A p \in Ops \ {o} : pc'[p] = pc[p]
      BY <1>0, <3>1, GotoAndRead DEF CallerPCs
    <3>3. \A p \in Ops : /\ (InHand(p)' <=> InHand(p)) /\ (Queued(p)' <=> Queued(p))
                         /\ (FrameOut(p)' <=> FrameOut(p))
      BY <3>1, <3>2 DEF InHand, Queued, FrameOut
    <3>4. \A p \in Ops : InFlight(p)' <=> InFlight(p)
      BY <3>3 DEF InFlight
    <3>5. QueueInv'
      BY <3>1, <3>3 DEF WireInv, QueueInv
    <3>6. \A p \in Ops : StageFits(p)'
      BY <3>1, <3>2 DEF WireInv, FrameInv, StageFits
    <3>7. FrameFits(o)'
      BY <3>1, <3>2, <3>3, <3>4 DEF WireInv, FrameInv, FrameFits
    <3>8. \A p \in Ops \ {o} : FrameFits(p)'
      BY <3>1, <3>2, <3>3, <3>4 DEF WireInv, FrameInv, FrameFits
    <3> QED
      BY <3>5, <3>6, <3>7, <3>8 DEF WireInv, FrameInv
  <2> QED
    BY <2>1, <2>2
<1>4. CASE WriterLoop \/ WriteFrame \/ WriteFails
  BY <1>4, WriterWire
<1>5. CASE ReaderLoop \/ ReadFails
  <2>1. /\ UNCHANGED <<writes, cur, wres, written, stage, ret, done>>
        /\ UNCHANGED pc \/ Goto(Reader, "fail")
    BY <1>5 DEF ReaderLoop, ReadFails, client, queues
  <2>2. pc'[Writer] = pc[Writer] /\ \A p \in Ops : pc'[p] = pc[p]
    BY <1>0, <2>1, GotoReader, RpcAssumption DEF ReaderPCs, Procs
  <2>3. \A p \in Ops : InHand(p)' <=> InHand(p)
    BY <2>1, <2>2 DEF InHand
  <2> QED
    BY <2>1, <2>2, <2>3, WireFrame
<1>6. ASSUME NEW g \in Procs, FailReturns(g) PROVE WireInv'
  <2>1. /\ UNCHANGED <<writes, cur, wres, written, stage, done>>
        /\ pc[g] = "fail" /\ once.state = "done"
    BY <1>6 DEF FailReturns, client, queues
  <2>2. CASE g \in Ops
    <3>1. Goto(g, "ret") /\ Return(g, "error") /\ done
      BY <1>6, <2>1, <2>2 DEF FailReturns, Return, SendInv, OnceInv
    <3>2. ret'[g] = "error" /\ \A p \in Ops \ {g} : ret'[p] = ret[p]
      BY <1>0, <2>2, <3>1 DEF Return, RestOK
    <3>3. /\ pc'[g] = "ret" /\ (InFlight(g)' <=> InFlight(g))
          /\ FrameOut(g)' <=> FrameOut(g)
      BY <1>0, <2>1, <2>2, <3>1, SameFrame DEF CallerPCs
    <3>4. StageFits(g)'
      BY <2>1, <2>2, <3>3 DEF WireInv, FrameInv, StageFits
    <3>5. FrameFits(g)'
      BY <2>1, <2>2, <3>1, <3>2, <3>3 DEF WireInv, FrameInv, FrameFits
    <3> QED
      BY <1>0, <2>1, <2>2, <3>1, <3>2, <3>4, <3>5, WireCaller DEF CallerPCs
  <2>3. CASE g \notin Ops
    <3>1. Goto(g, "end") /\ UNCHANGED ret
      BY <1>6, <2>3 DEF FailReturns
    <3>2. /\ \A p \in Ops : pc'[p] = pc[p]
          /\ pc[Writer] # "write" => pc'[Writer] # "write"
          /\ pc[Writer] = "write" => pc'[Writer] = "write"
      BY <1>0, <2>1, <2>3, <3>1, GotoReader, GotoWriter, RpcAssumption
         DEF Procs, ReaderPCs, WriterPCs
    <3>3. \A p \in Ops : InHand(p)' <=> InHand(p)
      BY <2>1, <3>2 DEF InHand
    <3> QED
      BY <2>1, <3>1, <3>2, <3>3, WireFrame
  <2> QED
    BY <2>2, <2>3
<1>7. ASSUME UNCHANGED <<writes, cur, wres, written, stage, pc, ret>>, done => done'
      PROVE  WireInv'
  <2>1. \A p \in Ops : InHand(p)' <=> InHand(p)
    BY <1>7 DEF InHand
  <2> QED
    BY <1>7, <2>1, WireFrame
<1>8. ASSUME NEW o \in Ops, Expire(o) \/ Answer(o) PROVE WireInv'
  BY <1>7, <1>8 DEF Expire, Answer, Emit, client, queues
<1>9. CASE ConfigureMethods \/ Notify \/ FailSends \/ FailFirst
  BY <1>7, <1>9 DEF ConfigureMethods, Notify, Emit, FailSends, FailFirst, client, queues
<1> QED
  BY <1>1, <1>2, <1>3, <1>4, <1>5, <1>6, <1>8, <1>9, Steps

-----------------------------------------------------------------------------
(* The inductive invariant holds in every state of the client (call,       *)
(* write, readerLoop, writerLoop, fail).                                   *)
THEOREM ClientInvariant == Spec => []IInv
<1>1. IInv /\ [Next]_vars => IInv'
  <2> SUFFICES ASSUME IInv, [Next]_vars PROVE IInv'
    OBVIOUS
  <2>1. Shape'
    BY ShapeStep DEF IInv
  <2>2. CASE Next
    <3>1. SendInv'
      BY <2>2, SendStep DEF IInv, SendInv
    <3>2. WireInv'
      BY <2>2, WireStep DEF IInv, SendInv, WireInv
    <3> QED
      BY <2>1, <3>1, <3>2 DEF IInv, SendInv, WireInv
  <2>3. CASE UNCHANGED vars
    <3>1. /\ UNCHANGED <<done, once, sends, resp, pending, pc>>
          /\ UNCHANGED <<writes, cur, wres, written, stage, ret>>
      BY <2>3 DEF vars, client, queues
    <3>2. SendInv'
      BY <3>1, SendFrame DEF IInv, SendInv
    <3>3. \A p \in Ops : InHand(p)' <=> InHand(p)
      BY <3>1 DEF InHand
    <3>4. WireInv'
      BY <3>1, <3>3, WireFrame DEF IInv, WireInv
    <3> QED
      BY <2>1, <3>2, <3>4 DEF IInv, SendInv, WireInv
  <2> QED
    BY <2>2, <2>3
<1> QED
  BY InitInv, <1>1, PTL DEF Spec

(* Every variable keeps its type and the writes queue its capacity         *)
(* (Client).                                                               *)
THEOREM ClientTypeCorrect == Spec => []TypeOK
<1>1. IInv => TypeOK
  BY DEF IInv, Shape
<1> QED
  BY <1>1, ClientInvariant, PTL

(* readerLoop and fail together send at most one value to the response     *)
(* channel of a call, whatever the Provider repeats and whatever times     *)
(* out.                                                                    *)
THEOREM CallsAnsweredOnce == Spec => []AnsweredOnce
<1>1. IInv => AnsweredOnce
  BY DEF IInv
<1> QED
  BY <1>1, ClientInvariant, PTL

(* readerLoop and fail never block on a response channel: the waiters they *)
(* send to have an empty one. This is what lets fail, which runs inside    *)
(* failOnce, always return.                                                *)
THEOREM SendersNeverBlock == Spec => []NeverBlocks
<1>1. IInv => NeverBlocks
  BY DEF IInv
<1> QED
  BY <1>1, ClientInvariant, PTL

(* RespondServerRequest returns nil only when its frame is on the wire,    *)
(* and an error of a client that has not failed means that the Provider    *)
(* will never see the frame (write, writerLoop).                           *)
THEOREM WriteOutcomesKnown == Spec => []WriteOutcomeKnown
<1>1. IInv => WriteOutcomeKnown
  <2> SUFFICES ASSUME IInv, NEW o \in Ops, Kind[o] = "respond", pc[o] = "ret"
               PROVE  /\ ret[o] = "ok" => <<o, "write">> \in written
                      /\ ret[o] = "error" /\ <<o, "write">> \in written => done
    BY DEF WriteOutcomeKnown
  <2>1. stage[o] = "write" /\ FrameFits(o)
    BY DEF IInv, FrameInv, StageFits
  <2> QED
    BY <2>1 DEF FrameFits, FrameOut
<1> QED
  BY <1>1, ClientInvariant, PTL

=============================================================================
