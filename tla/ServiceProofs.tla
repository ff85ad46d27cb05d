--------------------------- MODULE ServiceProofs ---------------------------
(***************************************************************************)
(* The path of one call implements the service that the session model is   *)
(* composed with, for every value of the constants.                        *)
(***************************************************************************)
EXTENDS AnswerProofs, SequenceTheorems

\* A call that has finished reads no response any more.
FinishedReads ==
    callState = "Finished" =>
        ~Arriving /\ (Idle("recvMessage") \/ (stream # "live" /\ unread = 0))

\* The end of a call is not told before it.
IsEnd(b) == b \in {"completed", "failed"}
NoEnd(q) == \A i \in DOMAIN q : ~IsEnd(q[i])
LiveQueue == callState # "Finished" => NoEnd(responses)

EndInv == FinishedReads /\ LiveQueue

-----------------------------------------------------------------------------
(* The blocks of the main queue, mapped.                                   *)

LEMMA MappedType ==
    ASSUME NEW b \in Response, NEW c \in BOOLEAN
    PROVE  MappedBlock(b, c) \in Service!Blocks
BY DEF MappedBlock, Service!Blocks, Service!BlockKinds

LEMMA MappedShape ==
    ASSUME NEW q \in Seq(Response), NEW c \in BOOLEAN
    PROVE  /\ MappedBlocks(q, c) \in Seq(Service!Blocks)
           /\ Len(MappedBlocks(q, c)) = Len(q) /\ Len(q) \in Nat
           /\ DOMAIN MappedBlocks(q, c) = 1..Len(q)
           /\ \A i \in 1..Len(q) : MappedBlocks(q, c)[i] = MappedBlock(q[i], c)
<1>1. DOMAIN q = 1..Len(q) /\ Len(q) \in Nat /\ \A i \in 1..Len(q) : q[i] \in Response
  BY LenProperties, ElementOfSeq
<1>2. \A i \in 1..Len(q) : MappedBlock(q[i], c) \in Service!Blocks
  BY <1>1, MappedType
<1>3. MappedBlocks(q, c) \in [1..Len(q) -> Service!Blocks]
  BY <1>1, <1>2 DEF MappedBlocks
<1>4. MappedBlocks(q, c) \in Seq(Service!Blocks)
  BY <1>1, <1>3, SeqDef
<1>5. DOMAIN MappedBlocks(q, c) = 1..Len(q)
  BY <1>3
<1>6. Len(MappedBlocks(q, c)) = Len(q)
  BY <1>1, <1>4, <1>5, LenProperties
<1> QED
  BY <1>1, <1>4, <1>5, <1>6 DEF MappedBlocks

LEMMA MappedAppend ==
    ASSUME NEW q \in Seq(Response), NEW e \in Response, NEW c \in BOOLEAN
    PROVE  MappedBlocks(Append(q, e), c) = Append(MappedBlocks(q, c), MappedBlock(e, c))
<1> DEFINE m == MappedBlocks(q, c)
           n == MappedBlocks(Append(q, e), c)
           f == MappedBlock(e, c)
<1>1. /\ Append(q, e) \in Seq(Response) /\ Len(Append(q, e)) = Len(q) + 1
      /\ \A i \in 1..Len(q) : Append(q, e)[i] = q[i]
      /\ Append(q, e)[Len(q) + 1] = e
  BY AppendProperties
<1>2. /\ m \in Seq(Service!Blocks) /\ Len(m) = Len(q) /\ Len(q) \in Nat
      /\ \A i \in 1..Len(q) : m[i] = MappedBlock(q[i], c)
  BY MappedShape
<1>3. /\ n \in Seq(Service!Blocks) /\ Len(n) = Len(q) + 1
      /\ \A i \in 1..(Len(q) + 1) : n[i] = MappedBlock(Append(q, e)[i], c)
  BY <1>1, MappedShape
<1>4. f \in Service!Blocks
  BY MappedType
<1> HIDE DEF m, n
<1>5. /\ Append(m, f) \in Seq(Service!Blocks) /\ Len(Append(m, f)) = Len(q) + 1
      /\ \A i \in 1..Len(q) : Append(m, f)[i] = m[i]
      /\ Append(m, f)[Len(q) + 1] = f
  BY <1>2, <1>4, AppendProperties
<1>6. \A i \in 1..(Len(q) + 1) : n[i] = Append(m, f)[i]
  BY <1>1, <1>2, <1>3, <1>5
<1> QED
  BY <1>3, <1>5, <1>6, SeqEqual DEF m, n

LEMMA MappedTail ==
    ASSUME NEW q \in Seq(Response), q # <<>>, NEW c \in BOOLEAN
    PROVE  MappedBlocks(q, c) # <<>> /\ MappedBlocks(Tail(q), c) = Tail(MappedBlocks(q, c))
<1> DEFINE m == MappedBlocks(q, c)
           n == MappedBlocks(Tail(q), c)
<1>1. /\ Tail(q) \in Seq(Response) /\ Len(Tail(q)) = Len(q) - 1
      /\ \A i \in 1..Len(Tail(q)) : Tail(q)[i] = q[i + 1]
  BY HeadTailProperties
<1>2. /\ m \in Seq(Service!Blocks) /\ Len(m) = Len(q) /\ Len(q) \in Nat \ {0}
      /\ \A i \in 1..Len(q) : m[i] = MappedBlock(q[i], c)
  BY MappedShape, EmptySeq
<1>3. /\ n \in Seq(Service!Blocks) /\ Len(n) = Len(q) - 1
      /\ \A i \in 1..(Len(q) - 1) : n[i] = MappedBlock(Tail(q)[i], c)
  BY <1>1, MappedShape
<1> HIDE DEF m, n
<1>4. m # <<>>
  BY <1>2, EmptySeq
<1>5. /\ Tail(m) \in Seq(Service!Blocks) /\ Len(Tail(m)) = Len(q) - 1
      /\ \A i \in 1..(Len(q) - 1) : Tail(m)[i] = m[i + 1]
  BY <1>2, <1>4, HeadTailProperties
<1>6. \A i \in 1..(Len(q) - 1) : n[i] = Tail(m)[i]
  BY <1>1, <1>2, <1>3, <1>5
<1> QED
  BY <1>3, <1>4, <1>5, <1>6, SeqEqual DEF m, n

\* What an error drops from the queue of the service is what a cancelled call
\* drops when it gets there.
LEMMA MappedCancel ==
    ASSUME NEW q \in Seq(Response)
    PROVE  Service!Cancel(MappedBlocks(q, FALSE), Service!AnswersOf(1)) = MappedBlocks(q, TRUE)
<1>1. /\ DOMAIN MappedBlocks(q, FALSE) = 1..Len(q) /\ DOMAIN q = 1..Len(q)
      /\ \A i \in 1..Len(q) : /\ MappedBlocks(q, FALSE)[i] = MappedBlock(q[i], FALSE)
                             /\ q[i] \in Response
  BY MappedShape, LenProperties, ElementOfSeq
<1>2. \A b \in Response :
          (IF MappedBlock(b, FALSE) \in Service!AnswersOf(1) THEN Service!Block("skipped", 0)
                                                              ELSE MappedBlock(b, FALSE))
              = MappedBlock(b, TRUE)
  BY DEF Response, MappedBlock, Service!AnswersOf, Service!Block
<1> QED
  BY <1>1, <1>2 DEF Service!Cancel, MappedBlocks

-----------------------------------------------------------------------------
(* Where the reads and the end of a finished call may be.                  *)

LEMMA InitEnd == Init => EndInv
BY DEF Init, CoreInit, EndInv, FinishedReads, LiveQueue, NoEnd

LEMMA EndAppend ==
    ASSUME NEW q \in Seq(Response), NEW e \in Response, NoEnd(q), ~IsEnd(e)
    PROVE  NoEnd(Append(q, e))
BY AppendIndex DEF NoEnd

LEMMA EndTail ==
    ASSUME NEW q \in Seq(Response), q # <<>>, NoEnd(q)
    PROVE  NoEnd(Tail(q))
BY TailIndex DEF NoEnd

\* A call that has finished has nothing left to be read.
ReadsDone == stream # "live" /\ unread = 0

LEMMA ReadsKept ==
    ASSUME FinishedReads,
           callState' = "Finished" =>
               /\ callState = "Finished"
               /\ Arriving' => Arriving
               /\ Idle("recvMessage") => Idle("recvMessage")'
               /\ ReadsDone => ReadsDone'
    PROVE  FinishedReads'
BY DEF FinishedReads, ReadsDone

\* The steps that have nothing to do with reads.
LEMMA EndFrame ==
    ASSUME EndInv, UNCHANGED <<cq, slot, callQueue, stream, unread, callState, responses>>
    PROVE  EndInv'
BY DEF EndInv, FinishedReads, LiveQueue, NoEnd, IsEnd, Arriving, ArrivingIn, IsAnswer, Idle, IdleIn,
       Queued

LEMMA FrameEnd ==
    ASSUME EndInv,
           \/ StartForwarding \/ StartPipe \/ ResumeWriteQueue \/ WriteRequest
           \/ ResumeWriter \/ FinishForwarding \/ FinishWriter \/ CheckAnswer \/ UNCHANGED vars
    PROVE  EndInv'
<1>1. UNCHANGED <<cq, slot, callQueue, stream, unread, callState, responses>>
  BY DEF StartForwarding, StartPipe, ResumeWriteQueue, WriteRequest, ResumeWriter,
         FinishForwarding, FinishWriter, CheckAnswer, vars, coreVars, callVars, responseVars
<1> QED
  BY <1>1, EndFrame

\* A block for another operation, or none.
LEMMA OtherBlock ==
    ASSUME EndInv, CallInv, UNCHANGED <<cq, slot, stream, unread, callState, responses>>,
           \/ callQueue' = callQueue
           \/ callState # "Finished"
           \/ \E b \in CallBlock : "recvMessage" \notin b.ops /\ callQueue' = Append(callQueue, b)
    PROVE  EndInv'
<1>1. LiveQueue'
  BY DEF EndInv, LiveQueue, NoEnd
<1>2. callState = "Finished" => (Idle("recvMessage") => Idle("recvMessage")')
  <2>1. callQueue \in Seq(CallBlock)
    BY DEF CallInv, StreamTypeOK
  <2>2. CASE callQueue' = callQueue
    BY <2>2 DEF Idle, IdleIn
  <2>3. ASSUME NEW b \in CallBlock, "recvMessage" \notin b.ops, callQueue' = Append(callQueue, b)
        PROVE  Queued(callQueue', "recvMessage") <=> Queued(callQueue, "recvMessage")
    BY <2>1, <2>3, QueuedAppend
  <2> QED
    BY <2>2, <2>3 DEF Idle, IdleIn
<1>3. FinishedReads'
  BY <1>2, ReadsKept DEF EndInv, Arriving, ReadsDone
<1> QED
  BY <1>1, <1>3 DEF EndInv

LEMMA MainEnd ==
    ASSUME EndInv, CallInv, AnswersInv,
           OpenCall \/ InvokeCall \/ CallNotMade \/ StopStreaming \/ PipeStep
    PROVE  EndInv'
<1>1. CASE OpenCall
  <2>1. callState = "NotStarted" /\ callState' = "Started" /\ responses' = responses
    BY <1>1 DEF OpenCall, AnswersInv, FinishOK, responseVars
  <2> QED
    BY <2>1 DEF EndInv, FinishedReads, LiveQueue, NoEnd
<1>2. CASE InvokeCall
  <2>1. /\ UNCHANGED <<cq, slot, stream, unread, callState, responses>>
        /\ callQueue' = Append(callQueue, Batch({"sendHeaders", "recvHeaders", "recvStatus"}))
    BY <1>2 DEF InvokeCall, coreVars, responseVars
  <2>2. /\ Batch({"sendHeaders", "recvHeaders", "recvStatus"}) \in CallBlock
        /\ "recvMessage" \notin Batch({"sendHeaders", "recvHeaders", "recvStatus"}).ops
    BY BatchType DEF Batch, Ops
  <2> QED
    BY <2>1, <2>2, OtherBlock
<1>3. CASE CallNotMade
  <2>1. main = "opening" /\ callState' = "Finished" /\ UNCHANGED <<cq, slot, callQueue>>
    BY <1>3 DEF CallNotMade, FinishCall, coreVars
  <2>2. slot["recvHeaders"] = "free"
    BY <2>1 DEF CallInv, Parts, OnceInv, Idle, IdleIn
  <2>3. Idle("recvMessage")
    BY <2>2 DEF CallInv, Parts, ReaderInv
  <2>4. ~Arriving
    BY <2>3 DEF CallInv, Parts, QueueInv, Arriving, ArrivingIn, IsAnswer, Idle, IdleIn
  <2> QED
    BY <2>1, <2>3, <2>4 DEF EndInv, FinishedReads, LiveQueue, Idle, Arriving
<1>4. CASE StopStreaming
  <2>1. /\ UNCHANGED <<cq, slot, stream, unread, callState, responses>>
        /\ callQueue' \in {callQueue, Append(callQueue, Batch({"sendClose"}))}
    BY <1>4 DEF StopStreaming, coreVars, responseVars
  <2>2. Batch({"sendClose"}) \in CallBlock /\ "recvMessage" \notin Batch({"sendClose"}).ops
    BY BatchType DEF Batch, Ops
  <2> QED
    BY <2>1, <2>2, OtherBlock
<1>5. CASE PipeStep
  <2>1. /\ UNCHANGED <<cq, slot, stream, unread, callState, responses>>
        /\ callQueue' = callQueue \/ callState # "Finished"
    BY <1>5 DEF PipeStep, Accepted, coreVars, responseVars
  <2> QED
    BY <2>1, OtherBlock
<1> QED
  BY <1>1, <1>2, <1>3, <1>4, <1>5

LEMMA RunEndInv ==
    ASSUME EndInv, CallInv, RunResponse
    PROVE  EndInv'
<1>0. responses \in Seq(Response) /\ responses # <<>>
  BY DEF RunResponse, CheckAnswer, RunAnswer, RunBadAnswer, RunEnd, RunDropped, Taking,
         InHandInv, CallInv, StreamTypeOK, Response
<1>1. CASE RunAnswer \/ RunEnd \/ RunDropped
  <2>1. /\ UNCHANGED <<cq, slot, stream, unread, callState>> /\ responses' = Tail(responses)
        /\ callQueue' = callQueue \/ callState # "Finished"
    BY <1>1 DEF RunAnswer, StartNextRead, RunEnd, RunDropped, coreVars, callVars
  <2>2. LiveQueue'
    BY <1>0, <2>1, EndTail DEF EndInv, LiveQueue
  <2>3. FinishedReads'
    BY <2>1, ReadsKept DEF EndInv, Arriving, ReadsDone, Idle
  <2> QED
    BY <2>2, <2>3 DEF EndInv
<1>2. CASE RunBadAnswer
  <2>1. /\ callState' = "Finished" /\ UNCHANGED <<cq, slot, callQueue>>
        /\ Head(responses) = "answer"
    BY <1>2 DEF RunBadAnswer, FinishCall, coreVars, InHandInv, CallInv
  <2>2. AnswerWaits
    BY <1>0, <2>1, TailIndex DEF AnswerWaits
  <2>3. Idle("recvMessage")
    BY <2>2 DEF CallInv, Parts, ReaderInv
  <2>4. ~Arriving
    BY <2>3 DEF CallInv, Parts, QueueInv, Arriving, ArrivingIn, IsAnswer, Idle, IdleIn
  <2> QED
    BY <2>1, <2>3, <2>4 DEF EndInv, FinishedReads, LiveQueue, Idle, Arriving
<1> QED
  BY <1>1, <1>2, FrameEnd DEF RunResponse

LEMMA CallQueueEnd ==
    ASSUME EndInv, CallInv, CallQueueStep
    PROVE  EndInv'
<1>1. /\ UNCHANGED <<cq, stream, unread, callState, responses>>
      /\ callQueue \in Seq(CallBlock) /\ callQueue # <<>> /\ callQueue' = Tail(callQueue)
      /\ slot \in [Ops -> {"free", "busy", "posted", "used"}]
  BY DEF CallQueueStep, SendMessage, Start, StartBatches, callVars, responseVars, CallInv,
         StreamTypeOK, CoreTypeOK
<1>2. LiveQueue'
  BY <1>1 DEF EndInv, LiveQueue, NoEnd
<1>3. ASSUME Idle("recvMessage") PROVE Idle("recvMessage")'
  <2>1. ~Queued(callQueue', "recvMessage") /\ "recvMessage" \notin Head(callQueue).ops
    BY <1>1, <1>3, QueuedTail DEF CallInv, Parts, QueueInv, Idle, IdleIn, Ops
  <2>2. slot'["recvMessage"] = slot["recvMessage"]
    BY <1>1, <2>1 DEF CallQueueStep, SendMessage, Start, StartBatches, Ops
  <2> QED
    BY <1>3, <2>1, <2>2 DEF Idle, IdleIn
<1>4. FinishedReads'
  BY <1>1, <1>3, ReadsKept DEF EndInv, Arriving, ReadsDone
<1> QED
  BY <1>2, <1>4 DEF EndInv

LEMMA LoopEnd ==
    ASSUME EndInv, CallInv, AnswersInv, LoopStep
    PROVE  EndInv'
<1>0. StreamTypeOK
  BY DEF CallInv
<1>1. CASE WriteDone \/ HeadersReceived \/ NothingToHandle
  <2>1. PICK op \in Ops, ok \in BOOLEAN : Completed(op, ok)
    BY <1>1 DEF WriteDone, HeadersReceived, NothingToHandle, Ops
  <2>2. /\ cq \in Seq(Completion) /\ cq # <<>> /\ cq' = Tail(cq) /\ UNCHANGED <<stream, unread>>
    BY <1>0, <2>1, TakenEvent
  <2>3. /\ UNCHANGED <<callState, responses>>
        /\ callQueue' = callQueue \/ callState # "Finished"
    BY <1>1 DEF WriteDone, HeadersReceived, StartNextRead, NothingToHandle, callVars, responseVars
  <2>4. slot'["recvMessage"] \in {slot["recvMessage"], "free"}
    BY <2>1 DEF Completed, TakeCompletion, CallInv, StreamTypeOK, CoreTypeOK, OnceOps, Ops
  <2>5. Arriving' => Arriving
    BY <2>2, TailEvent DEF Arriving
  <2>6. LiveQueue'
    BY <2>3 DEF EndInv, LiveQueue, NoEnd
  <2>7. FinishedReads'
    BY <2>2, <2>3, <2>4, <2>5, ReadsKept DEF EndInv, ReadsDone, Idle, IdleIn
  <2> QED
    BY <2>6, <2>7 DEF EndInv
<1>2. CASE MessageReceived
  <2>1. /\ Arriving /\ callState' = callState /\ responses \in Seq(Response)
        /\ responses' = Append(responses, "answer")
    <3>1. cq \in Seq(Completion) /\ cq # <<>> /\ IsAnswer(Head(cq))
      BY <1>0, <1>2, TakenEvent DEF MessageReceived
    <3> QED
      BY <1>2, <3>1, TailEvent DEF MessageReceived, Arriving, callVars, CallInv, StreamTypeOK, Response
  <2>2. callState # "Finished"
    BY <2>1 DEF EndInv, FinishedReads
  <2>3. LiveQueue'
    BY <2>1, EndAppend DEF EndInv, LiveQueue, Response, IsEnd
  <2> QED
    BY <2>1, <2>2, <2>3 DEF EndInv, FinishedReads
<1>3. CASE StatusReceived
  <2>1. PICK ok \in BOOLEAN : Completed("recvStatus", ok) /\ FinishCall(ok, responses)
    BY <1>3 DEF StatusReceived
  <2>2. /\ cq \in Seq(Completion) /\ cq # <<>> /\ cq' = Tail(cq) /\ Head(cq).op = "recvStatus"
        /\ UNCHANGED <<stream, unread>>
    BY <1>0, <2>1, TakenEvent
  <2>3. stream # "live" /\ unread = 0 /\ ~Arriving'
    BY <2>2, TailEvent DEF AnswersInv, StatusLast, Arriving
  <2>4. callState' = "Finished"
    BY <2>1 DEF FinishCall
  <2> QED
    BY <2>2, <2>3, <2>4 DEF EndInv, FinishedReads, LiveQueue
<1>4. CASE MessageNotHeld
  <2>0. Completed("recvMessage", TRUE) /\ FinishCall(FALSE, responses) /\ callQueue' = callQueue
    BY <1>4 DEF MessageNotHeld
  <2>1. /\ cq \in Seq(Completion) /\ cq # <<>> /\ cq' = Tail(cq)
        /\ Head(cq).op = "recvMessage" /\ IsAnswer(Head(cq))
    BY <1>0, <2>0, TakenEvent
  <2>2. callState' = "Finished"
    BY <2>0 DEF FinishCall
  <2>3. slot["recvMessage"] = "posted" /\ slot'["recvMessage"] = "free"
    <3>1. slot["recvMessage"] = "posted"
      BY <2>1, TailIndex DEF CallInv, Parts, QueueInv
    <3>2. slot' = [slot EXCEPT !["recvMessage"] = "free"]
      BY <2>0, <2>1 DEF Completed, TakeCompletion, OnceOps
    <3> QED
      BY <3>1, <3>2 DEF CallInv, StreamTypeOK, CoreTypeOK, Ops
  <2>4. ~Queued(callQueue, "recvMessage")
    BY <2>3 DEF CallInv, Parts, QueueInv, Ops
  <2>5. Idle("recvMessage")'
    BY <2>0, <2>3, <2>4 DEF Idle, IdleIn
  <2>6. ~Arriving'
    <3>1. \A i, j \in DOMAIN cq : cq[i].op = cq[j].op => i = j
      BY DEF CallInv, Parts, QueueInv
    <3>2. /\ 1 \in DOMAIN cq /\ cq[1] = Head(cq)
          /\ \A i \in DOMAIN cq' : i \in Nat \ {0} /\ i + 1 \in DOMAIN cq /\ cq'[i] = cq[i + 1]
      BY <2>1, TailIndex
    <3> QED
      BY <2>1, <3>1, <3>2 DEF Arriving, ArrivingIn, IsAnswer
  <2> QED
    BY <2>2, <2>5, <2>6 DEF EndInv, FinishedReads, LiveQueue
<1>5. CASE CancelCall
  <2>1. /\ UNCHANGED <<cq, slot, callQueue, callState, responses>>
        /\ stream # "live" => stream' = stream
        /\ unread' = 0
    BY <1>5 DEF CancelCall, Cancel, responseVars
  <2>2. FinishedReads'
    BY <2>1, ReadsKept DEF EndInv, Arriving, Idle, ReadsDone
  <2> QED
    BY <2>1, <2>2 DEF EndInv, LiveQueue, NoEnd
<1> QED
  BY <1>1, <1>2, <1>3, <1>4, <1>5, FrameEnd DEF LoopStep

LEMMA StreamEnd ==
    ASSUME EndInv, CallInv, StreamStep \/ NetworkStep
    PROVE  EndInv'
<1>1. UNCHANGED <<callState, responses, callQueue>>
  BY DEF StreamStep, NetworkStep, RestUnchanged, callVars, responseVars
<1>2. LiveQueue'
  BY <1>1 DEF EndInv, LiveQueue, NoEnd
<1>3. CASE StreamStep
  <2>1. PICK op \in Ops, ok \in BOOLEAN :
            /\ Complete(op, ok)
            /\ op = "recvMessage" /\ ok => unread > 0
            /\ op = "recvMessage" \/ unread' = unread
            /\ ~ok => unread' = unread
            /\ stream' = stream
    BY <1>3 DEF StreamStep, StreamSteps, HeadersSent, MessageSent, CloseSent, HeadersArrive,
                MessageRead, NoMoreMessages, StatusArrives, Ops
  <2>2. PICK e \in Completion :
            /\ cq \in Seq(Completion) /\ cq' = Append(cq, e)
            /\ IsAnswer(e) <=> op = "recvMessage" /\ ok
    BY <2>1, PostedEvent
  <2>3. /\ slot[op] = "busy" /\ slot' = [slot EXCEPT ![op] = "posted"]
        /\ slot \in [Ops -> {"free", "busy", "posted", "used"}]
    BY <2>1 DEF Complete, CallInv, StreamTypeOK, CoreTypeOK
  <2>4. CASE op = "recvMessage" /\ ok
    <3>1. ~Idle("recvMessage") /\ ~(unread = 0)
      BY <2>1, <2>3, <2>4 DEF Idle, IdleIn
    <3> QED
      BY <1>1, <1>2, <3>1 DEF EndInv, FinishedReads
  <2>5. CASE ~(op = "recvMessage" /\ ok)
    <3>1. Arriving' => Arriving
      BY <2>2, <2>5, AppendEvent DEF Arriving
    <3>2. Idle("recvMessage") => Idle("recvMessage")'
      BY <1>1, <2>3 DEF Idle, IdleIn, Ops
    <3>3. ReadsDone => ReadsDone'
      BY <2>1, <2>5 DEF ReadsDone
    <3>4. FinishedReads'
      BY <1>1, <3>1, <3>2, <3>3, ReadsKept DEF EndInv
    <3> QED
      BY <1>2, <3>4 DEF EndInv
  <2> QED
    BY <2>4, <2>5
<1>4. CASE NetworkStep
  <2>1. UNCHANGED <<cq, slot>> /\ stream = "live"
    BY <1>4 DEF NetworkStep, ServerSends, StreamEnds
  <2>2. FinishedReads'
    BY <1>1, <2>1, ReadsKept DEF EndInv, Arriving, Idle, ReadsDone
  <2> QED
    BY <1>2, <2>2 DEF EndInv
<1> QED
  BY <1>3, <1>4

LEMMA EndInvariance == SafetySpec => []EndInv
<1>1. EndInv /\ CallInv /\ AnswersInv /\ [Next]_vars => EndInv'
  BY FrameEnd, MainEnd, RunEndInv, CallQueueEnd, LoopEnd, StreamEnd DEF Next, EnterStream
<1> QED
  BY <1>1, InitEnd, CallInvariance, AnswersInvariance, PTL DEF SafetySpec

-----------------------------------------------------------------------------
(* Every step of the call path is a step of the service, or none.          *)

\* What the mappings of this module rest on.
ServiceInv == CallInv /\ AnswersInv /\ EndInv

LEMMA OneChanged ==
    ASSUME NEW S, NEW r \in S, NEW e \in S
    PROVE  [<<r>> EXCEPT ![1] = e] = <<e>> /\ <<r>>[1] = r /\ Len(<<r>>) = 1
<1>1. <<r>> \in Seq(S) /\ <<e>> \in Seq(S) /\ Len(<<r>>) = 1 /\ Len(<<e>>) = 1
      /\ <<r>>[1] = r /\ <<e>>[1] = e
  OBVIOUS
<1>2. /\ [<<r>> EXCEPT ![1] = e] \in Seq(S) /\ Len([<<r>> EXCEPT ![1] = e]) = 1
      /\ [<<r>> EXCEPT ![1] = e][1] = e
  BY <1>1, ExceptSeq
<1>3. [<<r>> EXCEPT ![1] = e] = <<e>>
  BY <1>1, <1>2, SeqEqual
<1> QED
  BY <1>1, <1>3

Statuses == {"live", "ok", "error"}

LEMMA CallChanged ==
    ASSUME NEW stopped \in BOOLEAN, NEW how, NEW status
    PROVE  /\ [MappedCall(stopped, how) EXCEPT !.status = status] = MappedCall(stopped, status)
           /\ MappedCall(stopped, how).status = how
<1>1. [MappedCall(stopped, how) EXCEPT !.status = status] = MappedCall(stopped, status)
  BY Z3 DEF MappedCall
<1>2. MappedCall(stopped, how).status = how
  BY DEF MappedCall
<1> QED
  BY <1>1, <1>2

LEMMA CallStopped ==
    ASSUME NEW stopped, NEW how, NEW now
    PROVE  [MappedCall(stopped, how) EXCEPT !.halfClosed = now] = MappedCall(now, how)
BY DEF MappedCall

\* The calls that the mapping makes.
CallsLike == [session : {1}, language : {"en"}, halfClosed : BOOLEAN, status : Statuses]

LEMMA StatusSet ==
    ASSUME NEW stopped \in BOOLEAN, NEW how \in Statuses, NEW status \in Statuses,
           NEW c, c = <<MappedCall(stopped, how)>>
    PROVE  [c EXCEPT ![1].status = status] = <<MappedCall(stopped, status)>> /\ c[1].status = how
<1> DEFINE r == MappedCall(stopped, how)
           e == MappedCall(stopped, status)
<1>1. r \in CallsLike /\ e \in CallsLike
  BY DEF MappedCall, CallsLike
<1>2. [r EXCEPT !.status = status] = e /\ r.status = how
  BY CallChanged
<1> HIDE DEF r, e
<1>3. [<<r>> EXCEPT ![1] = e] = <<e>> /\ <<r>>[1] = r
  BY <1>1, OneChanged
<1>4. c = <<r>>
  BY DEF r
<1>5. [c EXCEPT ![1].status = status] = <<e>> /\ c[1].status = how
  BY <1>2, <1>3, <1>4
<1> QED
  BY <1>5 DEF e

LEMMA HalfClosedSet ==
    ASSUME NEW how \in Statuses, NEW c, c = <<MappedCall(FALSE, how)>>
    PROVE  [c EXCEPT ![Len(c)].halfClosed = TRUE] = <<MappedCall(TRUE, how)>>
<1> DEFINE r == MappedCall(FALSE, how)
           e == MappedCall(TRUE, how)
<1>1. r \in CallsLike /\ e \in CallsLike
  BY DEF MappedCall, CallsLike
<1>2. [r EXCEPT !.halfClosed = TRUE] = e
  BY CallStopped
<1> HIDE DEF r, e
<1>3. [<<r>> EXCEPT ![1] = e] = <<e>> /\ <<r>>[1] = r /\ Len(<<r>>) = 1
  BY <1>1, OneChanged
<1>4. c = <<r>> /\ Len(c) = 1
  BY <1>3 DEF r
<1>5. [c EXCEPT ![Len(c)].halfClosed = TRUE] = <<e>>
  BY <1>2, <1>3, <1>4
<1> QED
  BY <1>5 DEF e

LEMMA StatusType == mappedStatus \in Statuses
BY DEF mappedStatus, Statuses

\* The blocks that wait, beside the one in hand.
LEMMA WaitingType == CallInv => Waiting \in Seq(Response)
<1> SUFFICES ASSUME CallInv PROVE Waiting \in Seq(Response)
  OBVIOUS
<1>1. responses \in Seq(Response) /\ (inHand = "answer" => responses # <<>>)
  BY DEF CallInv, InHandInv, StreamTypeOK, Response
<1> QED
  BY <1>1, TailType DEF Waiting

LEMMA QueueKept == UNCHANGED <<responses, inHand, cancelled>> => UNCHANGED mappedQueue
BY DEF mappedQueue, Waiting, MappedBlocks, MappedBlock

\* What is posted waits, whether a response is in hand or not.
LEMMA WaitingAppend ==
    ASSUME CallInv, NEW b \in Response, responses' = Append(responses, b), inHand' = inHand
    PROVE  Waiting' = Append(Waiting, b)
<1>1. responses \in Seq(Response) /\ (inHand = "answer" => responses # <<>>)
  BY DEF CallInv, InHandInv, StreamTypeOK, Response
<1>2. responses # <<>> => Tail(Append(responses, b)) = Append(Tail(responses), b)
  BY <1>1
<1> QED
  BY <1>1, <1>2 DEF Waiting

\* The steps of the threads that the service does not show.
LEMMA MappedFrame ==
    ASSUME UNCHANGED <<mappedQueue, cancelled, callState>>,
           main' = main \/ {main, main'} \cap {"none", "stopped"} = {}
    PROVE  UNCHANGED mappedVars
<1>1. (main' = "none" <=> main = "none") /\ (main' = "stopped" <=> main = "stopped")
  OBVIOUS
<1>2. mappedQueue' = mappedQueue
  OBVIOUS
<1>3. mappedStatus' = mappedStatus
  BY DEF mappedStatus
<1>4. mappedCalls' = mappedCalls
  BY <1>1, <1>3 DEF mappedCalls, MappedCall
<1>5. mappedStreaming' = mappedStreaming
  BY <1>1 DEF mappedStreaming
<1> QED
  BY <1>2, <1>4, <1>5 DEF mappedVars

LEMMA HiddenSteps ==
    ASSUME \/ InvokeCall \/ StartForwarding \/ StartPipe \/ ResumeWriteQueue \/ WriteRequest
           \/ PipeStep \/ CallQueueStep \/ StreamStep \/ NetworkStep
           \/ WriteDone \/ ResumeWriter \/ HeadersReceived \/ NothingToHandle
           \/ CancelCall \/ FinishForwarding \/ FinishWriter \/ UNCHANGED vars
    PROVE  UNCHANGED mappedVars
<1>1. UNCHANGED <<responses, inHand, cancelled, callState>>
  BY DEF InvokeCall, StartForwarding, StartPipe, ResumeWriteQueue, WriteRequest, PipeStep,
         CallQueueStep, StreamStep, NetworkStep, RestUnchanged, WriteDone, ResumeWriter,
         HeadersReceived, NothingToHandle, CancelCall, FinishForwarding, FinishWriter, vars,
         callVars, responseVars
<1>2. main' = main \/ {main, main'} \cap {"none", "stopped"} = {}
  BY DEF InvokeCall, StartForwarding, StartPipe, ResumeWriteQueue, WriteRequest, PipeStep,
         CallQueueStep, StreamStep, NetworkStep, RestUnchanged, WriteDone, ResumeWriter,
         HeadersReceived, NothingToHandle, CancelCall, FinishForwarding, FinishWriter, vars,
         appVars
<1> QED
  BY <1>1, <1>2, QueueKept, MappedFrame

LEMMA OpenMapped ==
    ASSUME ServiceInv, OpenCall
    PROVE  Service!StreamAudioData(1, "en") /\ UNCHANGED mappedQueue
<1>1. /\ main = "none" /\ main' = "opening" /\ callState' = "Started"
      /\ UNCHANGED <<responses, inHand, cancelled>>
  BY DEF OpenCall, responseVars
<1>2. UNCHANGED mappedQueue
  BY <1>1, QueueKept
<1>3. mappedStreaming = FALSE /\ mappedStreaming' = TRUE
  BY <1>1 DEF mappedStreaming
<1>4. mappedCalls = <<>>
  BY <1>1 DEF mappedCalls
<1>5. mappedCalls' = <<MappedCall(FALSE, "live")>>
  BY <1>1 DEF mappedCalls, mappedStatus
<1>6. Append(<<>>, MappedCall(FALSE, "live")) = <<MappedCall(FALSE, "live")>>
  OBVIOUS
<1> QED
  BY <1>2, <1>3, <1>4, <1>5, <1>6 DEF Service!StreamAudioData, MappedCall

LEMMA StopMapped ==
    ASSUME ServiceInv, StopStreaming
    PROVE  Service!StopStreaming /\ UNCHANGED mappedQueue
<1>1. /\ main = "open" /\ main' = "stopped"
      /\ UNCHANGED <<responses, inHand, cancelled, callState>>
  BY DEF StopStreaming, responseVars, callVars
<1>2. UNCHANGED mappedQueue
  BY <1>1, QueueKept
<1>3. mappedStreaming = TRUE /\ mappedStreaming' = FALSE
  BY <1>1 DEF mappedStreaming
<1>4. mappedStatus' = mappedStatus
  BY <1>1 DEF mappedStatus
<1>5. mappedCalls = <<MappedCall(FALSE, mappedStatus)>>
  BY <1>1 DEF mappedCalls
<1>6. mappedCalls' = <<MappedCall(TRUE, mappedStatus)>>
  BY <1>1, <1>4 DEF mappedCalls
<1>7. mappedCalls' = [mappedCalls EXCEPT ![Len(mappedCalls)].halfClosed = TRUE]
  BY <1>5, <1>6, StatusType, HalfClosedSet
<1> QED
  BY <1>2, <1>3, <1>7 DEF Service!StopStreaming

\* The call finishes: its end is behind the blocks of the queue, and an error
\* drops what is before it.
LEMMA FinishMapped ==
    ASSUME ServiceInv, NEW ok \in BOOLEAN, NEW queued \in Seq(Response),
           callState # "Finished", callState' = "Finished", cancelled' = (cancelled \/ ~ok),
           Waiting' = Append(queued, IF ok THEN "completed" ELSE "failed"),
           main # "none", main' # "none", main' = "stopped" <=> main = "stopped"
    PROVE  LET status == IF ok THEN "ok" ELSE "error" IN
           /\ mappedCalls[1].status = "live"
           /\ mappedCalls' = [mappedCalls EXCEPT ![1].status = status]
           /\ mappedQueue' = Append(IF ok THEN MappedBlocks(queued, FALSE)
                                          ELSE MappedBlocks(queued, TRUE), Service!Block("done", 1))
           /\ UNCHANGED mappedStreaming
           /\ cancelled = FALSE
<1> DEFINE status == IF ok THEN "ok" ELSE "error"
           end == IF ok THEN "completed" ELSE "failed"
<1>1. cancelled = FALSE
  BY DEF ServiceInv, AnswersInv, FinishOK, CallInv, StreamTypeOK
<1>2. callState' = "Finished" /\ Waiting' = Append(queued, end) /\ cancelled' = ~ok
  BY <1>1
<1>3. mappedStatus = "live" /\ mappedStatus' = status
  BY <1>1, <1>2 DEF mappedStatus
<1>4. PICK st \in BOOLEAN :
          mappedCalls = <<MappedCall(st, "live")>> /\ mappedCalls' = <<MappedCall(st, status)>>
  <2>1. CASE main = "stopped"
    <3>1. mappedCalls = <<MappedCall(TRUE, "live")>> /\ mappedCalls' = <<MappedCall(TRUE, status)>>
      BY <1>3, <2>1 DEF mappedCalls
    <3> QED
      BY <3>1
  <2>2. CASE main # "stopped"
    <3>1. mappedCalls = <<MappedCall(FALSE, "live")>> /\ mappedCalls' = <<MappedCall(FALSE, status)>>
      BY <1>3, <2>2 DEF mappedCalls
    <3> QED
      BY <3>1
  <2> QED
    BY <2>1, <2>2
<1>6. status \in Statuses /\ "live" \in Statuses
  BY DEF Statuses
<1>7. end \in Response
  BY DEF Response
<1>8. MappedBlock(end, ~ok) = Service!Block("done", 1)
  BY DEF MappedBlock, Service!Block
<1>9. MappedBlocks(Append(queued, end), ~ok) = Append(MappedBlocks(queued, ~ok), Service!Block("done", 1))
  BY <1>7, <1>8, MappedAppend
<1>10. mappedQueue' = Append(MappedBlocks(queued, ~ok), Service!Block("done", 1))
  BY <1>2, <1>9 DEF mappedQueue
<1>11. UNCHANGED mappedStreaming
  BY DEF mappedStreaming
<1>12. /\ mappedCalls' = [mappedCalls EXCEPT ![1].status = status]
       /\ mappedCalls[1].status = "live"
  <2> DEFINE c == mappedCalls
  <2>1. c = <<MappedCall(st, "live")>>
    BY <1>4
  <2> HIDE DEF c, status
  <2>2. [c EXCEPT ![1].status = status] = <<MappedCall(st, status)>> /\ c[1].status = "live"
    BY <1>6, <2>1, StatusSet
  <2> QED
    BY <1>4, <2>2 DEF c
<1> QED
  BY <1>1, <1>4, <1>10, <1>11, <1>12

LEMMA EndMapped ==
    ASSUME ServiceInv, NEW ok \in BOOLEAN,
           FinishCall(ok, responses), inHand' = inHand, main # "none", main' # "none",
           main' = "stopped" <=> main = "stopped"
    PROVE  UNCHANGED mappedVars \/ \E s \in {"ok", "error"} : Service!CallEnds(1, s)
<1>0. Waiting \in Seq(Response)
  BY WaitingType DEF ServiceInv
<1>4. callState # "Finished" =>
         /\ callState' = "Finished" /\ cancelled' = (cancelled \/ ~ok)
         /\ Waiting' = Append(Waiting, IF ok THEN "completed" ELSE "failed")
  BY WaitingAppend DEF FinishCall, ServiceInv, Response
<1>1. CASE callState = "Finished"
  <2>1. UNCHANGED <<responses, cancelled, callState>>
    BY <1>1 DEF FinishCall
  <2>2. mappedQueue' = mappedQueue /\ mappedStatus' = mappedStatus
    BY <2>1, QueueKept DEF mappedStatus
  <2>3. mappedCalls' = mappedCalls /\ mappedStreaming' = mappedStreaming
    BY <2>2 DEF mappedCalls, MappedCall, mappedStreaming
  <2> QED
    BY <2>2, <2>3 DEF mappedVars
<1>2. CASE callState # "Finished" /\ ok
  <2>1. /\ mappedCalls[1].status = "live"
        /\ mappedCalls' = [mappedCalls EXCEPT ![1].status = "ok"]
        /\ mappedQueue' = Append(MappedBlocks(Waiting, FALSE), Service!Block("done", 1))
        /\ UNCHANGED mappedStreaming
        /\ cancelled = FALSE
    BY <1>0, <1>2, <1>4, FinishMapped
  <2>2. mappedQueue = MappedBlocks(Waiting, FALSE)
    BY <2>1 DEF mappedQueue
  <2>3. Service!CallEnds(1, "ok")
    BY <2>1, <2>2 DEF Service!CallEnds
  <2> QED
    BY <2>3
<1>3. CASE callState # "Finished" /\ ~ok
  <2>1. /\ mappedCalls[1].status = "live"
        /\ mappedCalls' = [mappedCalls EXCEPT ![1].status = "error"]
        /\ mappedQueue' = Append(MappedBlocks(Waiting, TRUE), Service!Block("done", 1))
        /\ UNCHANGED mappedStreaming
        /\ cancelled = FALSE
    BY <1>0, <1>3, <1>4, FinishMapped
  <2>2. MappedBlocks(Waiting, TRUE) = Service!Cancel(mappedQueue, Service!AnswersOf(1))
    BY <1>0, <2>1, MappedCancel DEF mappedQueue
  <2>3. Service!CallEnds(1, "error")
    BY <2>1, <2>2 DEF Service!CallEnds
  <2> QED
    BY <2>3
<1> QED
  BY <1>1, <1>2, <1>3

LEMMA StatusOpen ==
    ASSUME ServiceInv, StatusReceived
    PROVE  main # "none"
<1>1. cq \in Seq(Completion) /\ cq # <<>> /\ Head(cq).op = "recvStatus"
  BY TakenEvent DEF StatusReceived, ServiceInv, CallInv
<1>2. slot["recvStatus"] = "posted"
  BY <1>1, TailIndex DEF ServiceInv, CallInv, Parts, QueueInv
<1> QED
  BY <1>2 DEF ServiceInv, CallInv, Parts, OnceInv, Idle, IdleIn

LEMMA StatusMapped ==
    ASSUME ServiceInv, StatusReceived
    PROVE  UNCHANGED mappedVars \/ \E s \in {"ok", "error"} : Service!CallEnds(1, s)
<1>1. PICK ok \in BOOLEAN : Completed("recvStatus", ok) /\ FinishCall(ok, responses)
  BY DEF StatusReceived
<1>2. main' = main /\ inHand' = inHand
  BY DEF StatusReceived, appVars
<1> QED
  BY <1>1, <1>2, StatusOpen, EndMapped

LEMMA NotHeldMapped ==
    ASSUME ServiceInv, MessageNotHeld
    PROVE  /\ main # "none"
           /\ UNCHANGED mappedVars \/ \E s \in {"ok", "error"} : Service!CallEnds(1, s)
<1>1. Completed("recvMessage", TRUE) /\ FinishCall(FALSE, responses)
  BY DEF MessageNotHeld
<1>2. main' = main /\ inHand' = inHand
  BY DEF MessageNotHeld, appVars
<1>3. cq \in Seq(Completion) /\ cq # <<>> /\ Head(cq).op = "recvMessage"
  BY <1>1, TakenEvent DEF ServiceInv, CallInv
<1>4. slot["recvMessage"] = "posted"
  BY <1>3, TailIndex DEF ServiceInv, CallInv, Parts, QueueInv
<1>5. slot["recvHeaders"] = "used"
  BY <1>4 DEF ServiceInv, CallInv, Parts, ReaderInv, Idle, IdleIn
<1>6. main # "none"
  BY <1>5 DEF ServiceInv, CallInv, Parts, OnceInv, Idle, IdleIn
<1> QED
  BY <1>1, <1>2, <1>6, EndMapped

LEMMA NotMadeMapped ==
    ASSUME ServiceInv, CallNotMade
    PROVE  UNCHANGED mappedVars \/ \E s \in {"ok", "error"} : Service!CallEnds(1, s)
<1>1. /\ main = "opening" /\ main' = "writing" /\ inHand' = inHand
      /\ FinishCall(FALSE, responses)
  BY DEF CallNotMade
<1> QED
  BY <1>1, EndMapped

\* The next block of the main queue has run.
BlockRun == /\ mappedQueue # <<>> /\ mappedQueue' = Tail(mappedQueue)
            /\ UNCHANGED <<mappedCalls, mappedStreaming>>

LEMMA TurnMapped ==
    ASSUME ServiceInv, responses # <<>>, Waiting = responses, Waiting' = Tail(responses),
           UNCHANGED <<main, callState, cancelled>>
    PROVE  BlockRun
<1>1. responses \in Seq(Response) /\ cancelled \in BOOLEAN
  BY DEF ServiceInv, CallInv, StreamTypeOK, Response
<1>2. mappedQueue # <<>> /\ mappedQueue' = Tail(mappedQueue)
  BY <1>1, MappedTail DEF mappedQueue
<1>3. UNCHANGED <<mappedCalls, mappedStreaming>>
  BY DEF mappedCalls, mappedStreaming, mappedStatus, MappedCall
<1> QED
  BY <1>2, <1>3 DEF BlockRun

LEMMA BadMapped ==
    ASSUME ServiceInv, RunBadAnswer
    PROVE  BlockRun \/ BadResponse
<1>1. /\ responses \in Seq(Response) /\ responses # <<>> /\ Head(responses) = "answer"
      /\ FinishCall(FALSE, Tail(responses)) /\ main' = main
      /\ Waiting = responses /\ Waiting' = responses'
  BY DEF RunBadAnswer, InHandInv, Waiting, appVars, ServiceInv, CallInv, StreamTypeOK, Response
<1>2. CASE callState = "Finished"
  <2>1. responses' = Tail(responses) /\ UNCHANGED <<callState, cancelled>>
    BY <1>1, <1>2 DEF FinishCall
  <2> QED
    BY <1>1, <2>1, TurnMapped
<1>3. CASE callState # "Finished"
  <2>1. main # "none"
    BY <1>1, TailIndex, AnsweredOpen DEF AnswerWaits, ServiceInv
  <2>2. Tail(responses) \in Seq(Response)
    BY <1>1, TailType
  <2>7. /\ callState' = "Finished" /\ cancelled' = (cancelled \/ TRUE)
        /\ Waiting' = Append(Tail(responses), "failed")
    BY <1>1, <1>3 DEF FinishCall
  <2>3. /\ mappedCalls[1].status = "live"
        /\ mappedCalls' = [mappedCalls EXCEPT ![1].status = "error"]
        /\ mappedQueue' = Append(MappedBlocks(Tail(responses), TRUE), Service!Block("done", 1))
        /\ UNCHANGED mappedStreaming
        /\ cancelled = FALSE
    BY <1>1, <1>3, <2>1, <2>2, <2>7, FinishMapped
  <2>4. MappedBlocks(responses, TRUE) = Service!Cancel(mappedQueue, Service!AnswersOf(1))
    BY <1>1, <2>3, MappedCancel DEF mappedQueue
  <2>5. mappedQueue # <<>>
    BY <1>1, <2>3, MappedTail DEF mappedQueue
  <2>6. MappedBlocks(Tail(responses), TRUE) = Tail(MappedBlocks(responses, TRUE))
    BY <1>1, MappedTail
  <2> QED
    BY <2>3, <2>4, <2>5, <2>6 DEF BadResponse
<1> QED
  BY <1>2, <1>3

LEMMA RunMapped ==
    ASSUME ServiceInv, RunResponse
    PROVE  BlockRun \/ BadResponse \/ UNCHANGED mappedVars
<1>1. CASE RunEnd \/ RunDropped
  <2>1. /\ responses # <<>> /\ Waiting = responses /\ Waiting' = Tail(responses)
        /\ UNCHANGED <<main, callState, cancelled>>
    BY <1>1 DEF RunEnd, RunDropped, Taking, BetweenTurns, Waiting, appVars, callVars
  <2> QED
    BY <2>1, TurnMapped
<1>2. CASE CheckAnswer
  <2>1. /\ responses # <<>> /\ Waiting = responses
        /\ Waiting' = IF inHand' = "answer" THEN Tail(responses) ELSE responses
        /\ UNCHANGED <<main, callState, cancelled>>
    BY <1>2 DEF CheckAnswer, Taking, BetweenTurns, Waiting, appVars, callVars
  <2>2. CASE inHand' = "answer"
    BY <2>1, <2>2, TurnMapped
  <2>3. CASE inHand' # "answer"
    <3>1. mappedQueue' = mappedQueue
      BY <2>1, <2>3 DEF mappedQueue, MappedBlocks, MappedBlock
    <3> QED
      BY <2>1, <3>1, MappedFrame
  <2> QED
    BY <2>2, <2>3
<1>3. CASE RunAnswer
  <2>1. Waiting' = Waiting /\ UNCHANGED <<main, callState, cancelled>>
    BY <1>3 DEF RunAnswer, Waiting, appVars
  <2>2. mappedQueue' = mappedQueue
    BY <2>1 DEF mappedQueue, MappedBlocks, MappedBlock
  <2> QED
    BY <2>1, <2>2, MappedFrame
<1> QED
  BY <1>1, <1>2, <1>3, BadMapped DEF RunResponse

\* A call that is read from has not finished, and its queue is empty.
LEMMA AnswerMapped ==
    ASSUME ServiceInv, MessageReceived
    PROVE  main # "none" /\ Service!ServerAnswers(1)
<1>0. Completed("recvMessage", TRUE) /\ StreamTypeOK
  BY DEF MessageReceived, ServiceInv, CallInv
<1>1. /\ responses \in Seq(Response) /\ responses' = Append(responses, "answer")
      /\ UNCHANGED <<main, callState, cancelled, inHand>>
  BY <1>0 DEF MessageReceived, appVars, callVars, StreamTypeOK, Response
<1>2. cq \in Seq(Completion) /\ cq # <<>> /\ Head(cq).op = "recvMessage" /\ IsAnswer(Head(cq))
  BY <1>0, TakenEvent
<1>3. callState # "Finished" /\ cancelled = FALSE
  <2>1. Arriving
    BY <1>2, TailEvent DEF Arriving
  <2> QED
    BY <1>0, <2>1 DEF ServiceInv, EndInv, FinishedReads, AnswersInv, FinishOK, StreamTypeOK
<1>4. slot["recvMessage"] = "posted"
  BY <1>2, TailIndex DEF ServiceInv, CallInv, Parts, QueueInv
<1>5. ~Idle("recvMessage")
  BY <1>4 DEF Idle, IdleIn
<1>6. slot["recvHeaders"] = "used" /\ ~AnswerWaits
  BY <1>5 DEF ServiceInv, CallInv, Parts, ReaderInv
<1>7. main # "none"
  BY <1>6 DEF ServiceInv, CallInv, Parts, OnceInv, Idle, IdleIn
<1>8. responses = <<>>
  <2>1. \A i \in DOMAIN responses : FALSE
    BY <1>1, <1>3, <1>6, ElementOfSeq, LenProperties
       DEF ServiceInv, EndInv, LiveQueue, NoEnd, IsEnd, AnswerWaits, Response
  <2> QED
    BY <1>1, <2>1, TailIndex
<1>14. Waiting = responses /\ Waiting' = responses'
  BY <1>1, <1>8 DEF Waiting, ServiceInv, CallInv, InHandInv
<1>9. mappedQueue = MappedBlocks(<<>>, FALSE) /\ Len(mappedQueue) = 0
  BY <1>1, <1>3, <1>8, <1>14, MappedShape DEF mappedQueue
<1>10. mappedQueue' = Append(mappedQueue, Service!Block("result", 1))
  <2>1. MappedBlock("answer", FALSE) = Service!Block("result", 1)
    BY DEF MappedBlock, Service!Block
  <2>2. mappedQueue' = MappedBlocks(Append(responses, "answer"), FALSE)
    BY <1>1, <1>3, <1>14 DEF mappedQueue
  <2> QED
    BY <1>1, <1>8, <1>9, <2>1, <2>2, MappedAppend DEF Response
<1>11. UNCHANGED <<mappedCalls, mappedStreaming>>
  BY <1>1 DEF mappedCalls, mappedStreaming, mappedStatus, MappedCall
<1>12. Service!Answerable(1)
  <2>1. mappedCalls = <<MappedCall(main = "stopped", "live")>>
    BY <1>3, <1>7 DEF mappedCalls, mappedStatus
  <2>2. mappedCalls[1].status = "live"
    BY <2>1 DEF MappedCall
  <2> QED
    BY <2>2 DEF Service!Answerable
<1>13. Service!HasRoom
  <2>1. 0 < MaxAnswers + 2
    BY MaxAnswersAssumption
  <2>2. Len(mappedQueue) = 0
    BY <1>9
  <2> QED
    BY <2>1, <2>2 DEF Service!HasRoom
<1> QED
  BY <1>7, <1>10, <1>11, <1>12, <1>13 DEF Service!ServerAnswers, Service!serviceVars

LEMMA InitMapped == Init => Service!ServiceInit
BY DEF Init, Service!ServiceInit, mappedStreaming, mappedCalls

LEMMA StepMapped ==
    ASSUME ServiceInv, [Next]_vars
    PROVE  ServiceNext \/ UNCHANGED mappedVars
<1>1. CASE OpenCall
  <2>1. Service!StreamAudioData(1, "en") /\ UNCHANGED mappedQueue
    BY <1>1, OpenMapped
  <2> QED
    BY <2>1 DEF ServiceNext
<1>2. CASE StopStreaming
  <2>1. Service!StopStreaming /\ UNCHANGED mappedQueue
    BY <1>2, StopMapped
  <2> QED
    BY <2>1 DEF ServiceNext
<1>3. CASE CallNotMade \/ StatusReceived
  <2>1. main # "none"
    <3>1. CASE CallNotMade
      BY <3>1 DEF CallNotMade
    <3>2. CASE StatusReceived
      BY <3>2, StatusOpen
    <3> QED
      BY <1>3, <3>1, <3>2
  <2>2. UNCHANGED mappedVars \/ \E s \in {"ok", "error"} : Service!CallEnds(1, s)
    BY <1>3, NotMadeMapped, StatusMapped
  <2> QED
    BY <2>1, <2>2 DEF ServiceNext
<1>6. CASE MessageNotHeld
  BY <1>6, NotHeldMapped DEF ServiceNext
<1>4. CASE RunResponse
  <2>1. BlockRun \/ BadResponse \/ UNCHANGED mappedVars
    BY <1>4, RunMapped
  <2> QED
    BY <2>1 DEF BlockRun, ServiceNext
<1>5. CASE MessageReceived
  <2>1. main # "none" /\ Service!ServerAnswers(1)
    BY <1>5, AnswerMapped
  <2> QED
    BY <2>1 DEF ServiceNext
<1> QED
  BY <1>1, <1>2, <1>3, <1>4, <1>5, <1>6, HiddenSteps DEF Next, EnterStream, LoopStep

\* The path of one call, with its four threads, is a call of the service that
\* the session model is composed with: the app sees streamAudioData and
\* stopStreaming act at once, one response at a time, and one end
\* (SpeechRecognitionService.swift:36-89, GRPCCallLegacy.m:241-356).
THEOREM CallPathIsService == SafetySpec => RefinesService
<1>1. CallInv /\ AnswersInv /\ EndInv /\ [Next]_vars => [ServiceNext]_mappedVars
  BY StepMapped DEF ServiceInv
<1> QED
  BY <1>1, InitMapped, CallInvariance, AnswersInvariance, EndInvariance, PTL
     DEF SafetySpec, RefinesService
=============================================================================
