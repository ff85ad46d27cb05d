---------------------------- MODULE StreamProofs ----------------------------
(***************************************************************************)
(* What holds of one call for any number of messages and responses, in any *)
(* order of the steps of its four threads.                                 *)
(***************************************************************************)
EXTENDS StreamProperties, FiniteSetTheorems, TLAPS

\* The main thread is on its way to start the pipe.
NotYetStarted == main \in {"none", "opening", "forwarding", "starting"}

\* Between the two halves of startWithWriteable the pipe can be finished, and
\* not paused: its queue does not run yet.
PipeInv ==
    /\ pipeState \in {"NotStarted", "Started", "Paused", "Finished"}
    /\ SuspendedOnce
    /\ NotYetStarted => pipeState = "NotStarted"
    /\ main = "resuming" => pipeState \in {"Started", "Finished"}

LEMMA InitPipe == Init => PipeInv
BY DEF Init, PipeInv, SuspendedOnce, NotYetStarted

\* Steps that leave the pipe and the main thread alone.
LEMMA PipeFrame == PipeInv /\ UNCHANGED <<main, pipeState, suspended>> => PipeInv'
BY DEF PipeInv, SuspendedOnce, NotYetStarted

\* streamAudioData and stopStreaming.
LEMMA MainPipe ==
    ASSUME PipeInv, EnterStream \/ WriteRequest \/ StopStreaming
    PROVE  PipeInv'
<1> USE DEF PipeInv, SuspendedOnce, NotYetStarted
<1>1. CASE OpenCall
    BY <1>1 DEF OpenCall, pipeVars
<1>2. CASE InvokeCall
    BY <1>2 DEF InvokeCall, pipeVars
<1>3. CASE CallNotMade
    BY <1>3 DEF CallNotMade, pipeVars
<1>4. CASE StartForwarding
    BY <1>4 DEF StartForwarding, pipeVars
<1>5. CASE StartPipe
    BY <1>5 DEF StartPipe
<1>6. CASE ResumeWriteQueue
    BY <1>6 DEF ResumeWriteQueue
<1>7. CASE WriteRequest
    BY <1>7 DEF WriteRequest
<1>8. CASE StopStreaming
    BY <1>8 DEF StopStreaming, pipeVars
<1> QED
    BY <1>1, <1>2, <1>3, <1>4, <1>5, <1>6, <1>7, <1>8 DEF EnterStream

\* A value pauses the pipe: its queue runs, so nothing has suspended it.
LEMMA PipeStepPipe == PipeInv /\ PipeStep => PipeInv'
<1> SUFFICES ASSUME PipeInv, PipeStep PROVE PipeInv'
    OBVIOUS
<1>1. main' = main /\ main # "resuming" /\ pipeState \in {"Started", "Finished"}
    BY DEF PipeStep, appVars, PipeInv, SuspendedOnce
<1>2. CASE PausePipe
    BY <1>1, <1>2 DEF PausePipe, PipeStep, PipeInv, SuspendedOnce, NotYetStarted
<1>3. CASE UNCHANGED <<pipeState, suspended>>
    BY <1>1, <1>3, PipeFrame
<1> QED
    BY <1>2, <1>3 DEF PipeStep, PassOn

\* The completion loop resumes and finishes.
LEMMA LoopPipe == PipeInv /\ LoopStep => PipeInv'
<1> SUFFICES ASSUME PipeInv, LoopStep PROVE PipeInv'
    OBVIOUS
<1>1. CASE ResumeWriter
    BY <1>1 DEF ResumeWriter, ResumePipe, appVars, PipeInv, SuspendedOnce, NotYetStarted
<1>2. CASE FinishWriter
    BY <1>2 DEF FinishWriter, FinishPipe, appVars, PipeInv, SuspendedOnce, NotYetStarted
<1>3. CASE \/ WriteDone \/ HeadersReceived \/ MessageReceived \/ NothingToHandle
           \/ MessageNotHeld \/ CancelCall \/ StatusReceived \/ FinishForwarding
    BY <1>3, PipeFrame DEF WriteDone, HeadersReceived, MessageReceived, NothingToHandle,
        MessageNotHeld, CancelCall, StatusReceived, FinishForwarding, appVars, pipeVars
<1> QED
    BY <1>1, <1>2, <1>3 DEF LoopStep

LEMMA PipeInvariance == SafetySpec => []PipeInv
<1>1. PipeInv /\ [Next]_vars => PipeInv'
    <2> SUFFICES ASSUME PipeInv, [Next]_vars PROVE PipeInv'
        OBVIOUS
    <2>1. CASE RunResponse
        BY <2>1, PipeFrame DEF RunResponse, CheckAnswer, RunAnswer, RunBadAnswer, RunEnd,
                               RunDropped, appVars, pipeVars
    <2>2. CASE CallQueueStep \/ StreamStep \/ NetworkStep \/ UNCHANGED vars
        BY <2>2, PipeFrame DEF CallQueueStep, StreamStep, NetworkStep, RestUnchanged, vars,
                               appVars, pipeVars
    <2> QED
        BY <2>1, <2>2, MainPipe, PipeStepPipe, LoopPipe DEF Next
<1> QED
    BY InitPipe, <1>1, PTL DEF SafetySpec

\* Whatever the main thread, the write queue and the completion loop do to the
\* pipe, its dispatch queue is suspended exactly while it has not started or is
\* paused (GRXBufferedPipe.m:75-114): no resume too many, which would trap, and
\* none too few, which would keep the audio back.
THEOREM SuspendBalance == SafetySpec => []SuspendedOnce
<1>1. PipeInv => SuspendedOnce
    BY DEF PipeInv
<1> QED
    BY PipeInvariance, <1>1, PTL
-----------------------------------------------------------------------------
(* Types.                                                                  *)

Response == {"answer", "completed", "failed"}

\* The block of the response in hand is still at the head of the queue.
InHandInv ==
    inHand # "none" => responses # <<>> /\ Head(responses) = "answer" /\ ~alreadyFinished

LEMMA EmptyType == \A S : <<>> \in Seq(S)
OBVIOUS

LEMMA AppendType == \A S : \A q \in Seq(S), e \in S : Append(q, e) \in Seq(S)
OBVIOUS

LEMMA TailType ==
    ASSUME NEW S, NEW q \in Seq(S), q # <<>>
    PROVE  Head(q) \in S /\ Tail(q) \in Seq(S)
OBVIOUS

LEMMA CoreFrame == CoreTypeOK /\ UNCHANGED coreVars => CoreTypeOK'
BY DEF coreVars, CoreTypeOK

LEMMA InitType == Init => StreamTypeOK
<1> SUFFICES ASSUME Init PROVE StreamTypeOK
    OBVIOUS
<1>1. CoreTypeOK
    <2>1. slot \in [Ops -> {"free", "busy", "posted", "used"}]
        BY DEF Init, CoreInit
    <2>2. sent \in Seq(Nat) /\ cq \in Seq(Completion)
        BY EmptyType DEF Init, CoreInit
    <2>3. answered \in 0..MaxAnswers
        BY MaxAnswersAssumption DEF Init, CoreInit
    <2> QED
        BY <2>1, <2>2, <2>3 DEF Init, CoreInit, CoreTypeOK
<1>2. written \in 0..MaxWrites
    BY StreamAssumption DEF Init
<1> QED
    BY <1>1, <1>2, EmptyType DEF Init, StreamTypeOK

LEMMA FinishType ==
    ASSUME NEW ok \in BOOLEAN, NEW queued \in Seq(Response), FinishCall(ok, queued),
           callState \in {"NotStarted", "Started", "Finished"}, cancelled \in BOOLEAN
    PROVE  /\ callState' \in {"NotStarted", "Started", "Finished"}
           /\ responses' \in Seq(Response) /\ cancelled' \in BOOLEAN
<1>1. (IF ok THEN "completed" ELSE "failed") \in Response
    BY DEF Response
<1>2. responses' \in Seq(Response)
    BY <1>1, AppendType DEF FinishCall
<1> QED
    BY <1>2 DEF FinishCall

LEMMA BatchType == \A ops \in SUBSET Ops : Batch(ops) \in CallBlock
BY DEF Batch, CallBlock

LEMMA WriteType == \A v \in Nat : Write(v) \in CallBlock
BY DEF Write, CallBlock, Ops

\* What the app's threads and the write queue do.
LEMMA AppType ==
    ASSUME StreamTypeOK, PipeInv', EnterStream \/ WriteRequest \/ StopStreaming \/ PipeStep
    PROVE  StreamTypeOK'
<1> USE DEF StreamTypeOK
<1>0. suspended' \in Nat
    BY DEF PipeInv, SuspendedOnce
<1>1. CASE OpenCall
    BY <1>1 DEF OpenCall, coreVars, CoreTypeOK, pipeVars, fwdVars, responseVars, historyVars
<1>2. CASE InvokeCall
    <2>1. Batch({"sendHeaders", "recvHeaders", "recvStatus"}) \in CallBlock
        BY BatchType DEF Ops
    <2> QED
        BY <1>2, <2>1 DEF InvokeCall, coreVars, CoreTypeOK, pipeVars, fwdVars,
                          responseVars, historyVars
<1>3. CASE CallNotMade
    <2>1. FinishCall(FALSE, responses) /\ responses \in Seq(Response)
        BY <1>3 DEF CallNotMade, Response
    <2>2. /\ callState' \in {"NotStarted", "Started", "Finished"}
          /\ responses' \in Seq(Response) /\ cancelled' \in BOOLEAN
        BY <2>1, FinishType
    <2> QED
        BY <1>3, <2>2, CoreFrame DEF CallNotMade, Response, pipeVars, fwdVars, historyVars
<1>4. CASE StartForwarding
    BY <1>4 DEF StartForwarding, coreVars, CoreTypeOK, pipeVars, callVars, responseVars,
       historyVars
<1>5. CASE StartPipe
    BY <1>5 DEF StartPipe, coreVars, CoreTypeOK, fwdVars, callVars, responseVars, historyVars
<1>6. CASE ResumeWriteQueue
    BY <1>0, <1>6 DEF ResumeWriteQueue, coreVars, CoreTypeOK, fwdVars, callVars,
                      responseVars, historyVars
<1>7. CASE WriteRequest
    BY <1>7, StreamAssumption DEF WriteRequest, coreVars, CoreTypeOK, fwdVars, callVars,
                      responseVars, historyVars
<1>8. CASE StopStreaming
    <2>1. Batch({"sendClose"}) \in CallBlock
        BY BatchType DEF Ops
    <2>2. /\ callQueue' \in Seq(CallBlock)
          /\ fwdWriter' \in BOOLEAN /\ fwdTarget' \in BOOLEAN
        BY <1>8, <2>1, AppendType DEF StopStreaming, fwdVars
    <2> QED
        BY <1>8, <2>2 DEF StopStreaming, coreVars, CoreTypeOK, pipeVars, responseVars, historyVars
<1>9. CASE PipeStep
    <2>1. Head(writeQueue) \in Nat /\ Tail(writeQueue) \in Seq(Nat)
        BY <1>9 DEF PipeStep
    <2>2. Write(Head(writeQueue)) \in CallBlock
        BY <2>1, WriteType
    <2>3. callQueue' \in Seq(CallBlock)
        BY <1>9, <2>2, AppendType DEF PipeStep, PassOn
    <2>4. pipeState' \in {"NotStarted", "Started", "Paused", "Finished"}
        BY <1>9 DEF PipeStep, PassOn, PausePipe
    <2> QED
        BY <1>0, <1>9, <2>1, <2>3, <2>4 DEF PipeStep, coreVars, CoreTypeOK, appVars, fwdVars,
                      responseVars, historyVars
<1> QED
    BY <1>1, <1>2, <1>3, <1>4, <1>5, <1>6, <1>7, <1>8, <1>9 DEF EnterStream

LEMMA TakeType ==
    ASSUME CoreTypeOK, cq # <<>>, TakeCompletion
    PROVE  CoreTypeOK'
<1>1. Head(cq) \in Completion /\ Tail(cq) \in Seq(Completion)
    BY TailType DEF CoreTypeOK
<1>2. slot' \in [Ops -> {"free", "busy", "posted", "used"}]
    BY <1>1 DEF TakeCompletion, CoreTypeOK, Completion
<1> QED
    BY <1>1, <1>2 DEF TakeCompletion, CoreTypeOK

\* What the blocks of the main queue, the call queue and the loop do.
LEMMA CallType ==
    ASSUME StreamTypeOK, InHandInv, PipeInv', RunResponse \/ CallQueueStep \/ LoopStep
    PROVE  StreamTypeOK'
<1> USE DEF StreamTypeOK
<1>0. suspended' \in Nat
    BY DEF PipeInv, SuspendedOnce
<1>r. Batch({"recvMessage"}) \in CallBlock
    BY BatchType DEF Ops
<1>c. CASE CheckAnswer
    BY <1>c, CoreFrame DEF CheckAnswer, appVars, pipeVars, fwdVars, callVars, historyVars
<1>1. CASE RunAnswer
    <2>1. Tail(responses) \in Seq(Response) /\ Append(delivered, "answer") \in Seq(Response)
        BY <1>1, TailType, AppendType DEF RunAnswer, InHandInv, Response
    <2> QED
        BY <1>1, <1>r, <2>1, CoreFrame DEF RunAnswer, StartNextRead, Response, appVars,
                      pipeVars, fwdVars
<1>2. CASE RunBadAnswer
    <2>1. Tail(responses) \in Seq(Response)
        BY <1>2, TailType DEF RunBadAnswer, InHandInv, Response
    <2>2. /\ callState' \in {"NotStarted", "Started", "Finished"}
          /\ responses' \in Seq(Response) /\ cancelled' \in BOOLEAN
        BY <1>2, <2>1, FinishType DEF RunBadAnswer
    <2> QED
        BY <1>2, <2>2, CoreFrame DEF RunBadAnswer, Response, appVars, pipeVars, fwdVars
<1>3. CASE RunEnd
    BY <1>3 DEF RunEnd, Taking, coreVars, CoreTypeOK, appVars, pipeVars, fwdVars, callVars
<1>4. CASE RunDropped
    BY <1>4 DEF RunDropped, Taking, coreVars, CoreTypeOK, appVars, pipeVars, fwdVars,
                callVars, historyVars
<1>5. CASE CallQueueStep
    <2>0. Head(callQueue) \in CallBlock /\ Tail(callQueue) \in Seq(CallBlock)
        BY <1>5, TailType DEF CallQueueStep
    <2>1. Head(callQueue).message \in Nat
        BY <2>0 DEF CallBlock
    <2>2. slot' \in [Ops -> {"free", "busy", "posted", "used"}] /\ rejected' \in BOOLEAN
        BY <1>5 DEF CallQueueStep, SendMessage, Start, StartBatches, CoreTypeOK
    <2>3. outgoing' \in Nat
        BY <1>5, <2>1 DEF CallQueueStep, SendMessage, Start, CoreTypeOK
    <2>4. UNCHANGED <<cq, sent, halfClosed, stream, unread, answered>>
        BY <1>5 DEF CallQueueStep, SendMessage, Start, StartBatches
    <2> QED
        BY <1>5, <2>0, <2>2, <2>3, <2>4 DEF CallQueueStep, CoreTypeOK, appVars, pipeVars,
                      fwdVars, responseVars, historyVars
<1>6. CASE WriteDone
    BY <1>6, TakeType DEF WriteDone, Completed, appVars, pipeVars, fwdVars, responseVars,
       historyVars
<1>7. CASE ResumeWriter
    BY <1>0, <1>7 DEF ResumeWriter, ResumePipe, coreVars, CoreTypeOK, appVars, fwdVars,
                      responseVars, historyVars
<1>8. CASE HeadersReceived
    BY <1>8, <1>r, TakeType DEF HeadersReceived, Completed, StartNextRead, appVars, pipeVars,
                      fwdVars, responseVars, historyVars
<1>9. CASE MessageReceived
    BY <1>9, TakeType DEF MessageReceived, Completed, appVars, pipeVars, fwdVars, callVars,
                      historyVars
<1>14. CASE MessageNotHeld
    <2>1. CoreTypeOK'
        BY <1>14, TakeType DEF MessageNotHeld, Completed
    <2>2. /\ callState' \in {"NotStarted", "Started", "Finished"}
          /\ responses' \in Seq(Response) /\ cancelled' \in BOOLEAN
        BY <1>14, FinishType DEF MessageNotHeld, Response
    <2> QED
        BY <1>14, <2>1, <2>2 DEF MessageNotHeld, Response, appVars, pipeVars, fwdVars, historyVars
<1>15. CASE CancelCall
    BY <1>15 DEF CancelCall, Cancel, CoreTypeOK, appVars, pipeVars, fwdVars, responseVars,
                 historyVars
<1>10. CASE NothingToHandle
    BY <1>10, TakeType DEF NothingToHandle, Completed, appVars, pipeVars, fwdVars, callVars,
                      responseVars, historyVars
<1>11. CASE StatusReceived
    <2>1. PICK ok \in BOOLEAN : Completed("recvStatus", ok) /\ FinishCall(ok, responses)
        BY <1>11 DEF StatusReceived
    <2>2. /\ callState' \in {"NotStarted", "Started", "Finished"}
          /\ responses' \in Seq(Response) /\ cancelled' \in BOOLEAN
        BY <2>1, FinishType DEF Response
    <2>3. CoreTypeOK'
        BY <2>1, TakeType DEF Completed
    <2> QED
        BY <1>11, <2>2, <2>3 DEF StatusReceived, Response, appVars, pipeVars, fwdVars, historyVars
<1>12. CASE FinishForwarding
    <2>1. /\ loop' \in {"next", "resume", "cancelCall", "finishForwarding", "finishPipe"}
          /\ fwdWriter' \in BOOLEAN /\ fwdTarget' \in BOOLEAN
        BY <1>12 DEF FinishForwarding
    <2> QED
        BY <1>12, <2>1, CoreFrame DEF FinishForwarding, appVars, pipeVars, responseVars,
                                      historyVars
<1>13. CASE FinishWriter
    <2>1. /\ pipeState' \in {"NotStarted", "Started", "Paused", "Finished"}
          /\ pipeTarget' \in BOOLEAN
        BY <1>13 DEF FinishWriter, FinishPipe
    <2> QED
        BY <1>0, <1>13, <2>1, CoreFrame DEF FinishWriter, appVars, fwdVars, responseVars,
                                            historyVars
<1> QED
    BY <1>1, <1>2, <1>3, <1>4, <1>5, <1>6, <1>7, <1>8, <1>9, <1>10, <1>11, <1>12, <1>13,
       <1>14, <1>15, <1>c DEF RunResponse, LoopStep

LEMMA CompleteType ==
    ASSUME CoreTypeOK, NEW op \in Ops, NEW ok \in BOOLEAN, Complete(op, ok)
    PROVE  slot' \in [Ops -> {"free", "busy", "posted", "used"}] /\ cq' \in Seq(Completion)
BY DEF Complete, CoreTypeOK, Completion

\* What the stream and the network do.
LEMMA NetType ==
    ASSUME StreamTypeOK, StreamStep \/ NetworkStep
    PROVE  StreamTypeOK'
<1>1. UNCHANGED <<appVars, pipeVars, fwdVars, callVars, responseVars>>
    BY DEF StreamStep, NetworkStep, RestUnchanged
<1>2. CoreTypeOK
    BY DEF StreamTypeOK
<1>3. CoreTypeOK'
    <2>1. CASE MessageSent
        <3>1. sent' \in Seq(Nat)
            BY <1>2, <2>1, AppendType DEF MessageSent, CoreTypeOK
        <3> QED
            BY <1>2, <2>1, <3>1, CompleteType DEF MessageSent, Complete, CoreTypeOK, Ops
    <2>9. CASE HeadersSent
        BY <1>2, <2>9, CompleteType DEF HeadersSent, Complete, CoreTypeOK, Ops
    <2>2. CASE CloseSent
        BY <1>2, <2>2, CompleteType DEF CloseSent, Complete, CoreTypeOK, Ops
    <2>3. CASE HeadersArrive
        BY <1>2, <2>3, CompleteType DEF HeadersArrive, Complete, CoreTypeOK, Ops
    <2>4. CASE MessageRead
        <3>1. slot' \in [Ops -> {"free", "busy", "posted", "used"}] /\ cq' \in Seq(Completion)
            BY <1>2, <2>4, CompleteType DEF MessageRead, Ops
        <3>2. unread' \in Nat
            BY <1>2, <2>4 DEF MessageRead, CoreTypeOK
        <3> QED
            BY <1>2, <2>4, <3>1, <3>2 DEF MessageRead, Complete, CoreTypeOK
    <2>5. CASE NoMoreMessages
        BY <1>2, <2>5, CompleteType DEF NoMoreMessages, Complete, CoreTypeOK, Ops
    <2>6. CASE StatusArrives
        BY <1>2, <2>6, CompleteType DEF StatusArrives, Complete, CoreTypeOK, Ops
    <2>7. CASE ServerSends
        BY <1>2, <2>7, MaxAnswersAssumption DEF ServerSends, CoreTypeOK
    <2>8. CASE StreamEnds("ok") \/ StreamEnds("error")
        BY <1>2, <2>8 DEF StreamEnds, CoreTypeOK
    <2> QED
        BY <2>1, <2>2, <2>3, <2>4, <2>5, <2>6, <2>7, <2>8, <2>9
           DEF StreamStep, StreamSteps, NetworkStep
<1> QED
    BY <1>1, <1>3 DEF StreamTypeOK, appVars, pipeVars, fwdVars, callVars, responseVars,
       historyVars

LEMMA TypeStep == StreamTypeOK /\ InHandInv /\ PipeInv' /\ [Next]_vars => StreamTypeOK'
<1> SUFFICES ASSUME StreamTypeOK, InHandInv, PipeInv', [Next]_vars PROVE StreamTypeOK'
    OBVIOUS
<1>1. CASE UNCHANGED vars
    BY <1>1 DEF vars, coreVars, appVars, pipeVars, fwdVars, callVars, responseVars, historyVars,
                StreamTypeOK, CoreTypeOK
<1> QED
    BY <1>1, AppType, CallType, NetType DEF Next

LEMMA AppendHead ==
    \A S : \A q \in Seq(S), e \in S :
        q # <<>> => Append(q, e) # <<>> /\ Head(Append(q, e)) = Head(q)
OBVIOUS

\* The other threads only append to the queue of the main thread.
LEMMA HandKept ==
    ASSUME StreamTypeOK, InHandInv, UNCHANGED <<inHand, alreadyFinished>>,
           responses' = responses \/ \E e \in Response : responses' = Append(responses, e)
    PROVE  InHandInv'
<1>1. responses \in Seq(Response)
    BY DEF StreamTypeOK, Response
<1>2. responses # <<>> => responses' # <<>> /\ Head(responses') = Head(responses)
    BY <1>1, AppendHead
<1> QED
    BY <1>2 DEF InHandInv

LEMMA FinishAppends ==
    ASSUME NEW ok \in BOOLEAN, NEW queued, FinishCall(ok, queued)
    PROVE  responses' = queued \/ \E e \in Response : responses' = Append(queued, e)
BY DEF FinishCall, Response

LEMMA HandStep == StreamTypeOK /\ InHandInv /\ [Next]_vars => InHandInv'
<1> SUFFICES ASSUME StreamTypeOK, InHandInv, [Next]_vars PROVE InHandInv'
    OBVIOUS
<1> DEFINE Appends ==
        /\ UNCHANGED <<inHand, alreadyFinished>>
        /\ responses' = responses \/ \E e \in Response : responses' = Append(responses, e)
<1>1. CASE CallNotMade
    <2>1. Appends
        BY <1>1, FinishAppends DEF CallNotMade
    <2> QED
        BY <2>1, HandKept
<1>2. CASE StatusReceived \/ MessageNotHeld
    <2>1. Appends
        BY <1>2, FinishAppends DEF StatusReceived, MessageNotHeld
    <2> QED
        BY <2>1, HandKept
<1>3. CASE MessageReceived
    <2>1. Appends
        BY <1>3 DEF MessageReceived, Response
    <2> QED
        BY <2>1, HandKept
<1>4. CASE CheckAnswer
    BY <1>4 DEF CheckAnswer, Taking, Heard, InHandInv
<1>5. CASE RunAnswer \/ RunBadAnswer
    BY <1>5 DEF RunAnswer, RunBadAnswer, InHandInv
<1>6. CASE RunEnd \/ RunDropped
    BY <1>6 DEF RunEnd, RunDropped, Taking, BetweenTurns, InHandInv
<1>7. CASE \/ EnterStream /\ ~CallNotMade
           \/ WriteRequest \/ StopStreaming \/ PipeStep \/ CallQueueStep
           \/ WriteDone \/ ResumeWriter \/ HeadersReceived \/ NothingToHandle
           \/ CancelCall \/ FinishForwarding \/ FinishWriter
           \/ StreamStep \/ NetworkStep \/ UNCHANGED vars
    <2>1. UNCHANGED responseVars
        BY <1>7 DEF EnterStream, OpenCall, InvokeCall, StartForwarding, StartPipe,
            ResumeWriteQueue, WriteRequest, StopStreaming, PipeStep, CallQueueStep, WriteDone,
            ResumeWriter, HeadersReceived, NothingToHandle, CancelCall, FinishForwarding,
            FinishWriter, StreamStep, NetworkStep, RestUnchanged, vars
    <2> QED
        BY <2>1, HandKept DEF responseVars
<1> QED
    BY <1>1, <1>2, <1>3, <1>4, <1>5, <1>6, <1>7 DEF Next, RunResponse, LoopStep

LEMMA TypeInvariance == SafetySpec => [](StreamTypeOK /\ InHandInv)
<1>1. Init => InHandInv
    BY DEF Init, InHandInv
<1> QED
    BY <1>1, InitType, TypeStep, HandStep, PipeInvariance, PTL DEF SafetySpec

\* The type invariant of the call path.
THEOREM StreamTypeCorrect == SafetySpec => []StreamTypeOK
BY TypeInvariance, PTL

-----------------------------------------------------------------------------
(* The queue between the threads and the core, and who may fill it.        *)

Queued(q, op) == \E i \in DOMAIN q : op \in q[i].ops
Once(q, op) == \A i, j \in DOMAIN q : op \in q[i].ops /\ op \in q[j].ops => i = j

\* Nobody has anything to do with an operation.
IdleIn(q, slots, op) == ~Queued(q, op) /\ slots[op] = "free"
Idle(op) == IdleIn(callQueue, slot, op)

\* An operation waits in one place only: once in the call queue, or in its
\* slot, whose event is once in the completion queue.
QueueInv ==
    /\ ~rejected
    /\ \A op \in Ops : Once(callQueue, op)
    /\ \A op \in Ops : Queued(callQueue, op) => slot[op] = "free"
    /\ \A i \in DOMAIN callQueue :
          callQueue[i].message # 0 => callQueue[i].ops = {"sendMessage"}
    /\ \A i \in DOMAIN cq : slot[cq[i].op] = "posted"
    /\ \A i, j \in DOMAIN cq : cq[i].op = cq[j].op => i = j

\* A pipe that could pass a message on has none under way.
WriterInv ==
    /\ pipeState \in {"NotStarted", "Started"} => Idle("sendMessage") /\ loop # "resume"
    /\ loop = "resume" => Idle("sendMessage")
    /\ pipeTarget /\ fwdTarget => fwdWriter
    /\ main = "starting" /\ fwdTarget => fwdWriter
    /\ NotYetStarted => ~pipeTarget

\* The operations that start once, and the end of the writer before the last.
OnceInv ==
    /\ main \in {"none", "opening"} =>
          Idle("sendHeaders") /\ Idle("recvHeaders") /\ Idle("recvStatus")
    /\ main # "stopped" => Idle("sendClose")
    /\ ~Idle("sendClose") => ~fwdTarget

AnswerWaits == \E i \in DOMAIN responses : responses[i] = "answer"

\* Nobody reads before the headers have come, or while an answer waits.
ReaderInv ==
    /\ \A i, j \in DOMAIN responses : responses[i] = "answer" /\ responses[j] = "answer" => i = j
    /\ AnswerWaits => Idle("recvMessage")
    /\ slot["recvHeaders"] # "used" => Idle("recvMessage") /\ ~AnswerWaits

UnderWayIn(q, slots) == Queued(q, "sendMessage") \/ slots["sendMessage"] = "busy"
UnderWay == UnderWayIn(callQueue, slot)

\* The pipe has started, and has a call to pass messages on to.
Passing == pipeState \in {"Started", "Paused"} /\ fwdTarget /\ callState # "Finished"

\* The write queue holds the last messages written.
PipeOrder ==
    /\ Len(writeQueue) <= written
    /\ \A i \in DOMAIN writeQueue : writeQueue[i] = (written - Len(writeQueue)) + i
    /\ pipeState = "NotStarted" => Len(writeQueue) = written /\ sent = <<>>
    /\ pipeState \in {"Started", "Paused"} => pipeTarget

\* What has left it is sent, but for one message under way, while the call
\* lives: the next message is the next number.
CallOrder ==
    /\ \A i \in DOMAIN callQueue :
          "sendMessage" \in callQueue[i].ops => callQueue[i].message # 0
    /\ stream = "live" =>
          /\ \A i \in DOMAIN callQueue :
                callQueue[i].message # 0 => callQueue[i].message = Len(sent) + 1
          /\ slot["sendMessage"] = "busy" => outgoing = Len(sent) + 1
          /\ Passing => written - Len(writeQueue) = Len(sent) + (IF UnderWay THEN 1 ELSE 0)

FlowInv == SentInOrder /\ PipeOrder /\ CallOrder

Parts == QueueInv /\ WriterInv /\ OnceInv /\ ReaderInv
CallInv == StreamTypeOK /\ InHandInv /\ PipeInv /\ Parts

-----------------------------------------------------------------------------
(* What the steps do to the queue and the slots.                           *)

LEMMA QueuedAppend ==
    ASSUME NEW q \in Seq(CallBlock), NEW b \in CallBlock
    PROVE  \A op : Queued(Append(q, b), op) <=> Queued(q, op) \/ op \in b.ops
<1>1. /\ DOMAIN q = 1..Len(q) /\ Len(q) \in Nat
      /\ DOMAIN Append(q, b) = 1..(Len(q) + 1)
      /\ Append(q, b)[Len(q) + 1] = b
      /\ \A i \in 1..Len(q) : Append(q, b)[i] = q[i]
    OBVIOUS
<1> QED
    BY <1>1, SMT DEF Queued

LEMMA OnceAppend ==
    ASSUME NEW q \in Seq(CallBlock), NEW b \in CallBlock, NEW op, Once(q, op),
           op \in b.ops => ~Queued(q, op)
    PROVE  Once(Append(q, b), op)
<1>1. /\ DOMAIN q = 1..Len(q) /\ Len(q) \in Nat
      /\ DOMAIN Append(q, b) = 1..(Len(q) + 1)
      /\ Append(q, b)[Len(q) + 1] = b
      /\ \A i \in 1..Len(q) : Append(q, b)[i] = q[i]
    OBVIOUS
<1> QED
    BY <1>1, SMT DEF Once, Queued

LEMMA TailIndex ==
    ASSUME NEW S, NEW q \in Seq(S), q # <<>>
    PROVE  /\ 1 \in DOMAIN q /\ q[1] = Head(q)
           /\ \A i \in DOMAIN Tail(q) :
                 i \in Nat \ {0} /\ i + 1 \in DOMAIN q /\ Tail(q)[i] = q[i + 1]
OBVIOUS

LEMMA QueuedTail ==
    ASSUME NEW q \in Seq(CallBlock), q # <<>>, NEW op, Once(q, op)
    PROVE  /\ Once(Tail(q), op)
           /\ Queued(q, op) <=> Queued(Tail(q), op) \/ op \in Head(q).ops
           /\ op \in Head(q).ops => ~Queued(Tail(q), op)
<1>1. /\ 1 \in DOMAIN q /\ q[1] = Head(q)
      /\ \A i \in DOMAIN Tail(q) :
            i \in Nat \ {0} /\ i + 1 \in DOMAIN q /\ Tail(q)[i] = q[i + 1]
    BY TailIndex
<1>2. \A i \in DOMAIN q : i = 1 \/ (i \in Nat /\ i - 1 \in DOMAIN Tail(q) /\ Tail(q)[i - 1] = q[i])
    OBVIOUS
<1>3. Once(Tail(q), op)
    BY <1>1 DEF Once
<1>4. Queued(q, op) <=> Queued(Tail(q), op) \/ op \in Head(q).ops
    BY <1>1, <1>2 DEF Queued
<1>5. op \in Head(q).ops => ~Queued(Tail(q), op)
    BY <1>1 DEF Queued, Once
<1> QED
    BY <1>3, <1>4, <1>5

\* A block is posted whose operations nobody has to do with.
LEMMA PostBlock ==
    ASSUME StreamTypeOK, QueueInv, NEW b \in CallBlock,
           callQueue' = Append(callQueue, b), UNCHANGED coreVars,
           \A op \in b.ops : Idle(op), b.message # 0 => b.ops = {"sendMessage"}
    PROVE  /\ QueueInv'
           /\ \A op \in Ops : Idle(op)' <=> Idle(op) /\ op \notin b.ops
<1> USE DEF Idle, IdleIn
<1>0. callQueue \in Seq(CallBlock) /\ b.ops \in SUBSET Ops
    BY DEF StreamTypeOK, CallBlock
<1>1. \A op \in Ops : Queued(callQueue', op) <=> Queued(callQueue, op) \/ op \in b.ops
    BY <1>0, QueuedAppend
<1>2. \A op \in Ops : Once(callQueue', op)
    BY <1>0, OnceAppend DEF QueueInv
<1>3. \A i \in DOMAIN callQueue' :
          callQueue'[i].message # 0 => callQueue'[i].ops = {"sendMessage"}
    BY <1>0 DEF QueueInv
<1>4. \A op \in Ops : Queued(callQueue', op) => slot[op] = "free"
    BY <1>0, <1>1 DEF QueueInv
<1> QED
    BY <1>1, <1>2, <1>3, <1>4 DEF QueueInv, coreVars

\* Nothing happens to them.
LEMMA QueueFrame ==
    ASSUME QueueInv, UNCHANGED <<callQueue, slot, cq, rejected>>
    PROVE  QueueInv' /\ \A op \in Ops : Idle(op)' <=> Idle(op)
BY DEF QueueInv, Idle

LEMMA EventsType == CoreTypeOK => \A i \in DOMAIN cq : cq[i].op \in Ops
<1> SUFFICES ASSUME CoreTypeOK, NEW i \in DOMAIN cq PROVE cq[i].op \in Ops
    OBVIOUS
<1>1. cq[i] \in Completion
    BY DEF CoreTypeOK
<1> QED
    BY <1>1 DEF Completion

\* The call queue starts its first block: none of its operations is refused.
LEMMA StartBlock ==
    ASSUME StreamTypeOK, QueueInv, CallQueueStep
    PROVE  /\ QueueInv'
           /\ \A op \in Ops : Idle(op)' <=> Idle(op)
           /\ slot' = [op \in Ops |-> IF op \in Head(callQueue).ops THEN "busy" ELSE slot[op]]
<1> USE DEF Idle, IdleIn
<1> DEFINE b == Head(callQueue)
<1>0. /\ callQueue \in Seq(CallBlock) /\ callQueue # <<>> /\ callQueue' = Tail(callQueue)
      /\ b \in CallBlock /\ b.ops \in SUBSET Ops
    <2>1. callQueue \in Seq(CallBlock) /\ callQueue # <<>> /\ callQueue' = Tail(callQueue)
        BY DEF StreamTypeOK, CallQueueStep
    <2>2. b \in CallBlock
        BY <2>1, TailType
    <2> QED
        BY <2>1, <2>2 DEF CallBlock
<1>1. \A op \in Ops : /\ Once(callQueue', op)
                      /\ Queued(callQueue, op) <=> Queued(callQueue', op) \/ op \in b.ops
                      /\ op \in b.ops => ~Queued(callQueue', op)
    BY <1>0, QueuedTail DEF QueueInv
<1>2. \A i \in DOMAIN callQueue' :
          callQueue'[i].message # 0 => callQueue'[i].ops = {"sendMessage"}
    BY <1>0, TailIndex DEF QueueInv
<1>3. b.message # 0 => b.ops = {"sendMessage"}
    BY <1>0, TailIndex DEF QueueInv
<1>4. StartBatches(b.ops)
    BY <1>3 DEF CallQueueStep, SendMessage, Start
<1>5. \A op \in b.ops : slot[op] = "free"
    BY <1>0, <1>1 DEF QueueInv
<1>6. slot' = [op \in Ops |-> IF op \in b.ops THEN "busy" ELSE slot[op]] /\ ~rejected' /\ cq' = cq
    BY <1>4, <1>5 DEF StartBatches, QueueInv
<1>7. \A op \in Ops : Queued(callQueue', op) => slot'[op] = "free"
    BY <1>1, <1>6 DEF QueueInv
<1>8. \A i \in DOMAIN cq : cq[i].op \in Ops
    BY EventsType DEF StreamTypeOK
<1>9. \A i \in DOMAIN cq' : slot'[cq'[i].op] = "posted"
    BY <1>5, <1>6, <1>8 DEF QueueInv
<1>10. QueueInv'
    BY <1>1, <1>2, <1>6, <1>7, <1>9 DEF QueueInv
<1>11. \A op \in Ops : Idle(op)' <=> Idle(op)
    BY <1>1, <1>5, <1>6
<1> QED
    BY <1>6, <1>10, <1>11

\* The stream completes an operation.
LEMMA CompleteBlock ==
    ASSUME StreamTypeOK, QueueInv, NEW op \in Ops, NEW ok \in BOOLEAN, Complete(op, ok),
           callQueue' = callQueue
    PROVE  QueueInv' /\ \A o \in Ops : Idle(o)' <=> Idle(o)
<1> USE DEF Idle, IdleIn
<1>1. /\ slot[op] = "busy" /\ slot' = [slot EXCEPT ![op] = "posted"]
      /\ cq' = Append(cq, [op |-> op, ok |-> ok]) /\ rejected' = rejected
      /\ cq \in Seq(Completion) /\ slot \in [Ops -> {"free", "busy", "posted", "used"}]
    BY DEF Complete, StreamTypeOK, CoreTypeOK
<1> DEFINE e == [op |-> op, ok |-> ok]
<1>2. /\ DOMAIN cq = 1..Len(cq) /\ Len(cq) \in Nat
      /\ DOMAIN cq' = 1..(Len(cq) + 1)
      /\ cq'[Len(cq) + 1].op = op
      /\ \A i \in 1..Len(cq) : cq'[i] = cq[i] /\ cq[i].op \in Ops
    <2>1. e \in Completion /\ e.op = op /\ cq' = Append(cq, e)
        BY <1>1 DEF Completion
    <2> HIDE DEF e
    <2>2. \A i \in DOMAIN cq : cq[i].op \in Ops
        BY EventsType DEF StreamTypeOK
    <2> QED
        BY <1>1, <2>1, <2>2
<1>3. \A i \in 1..Len(cq) : cq[i].op # op
    BY <1>1, <1>2 DEF QueueInv
<1>4. \A i \in DOMAIN cq' : slot'[cq'[i].op] = "posted"
    BY <1>1, <1>2, <1>3 DEF QueueInv
<1>5. \A i, j \in DOMAIN cq' : cq'[i].op = cq'[j].op => i = j
    BY <1>2, <1>3 DEF QueueInv
<1>6. \A o \in Ops : Queued(callQueue, o) => slot'[o] = "free"
    BY <1>1 DEF QueueInv
<1> QED
    BY <1>1, <1>4, <1>5, <1>6 DEF QueueInv

\* The loop takes an event; it may have a read posted for it.
LEMMA TakeBlock ==
    ASSUME StreamTypeOK, QueueInv, NEW op \in Ops, NEW ok \in BOOLEAN, Completed(op, ok),
           \/ callQueue' = callQueue
           \/ /\ callQueue' = Append(callQueue, Batch({"recvMessage"}))
              /\ Idle("recvMessage") /\ op # "recvMessage"
    PROVE  /\ QueueInv'
           /\ slot[op] = "posted" /\ ~Queued(callQueue, op)
           /\ slot' = [slot EXCEPT ![op] = IF op \in OnceOps THEN "used" ELSE "free"]
           /\ \A o \in Ops \ {op, "recvMessage"} : Idle(o)' <=> Idle(o)
           /\ op \notin OnceOps => Idle(op)'
           /\ callQueue' = callQueue => (op # "recvMessage" => (Idle("recvMessage")' <=> Idle("recvMessage")))
<1> USE DEF Idle, IdleIn
<1>1. /\ cq \in Seq(Completion) /\ cq # <<>> /\ Head(cq).op = op /\ cq' = Tail(cq)
      /\ slot' = [slot EXCEPT ![op] = IF op \in OnceOps THEN "used" ELSE "free"]
      /\ rejected' = rejected
      /\ slot \in [Ops -> {"free", "busy", "posted", "used"}]
    <2>1. Head(cq).op = op
        BY DEF Completed
    <2> QED
        BY <2>1 DEF Completed, TakeCompletion, StreamTypeOK, CoreTypeOK
<1>2. /\ 1 \in DOMAIN cq /\ cq[1].op = op
      /\ \A i \in DOMAIN cq' :
            i \in Nat \ {0} /\ i + 1 \in DOMAIN cq /\ cq'[i] = cq[i + 1]
    BY <1>1, TailIndex
<1>3. slot[op] = "posted" /\ ~Queued(callQueue, op)
    BY <1>1, <1>2 DEF QueueInv
<1>4. \A i \in DOMAIN cq' : cq'[i].op # op /\ cq'[i].op \in Ops
    <2>1. \A i \in DOMAIN cq : cq[i].op \in Ops
        BY EventsType DEF StreamTypeOK
    <2>2. \A i \in DOMAIN cq' : cq[i + 1].op # cq[1].op
        BY <1>2 DEF QueueInv
    <2> QED
        BY <1>2, <2>1, <2>2
<1>5. /\ \A i \in DOMAIN cq' : slot'[cq'[i].op] = "posted"
      /\ \A i, j \in DOMAIN cq' : cq'[i].op = cq'[j].op => i = j
    BY <1>1, <1>2, <1>4 DEF QueueInv
<1>6. Batch({"recvMessage"}) \in CallBlock /\ callQueue \in Seq(CallBlock)
    BY BatchType DEF Ops, StreamTypeOK
<1>7. /\ \A o \in Ops : Once(callQueue', o)
      /\ \A o \in Ops \ {"recvMessage"} : Queued(callQueue', o) <=> Queued(callQueue, o)
      /\ callQueue' # callQueue => Idle("recvMessage") /\ op # "recvMessage"
    <2>1. CASE callQueue' = callQueue
        BY <2>1 DEF QueueInv
    <2>2. CASE /\ callQueue' = Append(callQueue, Batch({"recvMessage"}))
               /\ Idle("recvMessage") /\ op # "recvMessage"
        <3>1. Batch({"recvMessage"}).ops = {"recvMessage"}
            BY DEF Batch
        <3>2. \A o \in Ops : Once(callQueue', o)
            BY <1>6, <2>2, <3>1, OnceAppend DEF QueueInv
        <3>3. \A o : Queued(callQueue', o) <=> Queued(callQueue, o) \/ o = "recvMessage"
            BY <1>6, <2>2, <3>1, QueuedAppend
        <3> QED
            BY <2>2, <3>2, <3>3
    <2> QED
        BY <2>1, <2>2
<1>8. \A i \in DOMAIN callQueue' :
          callQueue'[i].message # 0 => callQueue'[i].ops = {"sendMessage"}
    BY <1>6 DEF QueueInv, Batch
<1>9. \A o \in Ops : Queued(callQueue', o) => slot'[o] = "free"
    BY <1>1, <1>3, <1>7 DEF QueueInv
<1> QED
    BY <1>1, <1>3, <1>5, <1>7, <1>8, <1>9 DEF QueueInv

-----------------------------------------------------------------------------
(* The steps of the threads.                                               *)

LEMMA InitParts == Init => Parts
BY DEF Init, CoreInit, Parts, QueueInv, WriterInv, OnceInv, ReaderInv, AnswerWaits,
       Idle, IdleIn, Once, Queued, NotYetStarted, Ops

\* The end of a call is behind the answers that wait, and is none.
LEMMA FinishAnswers ==
    ASSUME NEW ok \in BOOLEAN, NEW queued \in Seq(Response), FinishCall(ok, queued)
    PROVE  \A i \in DOMAIN responses' :
              responses'[i] = "answer" => i \in DOMAIN queued /\ queued[i] = "answer"
<1>1. CASE responses' = queued
    BY <1>1
<1>2. CASE \E e \in {"completed", "failed"} : responses' = Append(queued, e)
    <2>1. PICK e \in {"completed", "failed"} : responses' = Append(queued, e)
        BY <1>2
    <2>2. /\ DOMAIN responses' = 1..(Len(queued) + 1) /\ DOMAIN queued = 1..Len(queued)
          /\ Len(queued) \in Nat /\ responses'[Len(queued) + 1] = e
          /\ \A i \in 1..Len(queued) : responses'[i] = queued[i]
        BY <2>1
    <2> QED
        BY <2>2
<1> QED
    BY <1>1, <1>2 DEF FinishCall

LEMMA EnterParts ==
    ASSUME CallInv, EnterStream \/ WriteRequest
    PROVE  Parts'
<1> USE DEF CallInv, Parts, Idle, WriterInv, OnceInv, ReaderInv, AnswerWaits, Ops
<1>f. UNCHANGED <<callQueue, slot, cq, rejected>> =>
          QueueInv' /\ \A op \in Ops : Idle(op)' <=> Idle(op)
    BY QueueFrame
<1>1. CASE OpenCall
    BY <1>1, <1>f DEF OpenCall, coreVars, pipeVars, fwdVars, responseVars, NotYetStarted
<1>2. CASE InvokeCall
    <2>1. Batch({"sendHeaders", "recvHeaders", "recvStatus"}) \in CallBlock
        BY BatchType
    <2>2. /\ Batch({"sendHeaders", "recvHeaders", "recvStatus"}).ops =
                {"sendHeaders", "recvHeaders", "recvStatus"}
          /\ Batch({"sendHeaders", "recvHeaders", "recvStatus"}).message = 0
        BY DEF Batch
    <2>3. /\ QueueInv'
          /\ \A op \in Ops : Idle(op)' <=>
                Idle(op) /\ op \notin {"sendHeaders", "recvHeaders", "recvStatus"}
        BY <1>2, <2>1, <2>2, PostBlock DEF InvokeCall
    <2> QED
        BY <1>2, <2>3 DEF InvokeCall, coreVars, pipeVars, fwdVars, responseVars, NotYetStarted
<1>3. CASE CallNotMade
    <2>1. /\ \A i \in DOMAIN responses' : responses'[i] = "answer" =>
                i \in DOMAIN responses /\ responses[i] = "answer"
        BY <1>3, FinishAnswers DEF CallNotMade, StreamTypeOK, Response
    <2> QED
        BY <1>3, <1>f, <2>1 DEF CallNotMade, coreVars, pipeVars, fwdVars, NotYetStarted
<1>4. CASE StartForwarding
    BY <1>4, <1>f DEF StartForwarding, coreVars, pipeVars, callVars, responseVars, NotYetStarted
<1>5. CASE StartPipe
    BY <1>5, <1>f DEF StartPipe, coreVars, fwdVars, callVars, responseVars, NotYetStarted, PipeInv
<1>6. CASE ResumeWriteQueue
    BY <1>6, <1>f DEF ResumeWriteQueue, coreVars, fwdVars, callVars, responseVars, NotYetStarted
<1>7. CASE WriteRequest
    BY <1>7, <1>f DEF WriteRequest, coreVars, fwdVars, callVars, responseVars, NotYetStarted
<1> QED
    BY <1>1, <1>2, <1>3, <1>4, <1>5, <1>6, <1>7 DEF EnterStream

LEMMA StopParts ==
    ASSUME CallInv, StopStreaming
    PROVE  Parts'
<1> USE DEF CallInv, Parts, Idle, WriterInv, OnceInv, ReaderInv, AnswerWaits, Ops
<1>1. CASE callQueue' = callQueue
    <2>1. QueueInv' /\ \A op \in Ops : Idle(op)' <=> Idle(op)
        BY <1>1, QueueFrame DEF StopStreaming, coreVars
    <2> QED
        BY <2>1 DEF StopStreaming, coreVars, pipeVars, fwdVars, responseVars, NotYetStarted
<1>2. CASE callQueue' # callQueue
    <2>1. /\ callQueue' = Append(callQueue, Batch({"sendClose"}))
          /\ fwdTarget' = FALSE /\ fwdWriter' = FALSE
        BY <1>2 DEF StopStreaming, fwdVars
    <2>2. /\ Batch({"sendClose"}) \in CallBlock /\ Batch({"sendClose"}).ops = {"sendClose"}
          /\ Batch({"sendClose"}).message = 0
        BY BatchType DEF Batch
    <2>3. QueueInv' /\ \A op \in Ops : Idle(op)' <=> Idle(op) /\ op # "sendClose"
        BY <2>1, <2>2, PostBlock DEF StopStreaming
    <2> QED
        BY <2>1, <2>3 DEF StopStreaming, coreVars, pipeVars, responseVars, NotYetStarted
<1> QED
    BY <1>1, <1>2

\* The pipe passes a message on only when it has started, and pauses.
LEMMA PipeStepParts ==
    ASSUME CallInv, PipeStep
    PROVE  Parts'
<1> USE DEF CallInv, Parts, Idle, WriterInv, OnceInv, ReaderInv, AnswerWaits, Ops
<1>1. CASE ~Accepted
    <2>1. QueueInv' /\ \A op \in Ops : Idle(op)' <=> Idle(op)
        BY <1>1, QueueFrame DEF PipeStep, coreVars
    <2> QED
        BY <1>1, <2>1 DEF PipeStep, coreVars, appVars, fwdVars, responseVars, NotYetStarted
<1>2. CASE Accepted
    <2>1. pipeState = "Started" /\ fwdWriter
        BY <1>2 DEF PipeStep, Accepted, PipeInv, SuspendedOnce
    <2>2. pipeState' = "Paused" /\ callQueue' = Append(callQueue, Write(Head(writeQueue)))
        BY <1>2, <2>1 DEF PipeStep, PassOn, PausePipe
    <2>3. Head(writeQueue) \in Nat
        BY TailType DEF PipeStep, StreamTypeOK
    <2>4. /\ Write(Head(writeQueue)) \in CallBlock
          /\ Write(Head(writeQueue)).ops = {"sendMessage"}
        BY <2>3, WriteType DEF Write
    <2>5. QueueInv' /\ \A op \in Ops : Idle(op)' <=> Idle(op) /\ op # "sendMessage"
        BY <2>1, <2>2, <2>4, PostBlock DEF PipeStep
    <2> QED
        BY <2>1, <2>2, <2>5 DEF PipeStep, coreVars, appVars, fwdVars, responseVars, NotYetStarted
<1> QED
    BY <1>1, <1>2

LEMMA RunParts ==
    ASSUME CallInv, RunResponse
    PROVE  Parts'
<1> USE DEF CallInv, Parts, Idle, WriterInv, OnceInv, ReaderInv, AnswerWaits, Ops
<1>f. UNCHANGED <<callQueue, slot, cq, rejected>> =>
          QueueInv' /\ \A op \in Ops : Idle(op)' <=> Idle(op)
    BY QueueFrame
<1>0. /\ responses \in Seq(Response) /\ responses # <<>> /\ UNCHANGED <<coreVars, main>>
      /\ UNCHANGED <<pipeVars, fwdVars, loop>>
    BY DEF RunResponse, CheckAnswer, RunAnswer, RunBadAnswer, RunEnd, RunDropped, Taking,
           InHandInv, StreamTypeOK, Response, appVars, callVars
<1>1. /\ Tail(responses) \in Seq(Response)
      /\ 1 \in DOMAIN responses /\ responses[1] = Head(responses)
      /\ \A i \in DOMAIN Tail(responses) :
            i \in Nat \ {0} /\ i + 1 \in DOMAIN responses /\ Tail(responses)[i] = responses[i + 1]
    BY <1>0, TailType, TailIndex
<1>2. CASE RunAnswer
    <2>1. /\ Idle("recvMessage") /\ responses' = Tail(responses) /\ slot["recvHeaders"] = "used"
          /\ \A i \in DOMAIN responses' : responses'[i] # "answer"
        BY <1>1, <1>2 DEF RunAnswer, InHandInv
    <2>2. CASE callQueue' = callQueue
        BY <1>0, <1>2, <1>f, <2>1, <2>2 DEF RunAnswer, coreVars, pipeVars, fwdVars, NotYetStarted
    <2>3. CASE callQueue' = Append(callQueue, Batch({"recvMessage"}))
        <3>1. /\ Batch({"recvMessage"}) \in CallBlock /\ Batch({"recvMessage"}).ops = {"recvMessage"}
              /\ Batch({"recvMessage"}).message = 0
            BY BatchType DEF Batch
        <3>2. QueueInv' /\ \A op \in Ops : Idle(op)' <=> Idle(op) /\ op # "recvMessage"
            BY <1>0, <2>1, <2>3, <3>1, PostBlock
        <3> QED
            BY <1>0, <2>1, <3>2 DEF coreVars, pipeVars, fwdVars, NotYetStarted
    <2> QED
        BY <1>2, <2>2, <2>3 DEF RunAnswer, StartNextRead
<1>3. CASE RunBadAnswer \/ RunEnd \/ RunDropped
    <2>1. \A i \in DOMAIN responses' :
              responses'[i] = "answer" =>
                  i \in DOMAIN Tail(responses) /\ Tail(responses)[i] = "answer"
        BY <1>1, <1>3, FinishAnswers DEF RunBadAnswer, RunEnd, RunDropped
    <2>2. callQueue' = callQueue
        BY <1>3 DEF RunBadAnswer, RunEnd, RunDropped, callVars
    <2> QED
        BY <1>0, <1>1, <1>f, <2>1, <2>2 DEF coreVars, pipeVars, fwdVars, NotYetStarted
<1>4. CASE CheckAnswer
    BY <1>0, <1>4, <1>f DEF CheckAnswer, coreVars, pipeVars, fwdVars, callVars, NotYetStarted
<1> QED
    BY <1>2, <1>3, <1>4 DEF RunResponse

LEMMA CallQueueParts ==
    ASSUME CallInv, CallQueueStep
    PROVE  Parts'
<1> USE DEF CallInv, Parts, Idle, WriterInv, OnceInv, ReaderInv, AnswerWaits, Ops
<1>1. /\ QueueInv' /\ \A op \in Ops : Idle(op)' <=> Idle(op)
      /\ slot' = [op \in Ops |-> IF op \in Head(callQueue).ops THEN "busy" ELSE slot[op]]
    BY StartBlock
<1>2. slot["recvHeaders"] = "used" => slot'["recvHeaders"] = "used"
    <2>1. slot["recvHeaders"] = "used" => ~Queued(callQueue, "recvHeaders")
        BY DEF QueueInv
    <2>2. "recvHeaders" \notin Head(callQueue).ops \/ Queued(callQueue, "recvHeaders")
        BY TailIndex DEF Queued, CallQueueStep, StreamTypeOK
    <2> QED
        BY <1>1, <2>1, <2>2
<1> QED
    BY <1>1, <1>2 DEF CallQueueStep, appVars, pipeVars, fwdVars, responseVars, NotYetStarted

LEMMA NetParts ==
    ASSUME CallInv, StreamStep \/ NetworkStep
    PROVE  Parts'
<1> USE DEF CallInv, Parts, Idle, WriterInv, OnceInv, ReaderInv, AnswerWaits, Ops
<1>0. UNCHANGED <<appVars, pipeVars, fwdVars, callVars, responseVars>>
    BY DEF StreamStep, NetworkStep, RestUnchanged
<1> DEFINE Completes == \E op \in Ops, ok \in BOOLEAN : Complete(op, ok)
<1>1. CASE Completes
    <2>1. PICK op \in Ops, ok \in BOOLEAN : Complete(op, ok)
        BY <1>1
    <2>2. QueueInv' /\ \A o \in Ops : Idle(o)' <=> Idle(o)
        BY <1>0, <2>1, CompleteBlock DEF callVars
    <2>3. slot["recvHeaders"] = "used" => slot'["recvHeaders"] = "used"
        BY <2>1 DEF Complete, StreamTypeOK, CoreTypeOK
    <2> QED
        BY <1>0, <2>2, <2>3 DEF appVars, pipeVars, fwdVars, callVars, responseVars, NotYetStarted
<1>2. CASE UNCHANGED <<slot, cq, rejected>>
    <2>1. QueueInv' /\ \A o \in Ops : Idle(o)' <=> Idle(o)
        BY <1>0, <1>2, QueueFrame DEF callVars
    <2> QED
        BY <1>0, <1>2, <2>1 DEF appVars, pipeVars, fwdVars, callVars, responseVars, NotYetStarted
<1>3. StreamSteps => Completes
    BY DEF StreamStep, StreamSteps, HeadersSent, MessageSent, CloseSent, HeadersArrive,
           MessageRead, NoMoreMessages, StatusArrives, StreamTypeOK, CoreTypeOK
<1>4. NetworkStep => UNCHANGED <<slot, cq, rejected>>
    BY DEF NetworkStep, ServerSends, StreamEnds
<1> QED
    BY <1>1, <1>2, <1>3, <1>4 DEF StreamStep

LEMMA LoopParts ==
    ASSUME CallInv, LoopStep
    PROVE  Parts'
<1> USE DEF CallInv, Parts, Idle, WriterInv, OnceInv, ReaderInv, AnswerWaits, Ops
<1>f. UNCHANGED <<callQueue, slot, cq, rejected>> =>
          QueueInv' /\ \A op \in Ops : Idle(op)' <=> Idle(op)
    BY QueueFrame
<1>1. CASE WriteDone
    <2>1. /\ QueueInv' /\ slot["sendMessage"] = "posted"
          /\ slot' = [slot EXCEPT !["sendMessage"] = "free"]
          /\ \A o \in Ops \ {"sendMessage", "recvMessage"} : Idle(o)' <=> Idle(o)
          /\ Idle("sendMessage")'
          /\ Idle("recvMessage")' <=> Idle("recvMessage")
        BY <1>1, TakeBlock DEF WriteDone, OnceOps
    <2>2. ~Idle("sendMessage")
        BY <2>1 DEF IdleIn
    <2>3. slot'["recvHeaders"] = slot["recvHeaders"]
        BY <2>1
    <2> QED
        BY <1>1, <2>1, <2>2, <2>3 DEF WriteDone, appVars, pipeVars, fwdVars, responseVars,
           NotYetStarted
<1>2. CASE ResumeWriter
    BY <1>2, <1>f DEF ResumeWriter, ResumePipe, coreVars, appVars, fwdVars, responseVars,
                      NotYetStarted
<1>3. CASE HeadersReceived
    <2>1. Completed("recvHeaders", TRUE) /\ loop' = loop
        BY <1>3 DEF HeadersReceived, Completed
    <2>2. \/ callQueue' = callQueue
          \/ /\ callQueue' = Append(callQueue, Batch({"recvMessage"}))
             /\ Idle("recvMessage") /\ "recvHeaders" # "recvMessage"
        <3>1. slot["recvHeaders"] = "posted"
            BY <2>1, TailIndex DEF Completed, QueueInv, StreamTypeOK, CoreTypeOK
        <3> QED
            BY <1>3, <3>1 DEF HeadersReceived, StartNextRead
    <2>3. /\ QueueInv' /\ slot["recvHeaders"] = "posted"
          /\ slot' = [slot EXCEPT !["recvHeaders"] = "used"]
          /\ \A o \in Ops \ {"recvHeaders", "recvMessage"} : Idle(o)' <=> Idle(o)
        BY <2>1, <2>2, TakeBlock DEF OnceOps
    <2>4. slot'["recvHeaders"] = "used" /\ ~AnswerWaits /\ ~Idle("recvHeaders")
        BY <2>3 DEF IdleIn, StreamTypeOK, CoreTypeOK
    <2> QED
        BY <1>3, <2>3, <2>4 DEF HeadersReceived, appVars, pipeVars, fwdVars, responseVars,
           NotYetStarted
<1>4. CASE MessageReceived
    <2>1. /\ QueueInv' /\ slot["recvMessage"] = "posted"
          /\ slot' = [slot EXCEPT !["recvMessage"] = "free"]
          /\ \A o \in Ops \ {"recvMessage"} : Idle(o)' <=> Idle(o)
          /\ Idle("recvMessage")'
        BY <1>4, TakeBlock DEF MessageReceived, callVars, OnceOps
    <2>2. ~AnswerWaits /\ slot["recvHeaders"] = "used" /\ slot'["recvHeaders"] = "used"
        BY <2>1 DEF IdleIn
    <2>3. \A i, j \in DOMAIN responses' :
              responses'[i] = "answer" /\ responses'[j] = "answer" => i = j
        <3>1. /\ responses \in Seq(Response) /\ responses' = Append(responses, "answer")
            BY <1>4 DEF MessageReceived, StreamTypeOK, Response
        <3>2. /\ DOMAIN responses' = 1..(Len(responses) + 1) /\ DOMAIN responses = 1..Len(responses)
              /\ Len(responses) \in Nat
              /\ \A i \in 1..Len(responses) : responses'[i] = responses[i]
            BY <3>1
        <3> QED
            BY <2>2, <3>2
    <2> QED
        BY <1>4, <2>1, <2>2, <2>3 DEF MessageReceived, appVars, pipeVars, fwdVars, callVars,
                                      NotYetStarted
<1>5. CASE NothingToHandle
    <2>1. PICK op \in Ops \ {"recvStatus"}, ok \in BOOLEAN :
              Completed(op, ok) /\ (ok => op \in {"sendHeaders", "sendClose"})
        BY <1>5 DEF NothingToHandle
    <2>2. UNCHANGED <<appVars, pipeVars, fwdVars, callVars, responseVars>>
        BY <1>5 DEF NothingToHandle
    <2>3. /\ QueueInv' /\ slot[op] = "posted"
          /\ slot' = [slot EXCEPT ![op] = IF op \in OnceOps THEN "used" ELSE "free"]
          /\ \A o \in Ops \ {op, "recvMessage"} : Idle(o)' <=> Idle(o)
          /\ op \notin OnceOps => Idle(op)'
          /\ op # "recvMessage" => (Idle("recvMessage")' <=> Idle("recvMessage"))
        BY <2>1, <2>2, TakeBlock DEF callVars
    <2>4. ~Idle(op)
        BY <2>3 DEF IdleIn
    <2>5. slot["recvHeaders"] = "used" => slot'["recvHeaders"] = "used"
        BY <2>3
    <2> QED
        BY <2>1, <2>2, <2>3, <2>4, <2>5 DEF OnceOps, appVars, pipeVars, fwdVars, callVars,
                                            responseVars, NotYetStarted
<1>6. CASE StatusReceived
    <2>1. PICK ok \in BOOLEAN : Completed("recvStatus", ok) /\ FinishCall(ok, responses)
        BY <1>6 DEF StatusReceived
    <2>2. UNCHANGED <<appVars, pipeVars, fwdVars, callQueue>> /\ loop' = "finishForwarding"
        BY <1>6 DEF StatusReceived
    <2>3. /\ QueueInv' /\ slot["recvStatus"] = "posted"
          /\ slot' = [slot EXCEPT !["recvStatus"] = "used"]
          /\ \A o \in Ops \ {"recvStatus", "recvMessage"} : Idle(o)' <=> Idle(o)
          /\ Idle("recvMessage")' <=> Idle("recvMessage")
        BY <2>1, <2>2, TakeBlock DEF OnceOps
    <2>4. ~Idle("recvStatus") /\ slot'["recvHeaders"] = slot["recvHeaders"] /\ loop = "next"
        BY <2>1, <2>3 DEF IdleIn, Completed
    <2>5. \A i \in DOMAIN responses' : responses'[i] = "answer" =>
                i \in DOMAIN responses /\ responses[i] = "answer"
        BY <2>1, FinishAnswers DEF StreamTypeOK, Response
    <2> QED
        BY <2>2, <2>3, <2>4, <2>5 DEF appVars, pipeVars, fwdVars, NotYetStarted
<1>7. CASE FinishForwarding
    BY <1>7, <1>f DEF FinishForwarding, coreVars, appVars, pipeVars, responseVars, NotYetStarted
<1>8. CASE FinishWriter
    BY <1>8, <1>f DEF FinishWriter, FinishPipe, coreVars, appVars, fwdVars, responseVars,
                      NotYetStarted
<1>9. CASE MessageNotHeld
    <2>1. /\ QueueInv' /\ slot["recvMessage"] = "posted"
          /\ slot' = [slot EXCEPT !["recvMessage"] = "free"]
          /\ \A o \in Ops \ {"recvMessage"} : Idle(o)' <=> Idle(o)
          /\ Idle("recvMessage")'
        BY <1>9, TakeBlock DEF MessageNotHeld, OnceOps
    <2>2. ~AnswerWaits /\ slot["recvHeaders"] = "used" /\ slot'["recvHeaders"] = "used"
        BY <2>1 DEF IdleIn
    <2>3. \A i \in DOMAIN responses' : responses'[i] = "answer" =>
                i \in DOMAIN responses /\ responses[i] = "answer"
        BY <1>9, FinishAnswers DEF MessageNotHeld, StreamTypeOK, Response
    <2>4. loop = "next" /\ loop' = "cancelCall" /\ UNCHANGED <<appVars, pipeVars, fwdVars>>
        BY <1>9 DEF MessageNotHeld, Completed
    <2> QED
        BY <2>1, <2>2, <2>3, <2>4 DEF appVars, pipeVars, fwdVars, NotYetStarted
<1>10. CASE CancelCall
    BY <1>10, <1>f DEF CancelCall, Cancel, appVars, pipeVars, fwdVars, responseVars, NotYetStarted
<1> QED
    BY <1>1, <1>2, <1>3, <1>4, <1>5, <1>6, <1>7, <1>8, <1>9, <1>10 DEF LoopStep

LEMMA CallInvariance == SafetySpec => []CallInv
<1>1. Init => CallInv
    BY InitType, InitPipe, InitParts DEF CallInv, Init, InHandInv
<1>2. CallInv /\ PipeInv' /\ (StreamTypeOK /\ InHandInv)' /\ [Next]_vars => CallInv'
    <2> SUFFICES ASSUME CallInv, [Next]_vars PROVE Parts'
        BY DEF CallInv
    <2>1. CASE UNCHANGED vars
        BY <2>1 DEF vars, coreVars, appVars, pipeVars, fwdVars, callVars, responseVars, CallInv,
                    Parts, QueueInv, WriterInv, OnceInv, ReaderInv, AnswerWaits, Idle,
                    NotYetStarted
    <2> QED
        BY <2>1, EnterParts, StopParts, PipeStepParts, RunParts, CallQueueParts, NetParts,
           LoopParts DEF Next
<1> QED
    BY <1>1, <1>2, PipeInvariance, TypeInvariance, PTL DEF SafetySpec

\* Nothing in GRPCCall counts the batches it starts, and still the core never
\* refuses one (call.cc:1583): the pause of the pipe, the order of the
\* callbacks and the one half-close keep at most one of each kind under way.
THEOREM NeverRefused == SafetySpec => []NoBatchRefused
<1>1. CallInv => NoBatchRefused
    BY DEF CallInv, Parts, QueueInv, NoBatchRefused
<1> QED
    BY CallInvariance, <1>1, PTL

LEMMA SmallSet == \A S : (\A x, y \in S : x = y) => (S = {} \/ \E x : S = {x})
OBVIOUS

LEMMA CallOneResponse == CallInv => OneResponseInFlight
<1> SUFFICES ASSUME CallInv PROVE OneResponseInFlight
    OBVIOUS
<1> DEFINE R == {i \in DOMAIN callQueue : "recvMessage" \in callQueue[i].ops}
           A == {i \in DOMAIN responses : responses[i] = "answer"}
<1>1. R = {} \/ \E x : R = {x}
    BY SmallSet DEF CallInv, Parts, QueueInv, Once, Ops
<1>2. A = {} \/ \E x : A = {x}
    BY SmallSet DEF CallInv, Parts, ReaderInv
<1>3. /\ A # {} => R = {} /\ slot["recvMessage"] = "free"
      /\ R # {} => slot["recvMessage"] = "free"
    BY DEF CallInv, Parts, ReaderInv, QueueInv, AnswerWaits, Idle, IdleIn, Queued, Ops
<1>4. /\ R = {} => Cardinality(R) = 0
      /\ R # {} => Cardinality(R) = 1
      /\ A = {} => Cardinality(A) = 0
      /\ A # {} => Cardinality(A) = 1
    BY <1>1, <1>2, FS_EmptySet, FS_Singleton
<1> HIDE DEF R, A
<1>5. Cardinality(R) + Cardinality(A) + (IF slot["recvMessage"] = "free" THEN 0 ELSE 1) <= 1
    BY <1>3, <1>4
<1> QED
    BY <1>5 DEF R, A, OneResponseInFlight

\* However many responses the server sends, and whatever the threads do, the
\* app has one at a time (GRPCCallLegacy.m:295-347).
THEOREM OneAtATime == SafetySpec => []OneResponseInFlight
BY CallInvariance, CallOneResponse, PTL

-----------------------------------------------------------------------------
(* The half-close.                                                         *)

\* A message is posted while nobody has to do with the half-close, and the
\* half-close is posted behind the messages.
LEMMA ClosePost ==
    ASSUME CallInv, NothingFollowsClose, NEW b \in CallBlock,
           callQueue' = Append(callQueue, b),
           slot["sendClose"] = "free" => slot'["sendClose"] = "free",
           b.message # 0 => Idle("sendClose") /\ "sendClose" \notin b.ops
    PROVE  NothingFollowsClose'
<1>1. /\ DOMAIN callQueue = 1..Len(callQueue) /\ Len(callQueue) \in Nat
      /\ DOMAIN callQueue' = 1..(Len(callQueue) + 1)
      /\ callQueue'[Len(callQueue) + 1] = b
      /\ \A i \in 1..Len(callQueue) : callQueue'[i] = callQueue[i]
    BY DEF CallInv, StreamTypeOK
<1>2. ASSUME NEW i \in DOMAIN callQueue', callQueue'[i].message # 0
      PROVE  slot'["sendClose"] = "free" /\ \A j \in 1..i : "sendClose" \notin callQueue'[j].ops
    <2>1. CASE i \in 1..Len(callQueue)
        BY <1>1, <1>2, <2>1 DEF NothingFollowsClose
    <2>2. CASE i = Len(callQueue) + 1
        BY <1>1, <1>2, <2>2 DEF Idle, IdleIn, Queued
    <2> QED
        BY <1>1, <2>1, <2>2
<1> QED
    BY <1>2 DEF NothingFollowsClose

LEMMA CloseStart ==
    ASSUME CallInv, NothingFollowsClose, CallQueueStep
    PROVE  NothingFollowsClose'
<1>1. /\ callQueue # <<>> /\ callQueue' = Tail(callQueue) /\ callQueue \in Seq(CallBlock)
      /\ slot' = [op \in Ops |-> IF op \in Head(callQueue).ops THEN "busy" ELSE slot[op]]
    BY StartBlock DEF CallInv, Parts, CallQueueStep, StreamTypeOK
<1>2. /\ 1 \in DOMAIN callQueue /\ callQueue[1] = Head(callQueue)
      /\ \A i \in DOMAIN callQueue' :
            i \in Nat \ {0} /\ i + 1 \in DOMAIN callQueue /\ callQueue'[i] = callQueue[i + 1]
    BY <1>1, TailIndex
<1>3. ASSUME NEW i \in DOMAIN callQueue', callQueue'[i].message # 0
      PROVE  slot'["sendClose"] = "free" /\ \A j \in 1..i : "sendClose" \notin callQueue'[j].ops
    <2>1. i \in Nat \ {0} /\ i + 1 \in DOMAIN callQueue /\ callQueue[i + 1].message # 0
        BY <1>2, <1>3
    <2>2. slot["sendClose"] = "free" /\ \A j \in 1..(i + 1) : "sendClose" \notin callQueue[j].ops
        BY <2>1 DEF NothingFollowsClose
    <2>3. "sendClose" \notin Head(callQueue).ops
        BY <1>2, <2>1, <2>2
    <2>4. \A j \in 1..i : j \in DOMAIN callQueue' /\ j + 1 \in 1..(i + 1)
        BY <1>1, <2>1
    <2> QED
        BY <1>1, <1>2, <2>2, <2>3, <2>4 DEF Ops
<1> QED
    BY <1>3 DEF NothingFollowsClose

\* The others leave the call queue alone, and a free slot free.
LEMMA CloseFrame ==
    ASSUME NothingFollowsClose, callQueue' = callQueue,
           slot["sendClose"] = "free" => slot'["sendClose"] = "free"
    PROVE  NothingFollowsClose'
BY DEF NothingFollowsClose

\* What the server is sent ends with the half-close: no message is on its way
\* to the core behind it, although stopStreaming posts it past the messages
\* that wait on the write queue (GRPCCallLegacy.m:456-480).
THEOREM CloseIsLast == SafetySpec => []NothingFollowsClose
<1>1. Init => NothingFollowsClose
    BY DEF Init, NothingFollowsClose
<1>2. CallInv /\ NothingFollowsClose /\ [Next]_vars => NothingFollowsClose'
    <2> SUFFICES ASSUME CallInv, NothingFollowsClose, [Next]_vars PROVE NothingFollowsClose'
        OBVIOUS
    <2>0. /\ StreamTypeOK /\ QueueInv /\ slot \in [Ops -> {"free", "busy", "posted", "used"}]
          /\ PipeInv /\ OnceInv /\ ReaderInv
        BY DEF CallInv, Parts, StreamTypeOK, CoreTypeOK
    <2>b. /\ Batch({"sendHeaders", "recvHeaders", "recvStatus"}) \in CallBlock
          /\ Batch({"sendClose"}) \in CallBlock /\ Batch({"recvMessage"}) \in CallBlock
          /\ \A ops : Batch(ops).message = 0
        BY BatchType DEF Batch, Ops
    <2>1. CASE EnterStream \/ WriteRequest \/ StopStreaming
        <3>1. slot' = slot
            BY <2>1 DEF EnterStream, OpenCall, InvokeCall, CallNotMade, StartForwarding,
                        StartPipe, ResumeWriteQueue, WriteRequest, StopStreaming, coreVars
        <3>2. \/ callQueue' = callQueue
              \/ callQueue' = Append(callQueue, Batch({"sendHeaders", "recvHeaders", "recvStatus"}))
              \/ callQueue' = Append(callQueue, Batch({"sendClose"}))
            BY <2>1 DEF EnterStream, OpenCall, InvokeCall, CallNotMade, StartForwarding,
                        StartPipe, ResumeWriteQueue, WriteRequest, StopStreaming, callVars
        <3> QED
            BY <2>b, <3>1, <3>2, ClosePost, CloseFrame
    <2>2. CASE RunResponse
        <3>1. slot' = slot /\ (\/ callQueue' = callQueue
                              \/ callQueue' = Append(callQueue, Batch({"recvMessage"})))
            BY <2>2 DEF RunResponse, CheckAnswer, RunAnswer, RunBadAnswer, RunEnd, RunDropped,
               StartNextRead, coreVars, callVars
        <3> QED
            BY <2>b, <3>1, ClosePost, CloseFrame
    <2>3. CASE PipeStep
        <3>1. slot' = slot
            BY <2>3 DEF PipeStep, coreVars
        <3>2. CASE callQueue' = callQueue
            BY <3>1, <3>2, CloseFrame
        <3>3. CASE callQueue' # callQueue
            <4>1. fwdTarget /\ callQueue' = Append(callQueue, Write(Head(writeQueue)))
                BY <2>3, <3>3 DEF PipeStep, PassOn, Accepted
            <4>2. Write(Head(writeQueue)) \in CallBlock /\ "sendClose" \notin Write(Head(writeQueue)).ops
                <5>1. Head(writeQueue) \in Nat
                    BY <2>0, <2>3, TailType DEF PipeStep, StreamTypeOK
                <5> QED
                    BY <5>1, WriteType DEF Write
            <4>3. Idle("sendClose")
                BY <2>0, <4>1 DEF OnceInv
            <4> QED
                BY <3>1, <4>1, <4>2, <4>3, ClosePost
        <3> QED
            BY <3>2, <3>3
    <2>4. CASE CallQueueStep
        BY <2>4, CloseStart
    <2>5. CASE StreamStep \/ NetworkStep
        <3>1. callQueue' = callQueue
            BY <2>5 DEF StreamStep, NetworkStep, RestUnchanged, callVars
        <3>2. \A op \in Ops, ok \in BOOLEAN :
                  Complete(op, ok) => (slot["sendClose"] = "free" => slot'["sendClose"] = "free")
            BY <2>0 DEF Complete, Ops
        <3>3. StreamSteps => \E op \in Ops, ok \in BOOLEAN : Complete(op, ok)
            BY DEF StreamSteps, HeadersSent, MessageSent, CloseSent, HeadersArrive, MessageRead,
                   NoMoreMessages, StatusArrives, Ops
        <3>4. NetworkStep => slot' = slot
            BY DEF NetworkStep, ServerSends, StreamEnds
        <3> QED
            BY <2>5, <3>1, <3>2, <3>3, <3>4, CloseFrame DEF StreamStep
    <2>6. CASE LoopStep
        <3>1. CASE \E op \in Ops, ok \in BOOLEAN : Completed(op, ok)
            <4>1. PICK op \in Ops, ok \in BOOLEAN : Completed(op, ok)
                BY <3>1
            <4>2. slot' = [slot EXCEPT ![op] = IF op \in OnceOps THEN "used" ELSE "free"]
                <5>1. Head(cq).op = op
                    BY <4>1 DEF Completed
                <5> QED
                    BY <4>1, <5>1 DEF Completed, TakeCompletion
            <4>3. slot["sendClose"] = "free" => slot'["sendClose"] = "free"
                <5>1. slot[op] = "posted"
                    BY <2>0, <4>1, TailIndex DEF Completed, QueueInv, StreamTypeOK, CoreTypeOK
                <5> QED
                    BY <2>0, <4>2, <5>1 DEF Ops
            <4>4. callQueue' = callQueue \/ callQueue' = Append(callQueue, Batch({"recvMessage"}))
                BY <2>6 DEF LoopStep, WriteDone, ResumeWriter, HeadersReceived,
                   MessageReceived, NothingToHandle, MessageNotHeld, CancelCall, Cancel,
                   StatusReceived, FinishForwarding, FinishWriter, StartNextRead, callVars
            <4> QED
                BY <2>b, <4>3, <4>4, ClosePost, CloseFrame
        <3>2. CASE ResumeWriter \/ CancelCall \/ FinishForwarding \/ FinishWriter
            BY <3>2, CloseFrame DEF ResumeWriter, CancelCall, Cancel, FinishForwarding,
               FinishWriter, coreVars
        <3> QED
            BY <2>6, <3>1, <3>2 DEF LoopStep, WriteDone, HeadersReceived, MessageReceived,
                    NothingToHandle, MessageNotHeld, CancelCall, Cancel, StatusReceived, Ops
    <2>7. CASE UNCHANGED vars
        BY <2>7, CloseFrame DEF vars, coreVars, callVars
    <2> QED
        BY <2>1, <2>2, <2>3, <2>4, <2>5, <2>6, <2>7 DEF Next
<1> QED
    BY <1>1, <1>2, CallInvariance, PTL DEF SafetySpec

-----------------------------------------------------------------------------
(* The order of the messages.                                              *)

\* Steps that move no message.
LEMMA FlowFrame ==
    ASSUME FlowInv,
           UNCHANGED <<written, writeQueue, sent>>,
           stream' = "live" => stream = "live",
           \A i \in DOMAIN callQueue' :
              callQueue'[i].message # 0 \/ "sendMessage" \in callQueue'[i].ops =>
                  \E j \in DOMAIN callQueue : callQueue[j] = callQueue'[i],
           slot'["sendMessage"] = "busy" => slot["sendMessage"] = "busy" /\ outgoing' = outgoing,
           UnderWay' <=> UnderWay,
           pipeState' = "NotStarted" => pipeState = "NotStarted",
           pipeState' \in {"Started", "Paused"} =>
              pipeState \in {"Started", "Paused"} /\ pipeTarget' = pipeTarget,
           Passing' => Passing
    PROVE  FlowInv'
<1> USE DEF FlowInv
<1>1. SentInOrder'
    BY DEF SentInOrder
<1>2. PipeOrder'
    BY DEF PipeOrder
<1>3. CallOrder'
    BY DEF CallOrder
<1> QED
    BY <1>1, <1>2, <1>3

\* A block without a message is posted, or none.
LEMMA FlowPost ==
    ASSUME CallInv, NEW b \in CallBlock, b.message = 0, "sendMessage" \notin b.ops,
           callQueue' = callQueue \/ callQueue' = Append(callQueue, b)
    PROVE  /\ \A i \in DOMAIN callQueue' :
                  callQueue'[i].message # 0 \/ "sendMessage" \in callQueue'[i].ops =>
                      \E j \in DOMAIN callQueue : callQueue[j] = callQueue'[i]
           /\ Queued(callQueue', "sendMessage") <=> Queued(callQueue, "sendMessage")
<1>1. callQueue \in Seq(CallBlock)
    BY DEF CallInv, StreamTypeOK
<1>2. CASE callQueue' = callQueue
    BY <1>2
<1>3. CASE callQueue' = Append(callQueue, b)
    <2>1. /\ DOMAIN callQueue = 1..Len(callQueue) /\ Len(callQueue) \in Nat
          /\ DOMAIN callQueue' = 1..(Len(callQueue) + 1)
          /\ callQueue'[Len(callQueue) + 1] = b
          /\ \A i \in 1..Len(callQueue) : callQueue'[i] = callQueue[i]
        BY <1>1, <1>3
    <2> QED
        BY <1>1, <1>3, <2>1, QueuedAppend
<1> QED
    BY <1>2, <1>3

LEMMA NoMessageBlocks ==
    /\ \A ops : Batch(ops).ops = ops /\ Batch(ops).message = 0
    /\ \A ops \in {{"sendHeaders", "recvHeaders", "recvStatus"}, {"sendClose"}, {"recvMessage"}} :
          Batch(ops) \in CallBlock /\ "sendMessage" \notin ops
BY BatchType DEF Batch, Ops

LEMMA MainFlow ==
    ASSUME CallInv, FlowInv, EnterStream \/ WriteRequest \/ StopStreaming
    PROVE  FlowInv'
<1>0. /\ writeQueue \in Seq(Nat) /\ callQueue \in Seq(CallBlock) /\ written \in Nat
      /\ sent \in Seq(Nat) /\ QueueInv /\ WriterInv /\ PipeInv
    BY DEF CallInv, Parts, StreamTypeOK, CoreTypeOK
<1>1. CASE StartPipe
    <2>1. /\ pipeState = "NotStarted" /\ Idle("sendMessage")
        BY <1>0, <1>1 DEF StartPipe, PipeInv, NotYetStarted, WriterInv
    <2>2. ~UnderWay
        BY <2>1 DEF UnderWay, UnderWayIn, Idle, IdleIn
    <2>3. Len(writeQueue) = written /\ sent = <<>>
        BY <2>1 DEF FlowInv, PipeOrder
    <2>4. ~UnderWay'
        BY <1>1, <2>2 DEF StartPipe, UnderWay, coreVars, callVars
    <2>5. SentInOrder' /\ PipeOrder'
        BY <1>1 DEF StartPipe, coreVars, FlowInv, SentInOrder, PipeOrder
    <2>6. CallOrder'
        BY <1>0, <1>1, <2>3, <2>4 DEF StartPipe, coreVars, callVars, FlowInv, CallOrder
    <2> QED
        BY <2>5, <2>6 DEF FlowInv
<1>2. CASE WriteRequest
    <2>1. /\ written' = written + 1 /\ writeQueue' = Append(writeQueue, written + 1)
          /\ Len(writeQueue') = Len(writeQueue) + 1
          /\ UNCHANGED <<coreVars, pipeState, pipeTarget, fwdVars, callVars>>
        BY <1>0, <1>2 DEF WriteRequest
    <2>2. Len(writeQueue) <= written /\ Len(writeQueue) \in Nat
        BY <1>0 DEF FlowInv, PipeOrder
    <2>3. written' - Len(writeQueue') = written - Len(writeQueue)
        BY <1>0, <2>1, <2>2
    <2>4. \A i \in DOMAIN writeQueue' : writeQueue'[i] = (written' - Len(writeQueue')) + i
        <3>1. /\ DOMAIN writeQueue = 1..Len(writeQueue)
              /\ DOMAIN writeQueue' = 1..(Len(writeQueue) + 1)
              /\ writeQueue'[Len(writeQueue) + 1] = written + 1
              /\ \A i \in 1..Len(writeQueue) : writeQueue'[i] = writeQueue[i]
            BY <1>0, <2>1
        <3>2. \A i \in 1..Len(writeQueue) : writeQueue[i] = (written - Len(writeQueue)) + i
            BY <3>1 DEF FlowInv, PipeOrder
        <3>3. written + 1 = (written - Len(writeQueue)) + (Len(writeQueue) + 1)
            BY <1>0, <2>2
        <3> QED
            BY <2>2, <2>3, <3>1, <3>2, <3>3
    <2>5. PipeOrder'
        <3>1. Len(writeQueue') <= written'
            BY <1>0, <2>1, <2>2
        <3>2. pipeState' = "NotStarted" => Len(writeQueue') = written' /\ sent' = <<>>
            BY <1>0, <2>1, <2>2 DEF FlowInv, PipeOrder, coreVars
        <3>3. pipeState' \in {"Started", "Paused"} => pipeTarget'
            BY <2>1 DEF FlowInv, PipeOrder
        <3> QED
            BY <2>4, <3>1, <3>2, <3>3 DEF PipeOrder
    <2>6. SentInOrder' /\ CallOrder'
        BY <2>1, <2>3 DEF coreVars, callVars, fwdVars, FlowInv, SentInOrder, CallOrder, Passing,
                          UnderWay
    <2> QED
        BY <2>5, <2>6 DEF FlowInv
<1>3. CASE \/ OpenCall \/ InvokeCall \/ CallNotMade \/ StartForwarding
           \/ ResumeWriteQueue \/ StopStreaming
    <2>1. UNCHANGED <<coreVars, pipeState, pipeTarget, written, writeQueue>>
        BY <1>3 DEF OpenCall, InvokeCall, CallNotMade, StartForwarding, ResumeWriteQueue,
                    StopStreaming, pipeVars
    <2>2. \E ops \in {{"sendHeaders", "recvHeaders", "recvStatus"}, {"sendClose"}} :
              callQueue' = callQueue \/ callQueue' = Append(callQueue, Batch(ops))
        BY <1>3 DEF OpenCall, InvokeCall, CallNotMade, StartForwarding, ResumeWriteQueue,
                    StopStreaming, callVars
    <2>3. Passing' => Passing
        BY <1>0, <1>3, <2>1 DEF Passing, OpenCall, InvokeCall, CallNotMade, FinishCall,
                    StartForwarding, ResumeWriteQueue, StopStreaming, PipeInv, NotYetStarted,
                    fwdVars, callVars
    <2>4. /\ \A i \in DOMAIN callQueue' :
                  callQueue'[i].message # 0 \/ "sendMessage" \in callQueue'[i].ops =>
                      \E j \in DOMAIN callQueue : callQueue[j] = callQueue'[i]
          /\ Queued(callQueue', "sendMessage") <=> Queued(callQueue, "sendMessage")
        BY <2>2, FlowPost, NoMessageBlocks
    <2>5. UnderWay' <=> UnderWay
        BY <2>1, <2>4 DEF UnderWay, UnderWayIn, coreVars
    <2> QED
        BY <2>1, <2>3, <2>4, <2>5, FlowFrame DEF coreVars
<1> QED
    BY <1>1, <1>2, <1>3 DEF EnterStream

\* The pipe hands the first of its messages over, or drops it: then the
\* pipe has finished, or the call has.
LEMMA PipeFlow ==
    ASSUME CallInv, FlowInv, PipeStep
    PROVE  FlowInv'
<1> DEFINE v == Head(writeQueue)
<1>0. /\ writeQueue \in Seq(Nat) /\ writeQueue # <<>> /\ callQueue \in Seq(CallBlock)
      /\ written \in Nat /\ sent \in Seq(Nat) /\ QueueInv /\ WriterInv /\ PipeInv
      /\ pipeState \in {"Started", "Finished"} /\ pipeState' # "NotStarted"
    BY DEF CallInv, Parts, StreamTypeOK, CoreTypeOK, PipeStep, PassOn, PausePipe, PipeInv,
           SuspendedOnce
<1>1. /\ writeQueue' = Tail(writeQueue) /\ Len(writeQueue') = Len(writeQueue) - 1
      /\ Len(writeQueue) \in Nat \ {0} /\ Len(writeQueue) <= written
      /\ UNCHANGED <<coreVars, written, pipeTarget, fwdVars, callState>>
      /\ 1 \in DOMAIN writeQueue /\ v = writeQueue[1]
    BY <1>0, TailIndex DEF PipeStep, appVars, FlowInv, PipeOrder
<1>2. v = (written - Len(writeQueue)) + 1 /\ v # 0 /\ v \in Nat
    <2>1. v = (written - Len(writeQueue)) + 1
        BY <1>1 DEF FlowInv, PipeOrder
    <2>2. written - Len(writeQueue) \in Nat
        BY <1>0, <1>1
    <2> QED
        BY <2>1, <2>2
<1>3. \A i \in DOMAIN writeQueue' : writeQueue'[i] = (written' - Len(writeQueue')) + i
    <2>1. \A i \in DOMAIN writeQueue' :
              i \in Nat \ {0} /\ i + 1 \in DOMAIN writeQueue /\ writeQueue'[i] = writeQueue[i + 1]
        BY <1>0, <1>1, TailIndex
    <2>2. \A i \in DOMAIN writeQueue' : writeQueue'[i] = (written - Len(writeQueue)) + (i + 1)
        BY <2>1 DEF FlowInv, PipeOrder
    <2> QED
        BY <1>0, <1>1, <2>1, <2>2
<1>4. SentInOrder' /\ PipeOrder'
    <2>1. pipeState' \in {"Started", "Paused"} => pipeTarget
        BY <1>0 DEF FlowInv, PipeOrder, PipeStep, PassOn, PausePipe
    <2> QED
        <3>1. Len(writeQueue') <= written' /\ (pipeState' \in {"Started", "Paused"} => pipeTarget')
            BY <1>0, <1>1, <2>1
        <3> QED
            BY <1>0, <1>1, <1>3, <3>1 DEF FlowInv, SentInOrder, PipeOrder, coreVars
<1>5. CASE ~Accepted
    <2>1. UNCHANGED <<pipeState, callQueue>> /\ ~Passing
        BY <1>0, <1>5 DEF PipeStep, Passing, Accepted, FlowInv, PipeOrder
    <2>2. ~Passing'
        BY <1>1, <2>1 DEF Passing, fwdVars
    <2>3. CallOrder'
        BY <1>1, <2>1, <2>2 DEF FlowInv, CallOrder, coreVars
    <2> QED
        BY <1>4, <2>3 DEF FlowInv
<1>6. CASE Accepted
    <2>1. pipeState = "Started" /\ Passing /\ Idle("sendMessage")
        BY <1>0, <1>6 DEF Accepted, Passing, WriterInv
    <2>2. ~UnderWay /\ callQueue' = Append(callQueue, Write(v))
        BY <1>6, <2>1 DEF UnderWay, UnderWayIn, Idle, IdleIn, PipeStep, PassOn
    <2>3. /\ Write(v) \in CallBlock /\ Write(v).ops = {"sendMessage"} /\ Write(v).message = v
        BY <1>2, WriteType DEF Write
    <2>4. UnderWay'
        BY <1>0, <2>2, <2>3, QueuedAppend DEF UnderWay, UnderWayIn
    <2>5. stream = "live" => v = Len(sent) + 1
        BY <1>0, <1>1, <1>2, <2>1, <2>2 DEF FlowInv, CallOrder
    <2>6. /\ DOMAIN callQueue = 1..Len(callQueue) /\ Len(callQueue) \in Nat
          /\ DOMAIN callQueue' = 1..(Len(callQueue) + 1)
          /\ callQueue'[Len(callQueue) + 1] = Write(v)
          /\ \A i \in 1..Len(callQueue) : callQueue'[i] = callQueue[i]
        BY <1>0, <2>2, <2>3
    <2>7. \A i \in DOMAIN callQueue' :
              "sendMessage" \in callQueue'[i].ops => callQueue'[i].message # 0
        BY <1>2, <2>3, <2>6 DEF FlowInv, CallOrder
    <2>8. stream = "live" => \A i \in DOMAIN callQueue' :
              callQueue'[i].message # 0 => callQueue'[i].message = Len(sent) + 1
        BY <2>3, <2>5, <2>6 DEF FlowInv, CallOrder
    <2>9. stream = "live" => written - Len(writeQueue') = Len(sent) + 1
        <3>1. written - Len(writeQueue') = (written - Len(writeQueue)) + 1
            BY <1>0, <1>1
        <3> QED
            BY <1>2, <2>5, <3>1
    <2>10. CallOrder'
        BY <1>1, <2>4, <2>7, <2>8, <2>9 DEF FlowInv, CallOrder, coreVars
    <2> QED
        BY <1>4, <2>10 DEF FlowInv
<1> QED
    BY <1>5, <1>6

LEMMA RunFlow ==
    ASSUME CallInv, FlowInv, RunResponse
    PROVE  FlowInv'
<1>1. UNCHANGED <<coreVars, appVars, pipeVars, fwdVars>>
    BY DEF RunResponse, CheckAnswer, RunAnswer, RunBadAnswer, RunEnd, RunDropped
<1>2. callQueue' = callQueue \/ callQueue' = Append(callQueue, Batch({"recvMessage"}))
    BY DEF RunResponse, CheckAnswer, RunAnswer, RunBadAnswer, RunEnd, RunDropped,
       StartNextRead, callVars
<1>3. callState' = "Finished" \/ callState' = callState
    BY DEF RunResponse, CheckAnswer, RunAnswer, RunBadAnswer, RunEnd, RunDropped, FinishCall,
       callVars
<1>4. /\ \A i \in DOMAIN callQueue' :
              callQueue'[i].message # 0 \/ "sendMessage" \in callQueue'[i].ops =>
                  \E j \in DOMAIN callQueue : callQueue[j] = callQueue'[i]
      /\ Queued(callQueue', "sendMessage") <=> Queued(callQueue, "sendMessage")
    BY <1>2, FlowPost, NoMessageBlocks
<1>5. (UnderWay' <=> UnderWay) /\ (Passing' => Passing)
    BY <1>1, <1>3, <1>4 DEF UnderWay, UnderWayIn, Passing, coreVars, pipeVars, fwdVars
<1> QED
    BY <1>1, <1>4, <1>5, FlowFrame DEF coreVars, appVars, pipeVars

\* The first message of the call queue becomes the one the core has.
LEMMA StartFlow ==
    ASSUME CallInv, FlowInv, CallQueueStep
    PROVE  FlowInv'
<1> DEFINE b == Head(callQueue)
<1>0. /\ callQueue \in Seq(CallBlock) /\ callQueue # <<>> /\ QueueInv
      /\ callQueue' = Tail(callQueue)
      /\ slot' = [op \in Ops |-> IF op \in b.ops THEN "busy" ELSE slot[op]]
    BY StartBlock DEF CallInv, Parts, StreamTypeOK, CallQueueStep
<1>1. /\ 1 \in DOMAIN callQueue /\ callQueue[1] = b
      /\ \A i \in DOMAIN callQueue' :
            i \in Nat \ {0} /\ i + 1 \in DOMAIN callQueue /\ callQueue'[i] = callQueue[i + 1]
    BY <1>0, TailIndex
<1>2. UNCHANGED <<sent, stream, written, writeQueue, pipeState, pipeTarget, fwdTarget, callState>>
    BY DEF CallQueueStep, SendMessage, Start, StartBatches, appVars, pipeVars, fwdVars
<1>3. Queued(callQueue, "sendMessage") <=>
          Queued(callQueue', "sendMessage") \/ "sendMessage" \in b.ops
    BY <1>0, QueuedTail DEF QueueInv, Ops
<1>4. UnderWay' <=> UnderWay
    BY <1>0, <1>3 DEF UnderWay, UnderWayIn, Ops
<1>5. CASE "sendMessage" \in b.ops
    <2>1. b.message # 0 /\ outgoing' = b.message
        <3>1. b.message # 0
            BY <1>1, <1>5 DEF FlowInv, CallOrder
        <3>2. slot["sendMessage"] = "free"
            BY <1>1, <1>5, <1>0 DEF QueueInv, Queued, Ops
        <3> QED
            BY <3>1, <3>2 DEF CallQueueStep, SendMessage
    <2>2. stream = "live" => outgoing' = Len(sent) + 1
        BY <1>1, <2>1 DEF FlowInv, CallOrder
    <2>3. CallOrder'
        BY <1>1, <1>2, <1>4, <2>2 DEF FlowInv, CallOrder, Passing
    <2> QED
        BY <1>2, <2>3 DEF FlowInv, SentInOrder, PipeOrder
<1>6. CASE "sendMessage" \notin b.ops
    <2>1. b.message = 0
        BY <1>1, <1>6 , <1>0 DEF QueueInv
    <2>2. outgoing' = outgoing /\ slot'["sendMessage"] = slot["sendMessage"]
        BY <1>0, <1>6, <2>1 DEF CallQueueStep, Start, Ops
    <2>3. Passing' <=> Passing
        BY <1>2 DEF Passing
    <2> QED
        BY <1>1, <1>2, <1>4, <2>2, <2>3, FlowFrame
<1> QED
    BY <1>5, <1>6

\* A live stream takes the message that is its turn.
LEMMA NetFlow ==
    ASSUME CallInv, FlowInv, StreamStep \/ NetworkStep
    PROVE  FlowInv'
<1>0. /\ UNCHANGED <<appVars, pipeVars, fwdVars, callVars>>
      /\ QueueInv /\ WriterInv /\ PipeInv /\ sent \in Seq(Nat)
      /\ slot \in [Ops -> {"free", "busy", "posted", "used"}]
    BY DEF StreamStep, NetworkStep, RestUnchanged, CallInv, Parts, StreamTypeOK, CoreTypeOK
<1>1. Passing' <=> Passing
    BY <1>0 DEF Passing, pipeVars, fwdVars, callVars
<1>2. CASE MessageSent
    <2>1. slot["sendMessage"] = "busy" /\ slot'["sendMessage"] = "posted" /\ outgoing' = outgoing
        BY <1>0, <1>2 DEF MessageSent, Complete, Ops
    <2>2. ~Queued(callQueue, "sendMessage") /\ UnderWay /\ ~UnderWay'
        BY <1>0, <2>1 DEF QueueInv, UnderWay, UnderWayIn, callVars, Ops
    <2>3. pipeState # "NotStarted"
        BY <1>0, <2>1 DEF WriterInv, Idle, IdleIn
    <2>4. \A i \in DOMAIN callQueue : callQueue[i].message = 0
        BY <1>0, <2>2 DEF QueueInv, Queued
    <2>5. CASE stream = "live"
        <3>1. outgoing = Len(sent) + 1 /\ sent' = Append(sent, outgoing) /\ stream' = stream
            BY <1>2, <2>1, <2>5 DEF FlowInv, CallOrder, MessageSent
        <3>2. SentInOrder'
            BY <1>0, <3>1 DEF FlowInv, SentInOrder
        <3>3. Len(sent') = Len(sent) + 1
            BY <1>0, <3>1
        <3>4. PipeOrder'
            BY <1>0, <2>3 DEF FlowInv, PipeOrder, appVars, pipeVars
        <3>5. Passing => written - Len(writeQueue) = Len(sent) + 1
            BY <2>2, <2>5 DEF FlowInv, CallOrder
        <3>6. CallOrder'
            BY <1>0, <1>1, <2>1, <2>2, <2>4, <3>3, <3>5 DEF FlowInv, CallOrder, appVars,
               pipeVars, callVars
        <3> QED
            BY <3>2, <3>4, <3>6 DEF FlowInv
    <2>6. CASE stream # "live"
        <3>1. UNCHANGED <<sent, stream>>
            BY <1>2, <2>6 DEF MessageSent
        <3>2. CallOrder'
            BY <1>0, <2>6, <3>1 DEF FlowInv, CallOrder, callVars
        <3> QED
            BY <1>0, <3>1, <3>2 DEF FlowInv, SentInOrder, PipeOrder, appVars, pipeVars
    <2> QED
        BY <2>5, <2>6
<1>3. CASE \/ HeadersSent \/ CloseSent \/ HeadersArrive
           \/ MessageRead \/ NoMoreMessages \/ StatusArrives
    <2>1. /\ UNCHANGED <<sent, stream, outgoing>>
          /\ \E op \in Ops \ {"sendMessage"} : slot' = [slot EXCEPT ![op] = "posted"]
        BY <1>3 DEF HeadersSent, CloseSent, HeadersArrive, MessageRead, NoMoreMessages,
           StatusArrives, Complete, Ops
    <2>2. slot'["sendMessage"] = slot["sendMessage"]
        BY <2>1
    <2>3. UnderWay' <=> UnderWay
        BY <1>0, <2>2 DEF UnderWay, UnderWayIn, callVars
    <2> QED
        BY <1>0, <1>1, <2>1, <2>2, <2>3, FlowFrame DEF appVars, pipeVars, callVars
<1>4. CASE NetworkStep
    <2>1. UNCHANGED <<sent, outgoing, slot>> /\ (stream' = "live" => stream = "live")
        BY <1>4 DEF NetworkStep, ServerSends, StreamEnds
    <2>2. UnderWay' <=> UnderWay
        BY <1>0, <2>1 DEF UnderWay, callVars
    <2> QED
        BY <1>0, <1>1, <2>1, <2>2, FlowFrame DEF appVars, pipeVars, callVars
<1> QED
    BY <1>2, <1>3, <1>4 DEF StreamStep, StreamSteps

LEMMA LoopFlow ==
    ASSUME CallInv, FlowInv, LoopStep
    PROVE  FlowInv'
<1> USE DEF LoopStep, WriteDone, ResumeWriter, HeadersReceived, MessageReceived,
           NothingToHandle, MessageNotHeld, CancelCall, Cancel, StatusReceived,
           FinishForwarding, FinishWriter
<1>0. /\ UNCHANGED <<appVars, writeQueue, sent, outgoing>>
      /\ stream' = "live" => stream = "live"
      /\ QueueInv /\ slot \in [Ops -> {"free", "busy", "posted", "used"}]
    BY DEF Completed, TakeCompletion, coreVars, pipeVars, CallInv, Parts, StreamTypeOK, CoreTypeOK
<1>1. callQueue' = callQueue \/ callQueue' = Append(callQueue, Batch({"recvMessage"}))
    BY DEF StartNextRead, callVars
<1>2. /\ \A i \in DOMAIN callQueue' :
              callQueue'[i].message # 0 \/ "sendMessage" \in callQueue'[i].ops =>
                  \E j \in DOMAIN callQueue : callQueue[j] = callQueue'[i]
      /\ Queued(callQueue', "sendMessage") <=> Queued(callQueue, "sendMessage")
    BY <1>1, FlowPost, NoMessageBlocks
<1>3. slot'["sendMessage"] = "busy" <=> slot["sendMessage"] = "busy"
    <2>1. CASE slot' = slot
        BY <2>1
    <2>2. CASE \E op \in Ops, ok \in BOOLEAN : Completed(op, ok)
        <3>1. PICK op \in Ops, ok \in BOOLEAN : Completed(op, ok)
            BY <2>2
        <3>2. Head(cq).op = op
            BY <3>1 DEF Completed
        <3>3. slot[op] = "posted"
            BY <1>0, <3>1, <3>2, TailIndex DEF Completed, QueueInv, CallInv, StreamTypeOK,
               CoreTypeOK
        <3>4. slot' = [slot EXCEPT ![op] = IF op \in OnceOps THEN "used" ELSE "free"]
            BY <3>1, <3>2 DEF Completed, TakeCompletion
        <3> QED
            BY <1>0, <3>3, <3>4
    <2> QED
        BY <2>1, <2>2 DEF coreVars, Ops
<1>4. UnderWay' <=> UnderWay
    BY <1>2, <1>3 DEF UnderWay, UnderWayIn
<1>5. /\ pipeState' = "NotStarted" => pipeState = "NotStarted"
      /\ pipeState' \in {"Started", "Paused"} =>
            pipeState \in {"Started", "Paused"} /\ pipeTarget' = pipeTarget
    BY DEF ResumePipe, FinishPipe, pipeVars
<1>6. Passing' => Passing
    <2>1. fwdTarget' => fwdTarget
        BY DEF fwdVars
    <2>2. callState' = "Finished" \/ callState' = callState
        BY DEF callVars, FinishCall
    <2> QED
        BY <1>5, <2>1, <2>2 DEF Passing
<1> QED
    BY <1>0, <1>2, <1>3, <1>4, <1>5, <1>6, FlowFrame DEF appVars

LEMMA FlowInvariance == SafetySpec => []FlowInv
<1>1. Init => FlowInv
    <2> SUFFICES ASSUME Init PROVE FlowInv
        OBVIOUS
    <2>1. SentInOrder /\ PipeOrder
        BY DEF Init, CoreInit, SentInOrder, PipeOrder
    <2>2. CallOrder
        <3>1. slot["sendMessage"] = "free" /\ ~Passing /\ callQueue = <<>>
            BY DEF Init, CoreInit, Passing, Ops
        <3> QED
            BY <3>1 DEF CallOrder
    <2> QED
        BY <2>1, <2>2 DEF FlowInv
<1>2. CallInv /\ FlowInv /\ [Next]_vars => FlowInv'
    <2> SUFFICES ASSUME CallInv, FlowInv, [Next]_vars PROVE FlowInv'
        OBVIOUS
    <2>1. CASE UNCHANGED vars
        BY <2>1 DEF vars, coreVars, appVars, pipeVars, fwdVars, callVars, FlowInv, SentInOrder,
                    PipeOrder, CallOrder, UnderWay, Passing
    <2> QED
        BY <2>1, MainFlow, PipeFlow, RunFlow, StartFlow, NetFlow, LoopFlow DEF Next
<1> QED
    BY <1>1, <1>2, CallInvariance, PTL DEF SafetySpec

\* The server hears what was written in order and without a gap, although a
\* message passes the write queue, the call queue and the core, and pauses the
\* queue behind it on its way (GRPCCallLegacy.m:446-459): wherever the stream
\* or the call ends, what was sent is the beginning of what was written.
THEOREM MessagesInOrder == SafetySpec => []SentInOrder
<1>1. FlowInv => SentInOrder
    BY DEF FlowInv
<1> QED
    BY <1>1, FlowInvariance, PTL

-----------------------------------------------------------------------------
(* The pause.                                                              *)

\* A write fails only on a stream that has ended.
FailedWrites ==
    \A i \in DOMAIN cq : cq[i].op = "sendMessage" /\ ~cq[i].ok => stream # "live"

PausePaid ==
    pipeState = "Paused" =>
        ~Idle("sendMessage") \/ loop \in {"resume", "finishPipe"} \/ stream # "live" \/ ~fwdWriter

PauseInv == FailedWrites /\ PausePaid

\* The end of a stream is final.
LEMMA StreamFinal == [Next]_vars /\ stream # "live" => stream' # "live"
BY DEF Next, EnterStream, OpenCall, InvokeCall, CallNotMade, StartForwarding, StartPipe,
   ResumeWriteQueue, WriteRequest, StopStreaming, RunResponse, CheckAnswer, RunAnswer,
   RunBadAnswer, RunEnd, RunDropped, PipeStep, CallQueueStep, SendMessage, Start,
   StartBatches, LoopStep, WriteDone, ResumeWriter, HeadersReceived, MessageReceived,
   NothingToHandle, MessageNotHeld, CancelCall, Cancel, StatusReceived, FinishForwarding,
   FinishWriter, Completed, TakeCompletion, StreamStep, StreamSteps, HeadersSent, MessageSent,
   CloseSent, HeadersArrive, MessageRead, NoMoreMessages, StatusArrives, NetworkStep,
   ServerSends, StreamEnds, coreVars, vars

LEMMA FailedStep ==
    ASSUME CallInv, FailedWrites, [Next]_vars
    PROVE  FailedWrites'
<1>0. cq \in Seq(Completion)
    BY DEF CallInv, StreamTypeOK, CoreTypeOK
<1>1. stream # "live" => stream' # "live"
    BY StreamFinal
<1>2. CASE cq' = cq
    BY <1>1, <1>2 DEF FailedWrites
<1>3. CASE cq # <<>> /\ cq' = Tail(cq)
    <2>1. \A i \in DOMAIN cq' : i + 1 \in DOMAIN cq /\ cq'[i] = cq[i + 1]
        BY <1>0, <1>3, TailIndex
    <2> QED
        BY <1>1, <2>1 DEF FailedWrites
<1>4. CASE StreamStep
    <2>1. PICK op \in Ops, ok \in BOOLEAN :
              /\ cq' = Append(cq, [op |-> op, ok |-> ok])
              /\ op = "sendMessage" /\ ~ok => stream' # "live"
        BY <1>4 DEF StreamStep, StreamSteps, HeadersSent, MessageSent, CloseSent,
           HeadersArrive, MessageRead, NoMoreMessages, StatusArrives, Complete, Ops
    <2>2. PICK e : e = [op |-> op, ok |-> ok]
        OBVIOUS
    <2>3. e.op = op /\ e.ok = ok /\ e \in Completion
        BY <2>2 DEF Completion
    <2>4. /\ DOMAIN cq' = 1..(Len(cq) + 1) /\ cq'[Len(cq) + 1] = e
          /\ DOMAIN cq = 1..Len(cq) /\ Len(cq) \in Nat
          /\ \A i \in 1..Len(cq) : cq'[i] = cq[i]
        BY <1>0, <2>1, <2>2, <2>3
    <2> QED
        BY <1>1, <2>1, <2>3, <2>4 DEF FailedWrites
<1>5. cq' = cq \/ (cq # <<>> /\ cq' = Tail(cq)) \/ StreamStep
    BY DEF Next, EnterStream, OpenCall, InvokeCall, CallNotMade, StartForwarding, StartPipe,
       ResumeWriteQueue, WriteRequest, StopStreaming, RunResponse, CheckAnswer, RunAnswer,
       RunBadAnswer, RunEnd, RunDropped, PipeStep, CallQueueStep, SendMessage, Start,
       StartBatches, LoopStep, WriteDone, ResumeWriter, HeadersReceived, MessageReceived,
       NothingToHandle, MessageNotHeld, CancelCall, Cancel, StatusReceived, FinishForwarding,
       FinishWriter, Completed, TakeCompletion, NetworkStep, ServerSends, StreamEnds,
       coreVars, vars
<1> QED
    BY <1>2, <1>3, <1>4, <1>5

\* Only the loop takes a message off the core's hands.
LEMMA MessageKept ==
    ASSUME CallInv, [Next]_vars, ~Idle("sendMessage"),
           ~(\E ok \in BOOLEAN : Completed("sendMessage", ok))
    PROVE  ~Idle("sendMessage")'
<1> USE DEF Idle, IdleIn
<1>0. /\ callQueue \in Seq(CallBlock) /\ QueueInv /\ StreamTypeOK
      /\ slot \in [Ops -> {"free", "busy", "posted", "used"}]
    BY DEF CallInv, Parts, StreamTypeOK, CoreTypeOK
<1>1. CASE CallQueueStep
    BY <1>0, <1>1, StartBlock DEF Ops
<1>2. CASE ~CallQueueStep
    <2>1. callQueue' = callQueue \/ \E b \in CallBlock : callQueue' = Append(callQueue, b)
        <3>1. CASE PipeStep
            <4>1. Head(writeQueue) \in Nat
                BY <1>0, <3>1, TailType DEF PipeStep, StreamTypeOK
            <4>2. Write(Head(writeQueue)) \in CallBlock
                BY <4>1, WriteType
            <4> QED
                BY <3>1, <4>2 DEF PipeStep, PassOn
        <3>2. CASE ~PipeStep
            BY <1>2, <3>2, NoMessageBlocks DEF Next, EnterStream, OpenCall, InvokeCall,
               CallNotMade, StartForwarding, StartPipe, ResumeWriteQueue, WriteRequest,
               StopStreaming, RunResponse, CheckAnswer, RunAnswer, RunBadAnswer, RunEnd,
               RunDropped, StartNextRead, LoopStep, WriteDone, ResumeWriter, HeadersReceived,
               MessageReceived, NothingToHandle, MessageNotHeld, CancelCall, Cancel,
               StatusReceived, FinishForwarding, FinishWriter, StreamStep, NetworkStep,
               RestUnchanged, callVars, vars
        <3> QED
            BY <3>1, <3>2
    <2>2. Queued(callQueue, "sendMessage") => Queued(callQueue', "sendMessage")
        BY <1>0, <2>1, QueuedAppend
    <2>3. slot["sendMessage"] # "free" => slot'["sendMessage"] # "free"
        <3>1. CASE slot' = slot
            BY <3>1
        <3>2. CASE \E op \in Ops, ok \in BOOLEAN : Completed(op, ok)
            <4>1. PICK op \in Ops, ok \in BOOLEAN : Completed(op, ok)
                BY <3>2
            <4>2. Head(cq).op = op /\ op # "sendMessage"
                BY <4>1 DEF Completed
            <4> QED
                BY <1>0, <4>1, <4>2 DEF Completed, TakeCompletion
        <3>3. CASE StreamStep
            <4>1. \E op \in Ops : slot' = [slot EXCEPT ![op] = "posted"]
                BY <3>3 DEF StreamStep, StreamSteps, HeadersSent, MessageSent, CloseSent,
                   HeadersArrive, MessageRead, NoMoreMessages, StatusArrives, Complete, Ops
            <4> QED
                BY <1>0, <4>1 DEF Ops
        <3>4. CASE LoopStep
            BY <3>1, <3>2, <3>4 DEF LoopStep, WriteDone, ResumeWriter, HeadersReceived,
               MessageReceived, NothingToHandle, MessageNotHeld, CancelCall, Cancel,
               StatusReceived, FinishForwarding, FinishWriter, coreVars, Ops
        <3>5. CASE ~LoopStep /\ ~StreamStep
            <4>1. slot' = slot
                BY <1>2, <3>5 DEF Next, EnterStream, OpenCall, InvokeCall, CallNotMade,
                   StartForwarding, StartPipe, ResumeWriteQueue, WriteRequest, StopStreaming,
                   RunResponse, CheckAnswer, RunAnswer, RunBadAnswer, RunEnd, RunDropped,
                   PipeStep, NetworkStep, ServerSends, StreamEnds, coreVars, vars
            <4> QED
                BY <4>1
        <3> QED
            BY <3>3, <3>4, <3>5
    <2> QED
        BY <2>2, <2>3
<1> QED
    BY <1>1, <1>2

LEMMA PauseStep ==
    ASSUME CallInv, CallInv', PauseInv, [Next]_vars
    PROVE  PausePaid'
<1>0. /\ CallInv /\ PausePaid /\ FailedWrites /\ WriterInv /\ QueueInv /\ PipeInv
      /\ cq \in Seq(Completion)
    BY DEF CallInv, Parts, PauseInv, StreamTypeOK, CoreTypeOK
<1>1. stream # "live" => stream' # "live"
    BY StreamFinal
<1>2. fwdWriter' => fwdWriter
    BY DEF Next, EnterStream, OpenCall, InvokeCall, CallNotMade, StartForwarding, StartPipe,
       ResumeWriteQueue, WriteRequest, StopStreaming, RunResponse, CheckAnswer, RunAnswer,
       RunBadAnswer, RunEnd, RunDropped, PipeStep, CallQueueStep, LoopStep, WriteDone,
       ResumeWriter, HeadersReceived, MessageReceived, NothingToHandle, MessageNotHeld,
       CancelCall, Cancel, StatusReceived, FinishForwarding, FinishWriter, StreamStep,
       NetworkStep, RestUnchanged, fwdVars, vars
<1>3. CASE PipeStep
    <2>1. CASE pipeState = "Paused"
        BY <1>0, <2>1, <1>3 DEF PipeStep, PipeInv, SuspendedOnce
    <2>2. CASE Accepted
        <3>1. Head(writeQueue) \in Nat
            BY <1>0, <1>3, TailType DEF PipeStep, CallInv, StreamTypeOK
        <3>2. /\ Write(Head(writeQueue)) \in CallBlock /\ callQueue \in Seq(CallBlock)
              /\ Write(Head(writeQueue)).ops = {"sendMessage"}
            BY <1>0, <3>1, WriteType DEF Write, CallInv, StreamTypeOK
        <3>3. Queued(callQueue', "sendMessage")
            BY <1>3, <2>2, <3>2, QueuedAppend DEF PipeStep, PassOn
        <3> QED
            BY <3>3 DEF PausePaid, Idle, IdleIn
    <2>3. CASE ~Accepted /\ pipeState # "Paused"
        BY <1>3, <2>3 DEF PipeStep, PausePaid
    <2> QED
        BY <2>1, <2>2, <2>3
<1>4. CASE WriteDone
    BY <1>4 DEF WriteDone, PausePaid, fwdVars
<1>5. CASE NothingToHandle /\ \E ok \in BOOLEAN : Completed("sendMessage", ok)
    <2>1. Completed("sendMessage", FALSE)
        <3>1. PICK op \in Ops \ {"recvStatus"}, ok \in BOOLEAN :
                  Completed(op, ok) /\ (ok => op \in {"sendHeaders", "sendClose"})
            BY <1>5 DEF NothingToHandle
        <3>2. PICK k \in BOOLEAN : Completed("sendMessage", k)
            BY <1>5
        <3>3. op = Head(cq).op /\ ok = Head(cq).ok
            BY <3>1 DEF Completed
        <3>4. Head(cq).op = "sendMessage" /\ Head(cq).ok = k
            BY <3>2 DEF Completed
        <3> QED
            BY <3>1, <3>2, <3>3, <3>4
    <2>2. Head(cq).op = "sendMessage" /\ ~Head(cq).ok /\ cq # <<>>
        BY <2>1 DEF Completed
    <2>3. stream # "live"
        BY <1>0, <2>2, TailIndex DEF FailedWrites
    <2> QED
        BY <1>1, <2>3 DEF PausePaid
<1>6. CASE ResumeWriter
    BY <1>6 DEF ResumeWriter, ResumePipe, PausePaid
<1>7. CASE FinishForwarding \/ FinishWriter
    BY <1>7 DEF FinishForwarding, FinishWriter, FinishPipe, PausePaid
<1>8. CASE /\ ~PipeStep /\ ~WriteDone /\ ~ResumeWriter /\ ~FinishForwarding /\ ~FinishWriter
           /\ ~(NothingToHandle /\ \E ok \in BOOLEAN : Completed("sendMessage", ok))
    <2>1. \/ UNCHANGED <<pipeState, loop>>
          \/ pipeState' # "Paused"
          \/ StatusReceived \/ MessageNotHeld \/ CancelCall
        BY <1>8 DEF Next, EnterStream, OpenCall, InvokeCall, CallNotMade, StartForwarding,
           StartPipe, ResumeWriteQueue, WriteRequest, StopStreaming, RunResponse, CheckAnswer,
           RunAnswer, RunBadAnswer, RunEnd, RunDropped, CallQueueStep, LoopStep,
           HeadersReceived, MessageReceived, NothingToHandle, MessageNotHeld, CancelCall,
           Cancel, StreamStep, NetworkStep, RestUnchanged, pipeVars, callVars, vars
    <2>2. StatusReceived \/ MessageNotHeld \/ CancelCall =>
              loop \in {"next", "cancelCall"} /\ pipeState' = pipeState
        BY DEF StatusReceived, MessageNotHeld, CancelCall, Completed, pipeVars
    <2>3. ~Idle("sendMessage") => ~Idle("sendMessage")'
        <3>1. SUFFICES ASSUME NEW ok \in BOOLEAN, Completed("sendMessage", ok), ~Idle("sendMessage")
                       PROVE  ~Idle("sendMessage")'
            BY <1>0, MessageKept
        <3>2. cq # <<>> /\ Head(cq).op = "sendMessage" /\ cq' = Tail(cq)
            BY <3>1 DEF Completed, TakeCompletion
        <3>3. cq' # cq
            BY <1>0, <3>2
        <3>4. LoopStep => CancelCall
            <4>1. ~HeadersReceived /\ ~MessageReceived
                BY <3>2 DEF HeadersReceived, MessageReceived, Completed
            <4>4. ~Completed("recvMessage", TRUE)
                BY <3>2 DEF Completed
            <4>2. ~MessageNotHeld
                BY <4>4 DEF MessageNotHeld
            <4>3. ~StatusReceived
                BY <3>2 DEF StatusReceived, Completed
            <4> QED
                BY <1>8, <3>1, <4>1, <4>2, <4>3 DEF LoopStep
        <3>5. ~StreamStep
            <4>1. Len(cq') = Len(cq) - 1 /\ Len(cq) \in Nat
                BY <1>0, <3>2
            <4>2. StreamStep => Len(cq') = Len(cq) + 1
                <5>1. StreamStep => \E e \in Completion : cq' = Append(cq, e)
                    BY DEF StreamStep, StreamSteps, HeadersSent, MessageSent, CloseSent,
                       HeadersArrive, MessageRead, NoMoreMessages, StatusArrives, Complete,
                       Completion, Ops
                <5> QED
                    BY <1>0, <5>1
            <4> QED
                BY <4>1, <4>2
        <3>6. cq' = cq
            BY <3>4, <3>5 DEF Next, EnterStream, OpenCall, InvokeCall, CallNotMade,
               StartForwarding, StartPipe, ResumeWriteQueue, WriteRequest, StopStreaming,
               RunResponse, CheckAnswer, RunAnswer, RunBadAnswer, RunEnd, RunDropped, PipeStep,
               CallQueueStep, SendMessage, Start, StartBatches, CancelCall, Cancel,
               NetworkStep, ServerSends, StreamEnds, coreVars, vars
        <3> QED
            BY <3>3, <3>6
    <2> QED
        BY <1>0, <1>1, <1>2, <2>1, <2>2, <2>3 DEF PausePaid
<1> QED
    BY <1>3, <1>4, <1>5, <1>6, <1>7, <1>8
\* A pipe that is paused is not forgotten, whoever paused it and wherever the
\* message that paused it has got to: the one who will resume it is on the way,
\* or nothing can be sent any more (GRPCCallLegacy.m:420-430, 454).
THEOREM PauseSafe == SafetySpec => []PauseIsPaidBack
<1>1. Init => PauseInv
    BY DEF Init, CoreInit, PauseInv, FailedWrites, PausePaid
<1>2. CallInv /\ CallInv' /\ PauseInv /\ [Next]_vars => PauseInv'
    BY FailedStep, PauseStep DEF PauseInv
<1>3. CallInv /\ PauseInv /\ FlowInv => PauseIsPaidBack
    <2> SUFFICES ASSUME PausePaid, CallOrder, pipeState = "Paused", ~Idle("sendMessage"),
                        slot["sendMessage"] = "free"
                 PROVE  \E i \in DOMAIN callQueue : callQueue[i].message # 0
        BY DEF PauseInv, FlowInv, PauseIsPaidBack, PausePaid
    <2> QED
        BY DEF CallOrder, Idle, IdleIn, Queued
<1> QED
    BY <1>1, <1>2, <1>3, CallInvariance, FlowInvariance, PTL DEF SafetySpec

-----------------------------------------------------------------------------
(* The end.                                                                *)

OnlyAnswers == alreadyFinished \/ \A i \in DOMAIN delivered : delivered[i] = "answer"

\* Who gives something to the closure.
LEMMA Deliverers ==
    [Next]_vars =>
        \/ CheckAnswer \/ RunAnswer \/ RunBadAnswer \/ RunEnd
        \/ UNCHANGED <<delivered, alreadyFinished, inHand>>
BY DEF Next, EnterStream, OpenCall, InvokeCall, CallNotMade, StartForwarding, StartPipe,
       ResumeWriteQueue, WriteRequest, StopStreaming, RunResponse, RunDropped,
       PipeStep, CallQueueStep, LoopStep, WriteDone, ResumeWriter, HeadersReceived,
       MessageReceived, NothingToHandle, MessageNotHeld, CancelCall, StatusReceived,
       FinishForwarding, FinishWriter, StreamStep, NetworkStep, RestUnchanged, responseVars,
       historyVars, vars

\* What every step does to the closure, as ErrorOvertakes has it.
Overtakes ==
    /\ delivered' # delivered => \A i \in DOMAIN delivered : delivered[i] = "answer"
    /\ cancelled /\ delivered' # delivered =>
          delivered' = Append(delivered, "failed") \/ inHand = "answer"
    /\ cancelled /\ inHand' # inHand => inHand' = "none"

\* Nothing follows the end, and an error overtakes the responses that wait in
\* the main queue: they are dropped, but for one that the main thread has
\* checked under the lock and delivers after letting it go, because between
\* the two the loop may cancel (GRXConcurrentWriteable.m:61-110).
THEOREM NothingAfterEnd == SafetySpec => ErrorOvertakes
<1>1. Init => OnlyAnswers
    BY DEF Init, OnlyAnswers
<1>2. OnlyAnswers /\ StreamTypeOK /\ InHandInv /\ [Next]_vars => OnlyAnswers' /\ Overtakes
    <2> SUFFICES ASSUME OnlyAnswers, StreamTypeOK, InHandInv, [Next]_vars
                 PROVE  OnlyAnswers' /\ Overtakes
        OBVIOUS
    <2>1. CASE CheckAnswer
        BY <2>1 DEF CheckAnswer, Heard, historyVars, OnlyAnswers, Overtakes
    <2>2. CASE RunAnswer
        <3>1. /\ ~alreadyFinished /\ inHand = "answer" /\ inHand' = "none"
              /\ delivered' = Append(delivered, "answer")
            BY <2>2 DEF RunAnswer, InHandInv
        <3>2. \A i \in DOMAIN delivered' : delivered'[i] = "answer"
            BY <3>1 DEF OnlyAnswers, StreamTypeOK
        <3> QED
            BY <3>1, <3>2 DEF OnlyAnswers, Overtakes
    <2>3. CASE RunBadAnswer
        BY <2>3 DEF RunBadAnswer, OnlyAnswers, Overtakes
    <2>4. CASE RunEnd
        BY <2>4 DEF RunEnd, Taking, Heard, OnlyAnswers, Overtakes
    <2>5. CASE UNCHANGED <<delivered, alreadyFinished, inHand>>
        BY <2>5 DEF OnlyAnswers, Overtakes
    <2> QED
        BY <2>1, <2>2, <2>3, <2>4, <2>5, Deliverers
<1>3. OnlyAnswers /\ StreamTypeOK /\ InHandInv /\ [Next]_vars => [Overtakes]_vars
    BY <1>2
<1>4. ErrorOvertakes <=> [][Overtakes]_vars
    BY PTL DEF ErrorOvertakes, Overtakes
<1> QED
    BY <1>1, <1>2, <1>3, <1>4, TypeInvariance, PTL DEF SafetySpec
=============================================================================
