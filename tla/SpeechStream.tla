---------------------------- MODULE SpeechStream ----------------------------
(***************************************************************************)
(* One streaming call, from streamAudioData and stopStreaming down to the  *)
(* gRPC core and back to the completion closure: GRXBufferedPipe, the      *)
(* forwarding writer that serialises its values, GRPCCall, and             *)
(* GRXConcurrentWriteable.  Four threads meet in it: the main thread, the  *)
(* pipe's write queue, the call queue, and the loop of the completion      *)
(* queue.  What a thread does under the locks of the pipe and of the       *)
(* forwarding writer is one step; what it does after letting go is another.*)
(***************************************************************************)
EXTENDS CallCore

CONSTANTS MaxWrites,    \* bound: messages written, the configuration first
          CallMayFail,  \* may the call or its channel fail to be made?
          BadAnswers    \* may a response not fit in memory, or fail to parse?

ASSUME StreamAssumption ==
    /\ MaxWrites \in Nat \ {0, 1}
    /\ CallMayFail \in BOOLEAN /\ BadAnswers \in BOOLEAN

VARIABLES
    main,        \* where the main thread is in streamAudioData
    written,     \* history: messages written to the pipe
    pipeState,   \* _state of GRXBufferedPipe
    pipeTarget,  \* is its writeable set?
    writeQueue,  \* the blocks on _writeQueue, one per message
    suspended,   \* how often _writeQueue has been suspended and not resumed
    fwdWriter,   \* does the forwarding writer still have its writer (the pipe)
    fwdTarget,   \* and its writeable (the call)?
    callState,   \* _state of GRPCCall
    callQueue,   \* the blocks on _callQueue
    loop,        \* where the completion loop is in the handler it runs
    responses,   \* the blocks posted to the main queue
    cancelled,        \* _cancelled of GRXConcurrentWriteable
    alreadyFinished,  \* its _alreadyFinished
    inHand,           \* the response the main thread has found not cancelled
    delivered,        \* history: what the completion closure was given
    unparsed          \* history: the responses it was not, for they did not parse

pipeVars == <<pipeState, pipeTarget, writeQueue, suspended>>
fwdVars == <<fwdWriter, fwdTarget>>
callVars == <<callState, callQueue, loop>>
historyVars == <<delivered, unparsed>>
responseVars == <<responses, cancelled, alreadyFinished, inHand, historyVars>>
appVars == <<main, written>>
vars == <<coreVars, appVars, pipeVars, fwdVars, callVars, responseVars>>

\* A block of the call queue is a batch of operations, or one message.
CallBlock == [ops : SUBSET Ops, message : Nat]
Batch(ops) == [ops |-> ops, message |-> 0]
Write(v) == [ops |-> {"sendMessage"}, message |-> v]

Init ==
    /\ CoreInit
    /\ main = "none" /\ written = 0
    /\ pipeState = "NotStarted" /\ pipeTarget = FALSE /\ writeQueue = <<>> /\ suspended = 1
    /\ fwdWriter = TRUE /\ fwdTarget = FALSE
    /\ callState = "NotStarted" /\ callQueue = <<>> /\ loop = "next"
    /\ responses = <<>> /\ cancelled = FALSE /\ alreadyFinished = FALSE /\ inHand = "none"
    /\ delivered = <<>> /\ unparsed = 0

-----------------------------------------------------------------------------
(* GRXBufferedPipe: setState, and what GRPCCall does with it through the   *)
(* forwarding writer.                                                      *)

PausePipe ==
    \/ /\ pipeState = "Started"
       /\ pipeState' = "Paused" /\ suspended' = suspended + 1
    \/ pipeState # "Started" /\ UNCHANGED <<pipeState, suspended>>

ResumePipe ==
    \/ /\ pipeState = "Paused"
       /\ pipeState' = "Started" /\ suspended' = suspended - 1
    \/ pipeState # "Paused" /\ UNCHANGED <<pipeState, suspended>>

\* Fault: a paused pipe is finished and stays suspended.
FinishSuspended ==
    /\ pipeState' = IF pipeState = "NotStarted" THEN pipeState ELSE "Finished"
    /\ pipeTarget' = (pipeTarget /\ pipeState = "NotStarted")
    /\ UNCHANGED suspended

\* Fault: a pipe that was not paused is resumed as well.
FinishResuming ==
    /\ pipeState' = "Finished" /\ pipeTarget' = FALSE
    /\ suspended' = IF pipeState \in {"Started", "Paused"} THEN suspended - 1 ELSE suspended

\* A pipe that has not started, or has finished, keeps its state.
FinishPipe ==
    \/ /\ pipeState \in {"Started", "Paused"}
       /\ pipeState' = "Finished" /\ pipeTarget' = FALSE
       /\ suspended' = IF pipeState = "Paused" THEN suspended - 1 ELSE suspended
    \/ pipeState \in {"NotStarted", "Finished"} /\ UNCHANGED <<pipeState, pipeTarget, suspended>>

-----------------------------------------------------------------------------
(* GRPCCall: maybeStartNextRead and finishWithError, under the call's lock. *)

StartNextRead ==
    callQueue' = IF callState = "Started" THEN Append(callQueue, Batch({"recvMessage"}))
                                          ELSE callQueue

\* Fault: an error cancels what is queued and says nothing itself.
FinishSilently(ok, queued) ==
    /\ callState' = "Finished"
    /\ responses' = IF ok /\ callState # "Finished" THEN Append(queued, "completed") ELSE queued
    /\ cancelled' = (cancelled \/ (~ok /\ callState # "Finished"))

\* An error cancels the responses still queued, success follows them.
FinishCall(ok, queued) ==
    \/ /\ callState = "Finished"
       /\ responses' = queued
       /\ UNCHANGED <<callState, cancelled>>
    \/ /\ callState # "Finished"
       /\ callState' = "Finished"
       /\ responses' = Append(queued, IF ok THEN "completed" ELSE "failed")
       /\ cancelled' = (cancelled \/ ~ok)

-----------------------------------------------------------------------------
(* The main thread: streamAudioData, one turn of the main queue although   *)
(* the other threads see its steps.                                        *)

OpenCall ==
    /\ main = "none"
    /\ main' = "opening" /\ callState' = "Started"
    /\ UNCHANGED <<coreVars, written, pipeVars, fwdVars, callQueue, loop, responseVars>>

\* startCallWithWriteable.  Its two blocks on the call queue, the headers and
\* what comes back, follow each other and are one.
InvokeCall ==
    /\ main = "opening"
    /\ main' = "forwarding"
    /\ callQueue' = Append(callQueue, Batch({"sendHeaders", "recvHeaders", "recvStatus"}))
    /\ UNCHANGED <<coreVars, written, pipeVars, fwdVars, callState, loop, responseVars>>

\* The app is told, but the requests writer is neither started nor finished.
CallNotMade ==
    /\ main = "opening" /\ CallMayFail
    /\ main' = "writing"
    /\ FinishCall(FALSE, responses)
    /\ UNCHANGED <<coreVars, written, pipeVars, fwdVars, callQueue, loop,
                   alreadyFinished, inHand, historyVars>>

\* startWithWriteable of the forwarding writer, which may have been finished.
StartForwarding ==
    /\ main = "forwarding"
    /\ main' = IF fwdWriter THEN "starting" ELSE "writing"
    /\ fwdTarget' = TRUE
    /\ UNCHANGED <<coreVars, written, pipeVars, fwdWriter, callVars, responseVars>>

\* startWithWriteable of the pipe: the state under its lock, then the queue.
StartPipe ==
    /\ main = "starting"
    /\ main' = "resuming"
    /\ pipeTarget' = TRUE /\ pipeState' = "Started"
    /\ UNCHANGED <<coreVars, written, writeQueue, suspended, fwdVars, callVars, responseVars>>

ResumeWriteQueue ==
    /\ main = "resuming"
    /\ main' = "writing"
    /\ suspended' = suspended - 1
    /\ UNCHANGED <<coreVars, written, pipeState, pipeTarget, writeQueue, fwdVars,
                   callVars, responseVars>>

\* The configuration and the first audio in the turn that opened the call,
\* later audio in turns of its own.
WriteRequest ==
    /\ main \in {"writing", "open"} /\ inHand = "none" /\ written < MaxWrites
    /\ written' = written + 1
    /\ writeQueue' = Append(writeQueue, written')
    /\ main' = IF written' = 1 THEN "writing" ELSE "open"
    /\ UNCHANGED <<coreVars, pipeState, pipeTarget, suspended, fwdVars, callVars, responseVars>>

\* Fault: the forwarding writer keeps its writeable.
StopKeepingTarget ==
    /\ main = "open" /\ inHand = "none"
    /\ main' = "stopped"
    /\ callQueue' = IF fwdTarget THEN Append(callQueue, Batch({"sendClose"})) ELSE callQueue
    /\ UNCHANGED <<coreVars, written, pipeVars, fwdVars, callState, loop, responseVars>>

\* Fault: a paused pipe does not pass the end on.
StopUnlessPaused ==
    /\ main = "open" /\ inHand = "none"
    /\ main' = "stopped"
    /\ IF pipeTarget /\ pipeState # "Paused"
       THEN /\ fwdWriter' = FALSE /\ fwdTarget' = FALSE
            /\ callQueue' = IF fwdTarget THEN Append(callQueue, Batch({"sendClose"}))
                                         ELSE callQueue
       ELSE UNCHANGED <<fwdVars, callQueue>>
    /\ UNCHANGED <<coreVars, written, pipeVars, callState, loop, responseVars>>

\* stopStreaming: finishWithError of the pipe goes straight through to the
\* call, past the messages on the write queue.
StopStreaming ==
    /\ main = "open" /\ inHand = "none"
    /\ main' = "stopped"
    /\ IF pipeTarget
       THEN /\ fwdWriter' = FALSE /\ fwdTarget' = FALSE
            /\ callQueue' = IF fwdTarget THEN Append(callQueue, Batch({"sendClose"}))
                                         ELSE callQueue
       ELSE UNCHANGED <<fwdVars, callQueue>>
    /\ UNCHANGED <<coreVars, written, pipeVars, callState, loop, responseVars>>

-----------------------------------------------------------------------------
(* The blocks that GRXConcurrentWriteable posts to the main queue.         *)

BetweenTurns == main \in {"none", "open", "stopped"} /\ inHand = "none"

Taking(kinds) == BetweenTurns /\ responses # <<>> /\ Head(responses) \in kinds

\* Fault: a cancelled call still delivers.
HeardUntilEnd == ~alreadyFinished

Heard == ~alreadyFinished /\ ~cancelled

\* The block of a response finds under the lock that nothing has been
\* cancelled, and lets the lock go.  The block stays at the head until it is
\* done.
CheckAnswer ==
    /\ Taking({"answer"}) /\ Heard
    /\ inHand' \in {"answer"} \cup (IF BadAnswers THEN {"bad"} ELSE {})
    /\ UNCHANGED <<coreVars, appVars, pipeVars, fwdVars, callVars,
                   responses, cancelled, alreadyFinished, historyVars>>

\* The response goes to the closure, though the call may have been cancelled
\* meanwhile, and only then the next one is asked for.
RunAnswer ==
    /\ inHand = "answer"
    /\ inHand' = "none" /\ responses' = Tail(responses)
    /\ delivered' = Append(delivered, "answer")
    /\ StartNextRead
    /\ UNCHANGED <<coreVars, appVars, pipeVars, fwdVars, callState, loop,
                   cancelled, alreadyFinished, unparsed>>

\* A response that does not parse finishes the call, but not its writer.
RunBadAnswer ==
    /\ inHand = "bad"
    /\ inHand' = "none"
    /\ FinishCall(FALSE, Tail(responses))
    /\ unparsed' = unparsed + 1
    /\ UNCHANGED <<coreVars, appVars, pipeVars, fwdVars, callQueue, loop,
                   alreadyFinished, delivered>>

\* The end is given to the closure once; an error even if the call has been
\* cancelled, for it is that error that cancelled it.  Success need not be
\* split into a check and a delivery: its call has finished, and no longer
\* cancels.
RunEnd ==
    /\ Taking({"completed", "failed"}) /\ ~alreadyFinished
    /\ Head(responses) = "failed" \/ Heard
    /\ responses' = Tail(responses)
    /\ delivered' = Append(delivered, Head(responses))
    /\ alreadyFinished' = TRUE
    /\ UNCHANGED <<coreVars, appVars, pipeVars, fwdVars, callVars, cancelled, inHand, unparsed>>

RunDropped ==
    /\ Taking({"answer", "completed", "failed"})
    /\ alreadyFinished \/ (Head(responses) # "failed" /\ cancelled)
    /\ responses' = Tail(responses)
    /\ UNCHANGED <<coreVars, appVars, pipeVars, fwdVars, callVars,
                   cancelled, alreadyFinished, inHand, historyVars>>

RunResponse == CheckAnswer \/ RunAnswer \/ RunBadAnswer \/ RunEnd \/ RunDropped

-----------------------------------------------------------------------------
(* The pipe's write queue: a message goes through the forwarding writer to *)
(* writeValue of the call, which pauses the pipe and queues the batch.     *)

\* Fault: the writer is not paused.
PassOnUnpaused ==
    /\ callQueue' = Append(callQueue, Write(Head(writeQueue)))
    /\ UNCHANGED <<pipeState, suspended>>

PassOn ==
    /\ IF fwdWriter THEN PausePipe ELSE UNCHANGED <<pipeState, suspended>>
    /\ callQueue' = Append(callQueue, Write(Head(writeQueue)))

Accepted == /\ pipeState # "Finished" /\ pipeTarget
            /\ fwdTarget /\ callState # "Finished"

PipeStep ==
    /\ suspended = 0 /\ writeQueue # <<>>
    /\ writeQueue' = Tail(writeQueue)
    /\ IF Accepted THEN PassOn ELSE UNCHANGED <<pipeState, suspended, callQueue>>
    /\ UNCHANGED <<coreVars, appVars, pipeTarget, fwdVars, callState, loop, responseVars>>

\* The call queue.
CallQueueStep ==
    /\ callQueue # <<>>
    /\ callQueue' = Tail(callQueue)
    /\ IF Head(callQueue).message # 0 THEN SendMessage(Head(callQueue).message)
                                      ELSE Start(Head(callQueue).ops)
    /\ UNCHANGED <<appVars, pipeVars, fwdVars, callState, loop, responseVars>>

-----------------------------------------------------------------------------
(* The completion loop runs the handler of one event at a time.            *)

Completed(op, ok) ==
    /\ loop = "next" /\ cq # <<>> /\ Head(cq) = [op |-> op, ok |-> ok]
    /\ TakeCompletion

\* Fault: the writer is resumed only if messages wait.
ResumeIfWaiting ==
    /\ Completed("sendMessage", TRUE)
    /\ loop' = IF fwdWriter /\ writeQueue # <<>> THEN "resume" ELSE "next"
    /\ UNCHANGED <<appVars, pipeVars, fwdVars, callState, callQueue, responseVars>>

\* The resuming handler looks up the writer, and then starts it.
WriteDone ==
    /\ Completed("sendMessage", TRUE)
    /\ loop' = IF fwdWriter THEN "resume" ELSE "next"
    /\ UNCHANGED <<appVars, pipeVars, fwdVars, callState, callQueue, responseVars>>

ResumeWriter ==
    /\ loop = "resume"
    /\ loop' = "next"
    /\ ResumePipe
    /\ UNCHANGED <<coreVars, appVars, pipeTarget, writeQueue, fwdVars, callState,
                   callQueue, responseVars>>

HeadersReceived ==
    /\ Completed("recvHeaders", TRUE)
    /\ StartNextRead
    /\ UNCHANGED <<appVars, pipeVars, fwdVars, callState, loop, responseVars>>

\* Fault: the next read does not wait until this response is delivered.
ReadAhead ==
    /\ Completed("recvMessage", TRUE)
    /\ responses' = Append(responses, "answer")
    /\ StartNextRead
    /\ UNCHANGED <<appVars, pipeVars, fwdVars, callState, loop,
                   cancelled, alreadyFinished, inHand, historyVars>>

MessageReceived ==
    /\ Completed("recvMessage", TRUE)
    /\ responses' = Append(responses, "answer")
    /\ UNCHANGED <<appVars, pipeVars, fwdVars, callVars,
                   cancelled, alreadyFinished, inHand, historyVars>>

\* A response that memory cannot hold finishes the call and cancels it in the
\* core; the handler then finishes the writer as that of the status does.
MessageNotHeld ==
    /\ BadAnswers
    /\ Completed("recvMessage", TRUE)
    /\ FinishCall(FALSE, responses)
    /\ loop' = "cancelCall"
    /\ UNCHANGED <<appVars, pipeVars, fwdVars, callQueue, alreadyFinished, inHand, historyVars>>

CancelCall ==
    /\ loop = "cancelCall"
    /\ loop' = "finishForwarding"
    /\ Cancel
    /\ UNCHANGED <<appVars, pipeVars, fwdVars, callState, callQueue, responseVars>>

\* A failed batch, the last read, the headers and the half-close have nothing
\* to do.
NothingToHandle ==
    /\ \E op \in Ops \ {"recvStatus"}, ok \in BOOLEAN :
          Completed(op, ok) /\ (ok => op \in {"sendHeaders", "sendClose"})
    /\ UNCHANGED <<appVars, pipeVars, fwdVars, callVars, responseVars>>

\* The status finishes the call, then the forwarding writer, then the pipe.
StatusReceived ==
    /\ \E ok \in BOOLEAN : Completed("recvStatus", ok) /\ FinishCall(ok, responses)
    /\ loop' = "finishForwarding"
    /\ UNCHANGED <<appVars, pipeVars, fwdVars, callQueue, alreadyFinished, inHand, historyVars>>

FinishForwarding ==
    /\ loop = "finishForwarding"
    /\ loop' = IF fwdWriter THEN "finishPipe" ELSE "next"
    /\ fwdWriter' = FALSE /\ fwdTarget' = FALSE
    /\ UNCHANGED <<coreVars, appVars, pipeVars, callState, callQueue, responseVars>>

FinishWriter ==
    /\ loop = "finishPipe"
    /\ loop' = "next"
    /\ FinishPipe
    /\ UNCHANGED <<coreVars, appVars, writeQueue, fwdVars, callState, callQueue, responseVars>>

LoopStep ==
    \/ WriteDone \/ ResumeWriter
    \/ HeadersReceived \/ MessageReceived \/ NothingToHandle
    \/ MessageNotHeld \/ CancelCall
    \/ StatusReceived \/ FinishForwarding \/ FinishWriter

-----------------------------------------------------------------------------
EnterStream ==
    \/ OpenCall \/ InvokeCall \/ CallNotMade
    \/ StartForwarding \/ StartPipe \/ ResumeWriteQueue

Turn == EnterStream \/ (main = "writing" /\ WriteRequest)

\* The core and the network leave the rest alone.
RestUnchanged == UNCHANGED <<appVars, pipeVars, fwdVars, callVars, responseVars>>

StreamStep == StreamSteps /\ RestUnchanged

NetworkStep ==
    /\ ServerSends \/ StreamEnds("ok") \/ StreamEnds("error")
    /\ RestUnchanged

Next ==
    \/ EnterStream \/ WriteRequest \/ StopStreaming
    \/ RunResponse
    \/ PipeStep \/ CallQueueStep \/ LoopStep
    \/ StreamStep \/ NetworkStep

SafetySpec == Init /\ [][Next]_vars

\* Every thread goes on, and the stream sends what it was given, unless it is
\* closed.  The app and the server owe nothing.
Fairness ==
    /\ WF_vars(main # "none" /\ Turn) /\ WF_vars(RunResponse)
    /\ WF_vars(PipeStep) /\ WF_vars(CallQueueStep) /\ WF_vars(LoopStep)
    /\ WF_vars(HeadersSent /\ RestUnchanged)
    /\ WF_vars(MessageSent /\ RestUnchanged) /\ WF_vars(CloseSent /\ RestUnchanged)

Spec == SafetySpec /\ Fairness
=============================================================================
