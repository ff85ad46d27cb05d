-------------------------- MODULE StreamProperties --------------------------
(***************************************************************************)
(* What the path of one call promises to the app on one side and to the    *)
(* gRPC core on the other.                                                 *)
(***************************************************************************)
EXTENDS SpeechStream, FiniteSets

\* Every variable has its type.
StreamTypeOK ==
    /\ CoreTypeOK
    /\ main \in {"none", "opening", "forwarding", "starting", "resuming",
                 "writing", "open", "stopped"}
    /\ written \in 0..MaxWrites
    /\ pipeState \in {"NotStarted", "Started", "Paused", "Finished"}
    /\ pipeTarget \in BOOLEAN /\ writeQueue \in Seq(Nat) /\ suspended \in Nat
    /\ fwdWriter \in BOOLEAN /\ fwdTarget \in BOOLEAN
    /\ callState \in {"NotStarted", "Started", "Finished"}
    /\ callQueue \in Seq(CallBlock)
    /\ loop \in {"next", "resume", "cancelCall", "finishForwarding", "finishPipe"}
    /\ responses \in Seq({"answer", "completed", "failed"})
    /\ cancelled \in BOOLEAN /\ alreadyFinished \in BOOLEAN
    /\ inHand \in {"none", "answer", "bad"}
    /\ delivered \in Seq({"answer", "completed", "failed"}) /\ unparsed \in Nat

-----------------------------------------------------------------------------
(* Towards the core.                                                       *)

\* GRPCCall starts a SEND_MESSAGE or a RECV_MESSAGE only when the previous
\* one has completed, with no state of its own to tell: the pause of the
\* pipe and the order of the callbacks have to do it.
NoBatchRefused == ~rejected

\* The server hears the configuration first and then the audio in the order
\* it was recorded, without a gap, wherever the stream ends.
SentInOrder == \A i \in DOMAIN sent : sent[i] = i

\* No message is on its way to the core behind the half-close.
NothingFollowsClose ==
    \A i \in DOMAIN callQueue :
        callQueue[i].message # 0 =>
            /\ slot["sendClose"] = "free"
            /\ \A j \in 1..i : "sendClose" \notin callQueue[j].ops

\* The write queue is resumed once for every time it is suspended, although
\* the main thread and the loop do it; one resume too many would trap.
SuspendedOnce ==
    suspended = IF pipeState \in {"NotStarted", "Paused"} \/ main = "resuming" THEN 1 ELSE 0

\* A paused pipe has someone to resume it: a message in flight, or the status
\* of a stream that ended; unless it was cut off by stopStreaming.
PauseIsPaidBack ==
    pipeState = "Paused" =>
        \/ \E i \in DOMAIN callQueue : callQueue[i].message # 0
        \/ slot["sendMessage"] # "free"
        \/ loop \in {"resume", "finishPipe"}
        \/ stream # "live"
        \/ ~fwdWriter

-----------------------------------------------------------------------------
(* Towards the app.                                                        *)

\* The app sees one response at a time: the next is read from the core only
\* when the main queue has run the block of the last.
OneResponseInFlight ==
    Cardinality({i \in DOMAIN callQueue : "recvMessage" \in callQueue[i].ops})
        + Cardinality({i \in DOMAIN responses : responses[i] = "answer"})
        + (IF slot["recvMessage"] = "free" THEN 0 ELSE 1) <= 1

\* A successful end is told when the closure has had every response, but for
\* a last one that does not parse: the call has finished already when its
\* block finds out, and it is lost without an error.
SuccessIsComplete ==
    \A i \in DOMAIN delivered :
        delivered[i] = "completed" => i = answered - unparsed + 1 /\ unparsed <= 1

\* Once a call has failed the error overtakes the responses that wait in the
\* main queue: at most the one that the main thread had checked already is
\* still delivered.  Nothing is delivered after the end.
ErrorOvertakes ==
    [][/\ delivered' # delivered => \A i \in DOMAIN delivered : delivered[i] = "answer"
       /\ cancelled /\ delivered' # delivered =>
             delivered' = Append(delivered, "failed") \/ inHand = "answer"
       /\ cancelled /\ inHand' # inHand => inHand' = "none"]_vars

-----------------------------------------------------------------------------
(* Towards the session model: the recogniser that AssistantSession is      *)
(* composed with, which takes one step per event, is what the four threads *)
(* make of it.                                                             *)

\* What a block of the main queue is to the view model, dropped or not.
MappedBlock(b, dropped) ==
    [kind |-> IF b # "answer" THEN "done" ELSE IF dropped THEN "skipped" ELSE "result",
     of |-> IF b = "answer" /\ dropped THEN 0 ELSE 1]

MappedBlocks(blocks, dropped) == [i \in DOMAIN blocks |-> MappedBlock(blocks[i], dropped)]

MappedCall(stopped, status) ==
    [session |-> 1, language |-> "en", halfClosed |-> stopped, status |-> status]

mappedStatus ==
    IF callState # "Finished" THEN "live" ELSE IF cancelled THEN "error" ELSE "ok"

\* A response counts as delivered when the main thread has checked it.
Waiting == IF inHand = "answer" THEN Tail(responses) ELSE responses

mappedQueue == MappedBlocks(Waiting, cancelled)
mappedCalls == IF main = "none" THEN <<>> ELSE <<MappedCall(main = "stopped", mappedStatus)>>
mappedStreaming == main \notin {"none", "stopped"}
mappedVars == <<mappedQueue, mappedCalls, mappedStreaming>>

Service == INSTANCE SpeechRecognitionService WITH
    mainQ <- mappedQueue, streaming <- mappedStreaming, calls <- mappedCalls,
    QueueRoom <- MaxAnswers + 2, Languages <- {"en"},
    LateAnswers <- TRUE, EmptyResults <- FALSE

\* The block of the main queue that runs finds that its response does not
\* parse: the call ends with an error, and the block is one of those dropped.
BadResponse ==
    /\ mappedQueue # <<>> /\ mappedCalls[1].status = "live"
    /\ mappedQueue' = Append(Tail(Service!Cancel(mappedQueue, Service!AnswersOf(1))),
                             Service!Block("done", 1))
    /\ mappedCalls' = [mappedCalls EXCEPT ![1].status = "error"]
    /\ UNCHANGED mappedStreaming

\* The steps of the service as the session takes them.
ServiceNext ==
    \/ Service!StreamAudioData(1, "en") /\ UNCHANGED mappedQueue
    \/ Service!StopStreaming /\ UNCHANGED mappedQueue
    \/ main # "none" /\ (Service!ServerAnswers(1) \/ \E s \in {"ok", "error"} :
                                                        Service!CallEnds(1, s))
    \/ /\ mappedQueue # <<>> /\ mappedQueue' = Tail(mappedQueue)
       /\ UNCHANGED <<mappedCalls, mappedStreaming>>
    \/ BadResponse

\* One call as streamAudioData, GRPCCall and the completion queue handle it is
\* a call of the service that the session model is composed with.
RefinesService == Service!ServiceInit /\ [][ServiceNext]_mappedVars

-----------------------------------------------------------------------------
(* What must eventually happen.                                            *)

\* Audio that was written reaches the server unless the stream is stopped or
\* ends: no pause is forgotten.
WritesFlow ==
    \A n \in 1..MaxWrites :
        written >= n ~> Len(sent) >= n \/ main = "stopped" \/ callState = "Finished"
                        \/ stream # "live"

\* When the app stops, the server is told that no more audio comes.
StopIsSent ==
    main = "stopped" ~> halfClosed \/ stream # "live" \/ callState = "Finished"

\* When a call has finished the app is told.
EndIsTold == callState = "Finished" ~> alreadyFinished

-----------------------------------------------------------------------------
(* Statements of the sources that the code does not keep.                  *)

\* If cancelWithError is called, no further messages are sent to the writeable
\* except writesFinishedWithError.
NothingAfterCancel ==
    [][cancelled /\ delivered' # delivered => delivered' = Append(delivered, "failed")]_vars

\* What was written before the stream was stopped arrives before the
\* half-close; nobody promises it, and the code does not do it.
AudioPrecedesClose == halfClosed => Len(sent) = written

\* A pipe that was told to finish while it was paused releases what it holds.
StoppedPipeDrains == main = "stopped" /\ pipeState = "Paused" ~> writeQueue = <<>>

\* The requests writer has been started when the app writes to it, or has
\* been told that the call is over.
OpenWriterStarted == main = "open" => pipeState # "NotStarted"
=============================================================================
