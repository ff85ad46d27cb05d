---------------------------- MODULE AnswerProofs ----------------------------
(***************************************************************************)
(* No response is lost on its way from the stream to the closure of a call *)
(* that succeeds: they are counted in the five places where they may be.   *)
(***************************************************************************)
EXTENDS StreamProofs

\* A response is on the completion queue.
IsAnswer(e) == e.op = "recvMessage" /\ e.ok
ArrivingIn(q) == \E i \in DOMAIN q : IsAnswer(q[i])
Arriving == ArrivingIn(cq)

Count(b) == IF b THEN 1 ELSE 0

\* The status comes behind every response, and the stream gives no more.
StatusLastIn(q, how, left) ==
    \A i \in DOMAIN q : q[i].op = "recvStatus" =>
        /\ how # "live" /\ (q[i].ok <=> how = "ok") /\ left = 0
        /\ \A j \in DOMAIN q : j > i => ~IsAnswer(q[j])
StatusLast == StatusLastIn(cq, stream, unread)

\* How a call finishes without an error: with the status of a stream that has
\* given all it had.  One response may still wait for its block.
FinishOK ==
    /\ main = "none" => callState = "NotStarted"
    /\ cancelled => callState = "Finished"
    /\ ~cancelled /\ callState # "Finished" => unparsed = 0
    /\ ~cancelled /\ callState = "Finished" =>
          /\ stream = "ok" /\ unread = 0 /\ ~Arriving
          /\ unparsed = 0 \/ (unparsed = 1 /\ ~AnswerWaits)

\* The success is queued behind the responses, and told after them.
Has(s, kind) == \E i \in DOMAIN s : s[i] = kind
Behind(s) ==
    \A i, j \in DOMAIN s : s[i] = "completed" /\ j > i => s[j] # "answer"
SuccessLast ==
    /\ Behind(responses)
    /\ Has(responses, "completed") \/ Has(delivered, "completed") =>
          callState = "Finished" /\ ~cancelled
    /\ Has(delivered, "completed") => alreadyFinished

\* As long as the call may succeed, every response that was received is in one
\* of five places.
Balance ==
    ~cancelled /\ ~alreadyFinished /\ stream # "error" =>
        answered = unread + Count(Arriving) + Count(AnswerWaits) + Len(delivered) + unparsed

AnswersInv ==
    OnlyAnswers /\ StatusLast /\ FinishOK /\ SuccessLast /\ Balance /\ SuccessIsComplete

LEMMA InitAnswers == Init => AnswersInv
BY DEF Init, CoreInit, AnswersInv, OnlyAnswers, StatusLast, StatusLastIn, FinishOK, SuccessLast,
       Has, Behind, Balance, Count, Arriving, ArrivingIn, AnswerWaits, SuccessIsComplete

-----------------------------------------------------------------------------
(* The completion queue.                                                   *)

LEMMA AppendIndex ==
    ASSUME NEW S, NEW q \in Seq(S), NEW e \in S
    PROVE  /\ DOMAIN q = 1..Len(q) /\ Len(q) \in Nat
           /\ DOMAIN Append(q, e) = 1..(Len(q) + 1)
           /\ Append(q, e)[Len(q) + 1] = e
           /\ \A i \in 1..Len(q) : Append(q, e)[i] = q[i]
OBVIOUS

LEMMA AppendEvent ==
    ASSUME NEW q \in Seq(Completion), NEW e \in Completion
    PROVE  /\ ArrivingIn(Append(q, e)) <=> ArrivingIn(q) \/ IsAnswer(e)
           /\ \A how, left :
                 StatusLastIn(q, how, left) /\ e.op # "recvStatus" /\ ~IsAnswer(e)
                    => StatusLastIn(Append(q, e), how, left)
           /\ \A how, left :
                 StatusLastIn(q, how, left) /\ e.op # "recvStatus" /\ left # 0
                    => \A less : StatusLastIn(Append(q, e), how, less)
           /\ \A how :
                 /\ StatusLastIn(q, how, 0) /\ ~IsAnswer(e)
                 /\ how # "live" /\ (e.ok <=> how = "ok")
                 => StatusLastIn(Append(q, e), how, 0)
<1> DEFINE r == Append(q, e)
<1>1. /\ DOMAIN q = 1..Len(q) /\ Len(q) \in Nat
      /\ DOMAIN r = 1..(Len(q) + 1)
      /\ r[Len(q) + 1] = e
      /\ \A i \in 1..Len(q) : r[i] = q[i]
    BY AppendIndex
<1> HIDE DEF r
<1>2. ArrivingIn(r) <=> ArrivingIn(q) \/ IsAnswer(e)
    BY <1>1 DEF ArrivingIn
<1>3. ASSUME NEW how, NEW left, StatusLastIn(q, how, left), e.op # "recvStatus", ~IsAnswer(e)
      PROVE  StatusLastIn(r, how, left)
    BY <1>1, <1>3 DEF StatusLastIn
<1>5. ASSUME NEW how, NEW left, StatusLastIn(q, how, left), e.op # "recvStatus", left # 0,
             NEW less
      PROVE  StatusLastIn(r, how, less)
    BY <1>1, <1>5 DEF StatusLastIn
<1>4. ASSUME NEW how, StatusLastIn(q, how, 0), how # "live", e.ok <=> how = "ok", ~IsAnswer(e)
      PROVE  StatusLastIn(r, how, 0)
    BY <1>1, <1>4 DEF StatusLastIn
<1> QED
    BY <1>2, <1>3, <1>4, <1>5 DEF r

LEMMA TailEvent ==
    ASSUME NEW q \in Seq(Completion), q # <<>>
    PROVE  /\ ArrivingIn(q) <=> ArrivingIn(Tail(q)) \/ IsAnswer(Head(q))
           /\ \A how, left : StatusLastIn(q, how, left) => StatusLastIn(Tail(q), how, left)
           /\ \A how, left : StatusLastIn(q, how, left) /\ Head(q).op = "recvStatus" =>
                 /\ how # "live" /\ (Head(q).ok <=> how = "ok") /\ left = 0
                 /\ ~ArrivingIn(Tail(q))
<1> DEFINE r == Tail(q)
<1>1. /\ DOMAIN q = 1..Len(q) /\ Len(q) \in Nat /\ Len(q) # 0
      /\ DOMAIN r = 1..(Len(q) - 1)
      /\ q[1] = Head(q)
      /\ \A i \in 1..(Len(q) - 1) : r[i] = q[i + 1]
    OBVIOUS
<1> HIDE DEF r
<1>2. ArrivingIn(q) => ArrivingIn(r) \/ IsAnswer(Head(q))
    <2> SUFFICES ASSUME NEW i \in DOMAIN q, IsAnswer(q[i]), i # 1 PROVE ArrivingIn(r)
        BY <1>1 DEF ArrivingIn
    <2>1. i - 1 \in DOMAIN r /\ r[i - 1] = q[i]
        BY <1>1
    <2> QED
        BY <2>1 DEF ArrivingIn
<1>3. ArrivingIn(r) => ArrivingIn(q)
    <2> SUFFICES ASSUME NEW i \in DOMAIN r, IsAnswer(r[i]) PROVE ArrivingIn(q)
        BY DEF ArrivingIn
    <2>1. i + 1 \in DOMAIN q /\ r[i] = q[i + 1]
        BY <1>1
    <2> QED
        BY <2>1 DEF ArrivingIn
<1>4. ASSUME NEW how, NEW left, StatusLastIn(q, how, left)
      PROVE  StatusLastIn(r, how, left)
    <2>1. \A i \in DOMAIN r : i \in Nat /\ i + 1 \in DOMAIN q /\ r[i] = q[i + 1]
        BY <1>1
    <2> QED
        BY <1>4, <2>1 DEF StatusLastIn
<1>5. ASSUME NEW how, NEW left, StatusLastIn(q, how, left), Head(q).op = "recvStatus"
      PROVE  how # "live" /\ (Head(q).ok <=> how = "ok") /\ left = 0 /\ ~ArrivingIn(r)
    <2>1. \A i \in DOMAIN r : i \in Nat \ {0} /\ i + 1 \in DOMAIN q /\ r[i] = q[i + 1]
        BY <1>1
    <2>2. 1 \in DOMAIN q
        BY <1>1
    <2> QED
        BY <1>1, <1>5, <2>1, <2>2 DEF StatusLastIn, ArrivingIn
<1>6. IsAnswer(Head(q)) => ArrivingIn(q)
    BY <1>1 DEF ArrivingIn
<1> QED
    BY <1>2, <1>3, <1>4, <1>5, <1>6 DEF r

LEMMA AppendResponse ==
    ASSUME NEW q \in Seq(Response), NEW e \in Response
    PROVE  /\ \A kind : Has(Append(q, e), kind) <=> Has(q, kind) \/ e = kind
           /\ Behind(q) /\ (e = "answer" => ~Has(q, "completed")) => Behind(Append(q, e))
<1> DEFINE r == Append(q, e)
<1>1. /\ DOMAIN q = 1..Len(q) /\ Len(q) \in Nat
      /\ DOMAIN r = 1..(Len(q) + 1)
      /\ r[Len(q) + 1] = e
      /\ \A i \in 1..Len(q) : r[i] = q[i]
    BY AppendIndex
<1> HIDE DEF r
<1>2. \A kind : Has(r, kind) <=> Has(q, kind) \/ e = kind
    BY <1>1 DEF Has
<1>3. Behind(q) /\ (e = "answer" => ~Has(q, "completed")) => Behind(r)
    BY <1>1 DEF Behind, Has
<1> QED
    BY <1>2, <1>3 DEF r

LEMMA TailResponse ==
    ASSUME NEW q \in Seq(Response), q # <<>>
    PROVE  /\ \A kind : Has(q, kind) <=> Has(Tail(q), kind) \/ Head(q) = kind
           /\ Behind(q) => Behind(Tail(q))
           /\ Behind(q) /\ Head(q) = "completed" => ~Has(q, "answer")
           /\ (\A i, j \in DOMAIN q : q[i] = "answer" /\ q[j] = "answer" => i = j)
                 /\ Head(q) = "answer" => ~Has(Tail(q), "answer")
<1> DEFINE r == Tail(q)
<1>1. /\ DOMAIN q = 1..Len(q) /\ Len(q) \in Nat /\ Len(q) # 0
      /\ DOMAIN r = 1..(Len(q) - 1)
      /\ q[1] = Head(q)
      /\ \A i \in 1..(Len(q) - 1) : r[i] = q[i + 1]
    OBVIOUS
<1> HIDE DEF r
<1>2. \A kind : Has(q, kind) <=> Has(r, kind) \/ Head(q) = kind
    <2> TAKE kind
    <2>1. ASSUME NEW i \in DOMAIN q, q[i] = kind, i # 1 PROVE Has(r, kind)
        <3>1. i - 1 \in DOMAIN r /\ r[i - 1] = q[i]
            BY <1>1, <2>1
        <3> QED
            BY <2>1, <3>1 DEF Has
    <2>2. \A i \in DOMAIN r : i + 1 \in DOMAIN q /\ r[i] = q[i + 1]
        BY <1>1
    <2> QED
        BY <1>1, <2>1, <2>2 DEF Has
<1>3. Behind(q) => Behind(r)
    <2>1. \A i \in DOMAIN r : i \in Nat /\ i + 1 \in DOMAIN q /\ r[i] = q[i + 1]
        BY <1>1
    <2> QED
        BY <2>1 DEF Behind
<1>4. Behind(q) /\ Head(q) = "completed" => ~Has(q, "answer")
    BY <1>1 DEF Behind, Has
<1>5. ASSUME \A i, j \in DOMAIN q : q[i] = "answer" /\ q[j] = "answer" => i = j,
             Head(q) = "answer"
      PROVE  ~Has(r, "answer")
    BY <1>1, <1>5 DEF Has
<1> QED
    BY <1>2, <1>3, <1>4, <1>5 DEF r

-----------------------------------------------------------------------------
(* The steps that move no response.                                        *)

answerVars == <<cq, stream, unread, answered, callState, responses, cancelled,
                alreadyFinished, historyVars>>

LEMMA AnswersFrame ==
    ASSUME AnswersInv, UNCHANGED answerVars, main' = "none" => main = "none"
    PROVE  AnswersInv'
<1> USE DEF answerVars, historyVars
<1>1. (OnlyAnswers /\ StatusLast /\ SuccessLast /\ SuccessIsComplete)'
    BY DEF AnswersInv, OnlyAnswers, StatusLast, SuccessLast, Has, Behind, SuccessIsComplete
<1>2. (Arriving' <=> Arriving) /\ (AnswerWaits' <=> AnswerWaits)
    BY DEF Arriving, AnswerWaits
<1>3. FinishOK'
    BY <1>2 DEF AnswersInv, FinishOK
<1>4. Balance'
    BY <1>2 DEF AnswersInv, Balance, Count
<1> QED
    BY <1>1, <1>3, <1>4 DEF AnswersInv

LEMMA FrameSteps ==
    ASSUME AnswersInv,
           \/ InvokeCall \/ StartForwarding \/ StartPipe \/ ResumeWriteQueue
           \/ WriteRequest \/ StopStreaming \/ PipeStep \/ CallQueueStep
           \/ ResumeWriter \/ FinishForwarding \/ FinishWriter \/ CheckAnswer
           \/ UNCHANGED vars
    PROVE  AnswersInv'
<1>1. UNCHANGED answerVars
    BY DEF InvokeCall, StartForwarding, StartPipe, ResumeWriteQueue, WriteRequest, StopStreaming,
           PipeStep, CallQueueStep, SendMessage, Start, StartBatches, ResumeWriter,
           FinishForwarding, FinishWriter, CheckAnswer, vars, coreVars, callVars,
           responseVars, answerVars
<1>2. main' = "none" => main = "none"
    BY DEF InvokeCall, StartForwarding, StartPipe, ResumeWriteQueue, WriteRequest, StopStreaming,
           PipeStep, CallQueueStep, ResumeWriter, FinishForwarding, FinishWriter,
           CheckAnswer, vars, appVars
<1> QED
    BY <1>1, <1>2, AnswersFrame

-----------------------------------------------------------------------------
(* The end of the call.                                                    *)

LEMMA OpenAnswers ==
    ASSUME AnswersInv, OpenCall
    PROVE  AnswersInv'
<1> USE DEF OpenCall, coreVars, responseVars, historyVars
<1>1. callState = "NotStarted" /\ ~cancelled
    BY DEF AnswersInv, FinishOK
<1>2. (OnlyAnswers /\ StatusLast /\ SuccessIsComplete)'
    BY DEF AnswersInv, OnlyAnswers, StatusLast, SuccessIsComplete
<1>3. SuccessLast'
    BY <1>1 DEF AnswersInv, SuccessLast, Has, Behind
<1>4. FinishOK' /\ Balance'
    BY <1>1 DEF AnswersInv, FinishOK, Balance, Arriving, AnswerWaits, Count
<1> QED
    BY <1>2, <1>3, <1>4 DEF AnswersInv

\* An error leaves nothing to count.
LEMMA FailAnswers ==
    ASSUME AnswersInv, StreamTypeOK,
           StatusLast', UNCHANGED <<alreadyFinished, delivered>>,
           main' # "none", callState # "Finished",
           \/ FinishCall(FALSE, responses)
           \/ responses # <<>> /\ FinishCall(FALSE, Tail(responses)),
           unparsed' \in {unparsed, unparsed + 1}
    PROVE  AnswersInv'
<1>1. cancelled' = TRUE /\ callState' = "Finished" /\ ~cancelled
    BY DEF FinishCall, AnswersInv, FinishOK
<1>2. ~Has(responses, "completed") /\ ~Has(delivered, "completed")
    BY DEF AnswersInv, SuccessLast
<1>3. ~Has(responses', "completed")
    <2>1. CASE responses' = Append(responses, "failed")
        BY <1>2, <2>1, AppendResponse DEF StreamTypeOK, Response
    <2>2. CASE responses # <<>> /\ responses' = Append(Tail(responses), "failed")
        <3>1. responses \in Seq(Response)
            BY DEF StreamTypeOK, Response
        <3>2. Tail(responses) \in Seq(Response) /\ ~Has(Tail(responses), "completed")
            BY <1>2, <2>2, <3>1, TailResponse, TailType
        <3> QED
            BY <2>2, <3>2, AppendResponse DEF Response
    <2> QED
        BY <2>1, <2>2 DEF FinishCall
<1>4. SuccessLast'
    BY <1>2, <1>3 DEF SuccessLast, Has, Behind
<1>5. (OnlyAnswers /\ SuccessIsComplete)'
    BY <1>2 DEF AnswersInv, OnlyAnswers, SuccessIsComplete, Has
<1>6. FinishOK' /\ Balance'
    BY <1>1 DEF FinishOK, Balance
<1> QED
    BY <1>4, <1>5, <1>6 DEF AnswersInv

LEMMA NotMadeAnswers ==
    ASSUME AnswersInv, StreamTypeOK, CallNotMade
    PROVE  AnswersInv'
<1>1. UNCHANGED <<coreVars, alreadyFinished, historyVars>> /\ FinishCall(FALSE, responses)
      /\ main # "none" /\ main' # "none"
    BY DEF CallNotMade
<1>2. CASE callState # "Finished"
    <2>1. StatusLast'
        BY <1>1 DEF AnswersInv, StatusLast, coreVars
    <2> QED
        BY <1>1, <1>2, <2>1, FailAnswers DEF historyVars
<1>3. CASE callState = "Finished"
    <2>1. UNCHANGED answerVars
        BY <1>1, <1>3 DEF FinishCall, coreVars, historyVars, answerVars
    <2> QED
        BY <1>1, <2>1, AnswersFrame
<1> QED
    BY <1>2, <1>3

-----------------------------------------------------------------------------
(* The blocks of the main queue.                                           *)

\* Whoever has received a response has opened the call.
LEMMA AnsweredOpen == CallInv /\ AnswerWaits => main # "none"
<1> SUFFICES ASSUME CallInv, AnswerWaits PROVE main # "none"
    OBVIOUS
<1>1. slot["recvHeaders"] = "used"
    BY DEF CallInv, Parts, ReaderInv
<1> QED
    BY <1>1 DEF CallInv, Parts, OnceInv, Idle, IdleIn

LEMMA RunAnswerAnswers ==
    ASSUME AnswersInv, CallInv, RunAnswer
    PROVE  AnswersInv'
<1>1. /\ responses \in Seq(Response) /\ responses # <<>> /\ Head(responses) = "answer"
      /\ responses' = Tail(responses)
      /\ delivered \in Seq(Response) /\ delivered' = Append(delivered, "answer")
      /\ ~alreadyFinished
      /\ UNCHANGED <<coreVars, appVars, callState, cancelled, alreadyFinished, unparsed>>
    BY DEF RunAnswer, InHandInv, CallInv, StreamTypeOK, Response
<1>2. /\ \A kind : Has(responses, kind) <=> Has(responses', kind) \/ kind = "answer"
      /\ Behind(responses')
    BY <1>1, TailResponse DEF AnswersInv, SuccessLast
<1>3. Has(responses, "answer") /\ ~Has(responses', "answer")
    BY <1>1, <1>2, TailResponse DEF CallInv, Parts, ReaderInv
<1>4. AnswerWaits /\ ~AnswerWaits'
    BY <1>3 DEF AnswerWaits, Has
<1>5. \A kind : Has(delivered', kind) <=> Has(delivered, kind) \/ kind = "answer"
    BY <1>1, AppendResponse DEF Response
<1>6. ~Has(delivered, "completed") /\ ~Has(delivered', "completed")
    BY <1>1, <1>5 DEF AnswersInv, SuccessLast
<1>7. SuccessLast'
    BY <1>1, <1>2, <1>6 DEF AnswersInv, SuccessLast
<1>8. StatusLast' /\ (Arriving' <=> Arriving)
    BY <1>1 DEF AnswersInv, StatusLast, Arriving, coreVars
<1>9. FinishOK'
    BY <1>1, <1>4, <1>8 DEF AnswersInv, FinishOK, coreVars, appVars
<1>10. Len(delivered') = Len(delivered) + 1 /\ Len(delivered) \in Nat
    BY <1>1
<1>11. Balance'
    <2>1. unread \in Nat /\ unparsed \in Nat /\ answered \in Nat
        BY MaxAnswersAssumption DEF CallInv, StreamTypeOK, CoreTypeOK
    <2>2. /\ Count(AnswerWaits) = 1 /\ Count(AnswerWaits') = 0
          /\ Count(Arriving') = Count(Arriving) /\ Count(Arriving) \in {0, 1}
        BY <1>4, <1>8 DEF Count
    <2>3. UNCHANGED <<unread, answered, stream, unparsed, cancelled, alreadyFinished>>
        BY <1>1 DEF coreVars
    <2> SUFFICES ASSUME ~cancelled, ~alreadyFinished, stream # "error"
                 PROVE  answered = unread + Count(Arriving') + Count(AnswerWaits')
                                   + Len(delivered') + unparsed
        BY <2>3 DEF Balance
    <2>4. answered = unread + Count(Arriving) + Count(AnswerWaits) + Len(delivered) + unparsed
        BY DEF AnswersInv, Balance
    <2> QED
        BY <1>10, <2>1, <2>2, <2>4
<1>12. SuccessIsComplete'
    BY <1>6 DEF SuccessIsComplete, Has
<1>13. OnlyAnswers'
    <2>1. /\ DOMAIN delivered' = 1..(Len(delivered) + 1) /\ DOMAIN delivered = 1..Len(delivered)
          /\ delivered'[Len(delivered) + 1] = "answer"
          /\ \A i \in 1..Len(delivered) : delivered'[i] = delivered[i]
        BY <1>1, AppendIndex DEF Response
    <2> QED
        BY <1>1, <1>10, <2>1 DEF AnswersInv, OnlyAnswers
<1> QED
    BY <1>7, <1>8, <1>9, <1>11, <1>12, <1>13 DEF AnswersInv

LEMMA RunBadAnswers ==
    ASSUME AnswersInv, CallInv, RunBadAnswer
    PROVE  AnswersInv'
<1>1. /\ responses \in Seq(Response) /\ responses # <<>> /\ Head(responses) = "answer"
      /\ FinishCall(FALSE, Tail(responses))
      /\ ~alreadyFinished
      /\ unparsed' = unparsed + 1
      /\ UNCHANGED <<coreVars, appVars, alreadyFinished, delivered>>
    BY DEF RunBadAnswer, InHandInv, CallInv, StreamTypeOK, Response
<1>2. /\ \A kind : Has(responses, kind) <=> Has(Tail(responses), kind) \/ kind = "answer"
      /\ Behind(Tail(responses))
    BY <1>1, TailResponse DEF AnswersInv, SuccessLast
<1>3. Has(responses, "answer") /\ ~Has(Tail(responses), "answer")
    BY <1>1, <1>2, TailResponse DEF CallInv, Parts, ReaderInv
<1>4. AnswerWaits
    BY <1>3 DEF AnswerWaits, Has
<1>5. main # "none" /\ main' # "none"
    BY <1>1, <1>4, AnsweredOpen DEF appVars
<1>6. CASE callState # "Finished"
    <2>1. StatusLast'
        BY <1>1 DEF AnswersInv, StatusLast, coreVars
    <2> QED
        BY <1>1, <1>5, <1>6, <2>1, FailAnswers DEF CallInv
<1>7. CASE callState = "Finished"
    <2>1. responses' = Tail(responses) /\ UNCHANGED <<callState, cancelled>>
        BY <1>1, <1>7 DEF FinishCall
    <2>2. ~AnswerWaits'
        BY <1>3, <2>1 DEF AnswerWaits, Has
    <2>3. StatusLast' /\ (Arriving' <=> Arriving)
        BY <1>1 DEF AnswersInv, StatusLast, Arriving, coreVars
    <2>4. ~cancelled => stream = "ok" /\ unread = 0 /\ ~Arriving /\ unparsed = 0
        BY <1>1, <1>4, <1>7 DEF AnswersInv, FinishOK
    <2>5. FinishOK'
        BY <1>1, <1>5, <1>7, <2>1, <2>2, <2>3, <2>4 DEF FinishOK, coreVars
    <2>6. ~Has(delivered, "completed")
        BY <1>1 DEF AnswersInv, SuccessLast
    <2>7. SuccessLast'
        BY <1>1, <1>2, <1>7, <2>1, <2>6 DEF AnswersInv, SuccessLast
    <2>8. OnlyAnswers' /\ SuccessIsComplete'
        BY <1>1, <2>6 DEF AnswersInv, OnlyAnswers, SuccessIsComplete, Has
    <2>9. Balance'
        <3>1. Len(delivered) \in Nat /\ answered \in Nat
            BY MaxAnswersAssumption DEF CallInv, StreamTypeOK, CoreTypeOK
        <3> QED
            BY <1>1, <1>4, <2>1, <2>2, <2>3, <2>4, <3>1 DEF AnswersInv, Balance, Count, coreVars
    <2> QED
        BY <2>3, <2>5, <2>7, <2>8, <2>9 DEF AnswersInv
<1> QED
    BY <1>6, <1>7

LEMMA RunEndAnswers ==
    ASSUME AnswersInv, CallInv, RunEnd
    PROVE  AnswersInv'
<1>1. /\ responses \in Seq(Response) /\ responses # <<>>
      /\ Head(responses) \in {"completed", "failed"}
      /\ responses' = Tail(responses)
      /\ delivered \in Seq(Response) /\ delivered' = Append(delivered, Head(responses))
      /\ ~alreadyFinished /\ (Head(responses) = "failed" \/ ~cancelled)
      /\ alreadyFinished' = TRUE
      /\ UNCHANGED <<coreVars, appVars, callState, cancelled, unparsed>>
    BY DEF RunEnd, Taking, Heard, CallInv, StreamTypeOK, Response, callVars
<1>2. /\ \A kind : Has(responses, kind) <=> Has(responses', kind) \/ Head(responses) = kind
      /\ Behind(responses')
      /\ Head(responses) = "completed" => ~Has(responses, "answer")
    BY <1>1, TailResponse DEF AnswersInv, SuccessLast
<1>3. AnswerWaits' <=> AnswerWaits
    BY <1>1, <1>2 DEF AnswerWaits, Has
<1>4. StatusLast' /\ (Arriving' <=> Arriving)
    BY <1>1 DEF AnswersInv, StatusLast, Arriving, coreVars
<1>5. FinishOK'
    BY <1>1, <1>3, <1>4 DEF AnswersInv, FinishOK, coreVars, appVars
<1>6. OnlyAnswers' /\ Balance'
    BY <1>1 DEF OnlyAnswers, Balance
<1>7. \A kind : Has(delivered', kind) <=> Has(delivered, kind) \/ Head(responses) = kind
    BY <1>1, AppendResponse DEF Response
<1>8. ~Has(delivered, "completed")
    BY <1>1 DEF AnswersInv, SuccessLast
<1>9. SuccessLast'
    BY <1>1, <1>2, <1>7, <1>8 DEF AnswersInv, SuccessLast
<1>10. SuccessIsComplete'
    <2>1. CASE Head(responses) = "failed"
        BY <1>7, <1>8, <2>1 DEF SuccessIsComplete, Has
    <2>2. CASE Head(responses) = "completed"
        <3>1. callState = "Finished" /\ ~cancelled /\ ~Has(responses, "answer")
            BY <1>1, <1>2, <2>2 DEF AnswersInv, SuccessLast
        <3>2. ~AnswerWaits
            BY <3>1 DEF AnswerWaits, Has
        <3>3. stream = "ok" /\ unread = 0 /\ ~Arriving /\ unparsed \in {0, 1}
            BY <3>1 DEF AnswersInv, FinishOK
        <3>4. Count(Arriving) = 0 /\ Count(AnswerWaits) = 0
            BY <3>2, <3>3 DEF Count
        <3>5. answered = unread + Count(Arriving) + Count(AnswerWaits) + Len(delivered) + unparsed
            BY <1>1, <3>1, <3>3 DEF AnswersInv, Balance
        <3>6. Len(delivered) \in Nat /\ answered \in Nat
            BY <1>1, MaxAnswersAssumption DEF CallInv, StreamTypeOK, CoreTypeOK
        <3>7. Len(delivered) + 1 = answered - unparsed + 1
            BY <3>3, <3>4, <3>5, <3>6
        <3>8. /\ DOMAIN delivered' = 1..(Len(delivered) + 1) /\ DOMAIN delivered = 1..Len(delivered)
              /\ \A i \in 1..Len(delivered) : delivered'[i] = delivered[i]
            BY <1>1, AppendIndex DEF Response
        <3>9. \A i \in DOMAIN delivered' :
                  delivered'[i] = "completed" => i = Len(delivered) + 1
            BY <1>8, <3>6, <3>8 DEF Has
        <3>10. UNCHANGED <<answered, unparsed>>
            BY <1>1 DEF coreVars
        <3> QED
            BY <3>3, <3>7, <3>9, <3>10 DEF SuccessIsComplete
    <2> QED
        BY <1>1, <2>1, <2>2
<1> QED
    BY <1>4, <1>5, <1>6, <1>9, <1>10 DEF AnswersInv

LEMMA RunDroppedAnswers ==
    ASSUME AnswersInv, CallInv, RunDropped
    PROVE  AnswersInv'
<1>1. /\ responses \in Seq(Response) /\ responses # <<>>
      /\ responses' = Tail(responses)
      /\ alreadyFinished \/ cancelled
      /\ UNCHANGED <<coreVars, appVars, callState, cancelled, alreadyFinished, historyVars>>
    BY DEF RunDropped, Taking, CallInv, StreamTypeOK, Response, callVars
<1>2. /\ \A kind : Has(responses', kind) => Has(responses, kind)
      /\ Behind(responses')
    BY <1>1, TailResponse DEF AnswersInv, SuccessLast
<1>3. AnswerWaits' => AnswerWaits
    BY <1>2 DEF AnswerWaits, Has
<1>4. StatusLast' /\ (Arriving' <=> Arriving)
    BY <1>1 DEF AnswersInv, StatusLast, Arriving, coreVars
<1>5. FinishOK'
    BY <1>1, <1>3, <1>4 DEF AnswersInv, FinishOK, coreVars, appVars, historyVars
<1>6. OnlyAnswers' /\ Balance' /\ SuccessIsComplete'
    BY <1>1 DEF AnswersInv, OnlyAnswers, Balance, SuccessIsComplete, historyVars, coreVars
<1>7. SuccessLast'
    BY <1>1, <1>2 DEF AnswersInv, SuccessLast, historyVars
<1> QED
    BY <1>4, <1>5, <1>6, <1>7 DEF AnswersInv

-----------------------------------------------------------------------------
(* The completion loop.                                                    *)

\* An event that is not a response, whose handler does not end the call.
LEMMA TakeAnswers ==
    ASSUME AnswersInv, StreamTypeOK,
           cq # <<>>, cq' = Tail(cq), ~IsAnswer(Head(cq)),
           UNCHANGED <<stream, unread, answered, callState, responseVars, main>>
    PROVE  AnswersInv'
<1>1. StatusLast' /\ (Arriving' <=> Arriving)
    BY TailEvent DEF AnswersInv, StatusLast, Arriving, StreamTypeOK, CoreTypeOK
<1>2. AnswerWaits' <=> AnswerWaits
    BY DEF AnswerWaits, responseVars
<1>3. OnlyAnswers' /\ SuccessLast' /\ SuccessIsComplete'
    BY DEF AnswersInv, OnlyAnswers, SuccessLast, Has, Behind, SuccessIsComplete,
           responseVars, historyVars
<1>4. FinishOK'
    BY <1>1, <1>2 DEF AnswersInv, FinishOK, responseVars, historyVars
<1>5. Balance'
    BY <1>1, <1>2 DEF AnswersInv, Balance, Count, responseVars, historyVars
<1> QED
    BY <1>1, <1>3, <1>4, <1>5 DEF AnswersInv

\* What the handler of an event is given.
LEMMA TakenEvent ==
    ASSUME StreamTypeOK, NEW op, NEW ok, Completed(op, ok)
    PROVE  /\ cq \in Seq(Completion) /\ cq # <<>> /\ cq' = Tail(cq)
           /\ Head(cq).op = op /\ Head(cq).ok = ok
           /\ IsAnswer(Head(cq)) <=> op = "recvMessage" /\ ok
           /\ UNCHANGED <<stream, unread, answered>>
<1>1. Head(cq) = [op |-> op, ok |-> ok]
    BY DEF Completed
<1>2. Head(cq).op = op /\ Head(cq).ok = ok
    BY <1>1
<1> QED
    BY <1>2 DEF Completed, TakeCompletion, IsAnswer, StreamTypeOK, CoreTypeOK

LEMMA HandledAnswers ==
    ASSUME AnswersInv, StreamTypeOK, WriteDone \/ HeadersReceived \/ NothingToHandle
    PROVE  AnswersInv'
<1>1. UNCHANGED <<callState, responseVars, main>>
    BY DEF WriteDone, HeadersReceived, NothingToHandle, appVars, callVars
<1>2. PICK op \in Ops, ok \in BOOLEAN :
          Completed(op, ok) /\ ~(op = "recvMessage" /\ ok)
    BY DEF WriteDone, HeadersReceived, NothingToHandle, Ops
<1> QED
    BY <1>1, <1>2, TakenEvent, TakeAnswers

LEMMA ReceivedAnswers ==
    ASSUME AnswersInv, CallInv, MessageReceived
    PROVE  AnswersInv'
<1>0. StreamTypeOK /\ Completed("recvMessage", TRUE)
    BY DEF MessageReceived, CallInv
<1>1. /\ cq \in Seq(Completion) /\ cq # <<>> /\ cq' = Tail(cq)
      /\ Head(cq).op = "recvMessage" /\ IsAnswer(Head(cq))
      /\ UNCHANGED <<stream, unread, answered>>
    BY <1>0, TakenEvent
<1>2. /\ responses \in Seq(Response) /\ responses' = Append(responses, "answer")
      /\ UNCHANGED <<main, callState, cancelled, alreadyFinished, historyVars>>
    BY DEF MessageReceived, appVars, callVars, CallInv, StreamTypeOK, Response
<1>3. /\ 1 \in DOMAIN cq /\ cq[1] = Head(cq)
      /\ \A i \in DOMAIN cq' : i \in Nat \ {0} /\ i + 1 \in DOMAIN cq /\ cq'[i] = cq[i + 1]
    BY <1>1, TailIndex
<1>4. Arriving /\ ~Arriving'
    <2>1. \A i, j \in DOMAIN cq : cq[i].op = cq[j].op => i = j
        BY DEF CallInv, Parts, QueueInv
    <2> QED
        BY <1>1, <1>3, <2>1 DEF Arriving, ArrivingIn, IsAnswer
<1>5. ~AnswerWaits
    <2>1. slot["recvMessage"] = "posted"
        BY <1>1, <1>3 DEF CallInv, Parts, QueueInv
    <2> QED
        BY <2>1 DEF CallInv, Parts, ReaderInv, Idle, IdleIn
<1>6. /\ \A kind : Has(responses', kind) <=> Has(responses, kind) \/ kind = "answer"
      /\ Behind(responses) /\ ~Has(responses, "completed") => Behind(responses')
    BY <1>2, AppendResponse DEF Response
<1>7. AnswerWaits'
    BY <1>6 DEF AnswerWaits, Has
<1>8. cancelled \/ callState # "Finished"
    BY <1>4 DEF AnswersInv, FinishOK
<1>9. SuccessLast'
    BY <1>2, <1>6, <1>8 DEF AnswersInv, SuccessLast, historyVars
<1>10. FinishOK'
    BY <1>2, <1>8 DEF AnswersInv, FinishOK, historyVars
<1>11. StatusLast'
    BY <1>1, TailEvent DEF AnswersInv, StatusLast
<1>12. OnlyAnswers' /\ SuccessIsComplete'
    BY <1>1, <1>2 DEF AnswersInv, OnlyAnswers, SuccessIsComplete, historyVars
<1>13. Balance'
    <2>1. /\ Count(Arriving) = 1 /\ Count(Arriving') = 0
          /\ Count(AnswerWaits) = 0 /\ Count(AnswerWaits') = 1
        BY <1>4, <1>5, <1>7 DEF Count
    <2>2. unread \in Nat /\ unparsed \in Nat /\ Len(delivered) \in Nat
        BY DEF CallInv, StreamTypeOK, CoreTypeOK
    <2>3. UNCHANGED <<unread, answered, stream, unparsed, delivered, cancelled, alreadyFinished>>
        BY <1>1, <1>2 DEF historyVars
    <2> QED
        BY <2>1, <2>2, <2>3 DEF AnswersInv, Balance
<1> QED
    BY <1>9, <1>10, <1>11, <1>12, <1>13 DEF AnswersInv

\* A response that memory cannot hold.
LEMMA NotHeldAnswers ==
    ASSUME AnswersInv, CallInv, MessageNotHeld
    PROVE  AnswersInv' /\ cancelled'
<1>0. /\ StreamTypeOK /\ Completed("recvMessage", TRUE) /\ FinishCall(FALSE, responses)
      /\ UNCHANGED <<main, alreadyFinished, historyVars>>
    BY DEF MessageNotHeld, CallInv, appVars
<1>1. /\ cq \in Seq(Completion) /\ cq # <<>> /\ cq' = Tail(cq)
      /\ Head(cq).op = "recvMessage" /\ IsAnswer(Head(cq))
      /\ UNCHANGED <<stream, unread, answered>>
    BY <1>0, TakenEvent
<1>2. StatusLast' /\ (Arriving' => Arriving) /\ Arriving
    BY <1>1, TailEvent DEF AnswersInv, StatusLast, Arriving
<1>3. main # "none"
    <2>1. slot["recvMessage"] = "posted"
        BY <1>1, TailIndex DEF CallInv, Parts, QueueInv
    <2>2. slot["recvHeaders"] = "used"
        BY <2>1 DEF CallInv, Parts, ReaderInv, Idle, IdleIn
    <2> QED
        BY <2>2 DEF CallInv, Parts, OnceInv, Idle, IdleIn
<1>4. CASE callState # "Finished"
    <2>1. cancelled'
        BY <1>0, <1>4 DEF FinishCall
    <2> QED
        BY <1>0, <1>2, <1>3, <1>4, <2>1, FailAnswers DEF historyVars
<1>5. CASE callState = "Finished"
    <2>1. UNCHANGED <<callState, responses, cancelled>>
        BY <1>0, <1>5 DEF FinishCall
    <2>2. cancelled
        BY <1>2, <1>5 DEF AnswersInv, FinishOK
    <2>3. FinishOK' /\ Balance'
        BY <1>0, <2>1, <2>2 DEF AnswersInv, FinishOK, Balance, historyVars
    <2>4. (OnlyAnswers /\ SuccessLast /\ SuccessIsComplete)'
        BY <1>0, <1>1, <2>1 DEF AnswersInv, OnlyAnswers, SuccessLast, Has, Behind,
                                SuccessIsComplete, historyVars
    <2> QED
        BY <1>2, <2>1, <2>2, <2>3, <2>4 DEF AnswersInv
<1> QED
    BY <1>4, <1>5

\* The stream has not been told to have ended before it has.
LEMMA LiveAnswers ==
    ASSUME AnswersInv, stream = "live" \/ unread # 0
    PROVE  /\ \A i \in DOMAIN cq : cq[i].op # "recvStatus"
           /\ cancelled \/ callState # "Finished"
           /\ ~Has(delivered, "completed")
<1>1. \A i \in DOMAIN cq : cq[i].op # "recvStatus"
    BY DEF AnswersInv, StatusLast, StatusLastIn
<1>2. cancelled \/ callState # "Finished"
    BY DEF AnswersInv, FinishOK
<1> QED
    BY <1>1, <1>2 DEF AnswersInv, SuccessLast

\* The call that is cancelled in the core has failed already.
CancelledFirst == loop = "cancelCall" => cancelled

LEMMA CancelAnswers ==
    ASSUME AnswersInv, CancelledFirst, CancelCall
    PROVE  AnswersInv'
<1>1. /\ cancelled /\ unread' = 0 /\ cq' = cq /\ answered' = answered
      /\ stream' = IF stream = "live" THEN "error" ELSE stream
      /\ UNCHANGED <<main, callState, responses, cancelled, alreadyFinished, delivered, unparsed>>
    BY DEF CancelCall, Cancel, CancelledFirst, appVars, responseVars, historyVars
<1>2. StatusLast'
    BY <1>1, LiveAnswers DEF AnswersInv, StatusLast, StatusLastIn
<1>3. FinishOK' /\ Balance'
    BY <1>1 DEF AnswersInv, FinishOK, Balance
<1>4. (OnlyAnswers /\ SuccessLast /\ SuccessIsComplete)'
    BY <1>1 DEF AnswersInv, OnlyAnswers, SuccessLast, Has, Behind, SuccessIsComplete
<1> QED
    BY <1>2, <1>3, <1>4 DEF AnswersInv

LEMMA StatusAnswers ==
    ASSUME AnswersInv, CallInv, StatusReceived
    PROVE  AnswersInv'
<1>0. PICK ok \in BOOLEAN : Completed("recvStatus", ok) /\ FinishCall(ok, responses)
    BY DEF StatusReceived
<1>1. /\ cq \in Seq(Completion) /\ cq # <<>> /\ cq' = Tail(cq)
      /\ Head(cq).op = "recvStatus" /\ Head(cq).ok = ok /\ ~IsAnswer(Head(cq))
      /\ UNCHANGED <<stream, unread, answered>>
    BY <1>0, TakenEvent DEF CallInv
<1>2. UNCHANGED <<main, alreadyFinished, inHand, historyVars>>
    BY DEF StatusReceived, appVars
<1>3. main # "none"
    <2>1. slot["recvStatus"] = "posted"
        BY <1>1, TailIndex DEF CallInv, Parts, QueueInv
    <2> QED
        BY <2>1 DEF CallInv, Parts, OnceInv, Idle, IdleIn
<1>4. StatusLastIn(cq, stream, unread) /\ StatusLast'
    BY <1>1, TailEvent DEF AnswersInv, StatusLast
<1>5. (ok <=> stream = "ok") /\ unread = 0 /\ ~Arriving /\ ~Arriving'
    BY <1>1, <1>4, TailEvent DEF Arriving
<1>6. CASE callState = "Finished"
    <2>1. UNCHANGED <<callState, responseVars>>
        BY <1>0, <1>2, <1>6 DEF FinishCall, responseVars
    <2> QED
        BY <1>1, <1>2, <2>1, TakeAnswers DEF CallInv
<1>7. CASE callState # "Finished" /\ ~ok
    BY <1>0, <1>2, <1>3, <1>4, <1>7, FailAnswers DEF CallInv, historyVars
<1>8. CASE callState # "Finished" /\ ok
    <2>1. /\ responses' = Append(responses, "completed") /\ callState' = "Finished"
          /\ ~cancelled /\ ~cancelled' /\ responses \in Seq(Response)
          /\ unparsed = 0
        BY <1>0, <1>8 DEF FinishCall, AnswersInv, FinishOK, CallInv, StreamTypeOK, Response
    <2>2. /\ Has(responses', "completed") /\ (Has(responses', "answer") <=> Has(responses, "answer"))
          /\ Behind(responses')
        BY <2>1, AppendResponse DEF AnswersInv, SuccessLast, Response
    <2>3. AnswerWaits' <=> AnswerWaits
        BY <2>2 DEF AnswerWaits, Has
    <2>4. SuccessLast'
        BY <1>2, <2>1, <2>2 DEF AnswersInv, SuccessLast, historyVars
    <2>5. FinishOK'
        BY <1>1, <1>2, <1>3, <1>5, <1>8, <2>1 DEF FinishOK, historyVars
    <2>6. OnlyAnswers' /\ SuccessIsComplete'
        BY <1>1, <1>2 DEF AnswersInv, OnlyAnswers, SuccessIsComplete, historyVars
    <2>7. Balance'
        BY <1>1, <1>2, <1>5, <2>1, <2>3 DEF AnswersInv, Balance, Count, historyVars
    <2> QED
        BY <1>4, <2>4, <2>5, <2>6, <2>7 DEF AnswersInv
<1> QED
    BY <1>6, <1>7, <1>8

-----------------------------------------------------------------------------
(* The stream and the server.                                              *)

elsewhereVars == <<appVars, pipeVars, fwdVars, callVars, responseVars>>

\* What a completed batch leaves on the completion queue.
LEMMA PostedEvent ==
    ASSUME CallInv, NEW op \in Ops, NEW ok \in BOOLEAN, Complete(op, ok)
    PROVE  \E e \in Completion :
              /\ cq \in Seq(Completion) /\ cq' = Append(cq, e) /\ e.op = op /\ e.ok = ok
              /\ IsAnswer(e) <=> op = "recvMessage" /\ ok
              /\ op = "recvMessage" => ~Arriving
              /\ answered' = answered
<1> DEFINE e == [op |-> op, ok |-> ok]
<1>1. e \in Completion /\ e.op = op /\ e.ok = ok
    BY DEF Completion
<1>2. cq \in Seq(Completion) /\ cq' = Append(cq, e) /\ answered' = answered /\ slot[op] = "busy"
    BY DEF Complete, CallInv, StreamTypeOK, CoreTypeOK
<1>3. op = "recvMessage" => ~Arriving
    BY <1>2 DEF CallInv, Parts, QueueInv, Arriving, ArrivingIn, IsAnswer
<1> HIDE DEF e
<1> QED
    BY <1>1, <1>2, <1>3 DEF IsAnswer

\* Nothing but the batch of a read brings a response.
LEMMA OtherEvents ==
    ASSUME AnswersInv, CallInv, UNCHANGED elsewhereVars,
           \/ HeadersSent \/ MessageSent \/ CloseSent
           \/ HeadersArrive \/ NoMoreMessages \/ StatusArrives
    PROVE  AnswersInv'
<1>1. PICK op \in Ops, ok \in BOOLEAN :
          /\ Complete(op, ok) /\ ~(op = "recvMessage" /\ ok)
          /\ op = "recvStatus" => stream # "live" /\ unread = 0 /\ (ok <=> stream = "ok")
    BY DEF HeadersSent, MessageSent, CloseSent, HeadersArrive, NoMoreMessages, StatusArrives, Ops
<1>2. UNCHANGED <<stream, unread>>
    BY DEF HeadersSent, MessageSent, CloseSent, HeadersArrive, NoMoreMessages, StatusArrives
<1>3. PICK e \in Completion :
          /\ cq \in Seq(Completion) /\ cq' = Append(cq, e) /\ e.op = op /\ e.ok = ok
          /\ ~IsAnswer(e) /\ answered' = answered
    BY <1>1, PostedEvent
<1>4. Arriving' <=> Arriving
    BY <1>3, AppendEvent DEF Arriving
<1>5. StatusLast'
    BY <1>1, <1>2, <1>3, AppendEvent DEF AnswersInv, StatusLast
<1>6. UNCHANGED <<main, callState, responseVars>>
    BY DEF elsewhereVars, appVars, callVars
<1>7. AnswerWaits' <=> AnswerWaits
    BY <1>6 DEF AnswerWaits, responseVars
<1>8. OnlyAnswers' /\ SuccessLast' /\ SuccessIsComplete'
    BY <1>3, <1>6 DEF AnswersInv, OnlyAnswers, SuccessLast, Has, Behind, SuccessIsComplete,
                      responseVars, historyVars
<1>9. FinishOK'
    BY <1>2, <1>4, <1>6, <1>7 DEF AnswersInv, FinishOK, responseVars, historyVars
<1>10. Balance'
    BY <1>2, <1>3, <1>4, <1>6, <1>7 DEF AnswersInv, Balance, Count, responseVars, historyVars
<1> QED
    BY <1>5, <1>8, <1>9, <1>10 DEF AnswersInv

LEMMA ReadAnswers ==
    ASSUME AnswersInv, CallInv, UNCHANGED elsewhereVars, MessageRead
    PROVE  AnswersInv'
<1>1. Complete("recvMessage", TRUE) /\ unread > 0 /\ unread' = unread - 1 /\ stream' = stream
    BY DEF MessageRead
<1>2. PICK e \in Completion :
          /\ cq \in Seq(Completion) /\ cq' = Append(cq, e) /\ e.op = "recvMessage"
          /\ IsAnswer(e) /\ ~Arriving /\ answered' = answered
    BY <1>1, PostedEvent DEF Ops
<1>3. unread \in Nat /\ unparsed \in Nat /\ Len(delivered) \in Nat /\ unread # 0
    BY <1>1 DEF CallInv, StreamTypeOK, CoreTypeOK
<1>4. Arriving'
    BY <1>2, AppendEvent DEF Arriving
<1>5. StatusLast'
    BY <1>1, <1>2, <1>3, AppendEvent DEF AnswersInv, StatusLast
<1>6. UNCHANGED <<main, callState, responseVars>>
    BY DEF elsewhereVars, appVars, callVars
<1>7. AnswerWaits' <=> AnswerWaits
    BY <1>6 DEF AnswerWaits, responseVars
<1>8. OnlyAnswers' /\ SuccessLast' /\ SuccessIsComplete'
    BY <1>2, <1>6 DEF AnswersInv, OnlyAnswers, SuccessLast, Has, Behind, SuccessIsComplete,
                      responseVars, historyVars
<1>9. FinishOK'
    BY <1>3, <1>6, LiveAnswers DEF AnswersInv, FinishOK, responseVars, historyVars
<1>10. Balance'
    <2>1. /\ Count(Arriving) = 0 /\ Count(Arriving') = 1
          /\ Count(AnswerWaits') = Count(AnswerWaits) /\ Count(AnswerWaits) \in {0, 1}
        BY <1>2, <1>4, <1>7 DEF Count
    <2> QED
        BY <1>1, <1>2, <1>3, <1>6, <2>1 DEF AnswersInv, Balance, responseVars, historyVars
<1> QED
    BY <1>5, <1>8, <1>9, <1>10 DEF AnswersInv

LEMMA NetworkAnswers ==
    ASSUME AnswersInv, CallInv, NetworkStep
    PROVE  AnswersInv'
<1>1. /\ stream = "live" /\ cq' = cq
      /\ \/ stream' = "live" /\ unread' = unread + 1 /\ answered' = answered + 1
         \/ stream' = "ok" /\ unread' = unread /\ answered' = answered
         \/ stream' = "error" /\ answered' = answered
    BY DEF NetworkStep, ServerSends, StreamEnds
<1>2. UNCHANGED <<main, callState, responseVars>>
    BY DEF NetworkStep, RestUnchanged, appVars, callVars
<1>3. StatusLast' /\ (Arriving' <=> Arriving) /\ (AnswerWaits' <=> AnswerWaits)
    BY <1>1, <1>2, LiveAnswers DEF StatusLast, StatusLastIn, Arriving, AnswerWaits, responseVars
<1>4. OnlyAnswers' /\ SuccessLast' /\ SuccessIsComplete'
    BY <1>1, <1>2, LiveAnswers DEF AnswersInv, OnlyAnswers, SuccessLast, Has, Behind,
                                   SuccessIsComplete, responseVars, historyVars
<1>5. FinishOK'
    BY <1>1, <1>2, LiveAnswers DEF AnswersInv, FinishOK, responseVars, historyVars
<1>6. Balance'
    <2>1. /\ Count(Arriving') = Count(Arriving) /\ Count(Arriving) \in {0, 1}
          /\ Count(AnswerWaits') = Count(AnswerWaits) /\ Count(AnswerWaits) \in {0, 1}
        BY <1>3 DEF Count
    <2>2. unread \in Nat /\ unparsed \in Nat /\ Len(delivered) \in Nat
        BY DEF CallInv, StreamTypeOK, CoreTypeOK
    <2> QED
        BY <1>1, <1>2, <2>1, <2>2 DEF AnswersInv, Balance, responseVars, historyVars
<1> QED
    BY <1>3, <1>4, <1>5, <1>6 DEF AnswersInv

-----------------------------------------------------------------------------
\* No step takes the cancellation back, and only a response that memory cannot
\* hold leads to the one in the core.
LEMMA CancelledStep ==
    ASSUME AnswersInv, CallInv, CancelledFirst, [Next]_vars
    PROVE  CancelledFirst'
<1>1. CASE MessageNotHeld
    BY <1>1, NotHeldAnswers DEF CancelledFirst
<1>2. CASE LoopStep /\ ~MessageNotHeld
    BY <1>2 DEF LoopStep, WriteDone, ResumeWriter, HeadersReceived, MessageReceived,
       NothingToHandle, CancelCall, StatusReceived, FinishForwarding, FinishWriter, Completed,
       callVars, responseVars, CancelledFirst
<1>3. CASE RunResponse
    BY <1>3 DEF RunResponse, CheckAnswer, RunAnswer, RunBadAnswer, FinishCall, RunEnd,
       RunDropped, callVars, CancelledFirst
<1>4. CASE EnterStream \/ WriteRequest \/ StopStreaming \/ PipeStep
    BY <1>4 DEF EnterStream, OpenCall, InvokeCall, CallNotMade, FinishCall, StartForwarding,
       StartPipe, ResumeWriteQueue, WriteRequest, StopStreaming, PipeStep, callVars,
       responseVars, CancelledFirst
<1>5. CASE CallQueueStep \/ StreamStep \/ NetworkStep \/ UNCHANGED vars
    BY <1>5 DEF CallQueueStep, StreamStep, NetworkStep, RestUnchanged, vars, callVars,
       responseVars, CancelledFirst
<1> QED
    BY <1>1, <1>2, <1>3, <1>4, <1>5 DEF Next

LEMMA AnswersInvariance == SafetySpec => []AnswersInv
<1>1. AnswersInv /\ CallInv /\ CancelledFirst /\ [Next]_vars => AnswersInv'
    <2> SUFFICES ASSUME AnswersInv, CallInv, CancelledFirst, [Next]_vars PROVE AnswersInv'
        OBVIOUS
    <2>0. StreamTypeOK
        BY DEF CallInv
    <2>1. CASE EnterStream
        BY <2>0, <2>1, FrameSteps, OpenAnswers, NotMadeAnswers DEF EnterStream
    <2>2. CASE RunResponse
        BY <2>2, FrameSteps, RunAnswerAnswers, RunBadAnswers, RunEndAnswers, RunDroppedAnswers
           DEF RunResponse
    <2>3. CASE LoopStep
        BY <2>0, <2>3, FrameSteps, HandledAnswers, ReceivedAnswers, NotHeldAnswers,
           CancelAnswers, StatusAnswers DEF LoopStep
    <2>4. CASE StreamStep
        BY <2>4, OtherEvents, ReadAnswers DEF StreamStep, StreamSteps, RestUnchanged, elsewhereVars
    <2>5. CASE WriteRequest \/ StopStreaming \/ PipeStep \/ CallQueueStep \/ UNCHANGED vars
        BY <2>5, FrameSteps
    <2> QED
        BY <2>1, <2>2, <2>3, <2>4, <2>5, NetworkAnswers DEF Next
<1>2. Init => CancelledFirst
    BY DEF Init, CancelledFirst
<1> QED
    BY <1>1, <1>2, InitAnswers, CancelledStep, CallInvariance, PTL DEF SafetySpec

\* Told of a success, the closure has had every response of the server, but
\* for a last one that did not parse: the read that brings a response and the
\* block that hands it over are each behind the last, and the status is
\* published behind all of them (GRPCCallLegacy.m:295-356,
\* GRXConcurrentWriteable.m:61-94).
THEOREM SuccessTold == SafetySpec => []SuccessIsComplete
<1>1. AnswersInv => SuccessIsComplete
    BY DEF AnswersInv
<1> QED
    BY <1>1, AnswersInvariance, PTL

-----------------------------------------------------------------------------
(* The writer of a call that lives.                                        *)

\* Only the end of a call keeps its writer from starting.
WriterKept ==
    /\ loop \in {"cancelCall", "finishForwarding"} => callState = "Finished"
    /\ ~fwdWriter /\ main # "stopped" => callState = "Finished"
    /\ main = "resuming" => pipeState # "NotStarted"
    /\ main \in {"writing", "open"} /\ pipeState = "NotStarted" => callState = "Finished"

LEMMA InitWriter == Init => WriterKept
BY DEF Init, WriterKept

\* The steps that set neither the pipe up nor the call back.
LEMMA WriterFrame ==
    ASSUME WriterKept,
           callState = "Finished" => callState' = "Finished",
           loop' \in {"cancelCall", "finishForwarding"} =>
              loop \in {"cancelCall", "finishForwarding"},
           main' = main \/ main' = "stopped" \/ {main, main'} \subseteq {"writing", "open"},
           fwdWriter' = fwdWriter \/ main' = "stopped",
           pipeState' = "NotStarted" => pipeState = "NotStarted"
    PROVE  WriterKept'
BY DEF WriterKept

LEMMA EnterWriter ==
    ASSUME WriterKept, AnswersInv, EnterStream
    PROVE  WriterKept'
<1>1. CASE OpenCall
  BY <1>1 DEF OpenCall, WriterKept, AnswersInv, FinishOK, pipeVars, fwdVars
<1>2. CASE CallNotMade
  BY <1>2 DEF CallNotMade, FinishCall, WriterKept, pipeVars, fwdVars
<1>3. CASE InvokeCall
  BY <1>3 DEF InvokeCall, WriterKept, pipeVars, fwdVars
<1>4. CASE StartForwarding
  BY <1>4 DEF StartForwarding, WriterKept, pipeVars, callVars
<1>5. CASE StartPipe
  BY <1>5 DEF StartPipe, WriterKept, fwdVars, callVars
<1>6. CASE ResumeWriteQueue
  BY <1>6 DEF ResumeWriteQueue, WriterKept, fwdVars, callVars
<1> QED
  BY <1>1, <1>2, <1>3, <1>4, <1>5, <1>6 DEF EnterStream

LEMMA OtherWriter ==
    ASSUME WriterKept,
           \/ WriteRequest \/ StopStreaming \/ RunResponse \/ PipeStep \/ CallQueueStep
           \/ StreamStep \/ NetworkStep \/ UNCHANGED vars
    PROVE  WriterKept'
<1>1. /\ callState = "Finished" => callState' = "Finished"
      /\ loop' = loop
  BY DEF WriteRequest, StopStreaming, RunResponse, CheckAnswer, RunAnswer, RunBadAnswer,
         FinishCall, RunEnd, RunDropped, PipeStep, CallQueueStep, StreamStep, NetworkStep,
         RestUnchanged, vars, callVars
<1>2. main' = main \/ main' = "stopped" \/ {main, main'} \subseteq {"writing", "open"}
  BY DEF WriteRequest, StopStreaming, RunResponse, CheckAnswer, RunAnswer, RunBadAnswer,
         RunEnd, RunDropped, PipeStep, CallQueueStep, StreamStep, NetworkStep, RestUnchanged,
         vars, appVars
<1>3. fwdWriter' = fwdWriter \/ main' = "stopped"
  BY DEF WriteRequest, StopStreaming, RunResponse, CheckAnswer, RunAnswer, RunBadAnswer,
         RunEnd, RunDropped, PipeStep, CallQueueStep, StreamStep, NetworkStep, RestUnchanged,
         vars, fwdVars
<1>4. pipeState' = "NotStarted" => pipeState = "NotStarted"
  BY DEF WriteRequest, StopStreaming, RunResponse, CheckAnswer, RunAnswer, RunBadAnswer,
         RunEnd, RunDropped, PipeStep, PassOn, PausePipe, CallQueueStep, StreamStep,
         NetworkStep, RestUnchanged, vars, pipeVars
<1> QED
  BY <1>1, <1>2, <1>3, <1>4, WriterFrame

LEMMA LoopWriter ==
    ASSUME WriterKept, LoopStep
    PROVE  WriterKept'
<1>1. main' = main
  BY DEF LoopStep, WriteDone, ResumeWriter, HeadersReceived, MessageReceived, NothingToHandle,
         MessageNotHeld, CancelCall, StatusReceived, FinishForwarding, FinishWriter, appVars
<1>5. CASE MessageNotHeld
  BY <1>1, <1>5 DEF MessageNotHeld, FinishCall, WriterKept, pipeVars, fwdVars
<1>6. CASE CancelCall
  BY <1>1, <1>6 DEF CancelCall, WriterKept, pipeVars, fwdVars
<1>2. CASE StatusReceived
  BY <1>1, <1>2 DEF StatusReceived, FinishCall, WriterKept, pipeVars, fwdVars
<1>3. CASE FinishForwarding
  BY <1>1, <1>3 DEF FinishForwarding, WriterKept, pipeVars
<1>4. CASE ~StatusReceived /\ ~FinishForwarding /\ ~MessageNotHeld /\ ~CancelCall
  <2>1. \/ callState' = callState /\ loop' \notin {"cancelCall", "finishForwarding"}
        \/ UNCHANGED <<callState, loop>>
    BY <1>4 DEF LoopStep, WriteDone, ResumeWriter, HeadersReceived, MessageReceived,
                NothingToHandle, FinishWriter, callVars
  <2>2. fwdWriter' = fwdWriter
    BY <1>4 DEF LoopStep, WriteDone, ResumeWriter, HeadersReceived, MessageReceived,
                NothingToHandle, FinishWriter, fwdVars
  <2>3. pipeState' = "NotStarted" => pipeState = "NotStarted"
    BY <1>4 DEF LoopStep, WriteDone, ResumeWriter, ResumePipe, HeadersReceived, MessageReceived,
                NothingToHandle, FinishWriter, FinishPipe, pipeVars
  <2> QED
    BY <1>1, <2>1, <2>2, <2>3, WriterFrame
<1> QED
  BY <1>2, <1>3, <1>4, <1>5, <1>6

\* The writer that collects audio nobody takes is one of a call that has ended
\* already: as long as the call lives, the app writes to a pipe that has started
\* (GRXForwardingWriter.m:82-106, GRXBufferedPipe.m:108-114).
THEOREM LiveWriterStarted == SafetySpec => [](callState # "Finished" => OpenWriterStarted)
<1>1. WriterKept /\ AnswersInv /\ [Next]_vars => WriterKept'
  BY EnterWriter, OtherWriter, LoopWriter DEF Next
<1>2. WriterKept => (callState # "Finished" => OpenWriterStarted)
  BY DEF WriterKept, OpenWriterStarted
<1> QED
  BY <1>1, <1>2, InitWriter, AnswersInvariance, PTL DEF SafetySpec
=============================================================================
