---------------------- MODULE SpeechRecognitionService ----------------------
(***************************************************************************)
(* SpeechRecognitionService.swift and the recogniser behind it: one        *)
(* bidirectional gRPC call at a time is open for writing, but the answers  *)
(* of a call that the app has half-closed may still arrive.                *)
(***************************************************************************)
EXTENDS MainQueue

CONSTANTS Languages,
          LateAnswers,   \* may a half-closed call still be answered?
          EmptyResults   \* may a response carry no result (events, errors)?

ASSUME ServiceAssumption == LateAnswers \in BOOLEAN /\ EmptyResults \in BOOLEAN

VARIABLES streaming,  \* the flag of the service, not the state of the call
          calls       \* every call ever opened, the last one is `call`

serviceVars == <<streaming, calls>>

Call == [session : Nat, language : Languages, halfClosed : BOOLEAN,
         status : {"live", "ok", "error"}]

ServiceTypeOK == streaming \in BOOLEAN /\ calls \in Seq(Call)

ServiceInit == streaming = FALSE /\ calls = <<>>

\* The first audio of a stream opens a call in the language of the moment;
\* later audio goes to the writer of that call, whatever became of the call.
StreamAudioData(session, language) ==
    \/ streaming /\ UNCHANGED serviceVars
    \/ /\ ~streaming
       /\ streaming' = TRUE
       /\ calls' = Append(calls, [session |-> session, language |-> language,
                                  halfClosed |-> FALSE, status |-> "live"])

\* Faults: the stream is not stopped; its flag is not reset.
StreamLeftOpen == UNCHANGED serviceVars
FlagLeftSet ==
    /\ UNCHANGED streaming
    /\ calls' = [c \in DOMAIN calls |-> [calls[c] EXCEPT !.halfClosed = TRUE]]

StopStreaming ==
    \/ ~streaming /\ UNCHANGED serviceVars
    \/ /\ streaming
       /\ streaming' = FALSE
       /\ calls' = [calls EXCEPT ![Len(calls)].halfClosed = TRUE]

Answerable(c) == calls[c].status = "live" /\ (calls[c].halfClosed => LateAnswers)

AnswersOf(c) == [kind : {"result", "noResult"}, of : {c}]

\* The server sends a response; gRPC posts it to the main queue.
ServerAnswers(c) ==
    /\ Answerable(c)
    /\ HasRoom
    /\ \E kind \in {"result"} \cup (IF EmptyResults THEN {"noResult"} ELSE {}) :
          mainQ' = Append(mainQ, Block(kind, c))
    /\ UNCHANGED serviceVars

\* The call ends.  An error overtakes the responses that are still queued:
\* they find the call cancelled and are dropped.
CallEnds(c, status) ==
    /\ calls[c].status = "live"
    /\ calls' = [calls EXCEPT ![c].status = status]
    /\ mainQ' = Append(IF status = "error" THEN Cancel(mainQ, AnswersOf(c)) ELSE mainQ,
                       Block("done", c))
    /\ UNCHANGED streaming
=============================================================================
