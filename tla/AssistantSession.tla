-------------------------- MODULE AssistantSession --------------------------
(***************************************************************************)
(* A speech session from the tap on the microphone to the delivered        *)
(* transcript: AssistantViewControllerViewModel.swift with the view        *)
(* controller that draws it, the Assistant that owns it, and the main      *)
(* queue, microphone and recogniser it is driven by.                       *)
(*                                                                         *)
(* Every action is one turn of the main thread (a block of the main queue, *)
(* a touch, a call of the host), one step of the audio thread, one step of *)
(* the recogniser, or the expiry of a timer.                               *)
(***************************************************************************)
EXTENDS AudioController, SpeechRecognitionService

CONSTANTS English,       \* the language of a view model that nobody set up
          Supported,     \* the languages given to setup
          FirstLanguage, \* the first of them
          MaxSessions,   \* bound: sessions begun
          ChunkSize,     \* chunks that fit under the upload threshold
          Driver,        \* "app": the screen and the host; "tests": XCTest
          HostNavigates, \* may the host show another screen in a session?
          PromptQueue    \* does every block run before the next event?

ASSUME SessionAssumption ==
    /\ English \in Languages
    /\ FirstLanguage \in Supported /\ Supported \subseteq Languages
    /\ MaxSessions \in Nat /\ ChunkSize \in Nat
    /\ Driver \in {"app", "tests"}
    /\ HostNavigates \in BOOLEAN /\ PromptQueue \in BOOLEAN

VARIABLES
    state,             \* "nil" until the first configureAssistant or start
    finished,          \* Bool? of the view model: "nil", "true" or "false"
    currentTranscript, \* 0 for nil, else the call that it is an answer of
    timer,             \* endingTask and maxEndingTask
    processAudioData,  \* chunks waiting for the upload threshold
    savedAudioData,    \* the sessions whose chunks the saved audio holds
    language,          \* the copies of the current language
    screen,            \* the State the view last drew
    label,             \* the transcript on the label, 0 for the caption
    sheetShown,        \* is the language sheet up?
    crashed,           \* has a trap or an exception ended the process?
    sessionNo,         \* history: sessions begun
    deliveries,        \* history: transcripts delivered, per session
    lastDelivery,      \* history: what was handed over last, and when
    cancelled          \* history: sessions the user cancelled

audioData == <<processAudioData, savedAudioData>>
textVars == <<currentTranscript, label>>
machineVars == <<mainQ, audioVars, serviceVars>>
sessionVars == <<state, finished, textVars, timer, audioData, screen>>
userVars == <<language, sheetShown>>
history == <<sessionNo, deliveries, lastDelivery, cancelled>>
liveVars == <<machineVars, sessionVars, userVars, history>>
vars == <<liveVars, crashed>>

Sessions == 0..MaxSessions
Calls == DOMAIN calls
Copies == {"viewModel", "assistant", "screen", "recogniser"}

NoDelivery == [session |-> 0, transcript |-> 0, audio |-> {}, in |-> "nil"]
Delivery == [session : Sessions, transcript : Nat, audio : SUBSET Sessions,
             in : {"nil", "STARTED", "ENDED"}]

\* `setup` has been called; no view is loaded and nothing is recording.
Init ==
    /\ mainQ = <<>> /\ AudioInit /\ ServiceInit
    /\ state = "nil" /\ finished = "nil"
    /\ currentTranscript = 0 /\ label = 0
    /\ timer = [t \in Timers |-> "idle"]
    /\ processAudioData = 0 /\ savedAudioData = {}
    /\ language = [c \in Copies |-> IF c = "assistant" THEN FirstLanguage ELSE English]
    /\ screen = "unloaded" /\ sheetShown = FALSE
    /\ crashed = FALSE
    /\ sessionNo = 0
    /\ deliveries = [s \in Sessions |-> 0]
    /\ lastDelivery = NoDelivery
    /\ cancelled = {}

-----------------------------------------------------------------------------
(* What the observers of the view model's properties do.                   *)

\* The tests drive a bare view model: no Assistant, no view, no delegate.
Attached == Driver = "app"

\* Touches, timers, the host, the audio thread and the network act between
\* two blocks of the main queue, or only on an empty one if PromptQueue.
Event == ~crashed /\ (PromptQueue => mainQ = <<>>)

Draw(newState) == screen' = IF Attached THEN newState ELSE screen

\* Fault: the saved audio is not cleared.
KeepSavedAudio == processAudioData' = 0 /\ UNCHANGED savedAudioData

ResetAudioData == processAudioData' = 0 /\ savedAudioData' = {}

\* The didSet of currentLanguage; the view also falls back to its caption.
SetLanguage(l) ==
    language' = [c \in Copies |->
        IF Attached \/ c \in {"viewModel", "recogniser"} THEN l ELSE language[c]]

\* Fault: the label is not told.
SilentTranscript(c) == currentTranscript' = c /\ UNCHANGED label

\* The didSet of currentTranscript.
SetTranscript(c) == currentTranscript' = c /\ label' = IF Attached THEN c ELSE label

\* Fault: the session is not bounded.
UnboundedSession == timer

SessionTimer == [timer EXCEPT !["maxEnding"] = "armed"]

\* Faults: one of the two work items is not cancelled.
OnlyEnding == {"ending"}
OnlyMaxEnding == {"maxEnding"}

CancelledAtEnd == Timers

\* Fault: every answer counts.
NeverOver == FALSE

SessionOver == finished # "nil"

\* Fault: the threshold is compared before the data is appended.
LateThreshold == processAudioData > ChunkSize

OverThreshold == processAudioData + 1 > ChunkSize

MayStart == state # "STARTED" /\ sessionNo < MaxSessions

\* The didSet of state for STARTED.  A start within a session does nothing.
\* `finished` is cleared last, once the microphone has been started.
SetStarted ==
    \/ /\ state = "STARTED"
       /\ UNCHANGED <<machineVars, state, finished, timer, audioData, screen, sessionNo>>
    \/ /\ MayStart
       /\ state' = "STARTED"
       /\ Draw("STARTED")
       /\ mainQ' = Cancel(mainQ, TimerBlocks({"maxEnding"}))
       /\ timer' = SessionTimer
       /\ ResetAudioData
       /\ StartUnit
       /\ finished' = "nil"
       /\ sessionNo' = sessionNo + 1
       /\ UNCHANGED serviceVars

\* The didSet of state for ENDED, when the queue and the timers have become q
\* and t and the label shows text: again only a change of state counts.
SetEnded(q, t, text) ==
    \/ /\ state = "ENDED"
       /\ mainQ' = q /\ timer' = t /\ label' = text
       /\ UNCHANGED <<state, screen, currentTranscript, audioData, audioVars, serviceVars>>
    \/ /\ state # "ENDED"
       /\ state' = "ENDED"
       /\ Draw("ENDED")
       /\ SetTranscript(0)
       /\ ResetAudioData
       /\ StopUnit /\ StopStreaming
       /\ mainQ' = Cancel(q, TimerBlocks(CancelledAtEnd))
       /\ timer' = [n \in Timers |-> IF n \in CancelledAtEnd THEN "idle" ELSE t[n]]

\* The delegate gets the transcript and the audio saved so far.
Deliver ==
    /\ deliveries' = [deliveries EXCEPT ![sessionNo] = @ + 1]
    /\ lastDelivery' = [session |-> sessionNo, transcript |-> currentTranscript,
                        audio |-> savedAudioData, in |-> state]

\* The didSet of finished for true, from the work item of a timer.
FinishTrue(q, t) ==
    /\ finished' = "true"
    /\ IF currentTranscript # 0 /\ Attached THEN Deliver
                                            ELSE UNCHANGED <<deliveries, lastDelivery>>
    /\ SetEnded(q, t, label)
    /\ UNCHANGED <<userVars, crashed, sessionNo, cancelled>>

\* cancelRecording: the didSet of finished for false.
CancelRecording ==
    /\ finished' = "false"
    /\ SetEnded(mainQ, timer, label)
    /\ cancelled' = IF state = "STARTED" THEN cancelled \cup {sessionNo} ELSE cancelled
    /\ UNCHANGED <<language, crashed, sessionNo, deliveries, lastDelivery>>

StartRecording ==
    /\ SetStarted
    /\ UNCHANGED <<textVars, userVars, crashed, deliveries, lastDelivery, cancelled>>

LanguageChanged(l) ==
    /\ SetLanguage(l)
    /\ label' = 0
    /\ SetStarted
    /\ UNCHANGED <<currentTranscript, crashed, deliveries, lastDelivery, cancelled>>

\* processResponseObtained with the queue at q: the answer counts unless the
\* session is finished, and the silence timer starts anew.
ProcessResponseObtained(q, call) ==
    /\ \/ /\ SessionOver
          /\ mainQ' = q
          /\ UNCHANGED <<timer, textVars>>
       \/ /\ ~SessionOver
          /\ mainQ' = Cancel(q, TimerBlocks({"ending"}))
          /\ timer' = [timer EXCEPT !["ending"] = "armed"]
          /\ SetTranscript(call)
    /\ UNCHANGED <<audioVars, serviceVars, state, finished, audioData, screen,
                   userVars, history, crashed>>

Crash == crashed' = TRUE /\ UNCHANGED liveVars

-----------------------------------------------------------------------------
(* The user and the host.  The microphone is dead while the view listens,  *)
(* the other buttons are on a panel that only shows then, and the sheet    *)
(* is modal.                                                               *)

Touch == Event /\ Driver = "app" /\ ~sheetShown

RecordTapped == Touch /\ screen = "ENDED" /\ StartRecording

CancelTapped ==
    Touch /\ screen = "STARTED" /\ CancelRecording /\ UNCHANGED sheetShown

\* Fault: the sheet opens over a running session.
SheetOverSession ==
    /\ Touch /\ screen = "STARTED"
    /\ sheetShown' = TRUE
    /\ UNCHANGED <<machineVars, sessionVars, language, history, crashed>>

LanguageButtonTapped ==
    /\ Touch /\ screen = "STARTED"
    /\ CancelRecording
    /\ sheetShown' = (Supported # {FirstLanguage})

LanguagePicked(l) ==
    /\ Event /\ sheetShown
    /\ sheetShown' = FALSE
    /\ LanguageChanged(l)

SheetDismissed ==
    /\ Event /\ sheetShown
    /\ sheetShown' = FALSE
    /\ UNCHANGED <<machineVars, sessionVars, language, history, crashed>>

\* The host shows a screen and puts the assistant on it.  `finished` keeps
\* its value, also when this ends a session.
ConfigureAssistant ==
    /\ Event /\ Driver = "app"
    /\ HostNavigates \/ state # "STARTED"
    /\ SetLanguage(language["assistant"])
    /\ SetEnded(mainQ, timer, 0)
    /\ UNCHANGED <<finished, sheetShown, crashed, history>>

\* The first start traps when it finds no unit.
StartCrashes ==
    /\ Event /\ MayStart /\ StartTraps
    /\ Driver = "tests" \/ sheetShown \/ screen = "ENDED"
    /\ Crash

\* The tests call the view model in any state, and answer for the recogniser
\* once they have started it.
TestCalls ==
    /\ Event /\ Driver = "tests"
    /\ \/ StartRecording
       \/ CancelRecording /\ UNCHANGED sheetShown
       \/ \E l \in Languages : LanguageChanged(l) /\ UNCHANGED sheetShown
       \/ state # "nil" /\ HasRoom /\ ProcessResponseObtained(mainQ, 1)

-----------------------------------------------------------------------------
(* The blocks of the main queue.                                           *)

\* processSampleData: above the threshold the buffered audio is uploaded.
RunChunk ==
    /\ ~crashed /\ AtHead("chunk")
    /\ mainQ' = Tail(mainQ)
    /\ savedAudioData' = savedAudioData \cup {Head(mainQ).of}
    /\ \/ /\ OverThreshold
          /\ StreamAudioData(sessionNo, language["recogniser"])
          /\ processAudioData' = 0
       \/ /\ ~OverThreshold
          /\ processAudioData' = processAudioData + 1
          /\ UNCHANGED serviceVars
    /\ UNCHANGED <<audioVars, state, finished, textVars, timer, screen,
                   userVars, history, crashed>>

RunResult ==
    /\ ~crashed /\ AtHead("result")
    /\ ProcessResponseObtained(Tail(mainQ), Head(mainQ).of)

\* The completion takes element 0 of the results of a response without any.
RunNoResult == ~crashed /\ AtHead("noResult") /\ Crash

\* A completion carries no response, error or not, and is ignored; a
\* cancelled block does nothing.
RunIgnored ==
    /\ ~crashed /\ (AtHead("done") \/ AtHead("skipped"))
    /\ mainQ' = Tail(mainQ)
    /\ UNCHANGED <<audioVars, serviceVars, sessionVars, userVars, history, crashed>>

RunTimer(n) ==
    /\ ~crashed /\ AtHead(n)
    /\ FinishTrue(Tail(mainQ), [timer EXCEPT ![n] = "idle"])

RunBlock ==
    RunChunk \/ RunResult \/ RunNoResult \/ RunIgnored \/ \E n \in Timers : RunTimer(n)

-----------------------------------------------------------------------------
(* The producers of blocks.                                                *)

TimerExpires(n) ==
    /\ Event /\ timer[n] = "armed"
    /\ timer' = [timer EXCEPT ![n] = "queued"]
    /\ mainQ' = Append(mainQ, Block(n, 0))
    /\ UNCHANGED <<audioVars, serviceVars, state, finished, textVars, audioData,
                   screen, userVars, history, crashed>>

MicrophoneRecords ==
    /\ Event /\ RecordChunk(sessionNo)
    /\ UNCHANGED <<serviceVars, sessionVars, userVars, history, crashed>>

RecogniserSteps ==
    /\ Event
    /\ \E c \in Calls :
          ServerAnswers(c) \/ CallEnds(c, "ok") \/ CallEnds(c, "error")
    /\ UNCHANGED <<audioVars, sessionVars, userVars, history, crashed>>

-----------------------------------------------------------------------------
UserOrHost ==
    \/ RecordTapped \/ CancelTapped \/ LanguageButtonTapped \/ SheetDismissed
    \/ \E l \in Supported : LanguagePicked(l)
    \/ ConfigureAssistant \/ StartCrashes \/ TestCalls

Next ==
    \/ UserOrHost
    \/ RunBlock
    \/ \E n \in Timers : TimerExpires(n)
    \/ MicrophoneRecords
    \/ RecogniserSteps

\* The main thread serves its queue and an armed timer expires.  The user,
\* the host, the microphone and the recogniser owe nothing.
Fairness == WF_vars(RunBlock) /\ \A n \in Timers : WF_vars(TimerExpires(n))

SafetySpec == Init /\ [][Next]_vars
Spec == SafetySpec /\ Fairness
=============================================================================
