------------------------- MODULE SessionHostProofs -------------------------
(***************************************************************************)
(* The promises of SessionProperties that need a host that leaves a        *)
(* running session alone, and those that need the queue to be prompt       *)
(* besides, for every value of the other constants; and what it is that    *)
(* may end the process.                                                    *)
(***************************************************************************)
EXTENDS SessionProofs

\* The host does not navigate within a session.
HostWaits == Driver = "app" /\ ~HostNavigates

\* Before the first session there is nothing to run and nobody to answer,
\* although `finished` has no value yet.
QuietOK == finished = "nil" /\ state # "STARTED" => mainQ = <<>> /\ calls = <<>>

HostInv ==
    EndedIsClean /\ LabelShowsTranscript /\ DeliversOnlyWhileListening /\ QuietOK

\* The run is in the app, in a queue that runs every block before the next
\* event, and nobody answers a half-closed call.
PromptHost == HostWaits /\ PromptQueue /\ ~LateAnswers

\* What a block of the queue says is true when it runs.
BlockIsFresh(b) ==
    /\ b.kind = "chunk" => state = "STARTED" /\ b.of = sessionNo
    /\ b.kind = "result" => /\ state = "STARTED" /\ b.of \in Calls
                            /\ calls[b.of].session = sessionNo

\* Never more than one block waits.
QueueIsFresh == \A i \in DOMAIN mainQ : i = 1 /\ BlockIsFresh(mainQ[i])

\* The open call is of this session and in its language.
CallIsFresh ==
    /\ language["recogniser"] = language["viewModel"]
    /\ streaming => /\ state = "STARTED"
                    /\ calls[Len(calls)].session = sessionNo
                    /\ calls[Len(calls)].language = language["viewModel"]

\* So are the transcript, the saved audio and what was delivered.
TranscriptIsFresh ==
    /\ currentTranscript # 0 =>
          currentTranscript \in Calls /\ calls[currentTranscript].session = sessionNo
    /\ savedAudioData \subseteq {sessionNo}
    /\ lastDelivery.session # 0 =>
          /\ lastDelivery.transcript \in Calls
          /\ calls[lastDelivery.transcript].session = lastDelivery.session
    /\ DeliversOwnAudio

PromptInv == QueueIsFresh /\ CallIsFresh /\ TranscriptIsFresh

-----------------------------------------------------------------------------
(* A host that waits.                                                      *)

LEMMA InitHost == Init => HostInv
BY DEF Init, ServiceInit, NoDelivery, HostInv, EndedIsClean, LabelShowsTranscript,
       DeliversOnlyWhileListening, QuietOK

\* Between two sessions nothing is heard, shown, timed or recorded.
LEMMA BetweenSessions ==
    ASSUME IInv, HostInv, HostWaits, state # "STARTED"
    PROVE  /\ currentTranscript = 0 /\ label = 0 /\ ~micRunning
           /\ \A n \in Timers : timer[n] = "idle"
<1>1. Attached /\ state \in {"nil", "ENDED"}
  BY DEF HostWaits, Attached, IInv, TypeOK
<1>2. CASE state = "ENDED"
  BY <1>2 DEF HostInv, EndedIsClean, IInv, MicrophoneOnlyInSession
<1>3. CASE state = "nil"
  <2>1. currentTranscript = 0 /\ timer["maxEnding"] = "idle" /\ timer["ending"] = "idle"
    BY <1>3 DEF IInv, FreshOK, BoundOK, SilenceFollowsSpeech
  <2> QED
    BY <1>1, <1>3, <2>1 DEF Timers, HostInv, LabelShowsTranscript, IInv, MicrophoneOnlyInSession
<1> QED
  BY <1>1, <1>2, <1>3

\* A session begins where none is running.
LEMMA StartHost ==
    ASSUME IInv, HostInv, HostWaits, state # "STARTED", SetStarted,
           label' \in {label, 0}, UNCHANGED <<currentTranscript, lastDelivery>>
    PROVE  HostInv'
<1>1. state' = "STARTED"
  BY DEF SetStarted
<1>2. label' = currentTranscript'
  BY BetweenSessions
<1> QED
  BY <1>1, <1>2 DEF HostInv, EndedIsClean, LabelShowsTranscript, DeliversOnlyWhileListening, QuietOK

\* A session that ends leaves nothing.
LEMMA EndHost ==
    ASSUME IInv, HostInv, HostWaits, state = "STARTED", finished' # "nil",
           NEW q, NEW t, NEW text, SetEnded(q, t, text),
           lastDelivery' = lastDelivery \/ lastDelivery'.in = "STARTED"
    PROVE  HostInv'
<1>1. Attached
  BY DEF HostWaits, Attached
<1>2. /\ state' = "ENDED" /\ currentTranscript' = 0 /\ label' = 0
      /\ timer' = [n \in Timers |-> "idle"]
  BY <1>1 DEF SetEnded, SetTranscript, CancelledAtEnd
<1>3. \A n \in Timers : timer'[n] = "idle"
  BY <1>2
<1> QED
  BY <1>2, <1>3 DEF HostInv, EndedIsClean, LabelShowsTranscript, DeliversOnlyWhileListening, QuietOK

\* Everything else leaves the session as it is, and something has happened.
LEMMA KeepHost ==
    ASSUME HostInv,
           UNCHANGED <<state, finished, currentTranscript, label, lastDelivery>>,
           state = "STARTED" \/ timer' = timer,
           \/ state = "STARTED" \/ mainQ # <<>> \/ calls # <<>>
           \/ mainQ' = mainQ /\ calls' = calls
    PROVE  HostInv'
BY DEF HostInv, EndedIsClean, LabelShowsTranscript, DeliversOnlyWhileListening, QuietOK

LEMMA UserOrHostHost ==
    ASSUME IInv, HostInv, HostWaits, UserOrHost
    PROVE  HostInv'
<1>1. /\ Attached /\ (screen = "STARTED" <=> state = "STARTED")
      /\ sheetShown => state # "STARTED"
      /\ Driver = "app" /\ ~HostNavigates
  BY DEF HostWaits, Attached, IInv, VerdictOK
<1>2. CASE RecordTapped
  BY <1>1, <1>2, StartHost DEF RecordTapped, Touch, StartRecording, textVars
<1>3. CASE CancelTapped \/ LanguageButtonTapped
  <2>1. state = "STARTED" /\ CancelRecording
    BY <1>1, <1>3 DEF CancelTapped, LanguageButtonTapped
  <2> QED
    BY <2>1, EndHost DEF CancelRecording
<1>4. CASE SheetDismissed \/ StartCrashes
  BY <1>4, KeepHost DEF SheetDismissed, StartCrashes, Crash, liveVars, machineVars, serviceVars,
                        sessionVars, textVars, history
<1>5. ASSUME NEW l \in Supported, LanguagePicked(l)
      PROVE  HostInv'
  BY <1>1, <1>5, StartHost DEF LanguagePicked, LanguageChanged
<1>6. CASE ConfigureAssistant
  <2>1. /\ state # "STARTED" /\ SetEnded(mainQ, timer, 0)
        /\ UNCHANGED <<finished, lastDelivery>>
    BY <1>1, <1>6 DEF ConfigureAssistant, history
  <2>2. CASE state = "ENDED"
    <3>1. UNCHANGED <<state, currentTranscript, timer, mainQ, calls>> /\ label' = 0
      BY <2>1, <2>2 DEF SetEnded, serviceVars
    <3>2. label = 0
      BY <2>1, BetweenSessions
    <3> QED
      BY <2>1, <3>1, <3>2, KeepHost
  <2>3. CASE state = "nil"
    <3>1. /\ state' = "ENDED" /\ currentTranscript' = 0 /\ label' = 0
          /\ timer' = [n \in Timers |-> "idle"]
          /\ mainQ' = Cancel(mainQ, TimerBlocks(Timers)) /\ StopStreaming
      BY <1>1, <2>1, <2>3 DEF SetEnded, SetTranscript, CancelledAtEnd
    <3>2. mainQ = <<>> /\ calls = <<>> /\ ~streaming
      BY <2>3 DEF IInv, FreshOK
    <3>3. calls' = <<>>
      BY <3>1, <3>2 DEF StopStreaming, serviceVars
    <3>4. mainQ' = <<>>
      <4>1. /\ mainQ' \in Seq(Blocks) /\ DOMAIN mainQ' = DOMAIN mainQ
        BY <3>1, CancelShape DEF IInv, QueueOK
      <4> QED
        BY <3>2, <4>1
    <3>5. \A n \in Timers : timer'[n] = "idle"
      BY <3>1
    <3> QED
      BY <2>1, <3>1, <3>3, <3>4, <3>5
         DEF HostInv, EndedIsClean, LabelShowsTranscript, DeliversOnlyWhileListening, QuietOK
  <2> QED
    BY <2>1, <2>2, <2>3 DEF IInv, TypeOK
<1>7. ~TestCalls
  BY <1>1 DEF TestCalls
<1> QED
  BY <1>2, <1>3, <1>4, <1>5, <1>6, <1>7 DEF UserOrHost

LEMMA RunBlockHost ==
    ASSUME IInv, HostInv, HostWaits, RunBlock
    PROVE  HostInv'
<1>1. CASE RunChunk \/ RunIgnored \/ RunNoResult
  <2>1. /\ UNCHANGED <<state, finished, currentTranscript, label, lastDelivery, timer>>
        /\ mainQ # <<>>
    BY <1>1 DEF RunChunk, RunIgnored, RunNoResult, Crash, AtHead, liveVars, sessionVars, textVars,
                history
  <2> QED
    BY <2>1, KeepHost
<1>2. CASE RunResult
  <2>1. /\ mainQ # <<>> /\ UNCHANGED <<state, finished, lastDelivery>>
        /\ \/ finished # "nil" /\ UNCHANGED <<timer, currentTranscript, label>>
           \/ finished = "nil" /\ SetTranscript(Head(mainQ).of)
    BY <1>2 DEF RunResult, ProcessResponseObtained, SessionOver, AtHead, textVars, history
  <2>2. CASE finished # "nil"
    BY <2>1, <2>2, KeepHost
  <2>3. CASE finished = "nil"
    <3>1. state = "STARTED"
      BY <2>1, <2>3 DEF HostInv, QuietOK
    <3>2. label' = currentTranscript'
      BY <2>1, <2>3 DEF SetTranscript, HostWaits, Attached
    <3> QED
      BY <2>1, <3>1, <3>2
         DEF HostInv, EndedIsClean, LabelShowsTranscript, DeliversOnlyWhileListening, QuietOK
  <2> QED
    BY <2>2, <2>3
<1>3. ASSUME NEW n \in Timers, RunTimer(n)
      PROVE  HostInv'
  <2>1. /\ mainQ # <<>> /\ Head(mainQ).kind = n /\ finished' = "true"
        /\ SetEnded(Tail(mainQ), [timer EXCEPT ![n] = "idle"], label)
        /\ Deliver \/ lastDelivery' = lastDelivery
    BY <1>3 DEF RunTimer, FinishTrue, AtHead
  <2>2. timer[n] # "idle"
    <3>1. 1 \in DOMAIN mainQ /\ mainQ[1].kind = n
      BY <2>1, HeadTail DEF IInv, QueueOK
    <3> QED
      BY <3>1 DEF IInv, QueueOK
  <2>3. state = "STARTED"
    BY <2>2, BetweenSessions
  <2>4. lastDelivery' = lastDelivery \/ lastDelivery'.in = "STARTED"
    BY <2>1, <2>3 DEF Deliver
  <2> QED
    BY <2>1, <2>3, <2>4, EndHost
<1> QED
  BY <1>1, <1>2, <1>3 DEF RunBlock

LEMMA ProducersHost ==
    ASSUME IInv, HostInv, HostWaits,
           (\E n \in Timers : TimerExpires(n)) \/ MicrophoneRecords \/ RecogniserSteps
    PROVE  HostInv'
<1>1. UNCHANGED <<state, finished, currentTranscript, label, lastDelivery>>
  BY DEF TimerExpires, MicrophoneRecords, RecogniserSteps, sessionVars, textVars, history
<1>2. CASE \E n \in Timers : TimerExpires(n)
  <2>1. state = "STARTED"
    BY <1>2, BetweenSessions DEF TimerExpires
  <2> QED
    BY <1>1, <2>1, KeepHost
<1>3. CASE MicrophoneRecords
  <2>1. state = "STARTED"
    BY <1>3, BetweenSessions DEF MicrophoneRecords, RecordChunk
  <2> QED
    BY <1>1, <2>1, KeepHost
<1>4. CASE RecogniserSteps
  <2>1. calls # <<>> /\ timer' = timer
    BY <1>4 DEF RecogniserSteps, Calls, sessionVars
  <2> QED
    BY <1>1, <2>1, KeepHost
<1> QED
  BY <1>2, <1>3, <1>4

LEMMA HostInvariance == SafetySpec /\ HostWaits => []HostInv
<1>1. IInv /\ HostInv /\ HostWaits /\ [Next]_vars => HostInv'
  <2> SUFFICES ASSUME IInv, HostInv, HostWaits, [Next]_vars PROVE HostInv'
    OBVIOUS
  <2>1. CASE UNCHANGED vars
    BY <2>1, KeepHost DEF vars, liveVars, machineVars, serviceVars, sessionVars, textVars, history
  <2> QED
    BY <2>1, UserOrHostHost, RunBlockHost, ProducersHost DEF Next
<1>2. HostWaits => []HostWaits
  BY DEF HostWaits
<1> QED
  BY <1>1, <1>2, InitHost, Invariance, PTL DEF SafetySpec

\* A bare view model has no label and hears nothing once it has a verdict.
LEMMA TestsStep ==
    ASSUME IInv, EndedIsClean, label = 0, Driver = "tests", [Next]_vars
    PROVE  EndedIsClean' /\ label' = 0
<1>1. ~Attached /\ Driver # "app" /\ (state = "ENDED" => finished # "nil") /\ ~sheetShown
  BY DEF Attached, IInv, VerdictOK
<1>2. CASE StartRecording \/ \E l \in Languages : LanguageChanged(l)
  BY <1>2 DEF StartRecording, LanguageChanged, SetStarted, textVars, EndedIsClean
<1>3. ASSUME NEW q, NEW t, SetEnded(q, t, label),
             state = "ENDED" => \A n \in Timers : t[n] = "idle"
      PROVE  EndedIsClean' /\ label' = 0
  <2>1. CASE state = "ENDED"
    BY <1>3, <2>1 DEF SetEnded, EndedIsClean
  <2>2. CASE state # "ENDED"
    <3>1. currentTranscript' = 0 /\ label' = 0 /\ timer' = [n \in Timers |-> "idle"]
      BY <1>1, <1>3, <2>2 DEF SetEnded, SetTranscript, CancelledAtEnd
    <3>2. \A n \in Timers : timer'[n] = "idle"
      BY <3>1
    <3> QED
      BY <3>1, <3>2 DEF EndedIsClean
  <2> QED
    BY <2>1, <2>2
<1>4. CASE CancelRecording
  BY <1>3, <1>4 DEF CancelRecording, EndedIsClean
<1>5. ASSUME NEW q, NEW call, ProcessResponseObtained(q, call)
      PROVE  EndedIsClean' /\ label' = 0
  BY <1>1, <1>5 DEF ProcessResponseObtained, SessionOver, SetTranscript, textVars, EndedIsClean
<1>6. ASSUME NEW n \in Timers, RunTimer(n)
      PROVE  EndedIsClean' /\ label' = 0
  <2>1. SetEnded(Tail(mainQ), [timer EXCEPT ![n] = "idle"], label)
    BY <1>6 DEF RunTimer, FinishTrue
  <2>2. timer \in [Timers -> Phases]
    BY DEF IInv, TypeOK, Phases
  <2>3. state = "ENDED" => \A m \in Timers : [timer EXCEPT ![n] = "idle"][m] = "idle"
    BY <2>2 DEF EndedIsClean
  <2> QED
    BY <1>3, <2>1, <2>3
<1>7. CASE \E n \in Timers : TimerExpires(n)
  <2>1. state # "ENDED"
    BY <1>7 DEF TimerExpires, EndedIsClean
  <2> QED
    BY <1>7, <2>1 DEF TimerExpires, textVars, EndedIsClean
<1>8. CASE \/ StartCrashes \/ UNCHANGED vars \/ RunChunk \/ RunIgnored \/ RunNoResult
           \/ MicrophoneRecords \/ RecogniserSteps
  <2>1. UNCHANGED <<state, currentTranscript, label, timer>>
    BY <1>8 DEF StartCrashes, vars, RunChunk, RunIgnored, RunNoResult, Crash, MicrophoneRecords,
                RecogniserSteps, liveVars, sessionVars, textVars
  <2> QED
    BY <2>1 DEF EndedIsClean
<1>9. CASE TestCalls
  BY <1>2, <1>4, <1>5, <1>9 DEF TestCalls
<1>10. CASE RunResult
  BY <1>5, <1>10 DEF RunResult
<1>11. ~( \/ RecordTapped \/ CancelTapped \/ LanguageButtonTapped \/ SheetDismissed
          \/ (\E l \in Supported : LanguagePicked(l)) \/ ConfigureAssistant)
  BY <1>1 DEF RecordTapped, CancelTapped, LanguageButtonTapped, SheetDismissed, LanguagePicked,
              ConfigureAssistant, Touch
<1> QED
  BY <1>6, <1>7, <1>8, <1>9, <1>10, <1>11 DEF Next, UserOrHost, RunBlock

\* What the label showed and the timers ran for ends with the session, for a
\* host that waits and for the tests that call the view model in any state
\* (the didSet of state, AssistantViewControllerViewModel.swift:43-70).
THEOREM CleanEnd == SafetySpec /\ (HostWaits \/ Driver = "tests") => []EndedIsClean
<1>1. HostInv => EndedIsClean
  BY DEF HostInv
<1>2. SafetySpec /\ HostWaits => []EndedIsClean
  BY <1>1, HostInvariance, PTL
<1>3. Init => EndedIsClean /\ label = 0
  BY DEF Init, EndedIsClean
<1>4. IInv /\ (EndedIsClean /\ label = 0) /\ Driver = "tests" /\ [Next]_vars
        => (EndedIsClean /\ label = 0)'
  BY TestsStep
<1>5. (Driver = "tests") => [](Driver = "tests")
  OBVIOUS
<1>6. SafetySpec /\ Driver = "tests" => []EndedIsClean
  BY <1>3, <1>4, <1>5, Invariance, PTL DEF SafetySpec
<1> QED
  BY <1>2, <1>6, PTL

\* What the user reads is what would be delivered (the didSet of
\* currentTranscript, AssistantViewControllerViewModel.swift:110-114).
THEOREM LabelTrue == SafetySpec /\ HostWaits => []LabelShowsTranscript
<1>1. HostInv => LabelShowsTranscript
  BY DEF HostInv
<1> QED
  BY <1>1, HostInvariance, PTL

\* No expired timer of one session delivers in the next, or in none (the didSet
\* of finished, AssistantViewControllerViewModel.swift:118-131).
THEOREM DeliversInSession == SafetySpec /\ HostWaits => []DeliversOnlyWhileListening
<1>1. HostInv => DeliversOnlyWhileListening
  BY DEF HostInv
<1> QED
  BY <1>1, HostInvariance, PTL

-----------------------------------------------------------------------------
(* The contract of the host, but for its liveness.                         *)

contractView == <<sessionNo, state, currentTranscript, deliveries, cancelled>>

LEMMA ContractStutter == UNCHANGED contractView => UNCHANGED Contract!contractVars
BY DEF contractView, Contract!contractVars, OutcomeOf

LEMMA ContractBegins ==
    ASSUME IInv, HostInv, HostWaits, state # "STARTED", SetStarted,
           UNCHANGED <<currentTranscript, deliveries, cancelled>>
    PROVE  Contract!Listen
<1>1. /\ state' = "STARTED" /\ sessionNo < MaxSessions /\ sessionNo' = sessionNo + 1
      /\ currentTranscript = 0 /\ currentTranscript' = 0 /\ sessionNo \in Nat
  BY BetweenSessions, SessionAssumption DEF SetStarted, MayStart, IInv, TypeOK, Sessions
<1>2. \A s \in Sessions : OutcomeOf(s)' = OutcomeOf(s)
  BY <1>1, SessionAssumption DEF OutcomeOf, Sessions
<1> QED
  BY <1>1, <1>2 DEF Contract!Listen

\* A session that ends has the outcome that its verdict and its transcript say.
LEMMA ContractEnds ==
    ASSUME IInv, HostInv, HostWaits, state = "STARTED",
           state' = "ENDED", currentTranscript' = 0, sessionNo' = sessionNo,
           NEW result, OutcomeOf(sessionNo)' = result,
           \A s \in Sessions \ {sessionNo} :
              deliveries'[s] = deliveries[s] /\ (s \in cancelled' <=> s \in cancelled)
    PROVE  Contract!End(result)
<1>1. sessionNo \in Sessions
  BY DEF IInv, TypeOK
<1>2. \A s \in Sessions \ {sessionNo} : OutcomeOf(s)' = OutcomeOf(s)
  BY DEF OutcomeOf
<1>3. [s \in Sessions |-> OutcomeOf(s)]'
          = [[s \in Sessions |-> OutcomeOf(s)] EXCEPT ![sessionNo] = result]
  BY <1>1, <1>2
<1> QED
  BY <1>3 DEF Contract!End

\* A session that runs has been counted, and has no outcome yet.
LEMMA RunningSession ==
    ASSUME IInv, state = "STARTED"
    PROVE  /\ sessionNo \in Nat \ {0} /\ sessionNo \in Sessions
           /\ deliveries[sessionNo] = 0 /\ sessionNo \notin cancelled
<1>1. sessionNo \in Nat /\ sessionNo \in Sessions /\ deliveries \in [Sessions -> Nat]
  BY SessionAssumption DEF IInv, TypeOK, Sessions
<1>2. deliveries[sessionNo] = 0 /\ sessionNo \notin cancelled
  BY <1>1 DEF IInv, VerdictOK, HistoryOK
<1>3. Len(calls) \in Nat /\ (calls # <<>> => Len(calls) # 0)
  BY LenProperties, EmptySeq DEF IInv, TypeOK, ServiceTypeOK
<1>4. sessionNo # 0
  BY <1>1, <1>3 DEF IInv, StreamOK
<1> QED
  BY <1>1, <1>2, <1>4

LEMMA ContractCancels ==
    ASSUME IInv, HostInv, HostWaits, state = "STARTED", CancelRecording
    PROVE  Contract!Cancel
<1>1. /\ state' = "ENDED" /\ currentTranscript' = 0 /\ cancelled' = cancelled \cup {sessionNo}
      /\ UNCHANGED <<sessionNo, deliveries>>
  BY DEF CancelRecording, SetEnded, SetTranscript
<1>2. OutcomeOf(sessionNo)' = "cancelled"
  BY <1>1, RunningSession DEF OutcomeOf
<1> QED
  BY <1>1, <1>2, ContractEnds DEF Contract!Cancel

LEMMA ContractExpires ==
    ASSUME IInv, HostInv, HostWaits, state = "STARTED", NEW n \in Timers, RunTimer(n)
    PROVE  Contract!Deliver \/ Contract!GiveUp
<1>1. /\ state' = "ENDED" /\ currentTranscript' = 0 /\ UNCHANGED <<sessionNo, cancelled>>
      /\ IF currentTranscript # 0
            THEN deliveries' = [deliveries EXCEPT ![sessionNo] = @ + 1]
            ELSE deliveries' = deliveries
  BY DEF RunTimer, FinishTrue, SetEnded, SetTranscript, Deliver, HostWaits, Attached
<1>2. deliveries \in [Sessions -> Nat]
  BY DEF IInv, TypeOK
<1>3. CASE currentTranscript # 0
  <2>1. OutcomeOf(sessionNo)' = "delivered"
    BY <1>1, <1>2, <1>3, RunningSession DEF OutcomeOf
  <2>2. Contract!End("delivered")
    BY <1>1, <1>2, <1>3, <2>1, ContractEnds
  <2> QED
    BY <1>3, <2>2 DEF Contract!Deliver
<1>4. CASE currentTranscript = 0
  <2>1. OutcomeOf(sessionNo)' = "silent"
    BY <1>1, <1>4, RunningSession DEF OutcomeOf
  <2>2. Contract!End("silent")
    BY <1>1, <1>4, <2>1, ContractEnds
  <2> QED
    BY <1>4, <2>2 DEF Contract!GiveUp
<1> QED
  BY <1>3, <1>4

\* Every turn of the main thread, and every step of the other threads, is a
\* step of the contract or none.
LEMMA ContractStep ==
    ASSUME IInv, HostInv, HostWaits, [Next]_vars
    PROVE  Contract!ContractNext \/ UNCHANGED Contract!contractVars
<1>1. /\ (screen = "STARTED" <=> state = "STARTED")
      /\ sheetShown => state # "STARTED"
      /\ Driver = "app" /\ ~HostNavigates
  BY DEF HostWaits, Attached, IInv, VerdictOK
<1>2. CASE RecordTapped \/ \E l \in Supported : LanguagePicked(l)
  <2>1. /\ state # "STARTED" /\ SetStarted
        /\ UNCHANGED <<currentTranscript, deliveries, cancelled>>
    BY <1>1, <1>2 DEF RecordTapped, Touch, StartRecording, LanguagePicked, LanguageChanged, textVars
  <2> QED
    BY <2>1, ContractBegins DEF Contract!ContractNext
<1>3. CASE CancelTapped \/ LanguageButtonTapped
  BY <1>1, <1>3, ContractCancels DEF CancelTapped, LanguageButtonTapped, Contract!ContractNext
<1>4. CASE ConfigureAssistant
  <2>1. /\ state # "STARTED" /\ SetEnded(mainQ, timer, 0) /\ UNCHANGED history
    BY <1>1, <1>4 DEF ConfigureAssistant
  <2>2. state' # "STARTED" /\ currentTranscript' = 0 /\ currentTranscript = 0
    BY <2>1, BetweenSessions DEF SetEnded, SetTranscript
  <2>3. \A s \in Sessions : OutcomeOf(s)' = OutcomeOf(s)
    BY <2>1, <2>2 DEF OutcomeOf, history
  <2> QED
    BY <2>1, <2>2, <2>3 DEF Contract!contractVars, history
<1>5. CASE RunResult
  <2>1. /\ mainQ # <<>> /\ Head(mainQ).kind = "result"
        /\ ProcessResponseObtained(Tail(mainQ), Head(mainQ).of)
    BY <1>5 DEF RunResult, AtHead
  <2>2. CASE finished # "nil"
    BY <2>1, <2>2, ContractStutter
       DEF ProcessResponseObtained, SessionOver, textVars, history, contractView
  <2>3. CASE finished = "nil"
    <3>1. Head(mainQ).of # 0
      BY <2>1, HeadTail DEF IInv, QueueOK
    <3>2. state = "STARTED"
      BY <2>1, <2>3 DEF HostInv, QuietOK
    <3>3. /\ currentTranscript' # 0
          /\ UNCHANGED <<state, sessionNo, deliveries, cancelled>>
      BY <2>1, <2>3, <3>1 DEF ProcessResponseObtained, SessionOver, SetTranscript, history
    <3>4. \A s \in Sessions : OutcomeOf(s)' = OutcomeOf(s)
      BY <3>3 DEF OutcomeOf
    <3> QED
      BY <3>2, <3>3, <3>4 DEF Contract!Hear, Contract!ContractNext
  <2> QED
    BY <2>2, <2>3
<1>6. ASSUME NEW n \in Timers, RunTimer(n)
      PROVE  Contract!ContractNext
  <2>1. timer[n] # "idle"
    <3>1. mainQ # <<>> /\ Head(mainQ).kind = n
      BY <1>6 DEF RunTimer, AtHead
    <3>2. 1 \in DOMAIN mainQ /\ mainQ[1].kind = n
      BY <3>1, HeadTail DEF IInv, QueueOK
    <3> QED
      BY <3>2 DEF IInv, QueueOK
  <2>2. state = "STARTED"
    BY <2>1, BetweenSessions
  <2> QED
    BY <1>6, <2>2, ContractExpires DEF Contract!ContractNext
<1>7. CASE \/ SheetDismissed \/ StartCrashes \/ UNCHANGED vars
           \/ RunChunk \/ RunIgnored \/ RunNoResult
           \/ (\E n \in Timers : TimerExpires(n)) \/ MicrophoneRecords \/ RecogniserSteps
  <2>1. UNCHANGED contractView
    BY <1>7 DEF SheetDismissed, StartCrashes, vars, RunChunk, RunIgnored, RunNoResult, Crash,
                TimerExpires, MicrophoneRecords, RecogniserSteps, liveVars, sessionVars, textVars,
                history, contractView
  <2> QED
    BY <2>1, ContractStutter
<1>8. ~TestCalls
  BY <1>1 DEF TestCalls
<1> QED
  BY <1>2, <1>3, <1>4, <1>5, <1>6, <1>7, <1>8 DEF Next, UserOrHost, RunBlock

\* Sessions follow one another; one in which words were heard and that nobody
\* cancelled is delivered, once, and no other is: the safety of KeepsContract
\* (AssistantViewControllerViewModel.swift:42-68, 110-131, 242-258).
THEOREM ContractKept == SafetySpec /\ HostWaits => Contract!ContractSafety
<1>1. Init => Contract!ContractInit
  BY SessionAssumption DEF Init, Contract!ContractInit, OutcomeOf, Sessions
<1>2. IInv /\ HostInv /\ HostWaits /\ [Next]_vars
        => [Contract!ContractNext]_(Contract!contractVars)
  BY ContractStep
<1>3. HostWaits => []HostWaits
  BY DEF HostWaits
<1> QED
  BY <1>1, <1>2, <1>3, Invariance, HostInvariance, PTL DEF SafetySpec, Contract!ContractSafety

-----------------------------------------------------------------------------
(* A prompt queue.                                                         *)

LEMMA InitPrompt == Init => PromptInv
<1> SUFFICES ASSUME Init PROVE PromptInv
  OBVIOUS
<1>1. QueueIsFresh
  BY EmptySeq DEF Init, QueueIsFresh
<1>2. language["recogniser"] = English /\ language["viewModel"] = English
  BY DEF Init, Copies
<1> QED
  BY <1>1, <1>2 DEF Init, ServiceInit, NoDelivery, PromptInv, CallIsFresh, TranscriptIsFresh,
                    DeliversOwnAudio

\* An empty queue says nothing, one block says what it says.
LEMMA EmptyQueue == mainQ' = <<>> => QueueIsFresh'
BY EmptySeq DEF QueueIsFresh

LEMMA OneBlock ==
    ASSUME NEW b \in Blocks
    PROVE  DOMAIN Append(<<>>, b) = {1} /\ Append(<<>>, b)[1] = b
<1>1. <<>> \in Seq(Blocks) /\ Len(<<>>) = 0
  BY EmptySeq
<1>2. /\ Append(<<>>, b) \in Seq(Blocks) /\ Len(Append(<<>>, b)) = 1
      /\ Append(<<>>, b)[1] = b
  BY <1>1, AppendProperties
<1>3. DOMAIN Append(<<>>, b) = 1..1
  BY <1>2, LenProperties
<1> QED
  BY <1>2, <1>3

LEMMA EmptyCancel == \A doomed : Cancel(<<>>, doomed) = <<>>
<1> TAKE doomed
<1>1. <<>> \in Seq(Blocks) /\ DOMAIN <<>> = {}
  BY EmptySeq
<1>2. Cancel(<<>>, doomed) \in Seq(Blocks) /\ DOMAIN Cancel(<<>>, doomed) = {}
  BY <1>1, CancelShape
<1> QED
  BY <1>2, EmptySeq, LenProperties

\* The block that runs is the only one.
LEMMA TakeOne ==
    ASSUME IInv, QueueIsFresh, mainQ # <<>>
    PROVE  Tail(mainQ) = <<>> /\ BlockIsFresh(Head(mainQ))
<1>1. mainQ \in Seq(Blocks)
  BY DEF IInv, QueueOK
<1>2. /\ Tail(mainQ) \in Seq(Blocks)
      /\ 1 \in DOMAIN mainQ /\ Head(mainQ) = mainQ[1]
      /\ \A i \in DOMAIN Tail(mainQ) : i + 1 \in DOMAIN mainQ /\ i + 1 # 1
  BY <1>1, HeadTail
<1>3. DOMAIN Tail(mainQ) = {}
  BY <1>2 DEF QueueIsFresh
<1>4. Tail(mainQ) = <<>>
  BY <1>2, <1>3, EmptySeq, LenProperties
<1> QED
  BY <1>2, <1>4 DEF QueueIsFresh

\* A call keeps its session and its language.
CallsKept ==
    \A c \in Calls : /\ c \in Calls' /\ calls'[c].session = calls[c].session
                     /\ calls'[c].language = calls[c].language

LEMMA ChangedCall ==
    ASSUME NEW s \in Seq(Call), NEW n \in DOMAIN s, NEW e \in Call,
           e.session = s[n].session, e.language = s[n].language
    PROVE  /\ Len([s EXCEPT ![n] = e]) = Len(s)
           /\ DOMAIN [s EXCEPT ![n] = e] = DOMAIN s
           /\ \A c \in DOMAIN s : /\ [s EXCEPT ![n] = e][c].session = s[c].session
                                 /\ [s EXCEPT ![n] = e][c].language = s[c].language
<1>1. n \in 1..Len(s) /\ DOMAIN s = 1..Len(s)
  BY LenProperties
<1>2. [s EXCEPT ![n] = e] \in Seq(Call) /\ Len([s EXCEPT ![n] = e]) = Len(s)
  BY <1>1, ExceptSeq
<1> QED
  BY <1>1, <1>2

LEMMA StopKept ==
    ASSUME IInv, StopStreaming
    PROVE  CallsKept /\ ~streaming'
<1>1. calls \in Seq(Call) /\ DOMAIN calls = 1..Len(calls) /\ Len(calls) \in Nat
  BY LenProperties DEF IInv, TypeOK, ServiceTypeOK
<1>2. CASE ~streaming
  BY <1>2 DEF StopStreaming, serviceVars, CallsKept, Calls
<1>3. CASE streaming
  <2> DEFINE n == Len(calls)
             new == [calls[n] EXCEPT !.halfClosed = TRUE]
  <2>1. n \in DOMAIN calls /\ calls[n] \in Call
    BY <1>1, <1>3, EmptySeq, ElementOfSeq DEF IInv, StreamOK
  <2>2. new \in Call /\ new.session = calls[n].session /\ new.language = calls[n].language
    BY <2>1 DEF Call
  <2>3. streaming' = FALSE /\ calls' = [calls EXCEPT ![n] = new]
    BY <1>3 DEF StopStreaming
  <2> HIDE DEF new
  <2> QED
    BY <1>1, <2>1, <2>2, <2>3, ChangedCall DEF CallsKept, Calls
<1> QED
  BY <1>2, <1>3

LEMMA EndsKept ==
    ASSUME IInv, NEW c \in Calls, NEW status \in {"ok", "error"}, CallEnds(c, status)
    PROVE  CallsKept /\ Len(calls') = Len(calls)
<1>1. calls \in Seq(Call) /\ DOMAIN calls = 1..Len(calls)
  BY LenProperties DEF IInv, TypeOK, ServiceTypeOK
<1> DEFINE new == [calls[c] EXCEPT !.status = status]
<1>2. c \in DOMAIN calls /\ calls[c] \in Call
  BY <1>1, ElementOfSeq DEF Calls
<1>3. new \in Call /\ new.session = calls[c].session /\ new.language = calls[c].language
  BY <1>2 DEF Call
<1>4. calls' = [calls EXCEPT ![c] = new]
  BY DEF CallEnds
<1> HIDE DEF new
<1> QED
  BY <1>1, <1>2, <1>3, <1>4, ChangedCall DEF CallsKept, Calls

\* The transcript and what was delivered, as long as the session lasts and
\* when it ends.
LEMMA TranscriptKept ==
    ASSUME TranscriptIsFresh, CallsKept, sessionNo' = sessionNo,
           currentTranscript' \in {currentTranscript, 0},
           savedAudioData' \in {savedAudioData, {}},
           lastDelivery' = lastDelivery \/ (Deliver /\ currentTranscript # 0)
    PROVE  TranscriptIsFresh'
<1>1. /\ currentTranscript' # 0 =>
            currentTranscript' \in Calls' /\ calls'[currentTranscript'].session = sessionNo'
      /\ savedAudioData' \subseteq {sessionNo'}
  BY DEF TranscriptIsFresh, CallsKept
<1>2. CASE lastDelivery' = lastDelivery
  BY <1>1, <1>2 DEF TranscriptIsFresh, CallsKept, DeliversOwnAudio
<1>3. CASE Deliver /\ currentTranscript # 0
  <2>1. /\ lastDelivery'.session = sessionNo /\ lastDelivery'.transcript = currentTranscript
        /\ lastDelivery'.audio = savedAudioData
    BY <1>3 DEF Deliver
  <2>2. currentTranscript \in Calls' /\ calls'[currentTranscript].session = sessionNo
    BY <1>3 DEF TranscriptIsFresh, CallsKept
  <2> QED
    BY <1>1, <2>1, <2>2 DEF TranscriptIsFresh, DeliversOwnAudio
<1> QED
  BY <1>2, <1>3

\* The steps that leave the calls, the session and the texts alone.
LEMMA KeepPrompt ==
    ASSUME PromptInv, QueueIsFresh',
           UNCHANGED <<state, sessionNo, language, serviceVars, currentTranscript,
                       savedAudioData, lastDelivery>>
    PROVE  PromptInv'
<1>1. CallIsFresh'
  BY DEF PromptInv, CallIsFresh, serviceVars
<1>2. TranscriptIsFresh'
  BY DEF PromptInv, TranscriptIsFresh, DeliversOwnAudio, serviceVars, Calls
<1> QED
  BY <1>1, <1>2 DEF PromptInv

LEMMA SetLanguageFresh ==
    ASSUME NEW l \in Languages, SetLanguage(l)
    PROVE  language'["recogniser"] = language'["viewModel"]
BY DEF SetLanguage, Copies

\* A session begins without a stream, a transcript or audio.
LEMMA StartPrompt ==
    ASSUME IInv, HostInv, HostWaits, PromptInv, state # "STARTED", SetStarted, mainQ = <<>>,
           language'["recogniser"] = language'["viewModel"],
           UNCHANGED <<currentTranscript, lastDelivery>>
    PROVE  PromptInv'
<1>1. /\ state' = "STARTED" /\ mainQ' = <<>> /\ savedAudioData' = {}
      /\ UNCHANGED <<streaming, calls>>
  BY EmptyCancel DEF SetStarted, ResetAudioData, serviceVars
<1>2. ~streaming
  BY DEF PromptInv, CallIsFresh
<1>3. currentTranscript' = 0
  BY BetweenSessions
<1>4. TranscriptIsFresh'
  BY <1>1, <1>3 DEF PromptInv, TranscriptIsFresh, DeliversOwnAudio, Calls
<1> QED
  BY <1>1, <1>2, <1>4, EmptyQueue DEF PromptInv, CallIsFresh

\* A session ends with its stream.
LEMMA EndPrompt ==
    ASSUME IInv, PromptInv, state # "ENDED",
           NEW t, NEW text, SetEnded(<<>>, t, text),
           language'["recogniser"] = language'["viewModel"],
           sessionNo' = sessionNo,
           lastDelivery' = lastDelivery \/ (Deliver /\ currentTranscript # 0)
    PROVE  PromptInv'
<1>1. /\ mainQ' = <<>> /\ savedAudioData' = {} /\ currentTranscript' = 0 /\ StopStreaming
  BY EmptyCancel DEF SetEnded, ResetAudioData, SetTranscript
<1>2. CallsKept /\ ~streaming'
  BY <1>1, StopKept
<1>3. TranscriptIsFresh'
  BY <1>1, <1>2, TranscriptKept DEF PromptInv
<1> QED
  BY <1>1, <1>2, <1>3, EmptyQueue DEF PromptInv, CallIsFresh

LEMMA UserOrHostPrompt ==
    ASSUME IInv, HostInv, PromptHost, PromptInv, UserOrHost
    PROVE  PromptInv'
<1>1. /\ HostWaits /\ (screen = "STARTED" <=> state = "STARTED")
      /\ sheetShown => state # "STARTED"
      /\ Driver = "app" /\ ~HostNavigates /\ Supported \subseteq Languages
      /\ Event => mainQ = <<>>
      /\ language["recogniser"] = language["viewModel"]
  BY SessionAssumption
     DEF PromptHost, HostWaits, Attached, IInv, VerdictOK, Event, PromptInv, CallIsFresh
<1>2. CASE RecordTapped
  BY <1>1, <1>2, StartPrompt DEF RecordTapped, Touch, StartRecording, textVars, userVars
<1>3. CASE CancelTapped \/ LanguageButtonTapped
  <2>1. state = "STARTED" /\ CancelRecording /\ mainQ = <<>>
    BY <1>1, <1>3 DEF CancelTapped, LanguageButtonTapped, Touch
  <2>2. SetEnded(<<>>, timer, label) /\ UNCHANGED <<language, sessionNo, lastDelivery>>
    BY <2>1 DEF CancelRecording
  <2> QED
    BY <1>1, <2>1, <2>2, EndPrompt
<1>4. CASE SheetDismissed \/ StartCrashes
  <2>1. mainQ' = <<>>
    BY <1>1, <1>4 DEF SheetDismissed, StartCrashes, Crash, liveVars, machineVars
  <2> QED
    BY <1>4, <2>1, EmptyQueue, KeepPrompt
       DEF SheetDismissed, StartCrashes, Crash, liveVars, machineVars, sessionVars, textVars,
           audioData, userVars, history
<1>5. ASSUME NEW l \in Supported, LanguagePicked(l)
      PROVE  PromptInv'
  <2>1. /\ state # "STARTED" /\ mainQ = <<>> /\ l \in Languages /\ SetLanguage(l)
        /\ SetStarted /\ UNCHANGED <<currentTranscript, lastDelivery>>
    BY <1>1, <1>5 DEF LanguagePicked, LanguageChanged
  <2> QED
    BY <1>1, <2>1, SetLanguageFresh, StartPrompt
<1>6. CASE ConfigureAssistant
  <2>1. /\ state # "STARTED" /\ mainQ = <<>> /\ SetEnded(<<>>, timer, 0)
        /\ SetLanguage(language["assistant"])
        /\ UNCHANGED <<sessionNo, lastDelivery>>
    BY <1>1, <1>6 DEF ConfigureAssistant, history
  <2>2. language["assistant"] \in Languages
    BY DEF IInv, TypeOK, Copies
  <2>3. language'["recogniser"] = language'["viewModel"]
    BY <2>1, <2>2, SetLanguageFresh
  <2>4. CASE state = "ENDED"
    <3>1. /\ mainQ' = <<>> /\ UNCHANGED <<state, currentTranscript, savedAudioData, streaming, calls>>
      BY <2>1, <2>4 DEF SetEnded, audioData, serviceVars
    <3>2. ~streaming
      BY <2>1 DEF PromptInv, CallIsFresh
    <3>3. TranscriptIsFresh'
      BY <2>1, <3>1 DEF PromptInv, TranscriptIsFresh, DeliversOwnAudio, Calls
    <3> QED
      BY <2>3, <3>1, <3>2, <3>3, EmptyQueue DEF PromptInv, CallIsFresh
  <2>5. CASE state # "ENDED"
    BY <2>1, <2>3, <2>5, EndPrompt
  <2> QED
    BY <2>4, <2>5
<1>7. ~TestCalls
  BY <1>1 DEF TestCalls
<1> QED
  BY <1>2, <1>3, <1>4, <1>5, <1>6, <1>7 DEF UserOrHost

\* A chunk that opens a call belongs to the session that recorded it.
LEMMA RunChunkPrompt ==
    ASSUME IInv, PromptInv, RunChunk
    PROVE  PromptInv'
<1>1. /\ mainQ # <<>> /\ Head(mainQ).kind = "chunk" /\ mainQ' = Tail(mainQ)
      /\ savedAudioData' = savedAudioData \cup {Head(mainQ).of}
      /\ UNCHANGED <<state, currentTranscript, sessionNo, lastDelivery, language>>
      /\ StreamAudioData(sessionNo, language["recogniser"]) \/ UNCHANGED serviceVars
  BY DEF RunChunk, AtHead, textVars, userVars, history
<1>2. mainQ' = <<>> /\ state = "STARTED" /\ Head(mainQ).of = sessionNo
  BY <1>1, TakeOne DEF PromptInv, BlockIsFresh
<1>3. calls \in Seq(Call) /\ DOMAIN calls = 1..Len(calls) /\ Len(calls) \in Nat
  BY LenProperties DEF IInv, TypeOK, ServiceTypeOK
<1>4. CallsKept /\ CallIsFresh'
  <2>1. CASE UNCHANGED serviceVars
    BY <1>1, <2>1 DEF serviceVars, CallsKept, Calls, PromptInv, CallIsFresh
  <2>2. CASE ~streaming /\ StreamAudioData(sessionNo, language["recogniser"])
    <3> DEFINE new == [session |-> sessionNo, language |-> language["recogniser"],
                       halfClosed |-> FALSE, status |-> "live"]
    <3>1. new \in Call /\ new.session = sessionNo /\ new.language = language["recogniser"]
      BY SessionAssumption DEF IInv, TypeOK, Copies, Sessions, Call
    <3>2. calls' = Append(calls, new) /\ streaming'
      BY <2>2 DEF StreamAudioData
    <3> HIDE DEF new
    <3>3. /\ calls' \in Seq(Call) /\ Len(calls') = Len(calls) + 1
          /\ \A c \in 1..Len(calls) : calls'[c] = calls[c]
          /\ calls'[Len(calls) + 1] = new
      BY <1>3, <3>1, <3>2, AppendProperties
    <3>4. DOMAIN calls' = 1..(Len(calls) + 1)
      BY <3>3, LenProperties
    <3> QED
      BY <1>1, <1>2, <1>3, <3>1, <3>3, <3>4 DEF CallsKept, Calls, PromptInv, CallIsFresh
  <2> QED
    BY <1>1, <2>1, <2>2 DEF StreamAudioData
<1>5. savedAudioData' \subseteq {sessionNo}
  BY <1>1, <1>2 DEF PromptInv, TranscriptIsFresh
<1>6. TranscriptIsFresh'
  BY <1>1, <1>4, <1>5 DEF PromptInv, TranscriptIsFresh, CallsKept, DeliversOwnAudio
<1> QED
  BY <1>2, <1>4, <1>6, EmptyQueue DEF PromptInv

LEMMA RunBlockPrompt ==
    ASSUME IInv, HostInv, HostWaits, PromptInv, RunBlock
    PROVE  PromptInv'
<1>1. CASE RunIgnored
  <2>1. mainQ' = <<>>
    BY <1>1, TakeOne DEF RunIgnored, AtHead, PromptInv
  <2> QED
    BY <1>1, <2>1, EmptyQueue, KeepPrompt
       DEF RunIgnored, sessionVars, textVars, audioData, userVars, history
<1>2. CASE RunNoResult
  <2>1. QueueIsFresh'
    BY <1>2 DEF RunNoResult, Crash, liveVars, machineVars, serviceVars, sessionVars, history,
                PromptInv, QueueIsFresh, BlockIsFresh, Calls
  <2> QED
    BY <1>2, <2>1, KeepPrompt
       DEF RunNoResult, Crash, liveVars, machineVars, sessionVars, textVars, audioData,
           userVars, history
<1>3. CASE RunResult
  <2>1. /\ mainQ # <<>> /\ Head(mainQ).kind = "result"
        /\ ProcessResponseObtained(Tail(mainQ), Head(mainQ).of)
    BY <1>3 DEF RunResult, AtHead
  <2>2. /\ Tail(mainQ) = <<>> /\ Head(mainQ).of \in Calls
        /\ calls[Head(mainQ).of].session = sessionNo
    BY <2>1, TakeOne DEF PromptInv, BlockIsFresh
  <2>3. /\ mainQ' = <<>>
        /\ currentTranscript' \in {currentTranscript, Head(mainQ).of}
        /\ UNCHANGED <<serviceVars, state, savedAudioData, language, sessionNo, lastDelivery>>
    BY <2>1, <2>2, EmptyCancel
       DEF ProcessResponseObtained, SetTranscript, textVars, audioData, userVars, history
  <2>4. TranscriptIsFresh'
    BY <2>2, <2>3 DEF PromptInv, TranscriptIsFresh, DeliversOwnAudio, serviceVars, Calls
  <2>5. CallIsFresh'
    BY <2>3 DEF PromptInv, CallIsFresh, serviceVars
  <2> QED
    BY <2>3, <2>4, <2>5, EmptyQueue DEF PromptInv
<1>4. ASSUME NEW n \in Timers, RunTimer(n)
      PROVE  PromptInv'
  <2> DEFINE t == [timer EXCEPT ![n] = "idle"]
  <2>1. /\ mainQ # <<>> /\ Head(mainQ).kind = n
        /\ SetEnded(Tail(mainQ), t, label)
        /\ lastDelivery' = lastDelivery \/ (Deliver /\ currentTranscript # 0)
        /\ UNCHANGED <<language, sessionNo>>
    BY <1>4 DEF RunTimer, FinishTrue, AtHead, userVars
  <2> HIDE DEF t
  <2>2. SetEnded(<<>>, t, label)
    BY <2>1, TakeOne DEF PromptInv
  <2>3. timer[n] # "idle"
    <3>1. 1 \in DOMAIN mainQ /\ mainQ[1].kind = n
      BY <2>1, HeadTail DEF IInv, QueueOK
    <3> QED
      BY <3>1 DEF IInv, QueueOK
  <2>4. state = "STARTED"
    BY <2>3, BetweenSessions
  <2>5. language'["recogniser"] = language'["viewModel"]
    BY <2>1 DEF PromptInv, CallIsFresh
  <2> QED
    BY <2>1, <2>2, <2>4, <2>5, EndPrompt
<1> QED
  BY <1>1, <1>2, <1>3, <1>4, RunChunkPrompt DEF RunBlock

\* A block that is posted finds an empty queue.
LEMMA ProducersPrompt ==
    ASSUME IInv, HostInv, PromptHost, PromptInv,
           (\E n \in Timers : TimerExpires(n)) \/ MicrophoneRecords \/ RecogniserSteps
    PROVE  PromptInv'
<1>1. /\ UNCHANGED <<state, currentTranscript, savedAudioData, sessionNo, language, lastDelivery>>
      /\ HostWaits /\ mainQ = <<>> /\ ~LateAnswers
  BY DEF TimerExpires, MicrophoneRecords, RecogniserSteps, Event, PromptHost, sessionVars, textVars,
         audioData, userVars, history
<1>2. CASE \E n \in Timers : TimerExpires(n)
  <2>1. PICK n \in Timers : TimerExpires(n)
    BY <1>2
  <2>2. PICK b \in Blocks : b.kind = n /\ mainQ' = Append(<<>>, b)
    <3>1. Block(n, 0) \in Blocks /\ Block(n, 0).kind = n
      BY DEF Block, Blocks, BlockKinds
    <3> QED
      BY <1>1, <2>1, <3>1 DEF TimerExpires
  <2>3. QueueIsFresh'
    BY <2>2, OneBlock DEF QueueIsFresh, BlockIsFresh, Timers
  <2> QED
    BY <1>1, <2>1, <2>3, KeepPrompt DEF TimerExpires
<1>3. CASE MicrophoneRecords
  <2>1. state = "STARTED"
    BY <1>1, <1>3, BetweenSessions DEF MicrophoneRecords, RecordChunk
  <2>2. PICK b \in Blocks : b.kind = "chunk" /\ b.of = sessionNo /\ mainQ' = Append(<<>>, b)
    <3> DEFINE new == Block("chunk", sessionNo)
    <3>1. new \in Blocks /\ new.kind = "chunk" /\ new.of = sessionNo
      BY SessionAssumption DEF Block, Blocks, BlockKinds, IInv, TypeOK, Sessions
    <3>2. mainQ' = Append(<<>>, new)
      BY <1>1, <1>3 DEF MicrophoneRecords, RecordChunk
    <3> HIDE DEF new
    <3> QED
      BY <3>1, <3>2
  <2>3. QueueIsFresh'
    BY <1>1, <2>1, <2>2, OneBlock DEF QueueIsFresh, BlockIsFresh
  <2> QED
    BY <1>1, <1>3, <2>3, KeepPrompt DEF MicrophoneRecords
<1>4. ASSUME NEW c \in Calls, ServerAnswers(c)
      PROVE  PromptInv'
  <2>1. PICK kind \in {"result", "noResult"} :
            mainQ' = Append(<<>>, Block(kind, c)) /\ UNCHANGED serviceVars /\ Answerable(c)
    BY <1>1, <1>4 DEF ServerAnswers
  <2>2. streaming /\ c = Len(calls)
    BY <1>1, <2>1 DEF Answerable, IInv, StreamOK
  <2>3. state = "STARTED" /\ calls[c].session = sessionNo
    BY <2>2 DEF PromptInv, CallIsFresh
  <2>4. PICK b \in Blocks : b.kind = kind /\ b.of = c /\ mainQ' = Append(<<>>, b)
    <3>1. c \in Nat
      BY LenProperties DEF IInv, TypeOK, ServiceTypeOK, Calls
    <3> DEFINE new == Block(kind, c)
    <3>2. new \in Blocks /\ new.kind = kind /\ new.of = c
      BY <3>1 DEF Block, Blocks, BlockKinds
    <3>3. mainQ' = Append(<<>>, new)
      BY <2>1
    <3> HIDE DEF new
    <3> QED
      BY <3>2, <3>3
  <2>5. QueueIsFresh'
    BY <1>1, <2>1, <2>3, <2>4, OneBlock DEF QueueIsFresh, BlockIsFresh, Calls, serviceVars
  <2> QED
    BY <1>1, <2>1, <2>5, KeepPrompt
<1>5. ASSUME NEW c \in Calls, NEW status \in {"ok", "error"}, CallEnds(c, status)
      PROVE  PromptInv'
  <2>1. CallsKept /\ Len(calls') = Len(calls) /\ streaming' = streaming
    BY <1>5, EndsKept DEF CallEnds
  <2>2. PICK b \in Blocks : b.kind = "done" /\ mainQ' = Append(<<>>, b)
    <3>1. c \in Nat
      BY LenProperties DEF IInv, TypeOK, ServiceTypeOK, Calls
    <3> DEFINE new == Block("done", c)
    <3>2. new \in Blocks /\ new.kind = "done"
      BY <3>1 DEF Block, Blocks, BlockKinds
    <3>3. mainQ' = Append(<<>>, new)
      BY <1>1, <1>5, EmptyCancel DEF CallEnds
    <3> HIDE DEF new
    <3> QED
      BY <3>2, <3>3
  <2>3. QueueIsFresh'
    BY <2>2, OneBlock DEF QueueIsFresh, BlockIsFresh
  <2>4. CallIsFresh'
    <3>1. streaming => Len(calls) \in Calls
      BY LenProperties, EmptySeq DEF IInv, StreamOK, TypeOK, ServiceTypeOK, Calls
    <3> QED
      BY <1>1, <2>1, <3>1 DEF CallsKept, PromptInv, CallIsFresh
  <2>5. TranscriptIsFresh'
    BY <1>1, <2>1, TranscriptKept DEF PromptInv
  <2> QED
    BY <2>3, <2>4, <2>5 DEF PromptInv
<1>6. CASE RecogniserSteps
  BY <1>4, <1>5, <1>6 DEF RecogniserSteps
<1> QED
  BY <1>2, <1>3, <1>6

LEMMA PromptInvariance == SafetySpec /\ PromptHost => []PromptInv
<1>1. IInv /\ HostInv /\ PromptHost /\ PromptInv /\ [Next]_vars => PromptInv'
  <2> SUFFICES ASSUME IInv, HostInv, PromptHost, PromptInv, [Next]_vars PROVE PromptInv'
    OBVIOUS
  <2>0. HostWaits
    BY DEF PromptHost
  <2>1. CASE UNCHANGED vars
    <3>1. QueueIsFresh'
      BY <2>1 DEF vars, liveVars, machineVars, serviceVars, sessionVars, history,
                  PromptInv, QueueIsFresh, BlockIsFresh, Calls
    <3> QED
      BY <2>1, <3>1, KeepPrompt
         DEF vars, liveVars, machineVars, sessionVars, textVars, audioData, userVars, history
  <2> QED
    BY <2>0, <2>1, UserOrHostPrompt, RunBlockPrompt, ProducersPrompt DEF Next
<1>2. PromptHost => [](PromptHost /\ HostWaits)
  BY DEF PromptHost, HostWaits
<1> QED
  BY <1>1, <1>2, InitPrompt, Invariance, HostInvariance, PTL DEF SafetySpec

\* The transcript that is delivered was heard in the session it is delivered for
\* (processResponseObtained, AssistantViewControllerViewModel.swift:242-259).
THEOREM LiveTranscript == SafetySpec /\ PromptHost => []DeliversLiveTranscript
<1>1. PromptInv => DeliversLiveTranscript
  BY DEF PromptInv, TranscriptIsFresh, DeliversLiveTranscript
<1> QED
  BY <1>1, PromptInvariance, PTL

\* So was the audio, and nothing of an earlier session is mixed with it
\* (processSampleData, AssistantViewControllerViewModel.swift:208-212).
THEOREM OwnAudio == SafetySpec /\ PromptHost => []DeliversOwnAudio
<1>1. PromptInv => DeliversOwnAudio
  BY DEF PromptInv, TranscriptIsFresh
<1> QED
  BY <1>1, PromptInvariance, PTL

\* A session takes its stream with it when it ends
\* (SpeechRecognitionService.swift:83-89).
THEOREM StreamInSession == SafetySpec /\ PromptHost => []NoStreamOutsideSession
<1>1. PromptInv => NoStreamOutsideSession
  BY DEF PromptInv, CallIsFresh, NoStreamOutsideSession
<1> QED
  BY <1>1, PromptInvariance, PTL

\* What the user speaks is recognised in the language shown
\* (SpeechRecognitionService.swift:62, and the didSet of currentLanguage,
\* AssistantViewControllerViewModel.swift:135-142).
THEOREM StreamLanguage == SafetySpec /\ PromptHost => []StreamUsesSelectedLanguage
<1>1. PromptInv => StreamUsesSelectedLanguage
  BY DEF PromptInv, CallIsFresh, StreamUsesSelectedLanguage
<1> QED
  BY <1>1, PromptInvariance, PTL

-----------------------------------------------------------------------------
(* What ends the process.                                                  *)

\* Core Audio does not fail, and every response carries a result.
Benign == ~AudioMayFail /\ ~EmptyResults

HasResults(q) == q \in Seq(Blocks) /\ \A i \in DOMAIN q : q[i].kind # "noResult"
Alive == HasResults(mainQ) /\ ~crashed

LEMMA ResultsCancelled ==
    ASSUME NEW q, HasResults(q), NEW doomed
    PROVE  HasResults(Cancel(q, doomed))
BY CancelShape DEF HasResults, Block

LEMMA ResultsTaken ==
    ASSUME NEW q, HasResults(q), q # <<>>
    PROVE  HasResults(Tail(q)) /\ Head(q).kind # "noResult"
BY HeadTail DEF HasResults

LEMMA ResultsAppended ==
    ASSUME NEW q, HasResults(q), NEW b \in Blocks, b.kind # "noResult"
    PROVE  HasResults(Append(q, b))
<1>1. /\ Append(q, b) \in Seq(Blocks) /\ Len(Append(q, b)) = Len(q) + 1
      /\ \A i \in 1..Len(q) : Append(q, b)[i] = q[i]
      /\ Append(q, b)[Len(q) + 1] = b
  BY AppendProperties DEF HasResults
<1>2. /\ DOMAIN q = 1..Len(q) /\ Len(q) \in Nat
      /\ DOMAIN Append(q, b) = 1..Len(Append(q, b))
  BY <1>1, LenProperties DEF HasResults
<1> QED
  BY <1>1, <1>2 DEF HasResults

\* No turn of the main thread but a trap ends the process.
LEMMA TurnAlive ==
    ASSUME Alive, Benign, UserOrHost \/ RunBlock
    PROVE  Alive'
<1>1. ~StartCrashes
  BY DEF StartCrashes, StartTraps, Prepared, Benign
<1>2. ~RunNoResult
  BY ResultsTaken DEF RunNoResult, AtHead, Alive
<1>3. \A q, t, text : HasResults(q) /\ SetEnded(q, t, text) => HasResults(mainQ')
  BY ResultsCancelled DEF SetEnded
<1>4. SetStarted => HasResults(mainQ')
  BY ResultsCancelled DEF SetStarted, Alive, machineVars
<1>5. \A q, c : HasResults(q) /\ ProcessResponseObtained(q, c) =>
          HasResults(mainQ') /\ crashed' = crashed
  BY ResultsCancelled DEF ProcessResponseObtained
<1>6. CancelRecording => Alive'
  BY <1>3 DEF CancelRecording, Alive
<1>7. StartRecording \/ (\E l : LanguageChanged(l)) => Alive'
  BY <1>4 DEF StartRecording, LanguageChanged, Alive
<1>8. CASE UserOrHost
  <2>1. CASE SheetDismissed
    BY <2>1 DEF SheetDismissed, machineVars, Alive
  <2>2. CASE ConfigureAssistant
    BY <1>3, <2>2 DEF ConfigureAssistant, Alive
  <2>3. CASE TestCalls
    BY <1>5, <1>6, <1>7, <2>3 DEF TestCalls, Alive
  <2> QED
    BY <1>1, <1>6, <1>7, <1>8, <2>1, <2>2, <2>3
       DEF UserOrHost, RecordTapped, CancelTapped, LanguageButtonTapped, LanguagePicked
<1>9. CASE RunBlock
  <2>1. mainQ # <<>> /\ HasResults(Tail(mainQ))
    <3>1. mainQ # <<>>
      BY <1>9 DEF RunBlock, RunChunk, RunResult, RunNoResult, RunIgnored, RunTimer, AtHead
    <3> QED
      BY <3>1, ResultsTaken DEF Alive
  <2>2. CASE \E n \in Timers : RunTimer(n)
    BY <1>3, <2>1, <2>2 DEF RunTimer, FinishTrue, Alive
  <2>3. CASE RunResult
    BY <1>5, <2>1, <2>3 DEF RunResult, Alive
  <2>4. CASE RunChunk \/ RunIgnored
    <3>1. mainQ' = Tail(mainQ) /\ crashed' = crashed
      BY <2>4 DEF RunChunk, RunIgnored
    <3> QED
      BY <2>1, <3>1 DEF Alive
  <2> QED
    BY <1>2, <1>9, <2>2, <2>3, <2>4 DEF RunBlock
<1> QED
  BY <1>8, <1>9

LEMMA ProducersAlive ==
    ASSUME Alive, Benign, IInv,
           (\E n \in Timers : TimerExpires(n)) \/ MicrophoneRecords \/ RecogniserSteps
    PROVE  Alive'
<1>1. crashed' = crashed
  BY DEF TimerExpires, MicrophoneRecords, RecogniserSteps
<1>2. CASE \E n \in Timers : TimerExpires(n)
  <2>1. PICK n \in Timers : mainQ' = Append(mainQ, Block(n, 0))
    BY <1>2 DEF TimerExpires
  <2>2. Block(n, 0) \in Blocks /\ Block(n, 0).kind # "noResult"
    BY DEF Block, Blocks, BlockKinds, Timers
  <2> QED
    BY <1>1, <2>1, <2>2, ResultsAppended DEF Alive
<1>3. CASE MicrophoneRecords
  <2>1. mainQ' = Append(mainQ, Block("chunk", sessionNo)) /\ sessionNo \in Nat
    BY <1>3, SessionAssumption DEF MicrophoneRecords, RecordChunk, IInv, TypeOK, Sessions
  <2>2. Block("chunk", sessionNo) \in Blocks /\ Block("chunk", sessionNo).kind # "noResult"
    BY <2>1 DEF Block, Blocks, BlockKinds
  <2> QED
    BY <1>1, <2>1, <2>2, ResultsAppended DEF Alive
<1>4. CASE RecogniserSteps
  <2>1. PICK c \in Calls : ServerAnswers(c) \/ CallEnds(c, "ok") \/ CallEnds(c, "error")
    BY <1>4 DEF RecogniserSteps
  <2>2. c \in Nat
    <3>1. calls \in Seq(Call)
      BY DEF IInv, TypeOK, ServiceTypeOK
    <3> QED
      BY <3>1, LenProperties DEF Calls
  <2>3. \A k \in {"result", "done"} : Block(k, c) \in Blocks /\ Block(k, c).kind # "noResult"
    BY <2>2 DEF Block, Blocks, BlockKinds
  <2>4. CASE ServerAnswers(c)
    <3>1. mainQ' = Append(mainQ, Block("result", c))
      BY <2>4 DEF ServerAnswers, Benign
    <3> QED
      BY <1>1, <2>3, <3>1, ResultsAppended DEF Alive
  <2>5. CASE CallEnds(c, "ok") \/ CallEnds(c, "error")
    <3>1. PICK q : HasResults(q) /\ mainQ' = Append(q, Block("done", c))
      BY <2>5, ResultsCancelled DEF CallEnds, Alive
    <3> QED
      BY <1>1, <2>3, <3>1, ResultsAppended DEF Alive
  <2> QED
    BY <2>1, <2>4, <2>5
<1> QED
  BY <1>2, <1>3, <1>4

\* A response without results and a unit that could not be made are all that
\* ends the process, in the app and in the tests
\* (AssistantViewControllerViewModel.swift:222, AudioController.swift:126).
THEOREM OnlyTraps == SafetySpec /\ Benign => []NeverCrashes
<1>1. Init => Alive
  BY EmptySeq DEF Init, Alive, HasResults
<1>2. Alive /\ Benign /\ IInv /\ [Next]_vars => Alive'
  <2>1. Alive /\ UNCHANGED vars => Alive'
    BY DEF vars, liveVars, machineVars, Alive
  <2> QED
    BY <2>1, TurnAlive, ProducersAlive DEF Next
<1>3. Benign => []Benign
  BY DEF Benign
<1>4. Alive => NeverCrashes
  BY DEF Alive, NeverCrashes
<1> QED
  BY <1>1, <1>2, <1>3, <1>4, Invariance, PTL DEF SafetySpec
=============================================================================
