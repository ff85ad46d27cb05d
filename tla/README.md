# speechAssistant: a verification project

speechAssistant is an iOS library (CocoaPod) that puts a microphone panel on a
screen of a host application.  The user taps the microphone, speaks, and the
host receives a transcript.  While the user speaks, the audio is streamed to
Google's Speech API over gRPC; after the transcript is delivered the whole
recording is uploaded to a bucket.  Paths below are relative to the
repository; `Classes/` stands for `speechAssistant/Classes/`.

## 1. Inventory

| part | source | state it keeps | operations |
|---|---|---|---|
| session view model | `Classes/AssistantViewControllerViewModel.swift` | `state`, `finished`, `currentTranscript`, `endingTask`, `maxEndingTask`, `processAudioData`, `savedAudioData`, `currentLanguage` | `startRecording`, `cancelRecording`, `languageChanged`, `processSampleData`, `processResponseObtained`, the property observers (`didSet`) that chain them |
| view controller | `Classes/AssistantViewController.swift` | the drawn state, the label, the language sheet | `recordAudio`, `cancelButtonPressed`, `languageButtonPressed`, `updateUIForState`, `updateUIForTranscript`, `updateLangugage` |
| assistant facade | `Classes/Assitant.swift` | `supportedLanguages`, `currentLanguage`, the view controller and view model | `setup`, `configureAssistant`, `languageChangeCallback`, `dataAndTranscriptCallback`, `showAlertController` |
| audio controller | `Classes/AudioController.swift` | `remoteIOUnit` | `prepare`, `start`, `stop`, `recordingCallback` (audio thread) |
| recognition service | `Classes/SpeechRecognitionService.swift` | `streaming`, `writer`, `call`, `languageCode` | `streamAudioData`, `stopStreaming` |
| gRPC call path | `GRXBufferedPipe.m`, `GRXForwardingWriter.m`, `GRPCCallLegacy.m`, `GRPCWrappedCall.m`, `GRPCCompletionQueue.m`, `GRXConcurrentWriteable.m`, `ProtoRPCLegacy.m` (vendored, `Example/Pods/gRPC*/`) | the pipe's `_state`, its write queue and how often that is suspended; `_writer`, `_writeable` of the forwarding writer; `_state` and the call queue of the call; `_cancelled`, `_alreadyFinished` | `writeValue`, `setState`, `startWithWriteable`, `finishWithError` of each; the handlers of the batches; `enqueueValue`, `enqueueSuccessfulCompletion`, `cancelWithError` |
| gRPC core call | `surface/call.cc`, `chttp2_transport.cc` (vendored) | the slots of the batches, the stream, the completion queue | `grpc_call_start_batch`, the completion of each operation, the end of the stream |
| main dispatch queue | Grand Central Dispatch (external) | the blocks waiting | async, asyncAfter, `DispatchWorkItem.cancel` |
| host application | `Example/speechAssistant/NavigationController.swift` and the screens | the navigation stack | `willShow` calls `configureAssistant`; `obtainedSpeechCallback` pushes a result screen |
| unit tests | `Example/speechAssistant_ExampleTests/` | - | call the view model's methods directly |
| upload requests | `Classes/Requests.swift`, `RequestManager.swift` | URL sessions | `uploadDataToGoogleCloud`, `writeToRealTimeDB` |
| waves layer | `Classes/WavesLayer.swift` | phase of an animation | a display link draws it |
| languages, constants | `Classes/Language.swift`, `Constants.swift` | - | - |
| generated Speech API, vendored pods | `Example/google/`, `Example/Pods/` | - | not this program's logic |

How the parts interact.  The view calls the view model on touches; the view
model calls the view and the facade through two weak delegates; the facade
calls the host.  Three other threads reach the view model, and all of them
through the **main dispatch queue**: the audio thread posts each rendered
buffer, gRPC posts each response and the completion of each call, and two
`asyncAfter` work items (2 s of silence, 15 s at most) are posted when their
time is up.

Below the recognition service four threads share one call.  The main thread
writes the configuration and the audio into a *pipe* and finishes it; the pipe
buffers on a *write queue* of its own, which is suspended while the pipe is
paused; each value goes through a *forwarding writer* to the *call*, which
pauses the pipe and queues a batch; the *completion loop* of the gRPC core runs
the batch's handler, which resumes the pipe, and on the call's status finishes
forwarding writer and pipe.  Responses go from the loop to the main queue, and
the next one is asked for only when the last has been run.

The facade owns one view controller and one view model, but the host may call
`setup` again: the old ones live on as children of a screen, share the audio
controller and the recognition service with the new ones, and their timers
still run.

What is hard in it.  Nothing runs in parallel inside the view model, but
everything that reaches it was decided earlier: a buffer recorded before
`stop`, an answer of a call that has been half-closed since, a work item that
expired just before it was cancelled.  A session can be ended in five ways
(cancel, the language button, silence, the 15 s limit, the host navigating),
which may be pending at the same time; whether a late block still counts is
decided by three pieces of state that are written at different moments
(`state`, `finished`, `streaming`).  Errors come from Core Audio and from the
network, and are mostly ignored.

On the call path the core accepts one message at a time and refuses a second
in silence; nothing counts them, only the pause of the pipe, set on one thread
and lifted on another, keeps to it.  The status of the call may come at any
moment: before the writer has been started, while it is paused, while its
resume is decided and not yet done.  An error must overtake responses that are
queued already, a success must not.

What makes each part correct.
- *Session*: one microphone, one bound, one transcript per session, none for a
  cancelled one; a session always ends; what is delivered (transcript, audio,
  language) belongs to the session it is delivered for.
- *View*: the label shows the transcript that would be delivered; the language
  does not change under a running session.
- *Audio controller*: nothing is recorded outside a session; a failing unit
  does not end the process.
- *Recognition service*: at most one call is open for writing; it belongs to
  the running session and is in the language the user selected.
- *Call path*: what the app writes arrives in order and without a gap; the
  core refuses nothing; no pause is forgotten; the end of the stream is told to
  the server, the end of the call to the app, once and after the right
  responses.
- *Facade*: touches reach the view model that the Assistant holds; the
  microphone that runs is the one that `stop` can reach; nothing that is
  unwrapped is nil, except the audio unit of a first `prepare` that fails.
- *Uploads*: only what is stored is logged, and failure is reported.

The hazards, each at its line and with the properties that watch it, are in
`PROJECT.json`; two of them have no property, with the reason beside them.

## 2. The modules

```
 MainQueue            the serial queue, its blocks, cancellation
   |        \
 AudioController   SpeechRecognitionService <---- RefinesService --+
        \            /                                            |
       AssistantSession      view model + view + facade + host     |
             |                                                     |
       SessionProperties ----INSTANCE--- SessionContract           |
        /            \                                            |
 SessionProofs    MCAssistantSession                               |
       |                                                           |
 SessionHostProofs                                                 |
                                                                   |
 CallCore <--- SpeechStream <--- StreamProperties -----INSTANCE----+
                                       |
                 StreamProofs <--- AnswerProofs <--- ServiceProofs

 UploadRequests <--- Assistant <--- AssistantProperties <--- AssistantProofs
```

The session is modelled against a recogniser whose call makes one step per
event.  `SpeechStream` is that call as it really is, and `RefinesService`
shows that it makes no step that the simple one does not.  `Assistant` looks at
the same view model from outside: several of them, without their audio and
their queue, and with what surrounds them.

| module | models |
|---|---|
| `MainQueue` | the queue as a sequence of blocks `[kind, of]`: what runs, and for which session or call |
| `AudioController` | the RemoteIO unit (`"nil"`, `"raw"`, `"ready"`), whether it runs, the recording callback |
| `SpeechRecognitionService` | the `streaming` flag, every call ever opened, the recogniser's answers and how gRPC posts them |
| `AssistantSession` | every operation of the view model, the touches, the host's calls, the blocks of the queue, and the environment |
| `SessionProperties` | type invariant, invariants and action properties, the mapping to `SessionContract`, and the parts of the inductive invariant |
| `SessionContract` | the abstract machine a host programs against: listen, hear, and one of deliver, cancel, give up |
| `MCAssistantSession` | values for TLC |
| `SessionProofs` | the theorems about sessions in every environment |
| `SessionHostProofs` | those that need a host that waits, and those that need a prompt queue besides; what may end the process |
| `CallCore` | one client call of the gRPC core: batch slots, the HTTP/2 stream, the completion queue |
| `SpeechStream` | one streaming call from `streamAudioData` and `stopStreaming` to the core and back to the closure |
| `StreamProperties` | type invariant, invariants, action and liveness properties of the call path, and its mapping to `SpeechRecognitionService` |
| `StreamProofs` | the theorems about what the app sends, and the order of what it is told |
| `AnswerProofs` | that no response of a successful call is lost, and when a writer may be left unstarted |
| `ServiceProofs` | that the call path implements the call of `SpeechRecognitionService` |
| `UploadRequests` | the two requests of each recording, their answers and failures |
| `Assistant` | setup, configureAssistant, panels, sheets, alerts, several view models on the shared singletons |
| `AssistantProperties` | what a host may rely on, if it keeps the order of the README and if not |
| `AssistantProofs` | the theorems about the facade and the uploads |

### State of a session

| variable | code |
|---|---|
| `mainQ` | blocks posted to `DispatchQueue.main` and not yet run |
| `remoteIOUnit`, `micRunning` | the audio unit and whether `AudioOutputUnitStart` has it running |
| `streaming`, `calls` | the flag, and the sequence of calls whose last element is `writer`/`call`; per call its language, whether the app half-closed it, and what the server did with it |
| `state`, `finished`, `currentTranscript` | the view model's properties; a transcript is named by the call it answers (0 is nil) |
| `timer` | `endingTask` and `maxEndingTask`: idle, armed, or expired and in the queue |
| `processAudioData` | buffered chunks, counted |
| `savedAudioData` | the set of sessions whose chunks the saved audio holds |
| `language` | the four copies of the current language: view model, facade, screen, recogniser |
| `screen`, `label`, `sheetShown` | what the view last drew, the label, the language sheet |
| `crashed` | a trap or an uncaught exception ended the process |
| `sessionNo`, `deliveries`, `lastDelivery`, `cancelled` | history: they record what happened for the properties and guard nothing, except that `sessionNo` is bounded |

### State of a call (`CallCore`, `SpeechStream`)

| variable | code |
|---|---|
| `slot` | `active_batches` of `grpc_call`: free, running, completed with its event queued, or used up |
| `cq`, `outgoing`, `rejected` | the completion queue; the message of the last SEND_MESSAGE; whether a batch was ever refused |
| `stream`, `sent`, `halfClosed`, `unread`, `answered` | the HTTP/2 stream: how it was closed, what was written to it, what came in and was not asked for |
| `main` | where the main thread is in `streamAudioData` |
| `pipeState`, `pipeTarget`, `writeQueue`, `suspended` | `_state`, `writeable`, `_writeQueue` of the pipe, and the suspension count of that queue |
| `fwdWriter`, `fwdTarget` | `_writer` and `_writeable` of the forwarding writer: set or nil |
| `callState`, `callQueue`, `loop` | `_state` and `_callQueue` of the call, and which step of its handler the completion loop is at |
| `responses`, `cancelled`, `alreadyFinished` | the blocks posted to the main queue and the flags of `GRXConcurrentWriteable` |
| `inHand` | the response whose block has read `_cancelled` and has not yet been delivered: whether it will parse, or none |
| `written`, `delivered`, `unparsed` | history |

### State of the facade (`UploadRequests`, `Assistant`)

| variable | code |
|---|---|
| `setups` | view models made; the last is the Assistant's and the audio controller's delegate |
| `state`, `finished`, `heard`, `due` | of each view model: `state`, `finished`, is `currentTranscript` set, is a work item pending |
| `units`, `stream` | every audio unit made (the last is `remoteIOUnit`): raw, idle or running; whose closure the open call has |
| `panels`, `shown`, `presented` | the assistant views on each screen in their order, the screen, the sheet or alert over it |
| `recordings`, `upload`, `logPost`, `callbacks` | the URL session's tasks and the handlers on the main queue |
| `stored`, `logged` | what the two servers hold |
| `sessions`, `told`, `alerted`, `misused` | history; `crashed`: a nil was unwrapped |

### Actions

In the session and the facade, one action is one turn of the main thread, one step of another thread, or one
expiry.  A turn includes every observer that the code chains: `FinishTrue` is
`finished = true` with the delivery it makes and the whole `didSet` of
`state = .ENDED` behind it.

| action | code |
|---|---|
| `RecordTapped`, `CancelTapped`, `LanguageButtonTapped`, `LanguagePicked`, `SheetDismissed` | the targets and sheet handlers of `AssistantViewController.swift` |
| `ConfigureAssistant` | `configureAssistant`, called by the host's `willShow` |
| `TestCalls` | the calls that the XCTests make, in any order |
| `RunChunk` | `processSampleData` and `streamAudioData` |
| `RunResult`, `RunNoResult`, `RunIgnored` | the completion closure of `streamAudioData`: a response, a response without results, a completion or a cancelled block |
| `RunTimer` | the work items: `finished = true` |
| `TimerExpires` | a deadline passes and GCD queues the work item |
| `MicrophoneRecords` | `recordingCallback` |
| `RecogniserSteps` | the server answers a call or the call ends |
| `StartCrashes` | `start` unwraps a unit that `prepare` failed to make |

On the call path an action is what one thread does between two moments at
which it holds no lock.  The write queue takes the pipe's lock and under it the
forwarding writer's; no thread takes them the other way round
(`GRXForwardingWriter.setState` lets go before it sets the writer's state), so
a value's way through both is one step, and `FinishForwarding` and
`FinishWriter` are two.  The block of a response reads `_cancelled` under a
lock that it lets go before it calls `writeValue:`, and so `CheckAnswer` and
`RunAnswer` (or `RunBadAnswer`) are two steps, between which the loop may
cancel; the block stays at the head of the main queue until the second.  `OpenCall`, `InvokeCall`, `StartForwarding`,
`StartPipe`, `ResumeWriteQueue` and the first `WriteRequest`s are one turn of
the main queue that the other threads see step by step.

| action | code |
|---|---|
| `OpenCall` ... `ResumeWriteQueue`, `CallNotMade` | `call.start()` down to `dispatch_resume` |
| `WriteRequest`, `StopStreaming` | the app's writes, and `finishWithError(nil)` |
| `PipeStep`, `CallQueueStep` | one block of the write queue, one of the call queue |
| `WriteDone`, `ResumeWriter` | the resuming handler of SEND_MESSAGE, in its two halves |
| `HeadersReceived`, `MessageReceived`, `StatusReceived`, `FinishForwarding`, `FinishWriter` | the other handlers |
| `MessageNotHeld`, `CancelCall` | the read handler when memory cannot hold the response: the call finishes, and is cancelled in the core |
| `CheckAnswer`, `RunAnswer`, `RunBadAnswer`, `RunEnd`, `RunDropped` | the blocks of `GRXConcurrentWriteable` |
| `HeadersSent`, `MessageSent`, `CloseSent`, `HeadersArrive`, `MessageRead`, `NoMoreMessages`, `StatusArrives` | the stream completes an operation |
| `ServerSends`, `StreamEnds` | the server and the network |

| action of the facade | code |
|---|---|
| `Setup`, `SetupAndShow`, `ConfigureAssistant`, `ConfigureTooEarly` | the host's calls |
| `RecordTapped` ... `Dismissed` | touches, on the topmost panel only; a start makes a unit, or keeps the old one, and may fail to run it |
| `StartTraps` | the first `prepare` fails and `start` unwraps nil |
| `RunChunk`, `RunAnswer`, `RunTimer` | as in the session, for the view model that each reaches |
| `Deliver` | `dataAndTranscriptCallback`, the host's callback with the screen it may push, the upload |
| `UploadAnswered`, `UploadFails`, `LogEnds`, `RunReport` | the handlers of the two requests and the block on the main queue |

### Abstractions

- **Audio is counted, not rendered.**  `processAudioData` is a number of
  chunks, the threshold (`0.1 * sampleRate` bytes, strictly exceeded) is
  `ChunkSize` chunks.  The saved audio keeps only whose it is.
- **A transcript is the number of the call it answers.**  Words do not matter
  to any property; where they come from does.
- **Time is order.**  An armed timer may expire at any moment.  This allows
  orders that 2 s and 15 s would exclude when the main thread is responsive,
  and none that the code excludes otherwise: a busy main thread delays blocks
  arbitrarily.
- **A cancelled work item stays in the queue as a `"skipped"` block.**  GCD
  runs a cancelled `DispatchWorkItem` as nothing.  In the same way an error
  completion of gRPC turns the responses still queued for that call into
  nothing (`_cancelled` in `GRXConcurrentWriteable.m`), while a successful one
  queues behind them.  The one response that has been checked by then is
  delivered; to the session that is as if it had come before the error.
- **A crash freezes the state.**  `crashed` disables every other action.
- **The host's re-entrant call is one turn.**  `obtainedSpeechCallback` pushes
  a screen, and `willShow` may call `configureAssistant` before
  `finished.didSet` goes on to `state = .ENDED`.  Either order leaves the same
  state, since the second assignment of `.ENDED` does nothing.
- **`prepare` fails in two ways**: it returns before it replaces the unit (the
  old one, or nil, stays) or after (the unit exists and is not initialised).
  A unit that was not initialised never records.  An `AudioComponentInstanceNew`
  that fails leaves what it was given.
- **`stop` succeeds.**  `AudioOutputUnitStop` returns a status that
  `AudioController.stop` drops (line 131); a unit that could not be stopped is
  outside both models.  So is a device without a RemoteIO component (line 67).
- **Left out of the view**: the layout, the animation, the width of the
  buttons, and the loading state of the xib.

- **A message is its number**; the configuration is 1.  A batch is the
  operation it holds.  The core's flow-control windows are one fact: the stream
  takes a message when it likes.
- **The refused batch.**  `grpc_call_start_batch` returns an error that
  `GRPCWrappedCall` asserts on in debug builds and ignores in others; the model
  records it in `rejected` and goes on, as a release build does.
- **Several view models share what is static.**  In `Assistant` a chunk that
  is rendered is processed at once and the main queue is otherwise idle; late
  blocks are the business of `AssistantSession`.

### Parameters that describe the environment

| constant | meaning |
|---|---|
| `Driver` | `"app"`: touches and the host; `"tests"`: a bare view model with no delegates, as in the XCTests |
| `HostNavigates` | may the host show another screen while a session runs (a back swipe, a deep link)? |
| `LateAnswers` | may a half-closed call still be answered?  The server does finish what it received |
| `PromptQueue` | does every block run before the next event?  The idealised, idle main thread |
| `AudioMayFail`, `EmptyResults` | may `prepare` and `start` fail; may a response carry no result (`cloud_speech.proto` allows it)? |
| `QueueRoom`, `MaxSessions`, `ChunkSize`, `Languages`, `Supported` | sizes |
| `CallMayFail`, `BadAnswers` | may the call fail to be made; may a response not fit in memory, or fail to parse? |
| `MaxAnswers`, `MaxWrites` | bounds of the call path |
| `MaxSetups`, `MaxSessions`, `MaxRecordings`, `Screens` | bounds of the facade |

## 3. The runs

| run | environment | checks |
|---|---|---|
| `session_core` | everything on except empty results: late answers, navigation, audio failures; queue room 2, 2 sessions, 2 languages, threshold after 2 chunks | `IInv` (the inductive invariant, `TypeOK` with it) and the first group of `SessionProperties`: microphone, bound, one delivery, cancel is final, silence follows speech, one open stream, language fixed |
| `session_contract` | the host leaves running sessions alone; late answers; no audio failure; fairness | `KeepsContract` (refinement of `SessionContract`, liveness included), `EndedIsClean`, `LabelShowsTranscript`, `DeliversOnlyWhileListening`; deadlock |
| `session_prompt` | besides, an idle main thread and no answer to a half-closed call; 3 sessions; audio failures | `TypeOK`; transcripts, audio, stream and language belong to their session |
| `as_tested` | the XCTests' way of calling: any method in any state, no delegates; empty results, audio failures | `EndedIsClean`, `SessionIsBounded` |
| `speech_stream` | one call; it may fail to be made, responses may not parse; 2 responses, 3 messages; fairness | towards the core: `NoBatchRefused`, `SentInOrder`, `NothingFollowsClose`, `SuspendedOnce`, `PauseIsPaidBack`; towards the app: `OneResponseInFlight`, `SuccessIsComplete`, `ErrorOvertakes`; progress: `WritesFlow`, `StopIsSent`, `EndIsTold`; and `RefinesService` (188193 states) |
| `assistant` | 2 setups in any order, 2 screens, 3 sessions, 2 recordings, alerts and sheets, audio failures (696012 states); fairness of the timers | for a host that keeps the order: `OnlyFirstUnitTraps`, `MicrophoneFollowsSession`, `StreamBelongsToSession`, `TouchesReachLatest`, `RecordingsAreSessions`; for any host: `LoggedIsStored`, `EverySessionEnds` |

The three groups of session properties are the result of the exercise as much as the
properties: a promise stands in the first group if it holds in every
environment, in the second if the host has to leave running sessions alone,
and in the third if it needs an idle main thread and a silent server.  The
violation runs show that none of these assumptions can be dropped.

Bounds, and why they suffice.
- *Two sessions* is the least number in which something of one session can
  reach another; `session_prompt` takes three, so that a call opened between
  two sessions can reach a third.
- *Queue room 2* limits the chunks and answers only: they are posted while the
  queue is shorter than 2, so two of them can be out of order with each other;
  work items and completions always find room, as in the code.  The queue is
  therefore longer than 2 in many states.
- *ChunkSize* 1 (upload with the second chunk) in the first three runs, so that
  buffered audio can outlive a reset if one is forgotten; 0 (with every chunk)
  where the microphone's audio is not the question.
- *Two languages* are enough for one to differ from the selected one.

- *Three messages* are the configuration, a chunk in flight and a chunk that
  waits: what a pause is about.  *Two responses*: one that is being delivered
  and one that must not be read yet.
- *Two setups, two screens, three sessions*: the least in which a panel, a unit
  and a call of the first view model can meet the second one, and a session of
  either can follow.  With audio failures the units are fewer than the
  sessions, or raw; a session that keeps the unit of one before it needs two
  sessions, and the third lets one of the other view model follow.

Deadlock is checked in `session_contract`: the host can show a screen whenever
no session runs, and in a session a timer, a block or a touch is possible.  The
other configurations say `CHECK_DEADLOCK FALSE`, because there the process may
end (`crashed`), or the specification is checked for one violation only.

Every property of a passing run is also checked against a mutant of the code
(the *fault* operators beside the definitions: a work item that is not
cancelled, a flag that is not reset, an answer that always counts, ...), which
breaks it.

### Fairness

For sessions, `Spec` asks two things: the main thread eventually runs the block at the head
of its queue, and an armed timer eventually expires.  GCD serves a serial
queue in order and `asyncAfter` fires at its deadline; nothing in the code
blocks the main thread.  The fairness is weak and enough: a queue stays
non-empty until its head is run, and an armed timer stays armed until it
expires or is cancelled.  The user, the host, the microphone and the server owe
nothing; so a session in which the server never answers ends by the 15 s
timer alone, which is what `KeepsContract` shows.

For a call, every thread goes on (a dispatch queue that is not suspended runs
its blocks, the completion loop takes the next event), and the stream sends the
headers, a message and the half-close it was given once it can: it takes a
message unless it is closed, which is the server's flow control.  Of what it
receives nothing is asked, not even that it hands it over.  The app need not
write or stop, and the server need not answer or end.

For the facade, a work item that is due runs.  Nobody need dismiss an alert or
a sheet.

## 4. What the code does not keep

Six runs end in a violation.  Each property states what a comment or an
interface file of the repository says.

| run | what happens |
|---|---|
| `late_answer` | cancel, tap again; an answer of the first session's call arrives while `finished` is nil and is delivered as the second session's transcript |
| `call_error` | the call of a running session fails; the completion has no response, so `processResponseObtained` never sees the error and the session goes on |
| `empty_result` | a response without results is indexed at 0 |
| `error_overtaken` | the block of a response finds `_cancelled` false and lets the lock go; the loop receives a failing status and calls `cancelWithError`; the response is delivered after it |
| `writer_not_started` | the status of the call arrives between its first batch and the start of its writer; the forwarding writer is finished, forgets the pipe, and the pipe collects audio that nobody will take |
| `refused_upload` | the bucket answers 500; the handler is told of a success and the alert says "File Uploaded" |

Seven more configurations beside them are not among the runs; each also ends
in a violation and can be given to TLC by hand.

| configuration | module | what happens |
|---|---|---|
| `host_navigates.cfg` | `MCAssistantSession` | `configureAssistant` ends a session without a verdict; a late answer re-arms the silence timer and is delivered, with no audio, although nobody listens |
| `late_chunk.cfg` | `MCAssistantSession` | a buffer recorded before `stop` runs after it, and opens a call that nothing half-closes until the next session ends |
| `stale_language.cfg` | `MCAssistantSession` | the call of a late chunk keeps its language when the user picks another; the next session streams to it |
| `audio_failure.cfg` | `MCAssistantSession` | the first `prepare` fails and `start` unwraps nil |
| `last_words.cfg` | `StreamProperties` | `stopStreaming` finishes the pipe while audio waits in its write queue; the half-close goes out at once and the audio behind it is dropped.  `GRXBufferedPipe.h` buffers the end only for `writesFinishedWithError:`, so nobody promises these words |
| `pipe_leak.cfg` | `StreamProperties` | a pipe that is paused when it is finished stays paused, its queue suspended with the blocks that hold it |
| `dropped_alert.cfg` | `AssistantProperties` | an upload is reported while the language sheet is up; UIKit drops the alert |

Two things have no property because nothing promises otherwise: an upload that
fails on the way is told to nobody (`UploadFails`), and a last response that
does not parse is lost without an error when the call has already finished
(`SuccessIsComplete` says exactly that).  What a host gets that calls `setup`
in the middle of a session is not promised either: the microphone of the old
session can outlive it, because `stop` reaches the newest unit only, and the
old panel's audio traps in a view model without buffers.  That is why the first
group of `AssistantProperties` starts with `~misused`.

## 5. The contract

`SessionContract` is what a host programmer may believe: sessions follow one
another, a session hears something or not, and ends once - delivered if
something was heard, cancelled, or silent - and every session ends.  The mapping
is in `SessionProperties`: a session is listening while `state` is STARTED,
has heard something if `currentTranscript` is set, and its outcome is read off
the history.  `session_contract` checks that each step of the app is a step of
the contract or leaves it unchanged, and that its fairness follows from the
app's.  It holds with late answers and with blocks left over in the queue; it
does not hold if the host navigates within a session, which ends without
cancel or verdict even though words were heard.

## 6. Proofs

Six modules hold theorems.  Each theorem holds for every value of the constants
that satisfies the modules' assumptions, where a run takes one.  Every safety
invariant and every action property that a passing run checks is one of them;
where the statement has a hypothesis, it is an environment of section 2, the
same as that of the run.

### Sessions (`SessionProofs`)

Any number of sessions and languages, any queue room and threshold, either
driver, and every environment.

| theorem | states |
|---|---|
| `Invariance` | `SafetySpec => []IInv` |
| `TypeCorrect` | `SafetySpec => []TypeOK` |
| `MicrophoneSafe` | `SafetySpec => []MicrophoneOnlyInSession` |
| `Bounded` | `SafetySpec => []SessionIsBounded` |
| `AtMostOnce` | `SafetySpec => []DeliveredAtMostOnce` |
| `CancelFinal` | `SafetySpec => []CancelIsFinal` |
| `SilenceSafe` | `SafetySpec => []SilenceFollowsSpeech` |
| `Streams` | `SafetySpec => []OneOpenStream` |
| `LanguageFixed` | `SafetySpec => LanguageFixedInSession`, for the app driver |

The argument.  The promises are not inductive.  *One delivery per session*, for
instance, needs that a session that delivered has `finished` set; that an
answer is ignored then, so the silence timer cannot be armed again; that no
expired work item is left in the queue either; and that only a start clears
`finished`, which also counts a new session.  `IInv` names these parts:

- `QueueOK`: a timer has expired exactly if its work item is in the queue, and
  then once.  This is why cancelling is modelled on the queue itself.
- `VerdictOK`: a session that runs has no verdict, one with a verdict has no
  silence timer, the view shows what the state is, and the language sheet is
  never up in a session.
- `HistoryOK`: a session that delivered or was cancelled has its verdict, and
  sessions to come have done neither.
- `StreamOK`: how far the calls may run ahead of the sessions, and that only
  the last one is open.
- `BoundOK`, `FreshOK`: the 15 s timer runs in a session and only then; before
  the first start nothing has happened.

The module first proves what the queue operators preserve (`Append`, `Tail`,
`Cancel` against `QueueOK`), then what `SetStarted`, `SetEnded`, `StopStreaming`
and `ProcessResponseObtained` do to the invariant's parts, then one lemma per
action, and combines them.  `LanguageFixed` is proved from `IInv` for the app
driver: the tests may call `languageChanged` in any state, where it does not
hold.

### A host that waits, a prompt queue (`SessionHostProofs`)

`HostWaits` is `Driver = "app" /\ ~HostNavigates`; `PromptHost` adds
`PromptQueue /\ ~LateAnswers`; `Benign` is `~AudioMayFail /\ ~EmptyResults`.
Nothing else is assumed: late answers, failing units and empty results are
allowed wherever the hypothesis does not exclude them.

| theorem | states |
|---|---|
| `CleanEnd` | `SafetySpec /\ (HostWaits \/ Driver = "tests") => []EndedIsClean` |
| `LabelTrue` | `SafetySpec /\ HostWaits => []LabelShowsTranscript` |
| `DeliversInSession` | `SafetySpec /\ HostWaits => []DeliversOnlyWhileListening` |
| `ContractKept` | `SafetySpec /\ HostWaits => Contract!ContractSafety` |
| `LiveTranscript` | `SafetySpec /\ PromptHost => []DeliversLiveTranscript` |
| `OwnAudio` | `SafetySpec /\ PromptHost => []DeliversOwnAudio` |
| `StreamInSession` | `SafetySpec /\ PromptHost => []NoStreamOutsideSession` |
| `StreamLanguage` | `SafetySpec /\ PromptHost => []StreamUsesSelectedLanguage` |
| `OnlyTraps` | `SafetySpec /\ Benign => []NeverCrashes` |

The argument.  A session that the host does not end from outside ends through
`finished`, so that between two sessions nothing is heard, shown or timed
(`BetweenSessions`).  The one moment at which `finished` is nil and no session
runs is before the first; `QuietOK` says that there is nothing to run then.
`ContractKept` maps each action: `StartRecording` begins a session of the
contract, the first answer is heard, `FinishTrue` delivers or is silent, a
cancel cancels, and everything else leaves the contract where it was, because
an answer that is not the first leaves the transcript set.

For the third group the queue holds one block at most, and what the block says
is still true when it runs (`QueueIsFresh`): that is the invariant the prompt
queue buys.  With it the open call is of the running session and in its
language (`CallIsFresh`), and so are transcript and saved audio
(`TranscriptIsFresh`).

`OnlyTraps` qualifies the run `empty_result` and the configuration
`audio_failure.cfg`: what they find is all there is.  Its invariant is that no response
without results is in the queue.

### A call (`StreamProofs`)

Any number of messages and responses, whether or not calls may fail to be made
and responses may fail to parse.

| theorem | states |
|---|---|
| `StreamTypeCorrect` | `SafetySpec => []StreamTypeOK` |
| `SuspendBalance` | `SafetySpec => []SuspendedOnce` |
| `NeverRefused` | `SafetySpec => []NoBatchRefused` |
| `OneAtATime` | `SafetySpec => []OneResponseInFlight` |
| `CloseIsLast` | `SafetySpec => []NothingFollowsClose` |
| `MessagesInOrder` | `SafetySpec => []SentInOrder` |
| `PauseSafe` | `SafetySpec => []PauseIsPaidBack` |
| `NothingAfterEnd` | `SafetySpec => ErrorOvertakes` |

The argument.  No thread knows what the others do, so the invariant says who
may do something, and that it is one of them.

- `PipeInv`: who has suspended the write queue.  It is the reason why a message
  is passed on only by a pipe in the state Started.
- `QueueInv`: an operation waits in one place only, once in the call queue or
  in its slot of the core, whose event is once in the completion queue.
- `WriterInv`: a pipe that is not paused has no message under way
  (`Idle("sendMessage")`), and neither has the loop when it is about to resume
  the pipe.  It rests on the pipe never being connected to the call without
  the forwarding writer that would pause it.
- `OnceInv`, `ReaderInv`: the operations that start once, and that nobody reads
  while an answer waits in the main queue.

Together they are `CallInv`, from which `NoBatchRefused` and
`OneResponseInFlight` follow.  On top of it, `FlowInv` (`PipeOrder`,
`CallOrder`) numbers the messages: what has left the write queue is sent, but
for one under way, as long as the stream, the call and the pipe live.
`PauseInv` adds that a write fails only on a stream that has ended.  What the
steps do to the call queue and the slots is proved once (`PostBlock`,
`StartBlock`, `CompleteBlock`, `TakeBlock`) and used for every action.

`NothingAfterEnd` qualifies the run `error_overtaken`: of the responses that
wait when a call is cancelled only the one that was checked before can still
reach the app, and none after the end.

### The answers of a call (`AnswerProofs`)

| theorem | states |
|---|---|
| `SuccessTold` | `SafetySpec => []SuccessIsComplete` |
| `LiveWriterStarted` | `SafetySpec => [](callState # "Finished" => OpenWriterStarted)` |

The argument.  A response that the server gave is in one of five places: in the
stream and not asked for, in the completion queue, in the main queue, delivered,
or dropped because it did not parse.  `Balance` counts them, as long as the call
may still succeed.  To conclude from it that all of them have been delivered
when the success is told, four facts are needed about the order in which three
threads act: the status is behind every response in the completion queue
(`StatusLast`), a call finishes without an error only on a stream that has given
everything, with one response still waiting at most (`FinishOK`), the success is
queued behind that one and told after it (`SuccessLast`), and an answer is the
only thing that is ever delivered before (`OnlyAnswers`).

`LiveWriterStarted` qualifies the run `writer_not_started`, where the pipe
collects audio that nobody takes: that happens to a call that has ended only.

### The call path is the service (`ServiceProofs`)

`CallPathIsService` is `SafetySpec => RefinesService`: initial states map to
initial states, and every step of the four threads is one of
`SpeechRecognitionService` (the app opens, writes or half-closes; the server
answers; the call ends; a block runs) or leaves it unchanged.  So each call of
the session model stands for the real path of one call, with any number of
messages and responses; that calls do not disturb each other is not part of the
theorem (each has a pipe, a writer and a `GRPCCall` of its own).

The mapping reads the main queue of the service off `responses`, so the module
first proves what it does to the queue: an append is an append, the head is the
head, and an error turns what waits into blocks that do nothing, which is what
cancelling does to the queue of the service.  Two facts join the invariants of
the modules before it: a call that has finished reads no response any more
(`FinishedReads`), and no end is queued before the call has one (`LiveQueue`).
Without the first, a response could come out of a call that the service holds
to be over.

### The facade (`AssistantProofs`)

Any number of setups, screens, sessions and recordings, any host and any
servers.  The properties of the first group begin with `~misused`: the host has
kept the order of the README.

| theorem | states |
|---|---|
| `FacadeInvariance` | `SafetySpec => []FacadeInv` |
| `FacadeTypeCorrect` | `SafetySpec => []AssistantTypeOK` |
| `OnlyFirstUnitTrapsInOrder` | `SafetySpec => []OnlyFirstUnitTraps` |
| `MicrophoneReachable` | `SafetySpec => []MicrophoneFollowsSession` |
| `StreamOfListener` | `SafetySpec => []StreamBelongsToSession` |
| `LatestIsTouched` | `SafetySpec => []TouchesReachLatest` |
| `OneRecordingPerSession` | `SafetySpec => []RecordingsAreSessions` |
| `LogSafe` | `SafetySpec => []LoggedIsStored` |

The argument.  `FacadeInv` has three parts.  *Screens*: the panels on a screen
are distinct view models (`PanelsOK`), so that there is room for one more
whenever the last is not among them; on the screen that is shown the last one
is on top, and a language sheet is the last one's (`TopOK`).  That is why a
touch reaches the view model that the Assistant holds.  *Sessions*: only the
last view model is in a session, and a unit that runs, the call and the work
items are of that session (`SessionsOK`); a setup in the middle of one would
break it, and sets `misused`.  The session may be without a unit that runs,
since `prepare` and `start` may fail (`AudioStarted` says what they leave), and
it is the first of those failures that may trap: the theorem says that nothing
else does.  *Made*: work items, call and sheet are of view
models that exist (`MadeOK`), which is needed even of a host that keeps no
order.  `LogSafe` needs an invariant of its own only: a log entry on its way is
of a stored recording too.

## 7. What is only model-checked, and what cannot be proved here

- Liveness: `WritesFlow`, `StopIsSent`, `EndIsTold`, `EverySessionEnds`, and in
  `KeepsContract` that every session of the contract ends.  TLAPS proves neither
  liveness under fairness nor `ENABLED`.  The safety of `KeepsContract` is
  `ContractKept`.
- Deadlock freedom of `session_contract`, which is `ENABLED Next`.
- The violation runs.  A counterexample is a behaviour, and TLC gives it.  Three
  of the theorems say how far the counterexamples reach (`OnlyTraps`,
  `LiveWriterStarted`, `NothingAfterEnd`).

The provers cannot instantiate the library's induction theorems either, so
nothing is proved by induction over data; the models need none, and no operator
of these modules is RECURSIVE, which tlapm could not reason about.

## 8. Not modelled, and the plan

| part | why not |
|---|---|
| several utterances, `is_final` | transcripts are named by the call that heard them; what the recogniser puts into the results of a response is stated in the proto only, and the code takes index 0 |
| waves layer | drawing; its display link changes nothing that another part reads |
| `GRPCCall.cancel`, OAuth tokens, flow-control reads, unary calls, compression | in the same files as the call path, and not reached by this app: it sets no token, never cancels a call, and makes one kind of call |
| the core below a call: resolver, balancer, subchannels, retries, HTTP/2 framing, TLS | hundreds of files; `CallCore` keeps what a call sees of them: a stream that takes and gives messages in order and ends once, with a status |
| the core's other clients and servers, generated API, BoringSSL, Protobuf, other pods | not this program's logic |

The share of the repository that the modules stand for is small, because almost
all of it is vendored.  Of the app's own files every one that keeps state is
modelled, but for the waves layer.

Left of the plan: nothing of the safety that the runs check.  Worth adding are
consequences of the contract (at most one outcome per session, no outcome
without a start) as theorems of `SessionContract` itself, and the positive
counterparts of the other violation runs, as `OnlyTraps` and `NothingAfterEnd`
are of theirs: under which hypothesis `ErrorEndsSession` and
`SuccessMeansStored` do hold, and `AudioPrecedesClose` beside them.
