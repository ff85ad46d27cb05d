------------------------------ MODULE Assistant ------------------------------
(***************************************************************************)
(* Assitant.swift, the only part a host sees: setup and configureAssistant *)
(* in any order and number, the panels they leave on the host's screens,   *)
(* and the singletons (AudioController, SpeechRecognitionService) that all *)
(* view models share.  A view model is as in AssistantSession, without its *)
(* audio data; the main queue is idle between two events.                  *)
(***************************************************************************)
EXTENDS UploadRequests, FiniteSets

CONSTANTS MaxSetups,     \* bound: calls of setup
          Screens,       \* the host's view controllers
          MaxSessions,   \* bound: sessions begun
          AudioMayFail   \* may the calls to Core Audio return an error?

ASSUME AssistantAssumption ==
    /\ MaxSetups \in Nat /\ MaxSessions \in Nat
    /\ "none" \notin Screens
    /\ AudioMayFail \in BOOLEAN

VARIABLES
    setups,      \* view models made; the last one is the Assistant's
    state,       \* `state` of each view model
    finished,    \* its `finished`
    heard,       \* is its currentTranscript set?
    due,         \* is one of its work items pending?
    units,       \* the audio units made; the last one is remoteIOUnit
    stream,      \* the view model whose closure the open call has, or 0
    panels,      \* the assistant views on each screen, the topmost last
    shown,       \* the screen that is shown, or NoScreen
    presented,   \* what is presented over it: [kind, the view model of a sheet]
    sessions,    \* history: sessions begun
    told,        \* history: recordings whose handler has run
    alerted,     \* history: recordings whose alert was shown
    crashed,     \* did a nil that is unwrapped end the process?
    misused      \* history: has the host left the order the README describes?

singletonVars == <<units, stream>>
screenVars == <<panels, shown, presented>>
historyVars == <<told, alerted, misused>>
sessionVars == <<state, finished, heard, due, sessions>>
vars == <<uploadVars, setups, sessionVars, singletonVars, screenVars, crashed, historyVars>>

ViewModels == 1..MaxSetups
NoScreen == "none"
Nothing == [kind |-> "none", of |-> 0]

Init ==
    /\ UploadInit
    /\ setups = 0
    /\ state = [v \in ViewModels |-> "nil"] /\ finished = state
    /\ heard = [v \in ViewModels |-> FALSE] /\ due = heard
    /\ units = <<>> /\ stream = 0
    /\ panels = [s \in Screens |-> <<>>] /\ shown = NoScreen /\ presented = Nothing
    /\ sessions = 0 /\ told = {} /\ alerted = {} /\ crashed = FALSE /\ misused = FALSE

-----------------------------------------------------------------------------
(* The view models.                                                        *)

\* AudioOutputUnitStop of a unit that runs; it is taken to succeed.
Stopped(unit) == IF unit = "running" THEN "idle" ELSE unit

\* Faults: the microphone, or the stream, is forgotten.
StopStreamOnly == stream' = 0 /\ UNCHANGED units
StopUnitOnly ==
    /\ units' = IF units = <<>> THEN units ELSE [units EXCEPT ![Len(units)] = Stopped(@)]
    /\ UNCHANGED stream

\* AudioController.stop stops the unit made last.
StopAudio ==
    /\ units' = IF units = <<>> THEN units ELSE [units EXCEPT ![Len(units)] = Stopped(@)]
    /\ stream' = 0

\* Fault: the transcript and the work items outlive the session.
EndAudioOnly(ending, fired) ==
    /\ state' = [v \in ViewModels |-> IF v \in ending THEN "ENDED" ELSE state[v]]
    /\ UNCHANGED <<heard, due>>
    /\ IF \E v \in ending : state[v] # "ENDED" THEN StopAudio ELSE UNCHANGED singletonVars

\* state = .ENDED in the view models of `ending`; a work item of one of
\* `fired` has just run.
EndSessions(ending, fired) ==
    LET changed == {v \in ending : state[v] # "ENDED"} IN
    /\ state' = [v \in ViewModels |-> IF v \in ending THEN "ENDED" ELSE state[v]]
    /\ heard' = [v \in ViewModels |-> heard[v] /\ v \notin changed]
    /\ due' = [v \in ViewModels |-> due[v] /\ v \notin changed \cup fired]
    /\ IF changed # {} THEN StopAudio ELSE UNCHANGED singletonVars

\* Fault: the work item for the longest session is forgotten.
Unbounded(v) == due' = due

Bounded(v) == due' = [due EXCEPT ![v] = TRUE]

\* prepare makes a unit; if it fails early it leaves the old one, and later a
\* raw one.  (The component it asks for exists on every device.)
Prepared == {Append(units, "idle")} \cup
            IF AudioMayFail THEN {units, Append(units, "raw")} ELSE {}

\* Then start, whose status nobody reads: a raw unit does not run.
Started(unit) ==
    IF unit = "raw" THEN {"raw"} ELSE {"running"} \cup IF AudioMayFail THEN {unit} ELSE {}

StartAudio ==
    \E made \in Prepared \ {<<>>} :
       \E unit \in Started(made[Len(made)]) : units' = [made EXCEPT ![Len(made)] = unit]

\* state = .STARTED: the session begins with the microphone or without it.
StartSession(v) ==
    \/ state[v] = "STARTED" /\ UNCHANGED <<state, finished, due, sessions, units>>
    \/ /\ state[v] # "STARTED" /\ sessions < MaxSessions
       /\ sessions' = sessions + 1
       /\ state' = [state EXCEPT ![v] = "STARTED"]
       /\ finished' = [finished EXCEPT ![v] = "nil"]
       /\ Bounded(v)
       /\ StartAudio

-----------------------------------------------------------------------------
(* The host.                                                               *)

\* addSubview takes view v out of its old superview, if p are the panels there.
Without(p, v) ==
    LET at == CHOOSE i \in DOMAIN p : p[i] = v
    IN  IF \E i \in DOMAIN p : p[i] = v
        THEN [i \in 1..(Len(p) - 1) |-> IF i < at THEN p[i] ELSE p[i + 1]]
        ELSE p

\* Fault: a view that is on the screen is added again.
AttachAgain(v, s) ==
    /\ panels' = [panels EXCEPT ![s] = Append(@, v)]
    /\ shown' = s

\* Fault: a panel on the screen is taken for the assistant's.
LeaveOnTop(v, s) ==
    /\ panels' = [t \in Screens |-> IF t = s /\ panels[s] # <<>> THEN panels[s]
                                    ELSE IF t = s THEN <<v>>
                                    ELSE Without(panels[t], v)]
    /\ shown' = s

\* The view of v moves to the top of s, unless it is on s already.
Attach(v, s) ==
    /\ panels' = IF \E i \in DOMAIN panels[s] : panels[s][i] = v THEN panels
                 ELSE [t \in Screens |-> IF t = s THEN Append(panels[t], v)
                                         ELSE Without(panels[t], v)]
    /\ shown' = s

\* Fault: nothing is configured under an alert.
ConfigureUnlessPresenting(v, s) ==
    /\ IF presented = Nothing
       THEN Attach(v, s) /\ EndSessions({v}, {})
       ELSE shown' = s /\ UNCHANGED <<state, heard, due, singletonVars, panels>>
    /\ UNCHANGED <<finished, sessions, uploadVars, presented, told, alerted, crashed>>

\* configureAssistant for the screen that comes up, with view model v.
Configure(v, s) ==
    /\ Attach(v, s)
    /\ EndSessions({v}, {})
    /\ UNCHANGED <<finished, sessions, uploadVars, presented, told, alerted, crashed>>

InSession == {v \in ViewModels : state[v] = "STARTED"}

\* setup alone is in order once: before the first panel is shown.
Setup ==
    /\ setups < MaxSetups
    /\ setups' = setups + 1
    /\ misused' = (misused \/ setups > 0)
    /\ UNCHANGED <<uploadVars, sessionVars, singletonVars, screenVars,
                   told, alerted, crashed>>

\* A new root view controller calls setup and shows its first screen: in
\* order, unless a session runs or may be started from a sheet.
SetupAndShow(s) ==
    /\ setups < MaxSetups
    /\ setups' = setups + 1
    /\ misused' = (misused \/ InSession # {} \/ presented.kind = "sheet")
    /\ Configure(setups', s)

ConfigureAssistant(s) ==
    /\ setups > 0
    /\ Configure(setups, s)
    /\ UNCHANGED <<setups, misused>>

\* The view controller is nil and unwrapped.
ConfigureTooEarly ==
    /\ setups = 0
    /\ crashed' = TRUE /\ misused' = TRUE
    /\ UNCHANGED <<uploadVars, setups, sessionVars, singletonVars,
                   screenVars, told, alerted>>

HostActs ==
    \/ Setup \/ ConfigureTooEarly
    \/ \E s \in Screens : SetupAndShow(s) \/ ConfigureAssistant(s)

-----------------------------------------------------------------------------
(* Touches reach the topmost panel, if nothing is presented over it.       *)

Touched(v) ==
    /\ presented = Nothing /\ shown \in Screens
    /\ panels[shown] # <<>> /\ panels[shown][Len(panels[shown])] = v

CancelRecording(v) ==
    /\ finished' = [finished EXCEPT ![v] = "false"]
    /\ EndSessions({v}, {})

RecordTapped(v) ==
    /\ Touched(v) /\ state[v] # "STARTED"
    /\ StartSession(v)
    /\ UNCHANGED <<uploadVars, setups, heard, stream, screenVars, crashed, historyVars>>

\* startAudio while prepare fails early and no unit was ever made: start unwraps
\* the missing unit.  No sheet begins the first session.
StartTraps(v) ==
    /\ Touched(v) /\ state[v] # "STARTED"
    /\ AudioMayFail /\ units = <<>>
    /\ crashed' = TRUE
    /\ UNCHANGED <<uploadVars, setups, sessionVars, singletonVars, screenVars, historyVars>>

CancelTapped(v) ==
    /\ Touched(v) /\ state[v] = "STARTED"
    /\ CancelRecording(v)
    /\ UNCHANGED <<uploadVars, setups, sessions, screenVars, crashed, historyVars>>

LanguageButtonTapped(v) ==
    /\ Touched(v) /\ state[v] = "STARTED"
    /\ CancelRecording(v)
    /\ presented' = [kind |-> "sheet", of |-> v]
    /\ UNCHANGED <<uploadVars, setups, sessions, panels, shown, crashed, historyVars>>

\* A language is picked, which starts a session.
LanguagePicked ==
    /\ presented.kind = "sheet"
    /\ presented' = Nothing
    /\ StartSession(presented.of)
    /\ UNCHANGED <<uploadVars, setups, heard, stream, panels, shown, crashed, historyVars>>

Dismissed ==
    /\ presented # Nothing
    /\ presented' = Nothing
    /\ UNCHANGED <<uploadVars, setups, sessionVars, singletonVars,
                   panels, shown, crashed, historyVars>>

UserActs ==
    \/ \E v \in ViewModels :
          RecordTapped(v) \/ StartTraps(v) \/ CancelTapped(v) \/ LanguageButtonTapped(v)
    \/ LanguagePicked \/ Dismissed

-----------------------------------------------------------------------------
(* Blocks of the main queue.                                               *)

\* AudioController's delegate is the view model made last.
Delegate == setups

\* Any unit that runs calls back; without its buffers a view model traps.
RunChunk ==
    /\ \E i \in DOMAIN units : units[i] = "running"
    /\ IF state[Delegate] = "nil"
       THEN crashed' = TRUE /\ UNCHANGED stream
       ELSE stream' = (IF stream = 0 THEN Delegate ELSE stream) /\ UNCHANGED crashed
    /\ UNCHANGED <<uploadVars, setups, sessionVars, units, screenVars, historyVars>>

\* A bound: what is heard can be delivered.
RoomToHear == recordings + Cardinality({v \in ViewModels : heard[v]}) < MaxRecordings

RunAnswer ==
    /\ stream # 0 /\ finished[stream] = "nil"
    /\ heard[stream] \/ RoomToHear
    /\ heard' = [heard EXCEPT ![stream] = TRUE]
    /\ due' = [due EXCEPT ![stream] = TRUE]
    /\ UNCHANGED <<uploadVars, setups, state, finished, sessions, singletonVars, screenVars,
                   crashed, historyVars>>

\* finished = true with a transcript: the host is told, which may show
\* another screen at once, and the recording is uploaded.
Deliver(v) ==
    /\ UploadDataToGoogleCloud
    /\ \/ EndSessions({v}, {v}) /\ UNCHANGED <<panels, shown>>
       \/ \E s \in Screens : Attach(setups, s) /\ EndSessions({v, setups}, {v})

RunTimer(v) ==
    /\ due[v]
    /\ finished' = [finished EXCEPT ![v] = "true"]
    /\ \/ heard[v] /\ Deliver(v)
       \/ ~heard[v] /\ EndSessions({v}, {v}) /\ UNCHANGED <<uploadVars, panels, shown>>
    /\ UNCHANGED <<setups, sessions, presented, crashed, historyVars>>

\* showAlertController: UIKit drops an alert when something is presented
\* already, or the presenter is not on the screen.
CanPresent ==
    /\ presented = Nothing /\ shown \in Screens
    /\ \E i \in DOMAIN panels[shown] : panels[shown][i] = setups

RunReport ==
    /\ TakeReport
    /\ LET r == Head(callbacks) IN
       /\ told' = told \cup {r.of}
       /\ \/ /\ r.success /\ CanPresent
             /\ presented' = [kind |-> "alert", of |-> 0]
             /\ alerted' = alerted \cup {r.of}
          \/ ~(r.success /\ CanPresent) /\ UNCHANGED <<presented, alerted>>
    /\ UNCHANGED <<setups, sessionVars, singletonVars, panels, shown, crashed, misused>>

-----------------------------------------------------------------------------
Network ==
    /\ NetworkSteps
    /\ UNCHANGED <<setups, sessionVars, singletonVars, screenVars, crashed, historyVars>>

Timers == \E v \in ViewModels : RunTimer(v)

Next ==
    /\ ~crashed
    /\ \/ HostActs \/ UserActs
       \/ RunChunk \/ RunAnswer \/ Timers \/ RunReport
       \/ Network

SafetySpec == Init /\ [][Next]_vars

\* Timers expire and the main thread runs their work items.  The host, the
\* user, the microphone and the servers owe nothing.
Spec == SafetySpec /\ \A v \in ViewModels : WF_vars(~crashed /\ RunTimer(v))
=============================================================================
