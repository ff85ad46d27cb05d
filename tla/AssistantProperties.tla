------------------------ MODULE AssistantProperties ------------------------
(***************************************************************************)
(* What the Assistant promises to a host that calls setup and              *)
(* configureAssistant in the order of the README (~misused), and what it   *)
(* promises to any host.                                                   *)
(***************************************************************************)
EXTENDS Assistant

\* Every variable has its type.
AssistantTypeOK ==
    /\ UploadTypeOK
    /\ setups \in 0..MaxSetups
    /\ state \in [ViewModels -> {"nil", "STARTED", "ENDED"}]
    /\ finished \in [ViewModels -> {"nil", "true", "false"}]
    /\ heard \in [ViewModels -> BOOLEAN] /\ due \in [ViewModels -> BOOLEAN]
    /\ units \in Seq({"raw", "idle", "running"}) /\ Len(units) <= sessions
    /\ sessions \in 0..MaxSessions
    /\ stream \in 0..MaxSetups
    /\ panels \in [Screens -> Seq(ViewModels)]
    /\ \A s \in Screens : Len(panels[s]) <= setups
    /\ shown \in Screens \cup {NoScreen}
    /\ presented \in [kind : {"none", "sheet", "alert"}, of : 0..MaxSetups]
    /\ told \subseteq Recordings /\ alerted \subseteq Recordings
    /\ crashed \in BOOLEAN /\ misused \in BOOLEAN

-----------------------------------------------------------------------------
(* To a host that keeps the order.                                         *)

\* Of the state that the Assistant, the audio controller and the view model
\* unwrap by force only the unit may be nil when it is reached: when no unit
\* has ever been made and prepare fails.
OnlyFirstUnitTraps == crashed => misused \/ (AudioMayFail /\ units = <<>>)

\* Units are made and never disposed, and a failing prepare leaves an old one
\* to be started again; but what runs is the last one, which is the only one
\* that stop can reach, and only in the session of the last view model.  (A
\* session may well be without a unit that runs.)
MicrophoneFollowsSession ==
    ~misused =>
        /\ InSession \subseteq {setups}
        /\ \A i \in DOMAIN units :
              units[i] = "running" => i = Len(units) /\ InSession # {}

\* The open call answers to the view model that is listening, though the
\* service and its call are shared.
StreamBelongsToSession == ~misused /\ stream # 0 => state[stream] = "STARTED"

\* The user's touches reach the view model that the Assistant holds, however
\* many panels earlier setups have left on the screens.
TouchesReachLatest == \A v \in ViewModels : ~misused /\ Touched(v) => v = setups

\* No more recordings are delivered than sessions were begun.
RecordingsAreSessions == ~misused => recordings <= sessions

-----------------------------------------------------------------------------
(* To any host.                                                            *)

\* The log names no recording that the bucket does not hold.
LoggedIsStored == logged \subseteq stored

\* Every session ends, also that of a view model whose panel cannot be reached
\* any more, or is covered by an alert.
EverySessionEnds ==
    \A v \in ViewModels : state[v] = "STARTED" ~> state[v] = "ENDED" \/ crashed

-----------------------------------------------------------------------------
(* Statements of the sources that the code does not keep.                  *)

\* The handler is told of a success only if the upload succeeded.
SuccessMeansStored == told \subseteq stored

\* An alert is shown for every upload that is reported as a success.
EveryUploadIsAnnounced == told \subseteq alerted
=============================================================================
