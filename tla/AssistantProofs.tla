-------------------------- MODULE AssistantProofs --------------------------
(***************************************************************************)
(* What holds of the uploads, whatever the host, the user and the two      *)
(* servers do; and what a host may rely on that keeps the order of the     *)
(* README.  For any number of setups, screens, sessions and recordings.    *)
(***************************************************************************)
EXTENDS AssistantProperties, FiniteSetTheorems, SequenceTheorems, TLAPS

\* A recording is on its way to the log, or in it, only if it is stored.
LogOK ==
    /\ LoggedIsStored
    /\ \A r \in Recordings : logPost[r] # "none" => r \in stored

\* What of the state the invariant is about.
LogTypeOK == logPost \in [Recordings -> Task]

LInv == LogTypeOK /\ LogOK

LEMMA InitLog == Init => LInv
BY DEF Init, UploadInit, LInv, LogTypeOK, LogOK, LoggedIsStored, Task

\* Only the network touches what the invariant is about.
LEMMA NetworkLog == LInv /\ NetworkSteps => LInv'
<1> SUFFICES ASSUME LInv, NEW r \in Recordings,
                    \/ BucketStores(r) \/ LogKept(r) \/ UploadFails(r) \/ LogEnds(r)
                    \/ \E status \in {200, 500} : UploadAnswered(r, status)
             PROVE  LInv'
    BY DEF NetworkSteps
<1> USE DEF LInv, LogTypeOK, LogOK, LoggedIsStored
<1>1. CASE BucketStores(r)
    BY <1>1 DEF BucketStores
<1>2. CASE LogKept(r)
    BY <1>2 DEF LogKept
<1>3. CASE UploadFails(r)
    BY <1>3 DEF UploadFails
<1>4. CASE LogEnds(r)
    BY <1>4 DEF LogEnds, Task
<1>5. CASE \E status \in {200, 500} : UploadAnswered(r, status)
    <2>1. PICK status \in {200, 500} : UploadAnswered(r, status)
        BY <1>5
    <2>2. Logs(status) => r \in stored
        BY <2>1 DEF UploadAnswered, Logs
    <2> QED
        BY <2>1, <2>2 DEF UploadAnswered, Task
<1> QED
    BY <1>1, <1>2, <1>3, <1>4, <1>5

\* Nobody else does.
LEMMA OthersLog ==
    ASSUME LInv, Next
    PROVE  NetworkSteps \/ UNCHANGED <<logPost, stored, logged>>
<1>1. CASE HostActs
    BY <1>1 DEF HostActs, Setup, ConfigureTooEarly, SetupAndShow, ConfigureAssistant,
                Configure, uploadVars
<1>2. CASE UserActs
    BY <1>2 DEF UserActs, RecordTapped, StartTraps, CancelTapped, LanguageButtonTapped,
                LanguagePicked, Dismissed, uploadVars
<1>3. CASE RunChunk \/ RunAnswer
    BY <1>3 DEF RunChunk, RunAnswer, uploadVars
<1>4. CASE Timers
    BY <1>4 DEF Timers, RunTimer, Deliver, UploadDataToGoogleCloud, uploadVars
<1>5. CASE RunReport
    BY <1>5 DEF RunReport, TakeReport
<1>6. CASE Network
    BY <1>6 DEF Network
<1> QED
    BY <1>1, <1>2, <1>3, <1>4, <1>5, <1>6 DEF Next

\* The log never names a recording that the bucket does not hold: the entry is
\* posted after the answer of the bucket, and its status has been looked at
\* (Requests.swift:65).
THEOREM LogSafe == SafetySpec => []LoggedIsStored
<1>1. LInv /\ [Next]_vars => LInv'
    <2> SUFFICES ASSUME LInv, [Next]_vars PROVE LInv'
        OBVIOUS
    <2>1. CASE Next
        <3>1. CASE UNCHANGED <<logPost, stored, logged>>
            BY <3>1 DEF LInv, LogTypeOK, LogOK, LoggedIsStored
        <3> QED
            BY <2>1, <3>1, OthersLog, NetworkLog
    <2>2. CASE UNCHANGED vars
        BY <2>2 DEF vars, uploadVars, LInv, LogTypeOK, LogOK, LoggedIsStored
    <2> QED
        BY <2>1, <2>2
<1>2. LInv => LoggedIsStored
    BY DEF LInv, LogOK
<1> QED
    BY InitLog, <1>1, <1>2, PTL DEF SafetySpec

-----------------------------------------------------------------------------
(* The panels on a screen.                                                 *)

\* The views p on one screen when n view models have been made: a view is
\* there once, and that of the last view model is on top of the others.
PanelOK(p, n) ==
    \A i \in DOMAIN p :
        /\ p[i] <= n
        /\ \A j \in DOMAIN p : p[i] = p[j] => i = j
        /\ p[i] = n => i = Len(p)

\* Two views more than view models would be two of one.
LEMMA PanelBound ==
    ASSUME NEW n \in Nat, NEW p \in Seq(Nat \ {0}), PanelOK(p, n)
    PROVE  Len(p) <= n
<1>1. ASSUME NEW k \in Nat PROVE IsFiniteSet(1..k) /\ Cardinality(1..k) = k
    BY FS_Interval
<1>2. Len(p) \in Nat
    OBVIOUS
<1>3. p \in [1..Len(p) -> 1..n]
    BY DEF PanelOK
<1>4. ~(Cardinality(1..n) < Cardinality(1..Len(p)))
    <2> SUFFICES ASSUME Cardinality(1..n) < Cardinality(1..Len(p)) PROVE FALSE
        OBVIOUS
    <2>1. \E x, y \in 1..Len(p) : x # y /\ p[x] = p[y]
        <3>1. /\ IsFiniteSet(1..Len(p)) /\ Cardinality(1..Len(p)) = Len(p)
              /\ IsFiniteSet(1..n) /\ Cardinality(1..n) = n
            BY <1>1, <1>2
        <3> QED
            BY <1>3, <3>1, FS_PigeonHole
    <2> QED
        BY <2>1 DEF PanelOK
<1> QED
    BY <1>1, <1>2, <1>4

\* A view that leaves keeps the others in order.
LEMMA WithoutPanel ==
    ASSUME NEW S \in SUBSET Nat, NEW p \in Seq(S), NEW v, NEW n \in Nat, PanelOK(p, n)
    PROVE  /\ Without(p, v) \in Seq(S)
           /\ PanelOK(Without(p, v), n)
<1>1. CASE ~\E i \in DOMAIN p : p[i] = v
    BY <1>1 DEF Without
<1>2. CASE \E i \in DOMAIN p : p[i] = v
    <2> DEFINE at == CHOOSE i \in DOMAIN p : p[i] = v
               q == [i \in 1..(Len(p) - 1) |-> IF i < at THEN p[i] ELSE p[i + 1]]
    <2>1. at \in 1..Len(p)
        BY <1>2
    <2>2. Without(p, v) = q
        BY <1>2 DEF Without
    <2> HIDE DEF at
    <2>3. Len(p) - 1 \in Nat
        BY <2>1
    <2>4. \A i \in 1..(Len(p) - 1) : i + 1 \in 1..Len(p) /\ i \in 1..Len(p)
        BY <2>3
    <2>5. q \in Seq(S) /\ Len(q) = Len(p) - 1 /\ DOMAIN q = 1..(Len(p) - 1)
        BY <2>3, <2>4
    <2>6. \A i \in DOMAIN q : q[i] = p[IF i < at THEN i ELSE i + 1]
        BY <2>5
    <2> HIDE DEF q
    <2>7. ASSUME NEW i \in DOMAIN q
          PROVE  /\ q[i] <= n
                 /\ \A j \in DOMAIN q : q[i] = q[j] => i = j
                 /\ q[i] = n => i = Len(q)
        <3>1. /\ i \in 1..(Len(p) - 1)
              /\ (IF i < at THEN i ELSE i + 1) \in DOMAIN p
            BY <2>1, <2>4, <2>5
        <3>2. q[i] <= n /\ (q[i] = n => i = Len(q))
            BY <2>1, <2>3, <2>5, <2>6, <3>1 DEF PanelOK
        <3>3. ASSUME NEW j \in DOMAIN q, q[i] = q[j] PROVE i = j
            <4>1. /\ j \in 1..(Len(p) - 1)
                  /\ (IF j < at THEN j ELSE j + 1) \in DOMAIN p
                BY <2>1, <2>4, <2>5
            <4>2. (IF i < at THEN i ELSE i + 1) = IF j < at THEN j ELSE j + 1
                BY <2>6, <3>1, <3>3, <4>1 DEF PanelOK
            <4> QED
                BY <2>1, <2>3, <3>1, <4>1, <4>2
        <3> QED
            BY <3>2, <3>3
    <2>8. PanelOK(q, n)
        BY <2>7 DEF PanelOK
    <2> QED
        BY <2>2, <2>5, <2>8
<1> QED
    BY <1>1, <1>2

\* The last view is added on top.
LEMMA AppendPanel ==
    ASSUME NEW n \in Nat, NEW p \in Seq(Nat), PanelOK(p, n), \A i \in DOMAIN p : p[i] # n
    PROVE  PanelOK(Append(p, n), n)
<1> DEFINE q == Append(p, n)
<1>1. Len(q) = Len(p) + 1 /\ q[Len(p) + 1] = n /\ \A i \in 1..Len(p) : q[i] = p[i]
    OBVIOUS
<1>2. DOMAIN q = 1..(Len(p) + 1)
    OBVIOUS
<1> HIDE DEF q
<1> QED
    <2>1. PanelOK(q, n)
        BY <1>1, <1>2 DEF PanelOK
    <2> QED
        BY <2>1 DEF q

\* Nothing of a view model that was just made is on any screen.
LEMMA NewPanel ==
    ASSUME NEW n \in Nat, NEW p \in Seq(Nat), PanelOK(p, n)
    PROVE  PanelOK(p, n + 1)
BY DEF PanelOK

\* configureAssistant brings the panel to the top of the screen.
LEMMA AttachPanels ==
    ASSUME panels \in [Screens -> Seq(ViewModels)], NEW v \in ViewModels, NEW s \in Screens,
           \A t \in Screens : PanelOK(panels[t], v), Attach(v, s)
    PROVE  /\ panels' \in [Screens -> Seq(ViewModels)]
           /\ \A t \in Screens : PanelOK(panels'[t], v)
           /\ shown' = s
           /\ panels'[s] # <<>> /\ panels'[s][Len(panels'[s])] = v
<1> USE AssistantAssumption DEF ViewModels
<1>1. CASE \E i \in DOMAIN panels[s] : panels[s][i] = v
    <2>1. panels' = panels /\ shown' = s
        BY <1>1 DEF Attach
    <2>2. PICK i \in DOMAIN panels[s] : panels[s][i] = v
        BY <1>1
    <2>3. i = Len(panels[s]) /\ panels[s] \in Seq(ViewModels) /\ i \in 1..Len(panels[s])
        BY <2>2 DEF PanelOK
    <2> QED
        BY <2>1, <2>2, <2>3
<1>2. CASE ~\E i \in DOMAIN panels[s] : panels[s][i] = v
    <2>1. /\ shown' = s
          /\ panels' = [t \in Screens |-> IF t = s THEN Append(panels[t], v)
                                          ELSE Without(panels[t], v)]
        BY <1>2 DEF Attach
    <2>2. ASSUME NEW t \in Screens \ {s}
          PROVE  panels'[t] \in Seq(ViewModels) /\ PanelOK(panels'[t], v)
        <3>1. panels[t] \in Seq(ViewModels) /\ ViewModels \in SUBSET Nat /\ v \in Nat
            OBVIOUS
        <3> HIDE DEF ViewModels
        <3>2. /\ Without(panels[t], v) \in Seq(ViewModels)
              /\ PanelOK(Without(panels[t], v), v)
            BY <3>1, WithoutPanel
        <3> QED
            BY <2>1, <3>2
    <2>3. panels'[s] = Append(panels[s], v) /\ panels[s] \in Seq(ViewModels)
        BY <2>1
    <2>4. PanelOK(Append(panels[s], v), v)
        BY <1>2, <2>3, AppendPanel
    <2>5. panels'[s] \in Seq(ViewModels) /\ PanelOK(panels'[s], v)
        BY <2>3, <2>4
    <2>6. panels' \in [Screens -> Seq(ViewModels)]
        BY <2>1, <2>2, <2>5
    <2>7. panels'[s] # <<>> /\ panels'[s][Len(panels'[s])] = v
        <3>1. v \in Nat /\ panels[s] \in Seq(Nat)
            BY <2>3
        <3> QED
            BY <2>3, <3>1, AppendProperties
    <2> QED
        BY <2>1, <2>2, <2>5, <2>6, <2>7
<1> QED
    BY <1>1, <1>2

-----------------------------------------------------------------------------
(* The invariant of the facade.                                            *)

PanelsOK == \A s \in Screens : PanelOK(panels[s], setups)

\* The screen that is shown has the last panel on top, and a language sheet is
\* that of a view model; of the last one, if the host keeps the order.
TopOK ==
    /\ ~misused /\ shown \in Screens =>
           panels[shown] # <<>> /\ panels[shown][Len(panels[shown])] = setups
    /\ presented.kind = "sheet" =>
           presented.of \in ViewModels /\ (misused \/ presented.of = setups)

\* Work items, the call and the sheet belong to view models that were made.
MadeOK ==
    /\ \A v \in ViewModels : due[v] => v <= setups
    /\ stream <= setups
    /\ presented.kind = "sheet" => presented.of <= setups

\* Only the last view model is in a session; it owns the unit that runs, the
\* call and the work items, and a session that has begun may still deliver.
SessionsOK ==
    /\ \A v \in InSession : v = setups
    /\ \A i \in DOMAIN units : units[i] = "running" => i = Len(units) /\ InSession # {}
    /\ stream # 0 => stream \in InSession
    /\ \A v \in ViewModels : due[v] => v \in InSession
    /\ recordings + (IF InSession = {} THEN 0 ELSE 1) <= sessions

\* Nobody is in a session, and nothing is left of one.
Quiet ==
    /\ InSession = {}
    /\ \A i \in DOMAIN units : units[i] # "running"
    /\ stream = 0
    /\ \A v \in ViewModels : ~due[v]

FacadeInv ==
    /\ AssistantTypeOK /\ PanelsOK /\ TopOK /\ MadeOK /\ OnlyFirstUnitTraps
    /\ ~misused => SessionsOK

LEMMA FacadeInit == Init => FacadeInv
<1> SUFFICES ASSUME Init PROVE FacadeInv
    OBVIOUS
<1> USE AssistantAssumption, MaxRecordingsAssumption DEF Init, UploadInit, ViewModels
<1>1. AssistantTypeOK
    <2>1. UploadTypeOK
        BY DEF UploadTypeOK, Recordings, Task
    <2>2. /\ heard \in [ViewModels -> BOOLEAN] /\ due \in [ViewModels -> BOOLEAN]
          /\ crashed \in BOOLEAN /\ misused \in BOOLEAN
        BY Zenon
    <2>3. /\ state \in [ViewModels -> {"nil", "STARTED", "ENDED"}]
          /\ finished \in [ViewModels -> {"nil", "true", "false"}]
          /\ setups \in 0..MaxSetups /\ stream \in 0..MaxSetups
          /\ units \in Seq({"raw", "idle", "running"}) /\ Len(units) <= sessions
          /\ sessions \in 0..MaxSessions
        OBVIOUS
    <2>4. /\ panels \in [Screens -> Seq(ViewModels)]
          /\ \A s \in Screens : Len(panels[s]) <= setups
          /\ shown \in Screens \cup {NoScreen}
          /\ presented \in [kind : {"none", "sheet", "alert"}, of : 0..MaxSetups]
          /\ told \subseteq Recordings /\ alerted \subseteq Recordings
        BY DEF Nothing, NoScreen
    <2> QED
        BY <2>1, <2>2, <2>3, <2>4 DEF AssistantTypeOK
<1>2. PanelsOK
    BY DEF PanelsOK, PanelOK
<1>3. TopOK
    BY DEF TopOK, Nothing, NoScreen
<1>4. SessionsOK /\ MadeOK
    BY DEF SessionsOK, InSession, MadeOK, Nothing
<1> QED
    BY <1>1, <1>2, <1>3, <1>4 DEF FacadeInv, OnlyFirstUnitTraps

\* state = .ENDED in every view model that may be in a session leaves nothing
\* of the session behind.
LEMMA EndLeavesNothing ==
    ASSUME AssistantTypeOK, SessionsOK, NEW ending \in SUBSET ViewModels, NEW fired,
           InSession \subseteq ending, EndSessions(ending, fired)
    PROVE  Quiet'
<1> USE DEF Quiet, AssistantTypeOK, EndSessions, InSession, SessionsOK
<1> DEFINE changed == {v \in ending : state[v] # "ENDED"}
<1>1. InSession' = {}
    OBVIOUS
<1>2. \A v \in ViewModels : ~due'[v]
    OBVIOUS
<1>3. CASE changed = {}
    <2>1. InSession = {} /\ UNCHANGED <<units, stream>>
        BY <1>3 DEF singletonVars
    <2> QED
        BY <1>1, <1>2, <2>1
<1>4. CASE changed # {}
    <2>1. StopAudio
        BY <1>4
    <2>2. ASSUME NEW i \in DOMAIN units' PROVE units'[i] # "running"
        BY <2>1 DEF StopAudio, Stopped
    <2> QED
        BY <1>1, <1>2, <2>1, <2>2 DEF StopAudio
<1> QED
    BY <1>3, <1>4

\* Whatever ends, the variables it writes keep their types, and nothing becomes
\* due.
LEMMA EndTypes ==
    ASSUME AssistantTypeOK, NEW ending, NEW fired, EndSessions(ending, fired)
    PROVE  /\ state' \in [ViewModels -> {"nil", "STARTED", "ENDED"}]
           /\ heard' \in [ViewModels -> BOOLEAN] /\ due' \in [ViewModels -> BOOLEAN]
           /\ units' \in Seq({"raw", "idle", "running"}) /\ Len(units') = Len(units)
           /\ stream' \in {0, stream}
           /\ \A v \in ViewModels : due'[v] => due[v]
<1> USE AssistantAssumption DEF AssistantTypeOK, EndSessions
<1>1. state' \in [ViewModels -> {"nil", "STARTED", "ENDED"}]
    OBVIOUS
<1>2. heard' \in [ViewModels -> BOOLEAN] /\ due' \in [ViewModels -> BOOLEAN]
    BY Zenon
<1>3. UNCHANGED <<units, stream>> \/ StopAudio
    BY DEF singletonVars
<1>4. /\ units' \in Seq({"raw", "idle", "running"}) /\ Len(units') = Len(units)
      /\ stream' \in {0, stream}
    <2>1. CASE UNCHANGED <<units, stream>>
        BY <2>1
    <2>2. CASE StopAudio /\ units = <<>>
        BY <2>2 DEF StopAudio
    <2>3. CASE StopAudio /\ units # <<>>
        <3> DEFINE last == units[Len(units)]
        <3>1. units' = [units EXCEPT ![Len(units)] = Stopped(last)] /\ stream' = 0
            BY <2>3 DEF StopAudio
        <3>2. Len(units) \in DOMAIN units /\ Stopped(last) \in {"raw", "idle", "running"}
            BY <2>3 DEF Stopped
        <3>3. units' \in Seq({"raw", "idle", "running"}) /\ Len(units') = Len(units)
            BY <3>1, <3>2, ExceptSeq
        <3> QED
            BY <3>1, <3>3
    <2> QED
        BY <1>3, <2>1, <2>2, <2>3
<1>5. \A v \in ViewModels : due'[v] => due[v]
    OBVIOUS
<1> QED
    BY <1>1, <1>2, <1>4, <1>5

\* Then the next session may begin.
LEMMA QuietSessions ==
    ASSUME Quiet', NEW made \in Nat, recordings' = made, NEW begun \in Nat, sessions' = begun,
           made <= begun
    PROVE  SessionsOK'
<1>1. InSession' = {} /\ \A i \in DOMAIN units' : units'[i] # "running"
    BY DEF Quiet
<1>2. recordings' + (IF InSession' = {} THEN 0 ELSE 1) <= sessions'
    <2>1. (IF InSession' = {} THEN 0 ELSE 1) = 0
        BY <1>1, Zenon
    <2> QED
        BY <2>1
<1>3. stream' = 0 /\ \A v \in ViewModels : ~due'[v]
    BY DEF Quiet
<1> QED
    BY <1>1, <1>2, <1>3, Zenon DEF SessionsOK

\* The parts of the type invariant, by who writes them.
ModelTypes ==
    /\ setups \in 0..MaxSetups
    /\ state \in [ViewModels -> {"nil", "STARTED", "ENDED"}]
    /\ finished \in [ViewModels -> {"nil", "true", "false"}]
    /\ heard \in [ViewModels -> BOOLEAN] /\ due \in [ViewModels -> BOOLEAN]

SharedTypes ==
    /\ units \in Seq({"raw", "idle", "running"}) /\ Len(units) <= sessions
    /\ sessions \in 0..MaxSessions
    /\ stream \in 0..MaxSetups

ScreenTypes ==
    /\ panels \in [Screens -> Seq(ViewModels)]
    /\ shown \in Screens \cup {NoScreen}
    /\ presented \in [kind : {"none", "sheet", "alert"}, of : 0..MaxSetups]

HistoryTypes ==
    /\ told \subseteq Recordings /\ alerted \subseteq Recordings
    /\ crashed \in BOOLEAN /\ misused \in BOOLEAN

\* They are the type invariant, since PanelsOK bounds the panels.
LEMMA TypesAreParts ==
    AssistantTypeOK => UploadTypeOK /\ ModelTypes /\ SharedTypes /\ ScreenTypes /\ HistoryTypes
BY DEF AssistantTypeOK, ModelTypes, SharedTypes, ScreenTypes, HistoryTypes

LEMMA PartsAreTypes ==
    ASSUME UploadTypeOK', ModelTypes', SharedTypes', ScreenTypes', HistoryTypes', PanelsOK'
    PROVE  AssistantTypeOK'
<1>1. \A s \in Screens : Len(panels'[s]) <= setups'
    <2> SUFFICES ASSUME NEW s \in Screens PROVE Len(panels'[s]) <= setups'
        OBVIOUS
    <2>1. panels'[s] \in Seq(Nat \ {0}) /\ setups' \in Nat
        <3>1. panels'[s] \in Seq(ViewModels) /\ setups' \in Nat
            BY AssistantAssumption DEF ScreenTypes, ModelTypes
        <3>2. \A v \in ViewModels : v \in Nat \ {0}
            BY AssistantAssumption DEF ViewModels
        <3> QED
            BY <3>1, <3>2
    <2>2. PanelOK(panels'[s], setups')
        BY DEF PanelsOK
    <2> QED
        BY <2>1, <2>2, PanelBound
<1> QED
    BY <1>1 DEF AssistantTypeOK, ModelTypes, SharedTypes, ScreenTypes, HistoryTypes

-----------------------------------------------------------------------------
(* The steps.                                                              *)

\* startAudio adds a unit at most, and touches no unit but the last.
LEMMA AudioStarted ==
    ASSUME units \in Seq({"raw", "idle", "running"}), StartAudio
    PROVE  /\ units' \in Seq({"raw", "idle", "running"}) /\ Len(units') <= Len(units) + 1
           /\ \A i \in DOMAIN units' :
                 i # Len(units') => i \in DOMAIN units /\ units'[i] = units[i]
<1>1. PICK made \in Prepared \ {<<>>} :
          \E unit \in Started(made[Len(made)]) : units' = [made EXCEPT ![Len(made)] = unit]
    BY DEF StartAudio
<1>2. \/ made = units
      \/ made = Append(units, "idle")
      \/ made = Append(units, "raw")
    BY DEF Prepared
<1>3. /\ made \in Seq({"raw", "idle", "running"}) /\ Len(made) <= Len(units) + 1
      /\ \A i \in DOMAIN made : i # Len(made) => i \in DOMAIN units /\ made[i] = units[i]
    <2>1. CASE made = units
        BY <2>1
    <2>2. CASE made # units
        BY <1>2, <2>2, AppendProperties
    <2> QED
        BY <2>1, <2>2
<1>4. Len(made) \in DOMAIN made
    BY <1>1, <1>3
<1>5. PICK unit \in Started(made[Len(made)]) : units' = [made EXCEPT ![Len(made)] = unit]
    BY <1>1
<1>6. unit \in {"raw", "idle", "running"}
    BY <1>3, <1>4, <1>5 DEF Started
<1>7. units' \in Seq({"raw", "idle", "running"}) /\ Len(units') = Len(made)
    BY <1>3, <1>4, <1>5, <1>6, ExceptSeq
<1> QED
    BY <1>3, <1>5, <1>7

LEMMA StartTypes ==
    ASSUME ModelTypes, SharedTypes, NEW v \in ViewModels, StartSession(v),
           UNCHANGED <<setups, heard, stream>>
    PROVE  ModelTypes' /\ SharedTypes'
<1> USE AssistantAssumption DEF ModelTypes, SharedTypes
<1>1. CASE state[v] = "STARTED"
    BY <1>1 DEF StartSession
<1>2. CASE state[v] # "STARTED"
    <2>1. /\ state' = [state EXCEPT ![v] = "STARTED"]
          /\ finished' = [finished EXCEPT ![v] = "nil"]
          /\ due' = [due EXCEPT ![v] = TRUE]
          /\ sessions' = sessions + 1 /\ sessions < MaxSessions /\ StartAudio
        BY <1>2 DEF StartSession, Bounded
    <2>2. units' \in Seq({"raw", "idle", "running"}) /\ Len(units') <= Len(units) + 1
        BY <2>1, AudioStarted
    <2>3. Len(units') <= sessions' /\ sessions' \in 0..MaxSessions
        BY <2>1, <2>2
    <2>4. ModelTypes'
        BY <2>1
    <2> QED
        BY <2>2, <2>3, <2>4
<1> QED
    BY <1>1, <1>2

\* A session that the last view model begins is the only one, and its unit the
\* only one that runs.
LEMMA StartKeepsSessions ==
    ASSUME ModelTypes, SharedTypes, recordings \in Nat, setups \in ViewModels, SessionsOK,
           StartSession(setups), UNCHANGED <<setups, stream, recordings>>
    PROVE  SessionsOK'
<1>1. CASE state[setups] = "STARTED"
    BY <1>1 DEF StartSession, SessionsOK, InSession
<1>2. CASE state[setups] # "STARTED"
    <2> USE DEF ModelTypes, SharedTypes
    <2>1. /\ state' = [state EXCEPT ![setups] = "STARTED"]
          /\ due' = [due EXCEPT ![setups] = TRUE]
          /\ sessions' = sessions + 1 /\ StartAudio
        BY <1>2 DEF StartSession, Bounded
    <2>2. InSession = {} /\ InSession' = {setups}
        BY <1>2, <2>1 DEF SessionsOK, InSession
    <2>3. \A i \in DOMAIN units' :
             i # Len(units') => i \in DOMAIN units /\ units'[i] = units[i]
        BY <2>1, AudioStarted
    <2>4. \A i \in DOMAIN units' :
             units'[i] = "running" => i = Len(units') /\ InSession' # {}
        <3>1. \A i \in DOMAIN units : units[i] # "running"
            BY <2>2 DEF SessionsOK
        <3> QED
            BY <2>2, <2>3, <3>1
    <2>5. stream' # 0 => stream' \in InSession'
        BY <2>2 DEF SessionsOK
    <2>6. \A v \in ViewModels : due'[v] => v \in InSession'
        BY <2>1, <2>2 DEF SessionsOK
    <2>7. recordings' + (IF InSession' = {} THEN 0 ELSE 1) <= sessions'
        BY <2>1, <2>2 DEF SessionsOK
    <2> QED
        BY <2>2, <2>4, <2>5, <2>6, <2>7 DEF SessionsOK
<1> QED
    BY <1>1, <1>2

\* configureAssistant with the view model that is the last one from now on.
LEMMA ConfigureStep ==
    ASSUME FacadeInv, ~crashed, NEW v \in ViewModels, NEW s \in Screens, Configure(v, s),
           setups' = v, setups <= v, misused' \in BOOLEAN, misused => misused',
           \A t \in Screens : PanelOK(panels[t], v),
           ~misused' => InSession \subseteq {v} /\ (presented.kind = "sheet" => presented.of = v)
    PROVE  FacadeInv'
<1> USE DEF Configure
<1>1. UploadTypeOK /\ ModelTypes /\ SharedTypes /\ ScreenTypes /\ HistoryTypes
    BY TypesAreParts DEF FacadeInv
<1>2. /\ panels' \in [Screens -> Seq(ViewModels)]
      /\ \A t \in Screens : PanelOK(panels'[t], v)
      /\ shown' = s /\ panels'[s] # <<>> /\ panels'[s][Len(panels'[s])] = v
    BY <1>1, AttachPanels DEF ScreenTypes
<1>3. PanelsOK'
    BY <1>2 DEF PanelsOK
<1>4. ModelTypes' /\ SharedTypes'
    <2>1. v \in 0..MaxSetups
        BY AssistantAssumption DEF ViewModels
    <2> QED
        BY <1>1, <2>1, AssistantAssumption, EndTypes DEF ModelTypes, SharedTypes, FacadeInv
<1>5. AssistantTypeOK'
    BY <1>1, <1>2, <1>3, <1>4, PartsAreTypes
    DEF UploadTypeOK, uploadVars, ScreenTypes, HistoryTypes
<1>6. TopOK'
    BY <1>2 DEF TopOK, FacadeInv
<1>7. ~misused' => SessionsOK'
    <2> SUFFICES ASSUME ~misused' PROVE SessionsOK'
        OBVIOUS
    <2>1. Quiet' /\ sessions' = sessions
        BY EndLeavesNothing DEF FacadeInv
    <2>2. recordings' = recordings /\ recordings \in Nat /\ sessions \in Nat
        BY <1>1, MaxRecordingsAssumption DEF UploadTypeOK, SharedTypes, uploadVars
    <2>3. recordings <= sessions
        BY <2>2 DEF FacadeInv, SessionsOK
    <2> QED
        BY <2>1, <2>2, <2>3, QuietSessions
<1>8. MadeOK'
    <2>1. v \in Nat /\ setups \in Nat /\ stream \in Nat /\ ViewModels \subseteq Nat
        BY <1>1, AssistantAssumption DEF ModelTypes, SharedTypes, ViewModels
    <2>2. presented.of \in Nat
        BY <1>1, AssistantAssumption DEF ScreenTypes
    <2> QED
        BY <2>1, <2>2, EndTypes DEF MadeOK, FacadeInv
<1> QED
    BY <1>3, <1>5, <1>6, <1>7, <1>8 DEF FacadeInv, OnlyFirstUnitTraps

LEMMA SetupStep == FacadeInv /\ ~crashed /\ Setup => FacadeInv'
<1> SUFFICES ASSUME FacadeInv, ~crashed, Setup PROVE FacadeInv'
    OBVIOUS
<1> USE DEF Setup, sessionVars, screenVars, singletonVars, uploadVars
<1>1. UploadTypeOK /\ ModelTypes /\ SharedTypes /\ ScreenTypes /\ HistoryTypes
    BY TypesAreParts DEF FacadeInv
<1>2. PanelsOK'
    <2> SUFFICES ASSUME NEW t \in Screens PROVE PanelOK(panels[t], setups + 1)
        BY DEF PanelsOK
    <2>1. panels[t] \in Seq(ViewModels) /\ ViewModels \subseteq Nat /\ setups \in Nat
        BY <1>1, AssistantAssumption DEF ScreenTypes, ModelTypes, ViewModels
    <2>2. panels[t] \in Seq(Nat)
        BY <2>1, SeqMonotonic
    <2> QED
        BY <2>1, <2>2, NewPanel DEF FacadeInv, PanelsOK
<1>3. AssistantTypeOK'
    BY <1>1, <1>2, AssistantAssumption, PartsAreTypes
    DEF UploadTypeOK, ModelTypes, SharedTypes, ScreenTypes, HistoryTypes
<1>6. MadeOK'
    <2>1. setups \in Nat /\ stream \in Nat /\ presented.of \in Nat /\ ViewModels \subseteq Nat
        BY <1>1, AssistantAssumption DEF ModelTypes, SharedTypes, ScreenTypes, ViewModels
    <2> QED
        BY <2>1 DEF MadeOK, FacadeInv
<1>4. CASE misused'
    BY <1>2, <1>3, <1>4, <1>6 DEF FacadeInv, TopOK, OnlyFirstUnitTraps
<1>5. CASE ~misused'
    <2>1. ~misused /\ setups = 0
        <3>1. ~misused /\ ~(setups > 0)
            BY <1>5, Zenon
        <3> QED
            BY <1>1, <3>1 DEF ModelTypes
    <2>2. \A v \in ViewModels : v > setups
        BY <2>1, AssistantAssumption DEF ViewModels
    <2>3. shown \notin Screens
        <3> SUFFICES ASSUME shown \in Screens PROVE FALSE
            OBVIOUS
        <3>1. panels[shown] # <<>> /\ panels[shown][Len(panels[shown])] = 0
            BY <2>1 DEF FacadeInv, TopOK
        <3>2. panels[shown] \in Seq(ViewModels)
            BY <1>1 DEF ScreenTypes
        <3> QED
            BY <2>1, <2>2, <3>1, <3>2
    <2>4. InSession = {} /\ presented.kind # "sheet"
        BY <2>1, <2>2, AssistantAssumption DEF FacadeInv, SessionsOK, TopOK, InSession, ViewModels
    <2>5. TopOK'
        BY <2>3, <2>4 DEF TopOK
    <2>6. SessionsOK'
        BY <2>1, <2>4 DEF FacadeInv, SessionsOK, InSession
    <2> QED
        BY <1>2, <1>3, <1>6, <2>5, <2>6 DEF FacadeInv, OnlyFirstUnitTraps
<1> QED
    BY <1>4, <1>5

\* configureAssistant without setup: a misuse.
LEMMA TooEarlyStep == FacadeInv /\ ConfigureTooEarly => FacadeInv'
BY DEF FacadeInv, ConfigureTooEarly, AssistantTypeOK, UploadTypeOK, PanelsOK, TopOK,
       MadeOK, OnlyFirstUnitTraps, uploadVars, sessionVars, singletonVars, screenVars

LEMMA HostStep == FacadeInv /\ ~crashed /\ HostActs => FacadeInv'
<1> SUFFICES ASSUME FacadeInv, ~crashed, HostActs PROVE FacadeInv'
    OBVIOUS
<1>1. CASE Setup
    BY <1>1, SetupStep
<1>2. CASE ConfigureTooEarly
    BY <1>2, TooEarlyStep
<1>3. ASSUME NEW s \in Screens, SetupAndShow(s) PROVE FacadeInv'
    <2> USE <1>3 DEF SetupAndShow
    <2>1. setups \in 0..MaxSetups /\ setups + 1 \in ViewModels /\ setups' = setups + 1
        BY AssistantAssumption DEF FacadeInv, AssistantTypeOK, ViewModels
    <2>2. \A t \in Screens : PanelOK(panels[t], setups')
        <3> SUFFICES ASSUME NEW t \in Screens PROVE PanelOK(panels[t], setups + 1)
            BY <2>1
        <3>1. panels[t] \in Seq(ViewModels) /\ ViewModels \subseteq Nat /\ setups \in Nat
            BY <2>1, AssistantAssumption DEF FacadeInv, AssistantTypeOK, ViewModels
        <3>2. panels[t] \in Seq(Nat)
            BY <3>1, SeqMonotonic
        <3> QED
            BY <3>1, <3>2, NewPanel DEF FacadeInv, PanelsOK
    <2>3. /\ misused' \in BOOLEAN /\ (misused => misused')
          /\ ~misused' => InSession = {} /\ presented.kind # "sheet"
        OBVIOUS
    <2>4. Configure(setups', s) /\ setups <= setups'
        BY <2>1
    <2> QED
        BY <2>1, <2>2, <2>3, <2>4, ConfigureStep
<1>4. ASSUME NEW s \in Screens, ConfigureAssistant(s) PROVE FacadeInv'
    <2> USE <1>4 DEF ConfigureAssistant
    <2>1. /\ setups \in ViewModels /\ setups' = setups /\ setups <= setups
          /\ Configure(setups, s)
        BY AssistantAssumption DEF FacadeInv, AssistantTypeOK, ViewModels
    <2>2. misused' = misused /\ misused \in BOOLEAN
        BY DEF FacadeInv, AssistantTypeOK
    <2>3. ~misused' =>
             InSession \subseteq {setups} /\ (presented.kind = "sheet" => presented.of = setups)
        BY <2>2 DEF FacadeInv, SessionsOK, TopOK
    <2> QED
        BY <2>1, <2>2, <2>3, ConfigureStep DEF FacadeInv, PanelsOK
<1> QED
    BY <1>1, <1>2, <1>3, <1>4 DEF HostActs

\* Who ends the sessions of `ending` and changes nothing else of the sessions
\* leaves them in order.
LEMMA EndStep ==
    ASSUME FacadeInv, NEW ending \in SUBSET ViewModels, NEW fired, EndSessions(ending, fired),
           ~misused => InSession \subseteq ending, misused' = misused,
           sessions' = sessions, recordings' \in Nat, ~misused => recordings' <= sessions
    PROVE  ~misused' => SessionsOK'
<1> SUFFICES ASSUME ~misused PROVE SessionsOK'
    OBVIOUS
<1>1. Quiet'
    BY EndLeavesNothing DEF FacadeInv
<1>2. sessions \in Nat
    BY DEF FacadeInv, AssistantTypeOK
<1> QED
    BY <1>1, <1>2, QuietSessions

\* Touches reach the last view model, if the host keeps the order.
LEMMA TouchedIsLast ==
    ASSUME FacadeInv, NEW v \in ViewModels, Touched(v)
    PROVE  v <= setups /\ (~misused => v = setups)
<1>1. ~misused => v = setups
    BY DEF FacadeInv, TopOK, Touched
<1>2. panels[shown] \in Seq(ViewModels) /\ panels[shown] # <<>> /\ shown \in Screens
    BY DEF FacadeInv, AssistantTypeOK, Touched
<1>3. Len(panels[shown]) \in DOMAIN panels[shown]
    BY <1>2
<1> QED
    BY <1>1, <1>2, <1>3 DEF FacadeInv, PanelsOK, PanelOK, Touched

LEMMA CancelStep ==
    ASSUME FacadeInv, ~crashed, NEW v \in ViewModels, CancelTapped(v) \/ LanguageButtonTapped(v)
    PROVE  FacadeInv'
<1> USE DEF CancelTapped, LanguageButtonTapped, CancelRecording
<1>1. UploadTypeOK /\ ModelTypes /\ SharedTypes /\ ScreenTypes /\ HistoryTypes
    BY TypesAreParts DEF FacadeInv
<1>2. /\ EndSessions({v}, {}) /\ Touched(v) /\ finished' = [finished EXCEPT ![v] = "false"]
      /\ UNCHANGED <<uploadVars, setups, sessions, panels, shown, crashed, historyVars>>
    BY DEF screenVars
<1>3. presented' = presented \/ presented' = [kind |-> "sheet", of |-> v]
    BY DEF screenVars
<1>4. v <= setups /\ (~misused => v = setups)
    BY <1>2, TouchedIsLast
<1>5. UploadTypeOK' /\ HistoryTypes' /\ PanelsOK' /\ misused' = misused /\ ~crashed'
    BY <1>1, <1>2
    DEF UploadTypeOK, uploadVars, HistoryTypes, historyVars, PanelsOK, FacadeInv
<1>6. ModelTypes' /\ SharedTypes'
    <2>1. /\ state' \in [ViewModels -> {"nil", "STARTED", "ENDED"}]
          /\ heard' \in [ViewModels -> BOOLEAN] /\ due' \in [ViewModels -> BOOLEAN]
          /\ units' \in Seq({"raw", "idle", "running"}) /\ Len(units') = Len(units)
          /\ stream' \in {0, stream}
        BY <1>2, EndTypes DEF FacadeInv
    <2>2. ModelTypes'
        BY <1>1, <1>2, <2>1 DEF ModelTypes
    <2>3. SharedTypes'
        BY <1>1, <1>2, <2>1, AssistantAssumption DEF SharedTypes
    <2> QED
        BY <2>2, <2>3
<1>7. ScreenTypes'
    <2>1. v \in 0..MaxSetups
        BY AssistantAssumption DEF ViewModels
    <2> QED
        BY <1>1, <1>2, <1>3, <2>1 DEF ScreenTypes
<1>8. AssistantTypeOK'
    BY <1>5, <1>6, <1>7, PartsAreTypes
<1>9. TopOK'
    BY <1>2, <1>3, <1>4 DEF TopOK, FacadeInv, historyVars
<1>10. ~misused' => SessionsOK'
    <2>1. recordings' = recordings /\ recordings \in Nat /\ sessions \in Nat
        BY <1>1, <1>2, MaxRecordingsAssumption DEF UploadTypeOK, SharedTypes, uploadVars
    <2>2. ~misused => recordings <= sessions /\ InSession \subseteq {v}
        BY <1>4, <2>1 DEF FacadeInv, SessionsOK
    <2> QED
        BY <1>2, <1>5, <2>1, <2>2, EndStep
<1>11. MadeOK'
    <2>1. setups \in Nat /\ stream \in Nat
        BY <1>1, AssistantAssumption DEF ModelTypes, SharedTypes
    <2> QED
        BY <1>2, <1>3, <1>4, <2>1, EndTypes DEF MadeOK, FacadeInv
<1> QED
    BY <1>5, <1>8, <1>9, <1>10, <1>11 DEF FacadeInv, OnlyFirstUnitTraps

LEMMA StartStep ==
    ASSUME FacadeInv, ~crashed, NEW v \in ViewModels, StartSession(v),
           v <= setups, ~misused => v = setups, presented' = presented \/ presented' = Nothing,
           UNCHANGED <<uploadVars, setups, heard, stream, panels, shown, crashed, historyVars>>
    PROVE  FacadeInv'
<1>1. UploadTypeOK /\ ModelTypes /\ SharedTypes /\ ScreenTypes /\ HistoryTypes
    BY TypesAreParts DEF FacadeInv
<1>2. UploadTypeOK' /\ HistoryTypes' /\ PanelsOK' /\ misused' = misused
    BY <1>1 DEF UploadTypeOK, uploadVars, HistoryTypes, historyVars, PanelsOK, FacadeInv
<1>3. ModelTypes' /\ SharedTypes'
    BY <1>1, StartTypes
<1>4. ScreenTypes'
    BY <1>1, AssistantAssumption DEF ScreenTypes, Nothing
<1>5. AssistantTypeOK'
    BY <1>2, <1>3, <1>4, PartsAreTypes
<1>6. TopOK'
    BY <1>2 DEF TopOK, FacadeInv, Nothing
<1>7. ~misused' => SessionsOK'
    BY <1>1, <1>2, MaxRecordingsAssumption, StartKeepsSessions
    DEF FacadeInv, UploadTypeOK, uploadVars
<1>8. MadeOK'
    <2>1. \A u \in ViewModels : due'[u] => due[u] \/ u = v
        BY <1>1 DEF StartSession, Bounded, ModelTypes
    <2> QED
        BY <2>1 DEF MadeOK, FacadeInv, Nothing
<1> QED
    BY <1>2, <1>5, <1>6, <1>7, <1>8 DEF FacadeInv, OnlyFirstUnitTraps

\* The process ends in start, which no unit has been made for.
LEMMA TrapStep ==
    ASSUME FacadeInv, NEW v \in ViewModels, StartTraps(v)
    PROVE  FacadeInv'
<1> USE DEF StartTraps, uploadVars, sessionVars, singletonVars, screenVars, historyVars
<1>1. OnlyFirstUnitTraps'
    BY AssistantAssumption DEF OnlyFirstUnitTraps
<1>2. AssistantTypeOK'
    BY DEF FacadeInv, AssistantTypeOK, UploadTypeOK
<1>3. PanelsOK' /\ TopOK' /\ MadeOK'
    BY DEF FacadeInv, PanelsOK, TopOK, MadeOK
<1>4. ~misused' => SessionsOK'
    BY DEF FacadeInv, SessionsOK, InSession
<1> QED
    BY <1>1, <1>2, <1>3, <1>4 DEF FacadeInv

LEMMA UserStep == FacadeInv /\ ~crashed /\ UserActs => FacadeInv'
<1> SUFFICES ASSUME FacadeInv, ~crashed, UserActs PROVE FacadeInv'
    OBVIOUS
<1>1. ASSUME NEW v \in ViewModels, RecordTapped(v) PROVE FacadeInv'
    BY <1>1, StartStep, TouchedIsLast DEF RecordTapped, screenVars
<1>2. ASSUME NEW v \in ViewModels, CancelTapped(v) \/ LanguageButtonTapped(v) PROVE FacadeInv'
    BY <1>2, CancelStep
<1>3. CASE LanguagePicked
    <2>1. /\ presented.of \in ViewModels /\ presented.of <= setups
          /\ ~misused => presented.of = setups
        BY <1>3 DEF LanguagePicked, FacadeInv, TopOK, MadeOK
    <2> QED
        BY <1>3, <2>1, StartStep DEF LanguagePicked
<1>4. CASE Dismissed
    <2> USE <1>4 DEF Dismissed, uploadVars, sessionVars, singletonVars, historyVars
    <2>1. UploadTypeOK /\ ModelTypes /\ SharedTypes /\ ScreenTypes /\ HistoryTypes
        BY TypesAreParts DEF FacadeInv
    <2>2. PanelsOK' /\ TopOK' /\ MadeOK'
        BY DEF FacadeInv, PanelsOK, TopOK, MadeOK, Nothing
    <2>3. UploadTypeOK' /\ ModelTypes' /\ SharedTypes' /\ HistoryTypes'
        BY <2>1 DEF UploadTypeOK, ModelTypes, SharedTypes, HistoryTypes
    <2>4. ScreenTypes'
        BY <2>1, AssistantAssumption DEF ScreenTypes, Nothing
    <2>5. ~misused' => SessionsOK'
        BY DEF FacadeInv, SessionsOK, InSession
    <2> QED
        BY <2>2, <2>3, <2>4, <2>5, PartsAreTypes DEF FacadeInv, OnlyFirstUnitTraps
<1>5. ASSUME NEW v \in ViewModels, StartTraps(v) PROVE FacadeInv'
    BY <1>5, TrapStep
<1> QED
    BY <1>1, <1>2, <1>3, <1>4, <1>5 DEF UserActs

LEMMA ChunkStep == FacadeInv /\ ~crashed /\ RunChunk => FacadeInv'
<1> SUFFICES ASSUME FacadeInv, ~crashed, RunChunk PROVE FacadeInv'
    OBVIOUS
<1> USE DEF RunChunk, Delegate, uploadVars, sessionVars, screenVars, historyVars
<1>1. UploadTypeOK /\ ModelTypes /\ SharedTypes /\ ScreenTypes /\ HistoryTypes
    BY TypesAreParts DEF FacadeInv
<1>2. \/ state[setups] = "nil" /\ crashed' = TRUE /\ stream' = stream
      \/ stream' \in {stream, setups} /\ crashed' = crashed
    OBVIOUS
<1>3. UploadTypeOK' /\ ModelTypes' /\ SharedTypes' /\ ScreenTypes' /\ HistoryTypes'
    BY <1>1, <1>2 DEF UploadTypeOK, ModelTypes, SharedTypes, ScreenTypes, HistoryTypes
<1>4. PanelsOK' /\ TopOK'
    BY DEF FacadeInv, PanelsOK, TopOK
<1>5. MadeOK'
    BY <1>1, <1>2, AssistantAssumption DEF FacadeInv, MadeOK, ModelTypes
<1>6. ~misused => setups \in InSession
    BY DEF FacadeInv, SessionsOK
<1>7. ~misused' => SessionsOK'
    BY <1>2, <1>6 DEF FacadeInv, SessionsOK, InSession
<1>8. OnlyFirstUnitTraps'
    BY <1>2, <1>6 DEF OnlyFirstUnitTraps, InSession
<1> QED
    BY <1>3, <1>4, <1>5, <1>7, <1>8, PartsAreTypes DEF FacadeInv

LEMMA AnswerStep == FacadeInv /\ ~crashed /\ RunAnswer => FacadeInv'
<1> SUFFICES ASSUME FacadeInv, ~crashed, RunAnswer PROVE FacadeInv'
    OBVIOUS
<1> USE DEF RunAnswer, uploadVars, singletonVars, screenVars, historyVars
<1>1. UploadTypeOK /\ ModelTypes /\ SharedTypes /\ ScreenTypes /\ HistoryTypes
    BY TypesAreParts DEF FacadeInv
<1>2. /\ due' = [due EXCEPT ![stream] = TRUE] /\ heard' = [heard EXCEPT ![stream] = TRUE]
      /\ stream \in ViewModels
    BY <1>1, AssistantAssumption DEF SharedTypes, ViewModels
<1>3. UploadTypeOK' /\ ModelTypes' /\ SharedTypes' /\ ScreenTypes' /\ HistoryTypes'
    BY <1>1, <1>2 DEF UploadTypeOK, ModelTypes, SharedTypes, ScreenTypes, HistoryTypes
<1>4. PanelsOK' /\ TopOK'
    BY DEF FacadeInv, PanelsOK, TopOK
<1>5. \A v \in ViewModels : due'[v] => due[v] \/ v = stream
    BY <1>1, <1>2 DEF ModelTypes
<1>6. MadeOK'
    BY <1>5 DEF FacadeInv, MadeOK
<1>7. ~misused' => SessionsOK'
    BY <1>2, <1>5 DEF FacadeInv, SessionsOK, InSession
<1> QED
    BY <1>3, <1>4, <1>6, <1>7, PartsAreTypes DEF FacadeInv, OnlyFirstUnitTraps

LEMMA UploadStep ==
    ASSUME UploadTypeOK, UploadDataToGoogleCloud
    PROVE  UploadTypeOK' /\ recordings' = recordings + 1
BY MaxRecordingsAssumption DEF UploadTypeOK, UploadDataToGoogleCloud, Recordings, Task

\* A work item runs: the session ends, with or without a recording; the host
\* may show another screen.
LEMMA TimerStep ==
    ASSUME FacadeInv, ~crashed, NEW v \in ViewModels, RunTimer(v)
    PROVE  FacadeInv'
<1>1. UploadTypeOK /\ ModelTypes /\ SharedTypes /\ ScreenTypes /\ HistoryTypes
    BY TypesAreParts DEF FacadeInv
<1>2. /\ due[v] /\ finished' = [finished EXCEPT ![v] = "true"]
      /\ UNCHANGED <<setups, sessions, presented, crashed, told, alerted, misused>>
    BY DEF RunTimer, historyVars
<1>3. v <= setups /\ setups \in ViewModels
    BY <1>1, <1>2, AssistantAssumption DEF FacadeInv, MadeOK, ModelTypes, ViewModels
<1>4. ~misused => InSession = {v} /\ v = setups
    BY <1>2 DEF FacadeInv, SessionsOK
<1>5. UploadTypeOK' /\ recordings' \in Nat /\ recordings' <= recordings + 1
    <2>1. UploadDataToGoogleCloud \/ UNCHANGED uploadVars
        BY DEF RunTimer, Deliver
    <2>2. CASE UploadDataToGoogleCloud
        BY <1>1, <2>2, UploadStep, MaxRecordingsAssumption DEF UploadTypeOK
    <2>3. CASE UNCHANGED uploadVars
        BY <1>1, <2>3, MaxRecordingsAssumption DEF UploadTypeOK, uploadVars
    <2> QED
        BY <2>1, <2>2, <2>3
<1>6. PICK ending \in SUBSET ViewModels :
          /\ v \in ending /\ EndSessions(ending, {v})
          /\ \/ UNCHANGED <<panels, shown>>
             \/ \E s \in Screens : Attach(setups, s)
    BY <1>3 DEF RunTimer, Deliver
<1>7. /\ PanelsOK' /\ panels' \in [Screens -> Seq(ViewModels)]
      /\ shown' \in Screens \cup {NoScreen}
      /\ TopOK'
    <2>1. CASE UNCHANGED <<panels, shown>>
        BY <1>1, <1>2, <2>1 DEF FacadeInv, PanelsOK, TopOK, ScreenTypes
    <2>2. CASE \E s \in Screens : Attach(setups, s)
        <3>1. PICK s \in Screens : Attach(setups, s)
            BY <2>2
        <3>2. /\ panels' \in [Screens -> Seq(ViewModels)]
              /\ \A t \in Screens : PanelOK(panels'[t], setups)
              /\ shown' = s /\ panels'[s] # <<>> /\ panels'[s][Len(panels'[s])] = setups
            BY <1>1, <1>3, <3>1, AttachPanels DEF ScreenTypes, FacadeInv, PanelsOK
        <3> QED
            BY <1>2, <3>2 DEF FacadeInv, PanelsOK, TopOK
    <2> QED
        BY <1>6, <2>1, <2>2
<1>8. ModelTypes' /\ SharedTypes'
    BY <1>1, <1>2, <1>6, AssistantAssumption, EndTypes DEF ModelTypes, SharedTypes, FacadeInv
<1>9. ScreenTypes' /\ HistoryTypes'
    BY <1>1, <1>2, <1>7 DEF ScreenTypes, HistoryTypes
<1>10. MadeOK'
    <2>1. setups \in Nat /\ stream \in Nat
        BY <1>1, AssistantAssumption DEF ModelTypes, SharedTypes
    <2> QED
        BY <1>2, <1>6, <2>1, EndTypes DEF MadeOK, FacadeInv
<1>11. ~misused' => SessionsOK'
    <2>1. recordings \in Nat /\ sessions \in Nat
        BY <1>1, MaxRecordingsAssumption DEF UploadTypeOK, SharedTypes
    <2>2. ~misused => recordings' <= sessions /\ InSession \subseteq ending
        BY <1>4, <1>5, <1>6, <2>1 DEF FacadeInv, SessionsOK
    <2> QED
        BY <1>2, <1>5, <1>6, <2>2, EndStep
<1> QED
    BY <1>2, <1>5, <1>7, <1>8, <1>9, <1>10, <1>11, PartsAreTypes DEF FacadeInv, OnlyFirstUnitTraps

LEMMA ReportStep == FacadeInv /\ ~crashed /\ RunReport => FacadeInv'
<1> SUFFICES ASSUME FacadeInv, ~crashed, RunReport PROVE FacadeInv'
    OBVIOUS
<1> USE DEF RunReport, TakeReport, sessionVars, singletonVars
<1>1. UploadTypeOK /\ ModelTypes /\ SharedTypes /\ ScreenTypes /\ HistoryTypes
    BY TypesAreParts DEF FacadeInv
<1>2. Head(callbacks) \in Report /\ callbacks' \in Seq(Report)
    BY <1>1 DEF UploadTypeOK
<1>3. Head(callbacks).of \in Recordings
    BY <1>2 DEF Report
<1>4. UploadTypeOK' /\ ModelTypes' /\ SharedTypes'
    BY <1>1, <1>2 DEF UploadTypeOK, ModelTypes, SharedTypes
<1>5. /\ presented' = presented \/ presented' = [kind |-> "alert", of |-> 0]
      /\ alerted' = alerted \/ alerted' = alerted \cup {Head(callbacks).of}
      /\ told' = told \cup {Head(callbacks).of}
    OBVIOUS
<1>6. ScreenTypes' /\ HistoryTypes'
    BY <1>1, <1>3, <1>5, AssistantAssumption DEF ScreenTypes, HistoryTypes
<1>7. PanelsOK' /\ TopOK' /\ MadeOK'
    BY <1>5 DEF FacadeInv, PanelsOK, TopOK, MadeOK
<1>8. ~misused' => SessionsOK'
    BY DEF FacadeInv, SessionsOK, InSession
<1> QED
    BY <1>4, <1>6, <1>7, <1>8, PartsAreTypes DEF FacadeInv, OnlyFirstUnitTraps

LEMMA NetworkTypes ==
    ASSUME UploadTypeOK, NetworkSteps
    PROVE  UploadTypeOK' /\ recordings' = recordings
<1> SUFFICES ASSUME NEW r \in Recordings,
                    \/ BucketStores(r) \/ LogKept(r) \/ UploadFails(r) \/ LogEnds(r)
                    \/ \E status \in {200, 500} : UploadAnswered(r, status)
             PROVE  UploadTypeOK' /\ recordings' = recordings
    BY DEF NetworkSteps
<1> USE DEF UploadTypeOK
<1>1. CASE BucketStores(r)
    BY <1>1 DEF BucketStores
<1>2. CASE LogKept(r)
    BY <1>2 DEF LogKept
<1>3. CASE UploadFails(r)
    BY <1>3 DEF UploadFails, Task
<1>4. CASE LogEnds(r)
    BY <1>4 DEF LogEnds, Task
<1>5. CASE \E status \in {200, 500} : UploadAnswered(r, status)
    <2>1. PICK status \in {200, 500} : UploadAnswered(r, status)
        BY <1>5
    <2>2. [of |-> r, success |-> TRUE] \in Report
        BY DEF Report
    <2>3. callbacks' \in Seq(Report)
        BY <2>1, <2>2, AppendProperties DEF UploadAnswered
    <2> QED
        BY <2>1, <2>3 DEF UploadAnswered, Task
<1> QED
    BY <1>1, <1>2, <1>3, <1>4, <1>5

LEMMA NetworkStep == FacadeInv /\ ~crashed /\ Network => FacadeInv'
<1> SUFFICES ASSUME FacadeInv, ~crashed, Network PROVE FacadeInv'
    OBVIOUS
<1> USE DEF Network, sessionVars, singletonVars, screenVars, historyVars
<1>1. UploadTypeOK /\ ModelTypes /\ SharedTypes /\ ScreenTypes /\ HistoryTypes
    BY TypesAreParts DEF FacadeInv
<1>2. UploadTypeOK' /\ recordings' = recordings
    BY <1>1, NetworkTypes
<1>3. ModelTypes' /\ SharedTypes' /\ ScreenTypes' /\ HistoryTypes'
    BY <1>1 DEF ModelTypes, SharedTypes, ScreenTypes, HistoryTypes
<1>4. PanelsOK' /\ TopOK' /\ MadeOK'
    BY DEF FacadeInv, PanelsOK, TopOK, MadeOK
<1>5. ~misused' => SessionsOK'
    BY <1>2 DEF FacadeInv, SessionsOK, InSession
<1> QED
    BY <1>2, <1>3, <1>4, <1>5, PartsAreTypes DEF FacadeInv, OnlyFirstUnitTraps

-----------------------------------------------------------------------------
(* The theorems.                                                           *)

\* The invariant holds in every reachable state: whoever calls setup and
\* configureAssistant, and in whatever order (Assitant.swift:94-131).
THEOREM FacadeInvariance == SafetySpec => []FacadeInv
<1>1. FacadeInv /\ [Next]_vars => FacadeInv'
    <2> SUFFICES ASSUME FacadeInv, [Next]_vars PROVE FacadeInv'
        OBVIOUS
    <2>1. CASE Next
        <3>1. ~crashed
            BY <2>1 DEF Next
        <3>2. ASSUME Timers PROVE FacadeInv'
            BY <3>1, <3>2, TimerStep DEF Timers
        <3> QED
            BY <2>1, <3>1, <3>2, HostStep, UserStep, ChunkStep, AnswerStep, ReportStep, NetworkStep
            DEF Next
    <2>2. CASE UNCHANGED vars
        BY <2>2
        DEF vars, uploadVars, sessionVars, singletonVars, screenVars, historyVars, FacadeInv,
            AssistantTypeOK, UploadTypeOK, PanelsOK, TopOK, MadeOK, SessionsOK, InSession,
            OnlyFirstUnitTraps
    <2> QED
        BY <2>1, <2>2
<1> QED
    BY FacadeInit, <1>1, PTL DEF SafetySpec

\* Every variable of the facade keeps its type, and a screen never holds more
\* panels than setup has made (Assitant.swift:126-129).
THEOREM FacadeTypeCorrect == SafetySpec => []AssistantTypeOK
<1>1. FacadeInv => AssistantTypeOK
    BY DEF FacadeInv
<1> QED
    BY FacadeInvariance, <1>1, PTL

\* Under a host that keeps the order of the README neither the view controller
\* nor the audio buffers are nil when they are unwrapped (Assitant.swift:118,
\* AssistantViewControllerViewModel.swift:82).  The audio unit may be, but only
\* if no prepare has made one and this one fails (AudioController.swift:50, 126).
THEOREM OnlyFirstUnitTrapsInOrder == SafetySpec => []OnlyFirstUnitTraps
<1>1. FacadeInv => OnlyFirstUnitTraps
    BY DEF FacadeInv
<1> QED
    BY FacadeInvariance, <1>1, PTL

\* However many units are made, and whatever of prepare and start fails, only
\* the unit that stop can reach ever runs, and only in a session of the last
\* view model (AudioController.swift:125-132).
THEOREM MicrophoneReachable == SafetySpec => []MicrophoneFollowsSession
<1>1. FacadeInv => MicrophoneFollowsSession
    BY DEF FacadeInv, SessionsOK, MicrophoneFollowsSession
<1> QED
    BY FacadeInvariance, <1>1, PTL

\* The shared call answers to the view model that is listening
\* (SpeechRecognitionService.swift:36-56).
THEOREM StreamOfListener == SafetySpec => []StreamBelongsToSession
<1>1. FacadeInv => StreamBelongsToSession
    BY DEF FacadeInv, SessionsOK, StreamBelongsToSession, InSession
<1> QED
    BY FacadeInvariance, <1>1, PTL

\* However many panels earlier setups have left on the screens, a touch reaches
\* the last one (Assitant.swift:117-129).
THEOREM LatestIsTouched == SafetySpec => []TouchesReachLatest
<1>1. FacadeInv => TouchesReachLatest
    BY TouchedIsLast DEF TouchesReachLatest
<1> QED
    BY FacadeInvariance, <1>1, PTL

\* No more recordings are handed to the upload than sessions were begun
\* (AssistantViewControllerViewModel.swift:118-133).
THEOREM OneRecordingPerSession == SafetySpec => []RecordingsAreSessions
<1>1. FacadeInv => RecordingsAreSessions
    <2> SUFFICES ASSUME FacadeInv, ~misused PROVE recordings <= sessions
        BY DEF RecordingsAreSessions
    <2>1. recordings \in Nat /\ sessions \in Nat
        BY MaxRecordingsAssumption DEF FacadeInv, AssistantTypeOK, UploadTypeOK
    <2> QED
        BY <2>1 DEF FacadeInv, SessionsOK
<1> QED
    BY FacadeInvariance, <1>1, PTL
=============================================================================
