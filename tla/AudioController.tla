-------------------------- MODULE AudioController --------------------------
(***************************************************************************)
(* AudioController.swift: the RemoteIO unit and the recording callback     *)
(* that runs on the audio thread.                                          *)
(***************************************************************************)
EXTENDS MainQueue

CONSTANT AudioMayFail  \* may the calls to Core Audio return an error?

ASSUME AudioMayFailAssumption == AudioMayFail \in BOOLEAN

VARIABLES remoteIOUnit,  \* "nil", "raw" (made, not initialised) or "ready"
          micRunning     \* has the unit been started and not stopped?

audioVars == <<remoteIOUnit, micRunning>>

Units == {"nil", "raw", "ready"}

AudioTypeOK == remoteIOUnit \in Units /\ micRunning \in BOOLEAN

AudioInit == remoteIOUnit = "nil" /\ micRunning = FALSE

\* The unit `prepare` may leave behind: the old one when the session refuses
\* its category or no unit can be made, a raw one when a later call fails.
Prepared == IF AudioMayFail THEN {remoteIOUnit, "raw", "ready"} ELSE {"ready"}

\* `prepare` and then `start`, whose status nobody reads: only an initialised
\* unit can begin to record.
StartUnit ==
    \E unit \in Prepared \ {"nil"} :
        /\ remoteIOUnit' = unit
        /\ micRunning' \in {b \in BOOLEAN : IF b THEN unit = "ready" ELSE AudioMayFail}

\* `start` unwraps the unit, which traps when `prepare` left none.
StartTraps == "nil" \in Prepared

\* Fault: the unit is not stopped.
UnitLeftRunning == UNCHANGED audioVars

StopUnit == micRunning' = FALSE /\ UNCHANGED remoteIOUnit

\* The audio thread renders a buffer and posts it to the main queue.
RecordChunk(session) ==
    /\ micRunning
    /\ HasRoom
    /\ mainQ' = Append(mainQ, Block("chunk", session))
    /\ UNCHANGED audioVars
=============================================================================
