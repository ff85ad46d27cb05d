------------------------- MODULE SessionProperties -------------------------
(***************************************************************************)
(* What a speech session promises: invariants and action properties of     *)
(* AssistantSession.  The first group holds whatever the host, the queue   *)
(* and the recogniser do; each of the others needs an assumption that the  *)
(* run checking it names.                                                  *)
(***************************************************************************)
EXTENDS AssistantSession

\* Every variable has its type.
TypeOK ==
    /\ mainQ \in Seq(Blocks)
    /\ AudioTypeOK /\ ServiceTypeOK
    /\ state \in {"nil", "STARTED", "ENDED"}
    /\ finished \in {"nil", "true", "false"}
    /\ currentTranscript \in Nat /\ label \in Nat
    /\ timer \in [Timers -> {"idle", "armed", "queued"}]
    /\ processAudioData \in 0..ChunkSize /\ savedAudioData \subseteq Sessions
    /\ language \in [Copies -> Languages]
    /\ screen \in {"unloaded", "STARTED", "ENDED"} /\ sheetShown \in BOOLEAN
    /\ crashed \in BOOLEAN
    /\ sessionNo \in Sessions
    /\ deliveries \in [Sessions -> Nat]
    /\ lastDelivery \in Delivery
    /\ cancelled \subseteq Sessions

-----------------------------------------------------------------------------
(* Promises that hold in every environment.                                *)

\* The microphone never runs outside a session, whichever of the five ways
\* out of STARTED was taken (cancel, language, silence, 15 s, host).
MicrophoneOnlyInSession == micRunning => state = "STARTED"

\* A session always has its 15 s timer pending, and no work item of an
\* earlier session is left, armed or in the queue, to end a later one.
SessionIsBounded ==
    /\ state = "STARTED" <=> timer["maxEnding"] # "idle"
    /\ \A n \in Timers : timer[n] = "queued" <=> Queued(n)

\* A session delivers one transcript at most, although two timers and late
\* answers race to finish it and it can even finish after it was ended.
DeliveredAtMostOnce == \A s \in Sessions : deliveries[s] <= 1

\* Nothing is delivered for a session that the user cancelled, whatever
\* answers and expired timers were already in the queue.
CancelIsFinal == \A s \in cancelled : deliveries[s] = 0

\* The silence timer only runs after words were heard, so that its expiry
\* delivers a transcript.
SilenceFollowsSpeech == timer["ending"] # "idle" => currentTranscript # 0

\* The language does not change under a running session: the sheet that
\* changes it opens only after the session was cancelled.
LanguageFixedInSession ==
    [][state = "STARTED" /\ state' = "STARTED" => language' = language]_vars

\* At most one call is open for writing, the one the service streams to, and
\* a session opens one call at most (one more may follow the last session).
OneOpenStream ==
    /\ Len(calls) <= sessionNo + 1
    /\ \A c \in Calls : calls[c].halfClosed <=> ~(streaming /\ c = Len(calls))

-----------------------------------------------------------------------------
(* Promises that need the host to leave a running session alone.           *)

\* Outside a session nothing of the last one is left: no transcript, no
\* caption but the language's, no timer.
EndedIsClean ==
    state = "ENDED" => /\ currentTranscript = 0 /\ label = 0
                       /\ \A n \in Timers : timer[n] = "idle"

\* The label shows the transcript that would be delivered.
LabelShowsTranscript == Attached => label = currentTranscript

\* A transcript is delivered from within the session it belongs to.
DeliversOnlyWhileListening ==
    lastDelivery.session # 0 => lastDelivery.in = "STARTED"

-----------------------------------------------------------------------------
(* What all of this amounts to for the host.                               *)

\* How session s has ended so far.  A session is silent when it is over and
\* neither of the others.
OutcomeOf(s) ==
    IF deliveries[s] > 0 THEN "delivered"
    ELSE IF s \in cancelled THEN "cancelled"
    ELSE IF s \in 1..sessionNo /\ ~(s = sessionNo /\ state = "STARTED") THEN "silent"
    ELSE "none"

Contract == INSTANCE SessionContract WITH
    session <- sessionNo,
    listening <- state = "STARTED",
    heard <- currentTranscript # 0,
    outcome <- [s \in Sessions |-> OutcomeOf(s)]

\* A host that does not navigate within a session gets what SessionContract
\* says, late answers and full queues notwithstanding.
KeepsContract == Contract!ContractSpec

-----------------------------------------------------------------------------
(* Promises that need, besides, every block to run before the next event   *)
(* or no answer to a half-closed call.                                     *)

\* The delivered transcript is an answer of the call that the session opened.
DeliversLiveTranscript ==
    lastDelivery.session # 0 =>
        calls[lastDelivery.transcript].session = lastDelivery.session

\* The audio handed over with a transcript is of that session alone.
DeliversOwnAudio == lastDelivery.audio \subseteq {lastDelivery.session}

\* No call is open for writing once the session is over.
NoStreamOutsideSession == streaming => state = "STARTED"

\* The stream is in the language that is selected.
StreamUsesSelectedLanguage ==
    streaming => calls[Len(calls)].language = language["viewModel"]

-----------------------------------------------------------------------------
(* Statements of the sources that the code does not keep.                  *)

\* An error that ends the call of the running session ends the session.
ErrorEndsSession ==
    [][ AtHead("done") /\ mainQ' = Tail(mainQ) /\ state = "STARTED"
        /\ calls[Head(mainQ).of].status = "error"
        /\ calls[Head(mainQ).of].session = sessionNo
        /\ ~calls[Head(mainQ).of].halfClosed => finished' = "true" ]_vars

\* No input of the microphone or the recogniser ends the process.
NeverCrashes == ~crashed
-----------------------------------------------------------------------------
(* The inductive invariant behind the promises of the first group.         *)

\* The queue q agrees with the timers t: the work item of a timer is in it
\* once if the timer has expired, and not otherwise.
QueueOK(q, t) ==
    /\ q \in Seq(Blocks)
    /\ \A n \in Timers : t[n] = "queued" <=> \E i \in DOMAIN q : q[i].kind = n
    /\ \A i, j \in DOMAIN q :
          q[i].kind \in Timers /\ q[j].kind = q[i].kind => i = j
    /\ \A i \in DOMAIN q : /\ q[i].kind \in Timers => q[i].of = 0
                           /\ q[i].kind = "result" => q[i].of # 0
                           /\ q[i].kind = "chunk" => q[i].of \in Sessions

\* What the view and the verdict say about the state, and what a verdict
\* leaves running: nothing that could deliver again.
VerdictOK ==
    /\ Attached => (screen = "STARTED" <=> state = "STARTED")
    /\ ~Attached => /\ screen = "unloaded" /\ ~sheetShown
                    /\ state = "ENDED" => finished # "nil"
    /\ sheetShown => state # "STARTED"
    /\ state = "STARTED" => finished = "nil"
    /\ finished # "nil" => timer["ending"] = "idle"

\* Before the first configureAssistant or start nothing has happened.
FreshOK ==
    state = "nil" => /\ finished = "nil" /\ currentTranscript = 0
                     /\ mainQ = <<>> /\ calls = <<>> /\ ~streaming

\* A session that delivered or was cancelled has its verdict; the sessions
\* to come have done neither.
HistoryOK ==
    /\ deliveries[sessionNo] > 0 \/ sessionNo \in cancelled => finished # "nil"
    /\ \A s \in Sessions : s > sessionNo => deliveries[s] = 0 /\ s \notin cancelled

\* Outside a session the writer may be one call ahead of the sessions, in a
\* session that has not streamed yet it is one behind.
StreamOK ==
    /\ Len(calls) + (IF state = "STARTED" THEN 1 ELSE 0)
          <= sessionNo + (IF streaming THEN 1 ELSE 0)
    /\ streaming => calls # <<>>
    /\ \A c \in Calls : calls[c].halfClosed <=> ~(streaming /\ c = Len(calls))

\* The 15 s timer is pending in a session and only then.
BoundOK == state = "STARTED" <=> timer["maxEnding"] # "idle"

IInv ==
    /\ TypeOK /\ QueueOK(mainQ, timer) /\ VerdictOK /\ FreshOK /\ HistoryOK
    /\ StreamOK /\ BoundOK
    /\ MicrophoneOnlyInSession /\ SilenceFollowsSpeech
    /\ DeliveredAtMostOnce /\ CancelIsFinal
=============================================================================
