--------------------------- MODULE SessionProofs ---------------------------
(***************************************************************************)
(* The promises of SessionProperties that hold in every environment, for   *)
(* every value of the constants.                                           *)
(***************************************************************************)
EXTENDS SessionProperties, SequenceTheorems, TLAPS

Phases == {"idle", "armed", "queued"}

-----------------------------------------------------------------------------
(* The main queue under the three operations on it.                        *)

\* Cancelling blocks keeps the queue a queue, of the same length.
LEMMA CancelShape ==
    ASSUME NEW q \in Seq(Blocks), NEW doomed
    PROVE  /\ Cancel(q, doomed) \in Seq(Blocks)
           /\ DOMAIN Cancel(q, doomed) = DOMAIN q
           /\ \A i \in DOMAIN q :
                Cancel(q, doomed)[i]
                    = IF q[i] \in doomed THEN Block("skipped", 0) ELSE q[i]
<1>1. DOMAIN q = 1..Len(q) /\ Len(q) \in Nat
  BY LenProperties
<1>2. Block("skipped", 0) \in Blocks
  BY DEF Block, Blocks, BlockKinds
<1>3. \A i \in DOMAIN q : q[i] \in Blocks
  BY ElementOfSeq, <1>1
<1>4. Cancel(q, doomed) \in [1..Len(q) -> Blocks]
  BY <1>1, <1>2, <1>3 DEF Cancel
<1>5. Cancel(q, doomed) \in Seq(Blocks)
  BY <1>1, <1>4, SeqDef
<1> QED
  BY <1>5 DEF Cancel

\* Cancelling the work items of some timers leaves a queue that agrees with
\* timers of which these are no longer queued.
LEMMA CancelTimersOK ==
    ASSUME NEW q, NEW t \in [Timers -> Phases], QueueOK(q, t),
           NEW N \in SUBSET Timers, NEW u \in [Timers -> Phases],
           \A n \in N : u[n] # "queued",
           \A n \in Timers \ N : u[n] = t[n]
    PROVE  QueueOK(Cancel(q, TimerBlocks(N)), u)
<1> DEFINE c == Cancel(q, TimerBlocks(N))
<1>1. q \in Seq(Blocks)
  BY DEF QueueOK
<1>2. /\ c \in Seq(Blocks) /\ DOMAIN c = DOMAIN q
      /\ \A i \in DOMAIN q :
            c[i] = IF q[i] \in TimerBlocks(N) THEN Block("skipped", 0) ELSE q[i]
  BY <1>1, CancelShape
<1>3. \A i \in DOMAIN q : q[i] \in Blocks
  BY <1>1, ElementOfSeq, LenProperties
<1>4. \A i \in DOMAIN q : q[i] \in TimerBlocks(N) <=> q[i].kind \in N
  BY <1>3 DEF QueueOK, Blocks, TimerBlocks
<1>5. \A i \in DOMAIN q : IF q[i].kind \in N THEN c[i].kind = "skipped" /\ c[i].of = 0
                                             ELSE c[i] = q[i]
  BY <1>2, <1>4 DEF Block
<1> HIDE DEF c
<1>6. \A n \in Timers : u[n] = "queued" <=> \E i \in DOMAIN c : c[i].kind = n
  BY <1>2, <1>5 DEF QueueOK, Timers
<1>7. \A i, j \in DOMAIN c :
         c[i].kind \in Timers /\ c[j].kind = c[i].kind => i = j
  BY <1>2, <1>5 DEF QueueOK, Timers
<1>8. \A i \in DOMAIN c : /\ c[i].kind \in Timers => c[i].of = 0
                          /\ c[i].kind = "result" => c[i].of # 0
                          /\ c[i].kind = "chunk" => c[i].of \in Sessions
  BY <1>2, <1>5 DEF QueueOK, Timers
<1> QED
  BY <1>2, <1>6, <1>7, <1>8 DEF QueueOK, c

\* Dropping the queued answers of a call leaves the timers' work items alone.
LEMMA CancelAnswersOK ==
    ASSUME NEW q, NEW t, QueueOK(q, t), NEW call
    PROVE  QueueOK(Cancel(q, AnswersOf(call)), t)
<1> DEFINE c == Cancel(q, AnswersOf(call))
<1>1. q \in Seq(Blocks)
  BY DEF QueueOK
<1>2. /\ c \in Seq(Blocks) /\ DOMAIN c = DOMAIN q
      /\ \A i \in DOMAIN q :
            c[i] = IF q[i] \in AnswersOf(call) THEN Block("skipped", 0) ELSE q[i]
  BY <1>1, CancelShape
<1> HIDE DEF c
<1>3. \A i \in DOMAIN q : \/ c[i] = q[i]
                          \/ /\ c[i].kind = "skipped"
                             /\ q[i].kind \in {"result", "noResult"}
  <2> TAKE i \in DOMAIN q
  <2>1. q[i] \in AnswersOf(call) => q[i].kind \in {"result", "noResult"}
    BY DEF AnswersOf
  <2> QED
    BY <1>2, <2>1 DEF Block
<1>4. \A n \in Timers : (\E i \in DOMAIN c : c[i].kind = n)
                          <=> (\E i \in DOMAIN q : q[i].kind = n)
  BY <1>2, <1>3 DEF Timers
<1>5. \A i, j \in DOMAIN c :
         c[i].kind \in Timers /\ c[j].kind = c[i].kind => i = j
  BY <1>2, <1>3 DEF QueueOK, Timers
<1>6. \A i \in DOMAIN c : /\ c[i].kind \in Timers => c[i].of = 0
                          /\ c[i].kind = "result" => c[i].of # 0
                          /\ c[i].kind = "chunk" => c[i].of \in Sessions
  BY <1>2, <1>3 DEF QueueOK, Timers
<1> QED
  BY <1>2, <1>4, <1>5, <1>6 DEF QueueOK, c

\* Appending a block of another kind than the timers'.
LEMMA AppendOK ==
    ASSUME NEW q, NEW t, QueueOK(q, t), NEW b \in Blocks,
           b.kind \notin Timers,
           b.kind = "result" => b.of # 0,
           b.kind = "chunk" => b.of \in Sessions
    PROVE  QueueOK(Append(q, b), t)
<1> DEFINE a == Append(q, b)
<1>1. q \in Seq(Blocks)
  BY DEF QueueOK
<1>2. /\ a \in Seq(Blocks)
      /\ DOMAIN q = 1..Len(q) /\ Len(q) \in Nat
      /\ DOMAIN a = 1..(Len(q) + 1)
      /\ \A i \in 1..Len(q) : a[i] = q[i]
      /\ a[Len(q) + 1] = b
  BY <1>1, AppendProperties, LenProperties
<1> HIDE DEF a
<1>3. \A i \in DOMAIN a : \/ i \in DOMAIN q /\ a[i] = q[i]
                          \/ i = Len(q) + 1 /\ a[i] = b
  BY <1>2
<1>4. \A i \in DOMAIN q : i \in DOMAIN a /\ a[i] = q[i]
  BY <1>2
<1>5. \A n \in Timers : t[n] = "queued" <=> \E i \in DOMAIN a : a[i].kind = n
  BY <1>3, <1>4 DEF QueueOK
<1>6. \A i, j \in DOMAIN a :
         a[i].kind \in Timers /\ a[j].kind = a[i].kind => i = j
  BY <1>3 DEF QueueOK
<1>7. \A i \in DOMAIN a : /\ a[i].kind \in Timers => a[i].of = 0
                          /\ a[i].kind = "result" => a[i].of # 0
                          /\ a[i].kind = "chunk" => a[i].of \in Sessions
  BY <1>3 DEF QueueOK
<1> QED
  BY <1>2, <1>5, <1>6, <1>7 DEF QueueOK, a

\* A timer that expires appends its work item and is queued.
LEMMA AppendTimerOK ==
    ASSUME NEW q, NEW t \in [Timers -> Phases], QueueOK(q, t),
           NEW n \in Timers, t[n] # "queued"
    PROVE  QueueOK(Append(q, Block(n, 0)), [t EXCEPT ![n] = "queued"])
<1> DEFINE a == Append(q, Block(n, 0))
           u == [t EXCEPT ![n] = "queued"]
<1>1. q \in Seq(Blocks) /\ Block(n, 0) \in Blocks
  BY DEF QueueOK, Block, Blocks, BlockKinds
<1>2. /\ a \in Seq(Blocks)
      /\ DOMAIN q = 1..Len(q) /\ Len(q) \in Nat
      /\ DOMAIN a = 1..(Len(q) + 1)
      /\ \A i \in 1..Len(q) : a[i] = q[i]
      /\ a[Len(q) + 1] = Block(n, 0)
  BY <1>1, AppendProperties, LenProperties
<1>3. a[Len(q) + 1].kind = n /\ a[Len(q) + 1].of = 0
  BY <1>2 DEF Block
<1> HIDE DEF a
<1>4. \A i \in DOMAIN a : (i \in DOMAIN q /\ a[i] = q[i]) \/ i = Len(q) + 1
  BY <1>2
<1>5. \A i \in DOMAIN q : i \in DOMAIN a /\ a[i] = q[i] /\ a[i].kind # n
  BY <1>2 DEF QueueOK
<1>6. \A m \in Timers : u[m] = "queued" <=> \E i \in DOMAIN a : a[i].kind = m
  <2> TAKE m \in Timers
  <2>1. CASE m = n
    BY <2>1, <1>2, <1>3
  <2>2. CASE m # n
    BY <2>2, <1>3, <1>4, <1>5 DEF QueueOK
  <2> QED BY <2>1, <2>2
<1>7. \A i, j \in DOMAIN a :
         a[i].kind \in Timers /\ a[j].kind = a[i].kind => i = j
  BY <1>3, <1>4, <1>5 DEF QueueOK
<1>8. \A i \in DOMAIN a : /\ a[i].kind \in Timers => a[i].of = 0
                          /\ a[i].kind = "result" => a[i].of # 0
                          /\ a[i].kind = "chunk" => a[i].of \in Sessions
  BY <1>3, <1>4 DEF QueueOK, Timers
<1> QED
  BY <1>2, <1>6, <1>7, <1>8 DEF QueueOK, a

\* The first block and the rest of a queue.
LEMMA HeadTail ==
    ASSUME NEW q \in Seq(Blocks), q # <<>>
    PROVE  /\ Head(q) \in Blocks /\ Tail(q) \in Seq(Blocks)
           /\ 1 \in DOMAIN q /\ Head(q) = q[1]
           /\ \A i \in DOMAIN q : i \in Int
           /\ \A i \in DOMAIN Tail(q) : i + 1 \in DOMAIN q /\ i + 1 # 1
                                        /\ i \in Int /\ Tail(q)[i] = q[i + 1]
           /\ \A i \in DOMAIN q : i # 1 => i - 1 \in DOMAIN Tail(q)
                                           /\ Tail(q)[i - 1] = q[i]
<1>1. /\ Head(q) \in Blocks /\ Tail(q) \in Seq(Blocks)
      /\ Len(Tail(q)) = Len(q) - 1
      /\ \A i \in 1..Len(Tail(q)) : Tail(q)[i] = q[i + 1]
  BY HeadTailProperties
<1>2. /\ DOMAIN q = 1..Len(q) /\ Len(q) \in Nat \ {0}
      /\ DOMAIN Tail(q) = 1..Len(Tail(q))
  BY <1>1, LenProperties, EmptySeq
<1> QED
  BY <1>1, <1>2

\* Taking off a block of another kind than the timers'.
LEMMA TailOK ==
    ASSUME NEW q, NEW t, QueueOK(q, t), q # <<>>, Head(q).kind \notin Timers
    PROVE  QueueOK(Tail(q), t)
<1> DEFINE r == Tail(q)
<1>1. q \in Seq(Blocks)
  BY DEF QueueOK
<1>2. /\ r \in Seq(Blocks)
      /\ q[1].kind \notin Timers
      /\ \A i \in DOMAIN r : i + 1 \in DOMAIN q /\ i \in Int /\ r[i] = q[i + 1]
      /\ \A i \in DOMAIN q : i # 1 => i - 1 \in DOMAIN r /\ r[i - 1] = q[i]
  BY <1>1, HeadTail
<1> HIDE DEF r
<1>3. \A n \in Timers : (\E i \in DOMAIN r : r[i].kind = n)
                          <=> (\E i \in DOMAIN q : q[i].kind = n)
  BY <1>2
<1>4. \A i, j \in DOMAIN r :
         r[i].kind \in Timers /\ r[j].kind = r[i].kind => i = j
  <2> TAKE i, j \in DOMAIN r
  <2> HAVE r[i].kind \in Timers /\ r[j].kind = r[i].kind
  <2>1. q[i + 1].kind \in Timers /\ q[j + 1].kind = q[i + 1].kind
    BY <1>2
  <2>2. i + 1 = j + 1
    BY <2>1, <1>2 DEF QueueOK
  <2> QED
    BY <2>2, <1>2
<1>5. \A i \in DOMAIN r : /\ r[i].kind \in Timers => r[i].of = 0
                          /\ r[i].kind = "result" => r[i].of # 0
                          /\ r[i].kind = "chunk" => r[i].of \in Sessions
  BY <1>2 DEF QueueOK
<1> QED
  BY <1>2, <1>3, <1>4, <1>5 DEF QueueOK, r

\* Taking off the work item of a timer, which is then spent.
LEMMA TailTimerOK ==
    ASSUME NEW q, NEW t \in [Timers -> Phases], QueueOK(q, t),
           NEW n \in Timers, q # <<>>, Head(q).kind = n
    PROVE  QueueOK(Tail(q), [t EXCEPT ![n] = "idle"])
<1> DEFINE r == Tail(q)
           u == [t EXCEPT ![n] = "idle"]
<1>1. q \in Seq(Blocks)
  BY DEF QueueOK
<1>2. /\ r \in Seq(Blocks)
      /\ 1 \in DOMAIN q /\ q[1].kind = n
      /\ \A i \in DOMAIN r : i + 1 \in DOMAIN q /\ i + 1 # 1 /\ i \in Int /\ r[i] = q[i + 1]
      /\ \A i \in DOMAIN q : i # 1 => i - 1 \in DOMAIN r /\ r[i - 1] = q[i]
  BY <1>1, HeadTail
<1> HIDE DEF r
<1>3. \A m \in Timers : u[m] = "queued" <=> \E i \in DOMAIN r : r[i].kind = m
  <2> TAKE m \in Timers
  <2>1. CASE m = n
    <3>1. \A i \in DOMAIN r : r[i].kind # n
      BY <1>2 DEF QueueOK
    <3> QED
      BY <2>1, <3>1
  <2>2. CASE m # n
    <3>1. (\E i \in DOMAIN r : r[i].kind = m) <=> (\E i \in DOMAIN q : q[i].kind = m)
      BY <2>2, <1>2
    <3> QED
      BY <2>2, <3>1 DEF QueueOK
  <2> QED BY <2>1, <2>2
<1>4. \A i, j \in DOMAIN r :
         r[i].kind \in Timers /\ r[j].kind = r[i].kind => i = j
  <2> TAKE i, j \in DOMAIN r
  <2> HAVE r[i].kind \in Timers /\ r[j].kind = r[i].kind
  <2>1. q[i + 1].kind \in Timers /\ q[j + 1].kind = q[i + 1].kind
    BY <1>2
  <2>2. i + 1 = j + 1
    BY <2>1, <1>2 DEF QueueOK
  <2> QED
    BY <2>2, <1>2
<1>5. \A i \in DOMAIN r : /\ r[i].kind \in Timers => r[i].of = 0
                          /\ r[i].kind = "result" => r[i].of # 0
                          /\ r[i].kind = "chunk" => r[i].of \in Sessions
  BY <1>2 DEF QueueOK
<1> QED
  BY <1>2, <1>3, <1>4, <1>5 DEF QueueOK, r

-----------------------------------------------------------------------------
(* The stream and the timers when a session ends.                          *)

\* Half-closing the stream leaves no call open and, outside a session, no
\* more calls than sessions.
LEMMA StopStreamingOK ==
    ASSUME IInv, StopStreaming, state # "ENDED", state' = "ENDED",
           sessionNo' = sessionNo
    PROVE  ServiceTypeOK' /\ StreamOK'
<1> USE DEF IInv, TypeOK, ServiceTypeOK, FreshOK, StreamOK, Calls
<1>1. state = "STARTED" \/ (calls = <<>> /\ ~streaming)
  OBVIOUS
<1>2. Len(calls) \in Nat /\ DOMAIN calls = 1..Len(calls) /\ sessionNo \in Nat
  BY LenProperties, SessionAssumption DEF Sessions
<1>3. CASE ~streaming
  <2>1. calls' = calls /\ streaming' = streaming
    BY <1>3 DEF StopStreaming, serviceVars
  <2> QED
    BY <1>1, <1>2, <1>3, <2>1
<1>4. CASE streaming
  <2> DEFINE n == Len(calls)
             new == [calls[n] EXCEPT !.halfClosed = TRUE]
  <2>1. n \in 1..Len(calls) /\ calls[n] \in Call
    BY <1>2, <1>4, EmptySeq, ElementOfSeq
  <2>2. new \in Call /\ new.halfClosed
    BY <2>1 DEF Call
  <2>3. streaming' = FALSE /\ calls' = [calls EXCEPT ![n] = new]
    BY <1>4 DEF StopStreaming
  <2> HIDE DEF new
  <2>4. /\ calls' \in Seq(Call) /\ Len(calls') = n
        /\ \A c \in 1..n : calls'[c] = IF c = n THEN new ELSE calls[c]
    BY <2>1, <2>2, <2>3, ExceptSeq
  <2>5. DOMAIN calls' = 1..n
    BY <2>4, LenProperties
  <2>6. \A c \in 1..n : calls'[c].halfClosed
    BY <1>2, <1>4, <2>2, <2>4
  <2>7. Len(calls') + (IF state' = "STARTED" THEN 1 ELSE 0)
          <= sessionNo' + (IF streaming' THEN 1 ELSE 0)
    BY <1>1, <1>2, <1>4, <2>3, <2>4
  <2>8. ServiceTypeOK'
    BY <2>3, <2>4
  <2>9. \A c \in Calls' : calls'[c].halfClosed <=> ~(streaming' /\ c = Len(calls'))
    BY <2>3, <2>5, <2>6
  <2> QED
    BY <2>3, <2>7, <2>8, <2>9
<1> QED
  BY <1>3, <1>4

\* What SetEnded establishes, from a queue and timers that agree and of which
\* none was started anew.
LEMMA SetEndedOK ==
    ASSUME IInv, NEW q, NEW t \in [Timers -> Phases], NEW text \in Nat,
           QueueOK(q, t), \A n \in Timers : t[n] \in {timer[n], "idle"},
           SetEnded(q, t, text), sessionNo' = sessionNo
    PROVE  /\ QueueOK(mainQ', timer') /\ timer' \in [Timers -> Phases]
           /\ state' = "ENDED" /\ timer'["maxEnding"] = "idle"
           /\ timer'["ending"] = "idle" \/ (/\ timer'["ending"] = t["ending"]
                                            /\ currentTranscript' = currentTranscript
                                            /\ state = "ENDED")
           /\ currentTranscript' \in Nat /\ label' \in Nat
           /\ processAudioData' \in 0..ChunkSize /\ savedAudioData' \subseteq Sessions
           /\ AudioTypeOK' /\ ServiceTypeOK' /\ ~micRunning' /\ StreamOK'
           /\ screen' \in {"unloaded", "STARTED", "ENDED"}
           /\ IF Attached THEN screen' # "STARTED" ELSE screen' = screen
<1> USE DEF IInv
<1>1. CASE state = "ENDED"
  <2>1. /\ mainQ' = q /\ timer' = t /\ label' = text
        /\ UNCHANGED <<state, screen, currentTranscript, audioData, audioVars, serviceVars>>
    BY <1>1 DEF SetEnded
  <2>2. AudioTypeOK' /\ ServiceTypeOK' /\ StreamOK' /\ ~micRunning'
    BY <1>1, <2>1 DEF TypeOK, AudioTypeOK, ServiceTypeOK, StreamOK, Calls,
                      MicrophoneOnlyInSession, audioVars, serviceVars
  <2>3. timer'["maxEnding"] = "idle"
    BY <1>1, <2>1 DEF BoundOK, Timers
  <2> QED
    BY <1>1, <2>1, <2>2, <2>3 DEF TypeOK, VerdictOK, audioData
<1>2. CASE state # "ENDED"
  <2>1. /\ state' = "ENDED" /\ Draw("ENDED") /\ SetTranscript(0) /\ ResetAudioData
        /\ StopUnit /\ StopStreaming
        /\ mainQ' = Cancel(q, TimerBlocks(Timers))
        /\ timer' = [n \in Timers |-> "idle"]
    BY <1>2 DEF SetEnded, CancelledAtEnd
  <2>2. timer' \in [Timers -> Phases]
    BY <2>1 DEF Phases
  <2>3. QueueOK(mainQ', timer')
    BY <2>1, <2>2, CancelTimersOK
  <2>4. ServiceTypeOK' /\ StreamOK'
    BY <1>2, <2>1, StopStreamingOK
  <2>5. AudioTypeOK' /\ ~micRunning'
    BY <2>1 DEF TypeOK, AudioTypeOK, StopUnit
  <2> QED
    BY <2>1, <2>2, <2>3, <2>4, <2>5, SessionAssumption
       DEF TypeOK, Draw, SetTranscript, ResetAudioData, Timers
<1> QED
  BY <1>1, <1>2

-----------------------------------------------------------------------------
(* The steps that begin a session.                                         *)

\* SetStarted, and whatever its caller does to the language and the label,
\* keeps the invariant: a new session has neither history nor verdict.
LEMMA SetStartedOK ==
    ASSUME IInv, SetStarted,
           UNCHANGED <<currentTranscript, crashed, deliveries, lastDelivery, cancelled>>,
           label' \in Nat, language' \in [Copies -> Languages],
           sheetShown' = FALSE
    PROVE  IInv'
<1> USE DEF IInv
<1>1. CASE state = "STARTED"
  <2>1. UNCHANGED <<mainQ, remoteIOUnit, micRunning, streaming, calls, state, finished,
                    timer, processAudioData, savedAudioData, screen, sessionNo>>
    BY <1>1 DEF SetStarted, MayStart, machineVars, audioVars, serviceVars, audioData
  <2>2. TypeOK'
    BY <2>1 DEF TypeOK, AudioTypeOK, ServiceTypeOK
  <2>3. QueueOK(mainQ', timer')
    BY <2>1
  <2>4. VerdictOK' /\ FreshOK' /\ HistoryOK' /\ StreamOK' /\ BoundOK'
    BY <2>1 DEF VerdictOK, FreshOK, HistoryOK, StreamOK, BoundOK, Calls
  <2>5. /\ MicrophoneOnlyInSession' /\ SilenceFollowsSpeech'
        /\ DeliveredAtMostOnce' /\ CancelIsFinal'
    BY <2>1 DEF MicrophoneOnlyInSession, SilenceFollowsSpeech, DeliveredAtMostOnce,
                CancelIsFinal
  <2> QED
    BY <2>2, <2>3, <2>4, <2>5 DEF QueueOK
<1>2. CASE state # "STARTED"
  <2>1. /\ sessionNo < MaxSessions /\ sessionNo' = sessionNo + 1
        /\ state' = "STARTED" /\ Draw("STARTED") /\ ResetAudioData /\ StartUnit
        /\ mainQ' = Cancel(mainQ, TimerBlocks({"maxEnding"}))
        /\ timer' = SessionTimer /\ finished' = "nil" /\ UNCHANGED serviceVars
    BY <1>2 DEF SetStarted, MayStart
  <2>2. timer \in [Timers -> Phases] /\ timer' \in [Timers -> Phases]
    BY <2>1 DEF TypeOK, Phases, SessionTimer
  <2>3. timer'["maxEnding"] = "armed" /\ timer'["ending"] = timer["ending"]
    BY <2>1, <2>2 DEF SessionTimer, Timers
  <2>4. QueueOK(mainQ', timer')
    <3>1. {"maxEnding"} \in SUBSET Timers /\ Timers \ {"maxEnding"} = {"ending"}
      BY DEF Timers
    <3> QED
      BY <2>1, <2>2, <2>3, <3>1, CancelTimersOK
  <2>5. /\ sessionNo \in Nat /\ sessionNo \in Sessions /\ sessionNo' \in Sessions
        /\ sessionNo' > sessionNo
    BY <2>1, SessionAssumption DEF TypeOK, Sessions
  <2>6. AudioTypeOK' /\ ServiceTypeOK'
    <3>1. Prepared \subseteq Units
      BY DEF Prepared, TypeOK, AudioTypeOK, Units
    <3>2. AudioTypeOK'
      BY <2>1, <3>1 DEF StartUnit, AudioTypeOK
    <3> QED
      BY <2>1, <3>2 DEF TypeOK, ServiceTypeOK, serviceVars
  <2>7. TypeOK'
    <3>1. sheetShown' \in BOOLEAN
      OBVIOUS
    <3>2. screen' \in {"unloaded", "STARTED", "ENDED"}
      BY <2>1 DEF TypeOK, Draw
    <3>3. processAudioData' \in 0..ChunkSize /\ savedAudioData' \subseteq Sessions
      BY <2>1, SessionAssumption DEF ResetAudioData
    <3> HIDE DEF IInv
    <3> QED
      BY <2>1, <2>2, <2>4, <2>5, <2>6, <3>1, <3>2, <3>3 DEF IInv, TypeOK, QueueOK, Phases
  <2>8. VerdictOK' /\ FreshOK' /\ BoundOK'
    BY <2>1, <2>3 DEF VerdictOK, FreshOK, BoundOK, Draw, Attached
  <2>9. HistoryOK'
    BY <2>1, <2>5 DEF HistoryOK, TypeOK, Sessions
  <2>10. StreamOK'
    BY <1>2, <2>1, <2>5, LenProperties
       DEF StreamOK, TypeOK, ServiceTypeOK, serviceVars, Calls
  <2>11. /\ MicrophoneOnlyInSession' /\ SilenceFollowsSpeech'
         /\ DeliveredAtMostOnce' /\ CancelIsFinal'
    BY <2>1, <2>3 DEF MicrophoneOnlyInSession, SilenceFollowsSpeech,
                      DeliveredAtMostOnce, CancelIsFinal
  <2> QED
    BY <2>4, <2>7, <2>8, <2>9, <2>10, <2>11 DEF QueueOK
<1> QED
  BY <1>1, <1>2

\* A language among those supported is a language, and the test bench
\* changes only the copies that exist there.
LEMMA SetLanguageOK ==
    ASSUME IInv, NEW l \in Languages, SetLanguage(l)
    PROVE  language' \in [Copies -> Languages]
BY DEF IInv, TypeOK, SetLanguage

LEMMA StartRecordingOK == ASSUME IInv, StartRecording, ~sheetShown PROVE IInv'
BY SetStartedOK DEF StartRecording, IInv, TypeOK, VerdictOK, userVars, textVars

LEMMA LanguageChangedOK ==
    ASSUME IInv, NEW l \in Languages, LanguageChanged(l), sheetShown' = FALSE
    PROVE  IInv'
BY SetStartedOK, SetLanguageOK DEF LanguageChanged

-----------------------------------------------------------------------------
(* The steps that end a session.                                           *)

\* A cancelled session was running, so it has not delivered, and its verdict
\* silences what is left of it.
LEMMA CancelRecordingOK ==
    ASSUME IInv, CancelRecording, Attached => state = "STARTED",
           sheetShown' \in BOOLEAN, ~Attached => ~sheetShown'
    PROVE  IInv'
<1> USE DEF IInv
<1>1. /\ finished' = "false" /\ SetEnded(mainQ, timer, label)
      /\ cancelled' = IF state = "STARTED" THEN cancelled \cup {sessionNo} ELSE cancelled
      /\ UNCHANGED <<language, crashed, sessionNo, deliveries, lastDelivery>>
  BY DEF CancelRecording
<1>2. timer \in [Timers -> Phases] /\ label \in Nat /\ sessionNo \in Nat
  BY SessionAssumption DEF TypeOK, Phases, Sessions
<1>3. /\ QueueOK(mainQ', timer') /\ timer' \in [Timers -> Phases]
      /\ state' = "ENDED" /\ timer'["maxEnding"] = "idle"
      /\ timer'["ending"] = "idle" \/ (timer'["ending"] = timer["ending"] /\ state = "ENDED")
      /\ currentTranscript' \in Nat /\ label' \in Nat
      /\ processAudioData' \in 0..ChunkSize /\ savedAudioData' \subseteq Sessions
      /\ AudioTypeOK' /\ ServiceTypeOK' /\ ~micRunning' /\ StreamOK'
      /\ screen' \in {"unloaded", "STARTED", "ENDED"}
      /\ IF Attached THEN screen' # "STARTED" ELSE screen' = screen
  BY <1>1, <1>2, SetEndedOK
<1>4. timer'["ending"] = "idle"
  BY <1>3 DEF VerdictOK
<1>5. TypeOK'
  BY <1>1, <1>3 DEF TypeOK, QueueOK, Phases
<1>6. VerdictOK' /\ FreshOK' /\ BoundOK'
  BY <1>1, <1>3, <1>4 DEF VerdictOK, FreshOK, BoundOK, Attached
<1>7. HistoryOK'
  BY <1>1, <1>2 DEF HistoryOK, Sessions
<1>8. CancelIsFinal'
  BY <1>1, <1>2 DEF CancelIsFinal, HistoryOK, VerdictOK, TypeOK
<1>9. MicrophoneOnlyInSession' /\ SilenceFollowsSpeech' /\ DeliveredAtMostOnce'
  BY <1>1, <1>3, <1>4 DEF MicrophoneOnlyInSession, SilenceFollowsSpeech,
                          DeliveredAtMostOnce
<1> QED
  BY <1>3, <1>5, <1>6, <1>7, <1>8, <1>9 DEF QueueOK

\* A work item that reaches the head of the queue was not cancelled: its
\* session has no verdict yet, so this is its first and only delivery.
LEMMA RunTimerOK ==
    ASSUME IInv, NEW n \in Timers, RunTimer(n)
    PROVE  IInv'
<1> USE DEF IInv
<1> DEFINE q == Tail(mainQ)
           t == [timer EXCEPT ![n] = "idle"]
<1>1. /\ mainQ # <<>> /\ Head(mainQ).kind = n
      /\ finished' = "true" /\ SetEnded(q, t, label)
      /\ IF currentTranscript # 0 /\ Attached THEN Deliver
                                              ELSE UNCHANGED <<deliveries, lastDelivery>>
      /\ UNCHANGED <<userVars, crashed, sessionNo, cancelled>>
  BY DEF RunTimer, FinishTrue, AtHead
<1>2. /\ timer \in [Timers -> Phases] /\ label \in Nat
      /\ sessionNo \in Nat /\ sessionNo \in Sessions
  BY SessionAssumption DEF TypeOK, Phases, Sessions
<1>3. /\ QueueOK(q, t) /\ t \in [Timers -> Phases]
      /\ \A m \in Timers : t[m] \in {timer[m], "idle"}
  BY <1>1, <1>2, TailTimerOK DEF Phases
<1>4. timer[n] = "queued"
  <2>1. 1 \in DOMAIN mainQ /\ mainQ[1].kind = n
    BY <1>1, HeadTail DEF QueueOK
  <2> QED
    BY <2>1 DEF QueueOK
<1>5. finished = "nil"
  BY <1>4 DEF VerdictOK, BoundOK, Timers
<1>6. deliveries[sessionNo] = 0 /\ sessionNo \notin cancelled
  BY <1>2, <1>5 DEF HistoryOK, TypeOK
<1>7. t["ending"] = "idle" \/ n = "maxEnding"
  BY <1>2 DEF Timers
<1>8. /\ QueueOK(mainQ', timer') /\ timer' \in [Timers -> Phases]
      /\ state' = "ENDED" /\ timer'["maxEnding"] = "idle"
      /\ timer'["ending"] = "idle" \/ (timer'["ending"] = t["ending"] /\ state = "ENDED")
      /\ currentTranscript' \in Nat /\ label' \in Nat
      /\ processAudioData' \in 0..ChunkSize /\ savedAudioData' \subseteq Sessions
      /\ AudioTypeOK' /\ ServiceTypeOK' /\ ~micRunning' /\ StreamOK'
      /\ screen' \in {"unloaded", "STARTED", "ENDED"}
      /\ IF Attached THEN screen' # "STARTED" ELSE screen' = screen
  <2> HIDE DEF q, t
  <2> QED
    BY <1>1, <1>2, <1>3, SetEndedOK
<1>9. timer'["ending"] = "idle"
  BY <1>4, <1>7, <1>8 DEF BoundOK
<1>10. /\ deliveries' \in [Sessions -> Nat] /\ lastDelivery' \in Delivery
       /\ deliveries'[sessionNo] <= 1
       /\ \A s \in Sessions : s # sessionNo => deliveries'[s] = deliveries[s]
  <2>1. CASE currentTranscript # 0 /\ Attached
    <3>1. /\ deliveries' = [deliveries EXCEPT ![sessionNo] = @ + 1]
          /\ lastDelivery' = [session |-> sessionNo, transcript |-> currentTranscript,
                              audio |-> savedAudioData, in |-> state]
      BY <1>1, <2>1 DEF Deliver
    <3>2. lastDelivery' \in Delivery
      BY <1>2, <3>1 DEF Delivery, TypeOK
    <3>3. deliveries \in [Sessions -> Nat]
      BY DEF TypeOK
    <3> QED
      BY <1>2, <1>6, <3>1, <3>2, <3>3
  <2>2. CASE ~(currentTranscript # 0 /\ Attached)
    BY <1>1, <1>6, <2>2 DEF TypeOK
  <2> QED
    BY <2>1, <2>2
<1>11. TypeOK'
  BY <1>1, <1>8, <1>10 DEF TypeOK, QueueOK, Phases, userVars
<1>12. VerdictOK' /\ FreshOK' /\ BoundOK'
  BY <1>1, <1>8, <1>9 DEF VerdictOK, FreshOK, BoundOK, Attached, userVars
<1>13. HistoryOK'
  BY <1>1, <1>2, <1>10 DEF HistoryOK, Sessions
<1>14. DeliveredAtMostOnce' /\ CancelIsFinal'
  BY <1>1, <1>2, <1>6, <1>10 DEF DeliveredAtMostOnce, CancelIsFinal, TypeOK
<1>15. MicrophoneOnlyInSession' /\ SilenceFollowsSpeech'
  BY <1>8, <1>9 DEF MicrophoneOnlyInSession, SilenceFollowsSpeech
<1> QED
  BY <1>8, <1>11, <1>12, <1>13, <1>14, <1>15 DEF QueueOK

\* configureAssistant ends a session without a verdict; what it leaves armed
\* has its transcript.
LEMMA ConfigureAssistantOK ==
    ASSUME IInv, ConfigureAssistant
    PROVE  IInv'
<1> USE DEF IInv
<1>1. /\ Attached /\ SetLanguage(language["assistant"]) /\ SetEnded(mainQ, timer, 0)
      /\ UNCHANGED <<finished, sheetShown, crashed, history>>
  BY DEF ConfigureAssistant, Attached
<1>2. timer \in [Timers -> Phases] /\ 0 \in Nat
  BY DEF TypeOK, Phases
<1>3. /\ QueueOK(mainQ', timer') /\ timer' \in [Timers -> Phases]
      /\ state' = "ENDED" /\ timer'["maxEnding"] = "idle"
      /\ timer'["ending"] = "idle" \/ (/\ timer'["ending"] = timer["ending"]
                                       /\ currentTranscript' = currentTranscript
                                       /\ state = "ENDED")
      /\ currentTranscript' \in Nat /\ label' \in Nat
      /\ processAudioData' \in 0..ChunkSize /\ savedAudioData' \subseteq Sessions
      /\ AudioTypeOK' /\ ServiceTypeOK' /\ ~micRunning' /\ StreamOK'
      /\ screen' \in {"unloaded", "STARTED", "ENDED"}
      /\ IF Attached THEN screen' # "STARTED" ELSE screen' = screen
  BY <1>1, <1>2, SetEndedOK DEF history
<1>4. language' \in [Copies -> Languages]
  BY <1>1, SetLanguageOK DEF TypeOK, Copies
<1>5. TypeOK'
  BY <1>1, <1>3, <1>4 DEF TypeOK, QueueOK, Phases, history
<1>6. VerdictOK' /\ FreshOK' /\ BoundOK'
  BY <1>1, <1>3 DEF VerdictOK, FreshOK, BoundOK, Attached
<1>7. HistoryOK' /\ DeliveredAtMostOnce' /\ CancelIsFinal'
  BY <1>1 DEF HistoryOK, DeliveredAtMostOnce, CancelIsFinal, history
<1>8. MicrophoneOnlyInSession' /\ SilenceFollowsSpeech'
  BY <1>3 DEF MicrophoneOnlyInSession, SilenceFollowsSpeech
<1> QED
  BY <1>3, <1>5, <1>6, <1>7, <1>8 DEF QueueOK

-----------------------------------------------------------------------------
(* The other blocks of the main queue and the producers.                   *)

\* A chunk may open a call: in a session that makes up for the one the
\* session is behind, outside it puts the calls one ahead.
LEMMA RunChunkOK ==
    ASSUME IInv, RunChunk
    PROVE  IInv'
<1> USE DEF IInv
<1>1. /\ mainQ # <<>> /\ Head(mainQ).kind = "chunk" /\ mainQ' = Tail(mainQ)
      /\ savedAudioData' = savedAudioData \cup {Head(mainQ).of}
      /\ \/ /\ StreamAudioData(sessionNo, language["recogniser"])
            /\ processAudioData' = 0
         \/ /\ processAudioData + 1 <= ChunkSize
            /\ processAudioData' = processAudioData + 1
            /\ UNCHANGED serviceVars
      /\ UNCHANGED <<audioVars, state, finished, textVars, timer, screen,
                     userVars, history, crashed>>
  <2>1. processAudioData \in Nat
    BY SessionAssumption DEF TypeOK
  <2> QED
    BY <2>1, SessionAssumption DEF RunChunk, AtHead, OverThreshold
<1>2. QueueOK(mainQ', timer')
  BY <1>1, TailOK DEF Timers
<1>3. Head(mainQ).of \in Sessions
  BY <1>1, HeadTail DEF QueueOK
<1>4. processAudioData' \in 0..ChunkSize
  BY <1>1, SessionAssumption DEF TypeOK
<1>5. Len(calls) \in Nat /\ sessionNo \in Nat /\ DOMAIN calls = 1..Len(calls)
  BY LenProperties, SessionAssumption DEF TypeOK, ServiceTypeOK, Sessions
<1>6. ServiceTypeOK' /\ StreamOK'
  <2>1. CASE UNCHANGED serviceVars
    BY <1>1, <2>1 DEF TypeOK, ServiceTypeOK, StreamOK, serviceVars, history, Calls
  <2>2. CASE ~UNCHANGED serviceVars
    <3> DEFINE new == [session |-> sessionNo, language |-> language["recogniser"],
                       halfClosed |-> FALSE, status |-> "live"]
    <3>1. ~streaming /\ streaming' /\ streaming' \in BOOLEAN /\ calls' = Append(calls, new)
      BY <1>1, <2>2 DEF StreamAudioData
    <3>2. new \in Call /\ ~new.halfClosed
      BY <1>5 DEF Call, TypeOK, Copies
    <3> HIDE DEF new
    <3>3. /\ calls' \in Seq(Call) /\ Len(calls') = Len(calls) + 1
          /\ \A c \in 1..Len(calls) : calls'[c] = calls[c]
          /\ calls'[Len(calls) + 1] = new
      BY <3>1, <3>2, AppendProperties DEF TypeOK, ServiceTypeOK
    <3>4. DOMAIN calls' = 1..(Len(calls) + 1) /\ calls' # <<>>
      BY <3>3, <1>5, LenProperties, EmptySeq
    <3>5. \A c \in Calls' : calls'[c].halfClosed <=> ~(streaming' /\ c = Len(calls'))
      BY <1>5, <3>1, <3>2, <3>3, <3>4 DEF StreamOK, Calls
    <3>6. Len(calls') + (IF state' = "STARTED" THEN 1 ELSE 0)
            <= sessionNo' + (IF streaming' THEN 1 ELSE 0)
      BY <1>1, <1>5, <3>1, <3>3 DEF StreamOK, history
    <3> QED
      BY <3>1, <3>3, <3>4, <3>5, <3>6 DEF ServiceTypeOK, StreamOK
  <2> QED
    BY <2>1, <2>2
<1>7. TypeOK'
  BY <1>1, <1>2, <1>3, <1>4, <1>6
     DEF TypeOK, AudioTypeOK, QueueOK, audioVars, textVars, userVars, history
<1>8. /\ VerdictOK' /\ FreshOK' /\ BoundOK' /\ HistoryOK'
      /\ MicrophoneOnlyInSession' /\ SilenceFollowsSpeech'
      /\ DeliveredAtMostOnce' /\ CancelIsFinal'
  BY <1>1 DEF VerdictOK, FreshOK, BoundOK, HistoryOK, MicrophoneOnlyInSession,
              SilenceFollowsSpeech, DeliveredAtMostOnce, CancelIsFinal,
              audioVars, textVars, userVars, history
<1> QED
  BY <1>2, <1>6, <1>7, <1>8 DEF QueueOK

\* An answer that counts arms the silence timer and is the transcript; the
\* calls are numbered from 1, so that it is not nil.
LEMMA ProcessResponseOK ==
    ASSUME IInv, NEW q, QueueOK(q, timer), NEW call \in Nat \ {0},
           state # "nil", ProcessResponseObtained(q, call)
    PROVE  IInv'
<1> USE DEF IInv
<1>1. UNCHANGED <<audioVars, serviceVars, state, finished, audioData, screen,
                  userVars, history, crashed>>
  BY DEF ProcessResponseObtained
<1>4. timer \in [Timers -> Phases]
  BY DEF TypeOK, Phases
<1>5. /\ QueueOK(mainQ', timer') /\ timer' \in [Timers -> Phases]
      /\ currentTranscript' \in Nat /\ label' \in Nat
      /\ timer'["maxEnding"] = timer["maxEnding"]
      /\ finished # "nil" => timer'["ending"] = timer["ending"]
      /\ timer'["ending"] # "idle" => currentTranscript' # 0
  <2>1. CASE SessionOver
    <3>1. mainQ' = q /\ UNCHANGED <<timer, textVars>>
      BY <2>1 DEF ProcessResponseObtained
    <3> QED
      BY <1>4, <3>1 DEF TypeOK, textVars, SilenceFollowsSpeech
  <2>2. CASE ~SessionOver
    <3>1. /\ mainQ' = Cancel(q, TimerBlocks({"ending"}))
          /\ timer' = [timer EXCEPT !["ending"] = "armed"]
          /\ SetTranscript(call) /\ finished = "nil"
      BY <2>2 DEF ProcessResponseObtained, SessionOver
    <3>2. /\ timer' \in [Timers -> Phases] /\ timer'["ending"] = "armed"
          /\ timer'["maxEnding"] = timer["maxEnding"]
      BY <1>4, <3>1 DEF Phases, Timers
    <3>3. {"ending"} \in SUBSET Timers /\ Timers \ {"ending"} = {"maxEnding"}
      BY DEF Timers
    <3>4. QueueOK(mainQ', timer')
      BY <1>4, <3>1, <3>2, <3>3, CancelTimersOK
    <3> QED
      BY <3>1, <3>2, <3>4 DEF SetTranscript, TypeOK
  <2> QED
    BY <2>1, <2>2
<1>6. TypeOK'
  BY <1>1, <1>5
     DEF TypeOK, AudioTypeOK, ServiceTypeOK, QueueOK, Phases, audioVars, serviceVars,
         audioData, userVars, history
<1>7. /\ VerdictOK' /\ FreshOK' /\ BoundOK' /\ HistoryOK' /\ StreamOK'
      /\ MicrophoneOnlyInSession' /\ SilenceFollowsSpeech'
      /\ DeliveredAtMostOnce' /\ CancelIsFinal'
  BY <1>1, <1>5
     DEF VerdictOK, FreshOK, BoundOK, HistoryOK, StreamOK, Calls,
         MicrophoneOnlyInSession, SilenceFollowsSpeech, DeliveredAtMostOnce,
         CancelIsFinal, audioVars, serviceVars, userVars, history
<1> QED
  BY <1>5, <1>6, <1>7 DEF QueueOK

LEMMA RunResultOK == ASSUME IInv, RunResult PROVE IInv'
<1>1. mainQ # <<>> /\ Head(mainQ).kind = "result"
  BY DEF RunResult, AtHead
<1>2. QueueOK(Tail(mainQ), timer)
  BY <1>1, TailOK DEF IInv, Timers
<1>3. Head(mainQ).of \in Nat \ {0}
  <2>1. Head(mainQ) \in Blocks /\ Head(mainQ) = mainQ[1] /\ 1 \in DOMAIN mainQ
    BY <1>1, HeadTail DEF IInv, QueueOK
  <2> QED
    BY <1>1, <2>1 DEF IInv, QueueOK, Blocks
<1> QED
  BY <1>1, <1>2, <1>3, ProcessResponseOK DEF RunResult, IInv, FreshOK

\* A step that leaves everything but the queue and the timers alone.
LEMMA QueueStepOK ==
    ASSUME IInv, QueueOK(mainQ', timer'), timer' \in [Timers -> Phases],
           state = "nil" => mainQ' = <<>>,
           \A n \in Timers : timer'[n] = "idle" <=> timer[n] = "idle",
           UNCHANGED <<audioVars, serviceVars, state, finished, textVars, audioData,
                       screen, userVars, history, crashed>>
    PROVE  IInv'
<1> USE DEF IInv, audioVars, serviceVars, textVars, audioData, userVars, history
<1>1. TypeOK'
  BY DEF TypeOK, AudioTypeOK, ServiceTypeOK, QueueOK, Phases
<1>2. VerdictOK' /\ FreshOK' /\ BoundOK' /\ SilenceFollowsSpeech'
  BY DEF VerdictOK, FreshOK, BoundOK, SilenceFollowsSpeech, Timers
<1>3. /\ HistoryOK' /\ StreamOK' /\ MicrophoneOnlyInSession'
      /\ DeliveredAtMostOnce' /\ CancelIsFinal'
  BY DEF HistoryOK, StreamOK, Calls, MicrophoneOnlyInSession, DeliveredAtMostOnce,
         CancelIsFinal
<1> QED
  BY <1>1, <1>2, <1>3 DEF QueueOK

LEMMA RunIgnoredOK == ASSUME IInv, RunIgnored PROVE IInv'
<1>1. /\ mainQ # <<>> /\ Head(mainQ).kind \notin Timers /\ mainQ' = Tail(mainQ)
      /\ UNCHANGED <<audioVars, serviceVars, sessionVars, userVars, history, crashed>>
  BY DEF RunIgnored, AtHead, Timers
<1>2. QueueOK(mainQ', timer') /\ timer' \in [Timers -> Phases]
  BY <1>1, TailOK DEF IInv, sessionVars, TypeOK, Phases
<1> QED
  BY <1>1, <1>2, QueueStepOK DEF sessionVars, IInv, FreshOK

LEMMA TimerExpiresOK ==
    ASSUME IInv, NEW n \in Timers, TimerExpires(n)
    PROVE  IInv'
<1>1. /\ timer[n] = "armed" /\ timer' = [timer EXCEPT ![n] = "queued"]
      /\ mainQ' = Append(mainQ, Block(n, 0))
      /\ UNCHANGED <<audioVars, serviceVars, state, finished, textVars, audioData,
                     screen, userVars, history, crashed>>
  BY DEF TimerExpires
<1>2. timer \in [Timers -> Phases]
  BY DEF IInv, TypeOK, Phases
<1>3. QueueOK(mainQ', timer') /\ timer' \in [Timers -> Phases]
  BY <1>1, <1>2, AppendTimerOK DEF IInv, Phases
<1>4. state # "nil"
  BY <1>1 DEF IInv, FreshOK, BoundOK, SilenceFollowsSpeech, Timers
<1> QED
  BY <1>1, <1>2, <1>3, <1>4, QueueStepOK

LEMMA MicrophoneRecordsOK == ASSUME IInv, MicrophoneRecords PROVE IInv'
<1>1. /\ micRunning /\ mainQ' = Append(mainQ, Block("chunk", sessionNo))
      /\ UNCHANGED <<audioVars, serviceVars, sessionVars, userVars, history, crashed>>
  BY DEF MicrophoneRecords, RecordChunk
<1>2. sessionNo \in Sessions /\ sessionNo \in Nat /\ timer \in [Timers -> Phases]
  BY SessionAssumption DEF IInv, TypeOK, Phases, Sessions
<1>3. QueueOK(mainQ', timer')
  <2> DEFINE b == Block("chunk", sessionNo)
  <2>1. b \in Blocks /\ b.kind = "chunk" /\ b.of = sessionNo
    BY <1>2 DEF Block, Blocks, BlockKinds
  <2> HIDE DEF b
  <2>2. QueueOK(Append(mainQ, b), timer)
    BY <1>2, <2>1, AppendOK DEF IInv, Timers
  <2> QED
    BY <1>1, <2>2 DEF b, sessionVars
<1>4. state # "nil"
  BY <1>1 DEF IInv, MicrophoneOnlyInSession
<1> QED
  BY <1>1, <1>2, <1>3, <1>4, QueueStepOK DEF sessionVars

LEMMA ServerAnswersOK ==
    ASSUME IInv, NEW c \in Calls, ServerAnswers(c),
           UNCHANGED <<audioVars, sessionVars, userVars, history, crashed>>
    PROVE  IInv'
<1>1. PICK kind \in {"result", "noResult"} : mainQ' = Append(mainQ, Block(kind, c))
  BY DEF ServerAnswers
<1>2. c \in Nat /\ c # 0 /\ calls # <<>> /\ timer \in [Timers -> Phases]
  BY LenProperties, EmptySeq DEF Calls, IInv, TypeOK, ServiceTypeOK, Phases
<1>3. QueueOK(mainQ', timer')
  <2> DEFINE b == Block(kind, c)
  <2>1. b \in Blocks /\ b.kind = kind /\ b.of = c
    BY <1>2 DEF Block, Blocks, BlockKinds
  <2> HIDE DEF b
  <2>2. QueueOK(Append(mainQ, b), timer)
    BY <1>2, <2>1, AppendOK DEF IInv, Timers
  <2> QED
    BY <1>1, <2>2 DEF b, sessionVars
<1> QED
  BY <1>2, <1>3, QueueStepOK DEF ServerAnswers, sessionVars, IInv, FreshOK

\* The end of a call changes its status and drops its queued answers.
LEMMA CallEndsOK ==
    ASSUME IInv, NEW c \in Calls, NEW status \in {"ok", "error"}, CallEnds(c, status),
           UNCHANGED <<audioVars, sessionVars, userVars, history, crashed>>
    PROVE  IInv'
<1> USE DEF IInv
<1> DEFINE new == [calls[c] EXCEPT !.status = status]
           q == IF status = "error" THEN Cancel(mainQ, AnswersOf(c)) ELSE mainQ
<1>1. /\ calls' = [calls EXCEPT ![c] = new] /\ mainQ' = Append(q, Block("done", c))
      /\ UNCHANGED streaming
  BY DEF CallEnds
<1>2. /\ Len(calls) \in Nat /\ DOMAIN calls = 1..Len(calls) /\ c \in 1..Len(calls)
      /\ calls[c] \in Call
  BY LenProperties, ElementOfSeq DEF TypeOK, ServiceTypeOK, Calls
<1>3. new \in Call /\ new.halfClosed = calls[c].halfClosed
  BY <1>2 DEF Call
<1> HIDE DEF new
<1>4. /\ calls' \in Seq(Call) /\ Len(calls') = Len(calls)
      /\ \A i \in 1..Len(calls) : calls'[i] = IF i = c THEN new ELSE calls[i]
  BY <1>1, <1>2, <1>3, ExceptSeq DEF TypeOK, ServiceTypeOK
<1>5. /\ DOMAIN calls' = DOMAIN calls
      /\ \A i \in DOMAIN calls : calls'[i].halfClosed = calls[i].halfClosed
  BY <1>2, <1>3, <1>4, LenProperties
<1>6. calls # <<>> /\ calls' # <<>>
  BY <1>2, <1>4, EmptySeq
<1>7. StreamOK'
  <2>1. \A i \in Calls' : calls'[i].halfClosed <=> ~(streaming' /\ i = Len(calls'))
    BY <1>1, <1>4, <1>5 DEF StreamOK, Calls
  <2> QED
    BY <1>1, <1>4, <1>6, <2>1 DEF StreamOK, sessionVars, history
<1>8. QueueOK(q, timer)
  BY CancelAnswersOK
<1>9. QueueOK(mainQ', timer')
  <2> DEFINE b == Block("done", c)
  <2>1. b \in Blocks /\ b.kind = "done"
    BY <1>2 DEF Block, Blocks, BlockKinds
  <2> HIDE DEF b, q
  <2>2. QueueOK(Append(q, b), timer)
    BY <1>8, <2>1, AppendOK DEF Timers
  <2> QED
    BY <1>1, <2>2 DEF b, sessionVars
<1>10. TypeOK'
  BY <1>1, <1>4, <1>9
     DEF TypeOK, AudioTypeOK, ServiceTypeOK, QueueOK, audioVars, sessionVars, textVars,
         audioData, userVars, history
<1>11. /\ VerdictOK' /\ FreshOK' /\ BoundOK' /\ HistoryOK'
       /\ MicrophoneOnlyInSession' /\ SilenceFollowsSpeech'
       /\ DeliveredAtMostOnce' /\ CancelIsFinal'
  BY <1>6
     DEF VerdictOK, FreshOK, BoundOK, HistoryOK, MicrophoneOnlyInSession,
         SilenceFollowsSpeech, DeliveredAtMostOnce, CancelIsFinal,
         audioVars, sessionVars, textVars, userVars, history
<1> QED
  BY <1>7, <1>9, <1>10, <1>11 DEF QueueOK

\* A step that changes no variable of the invariant but `crashed` and the sheet.
LEMMA StillOK ==
    ASSUME IInv, UNCHANGED <<machineVars, sessionVars, language, history>>,
           sheetShown' \in BOOLEAN, sheetShown' => sheetShown, crashed' \in BOOLEAN
    PROVE  IInv'
<1> USE DEF IInv, machineVars, audioVars, serviceVars, sessionVars, textVars,
            audioData, history
<1>1. TypeOK'
  BY DEF TypeOK, AudioTypeOK, ServiceTypeOK
<1>2. QueueOK(mainQ', timer')
  OBVIOUS
<1>3. /\ VerdictOK' /\ FreshOK' /\ BoundOK' /\ HistoryOK' /\ StreamOK'
      /\ MicrophoneOnlyInSession' /\ SilenceFollowsSpeech'
      /\ DeliveredAtMostOnce' /\ CancelIsFinal'
  BY DEF VerdictOK, FreshOK, BoundOK, HistoryOK, StreamOK, Calls,
         MicrophoneOnlyInSession, SilenceFollowsSpeech, DeliveredAtMostOnce, CancelIsFinal
<1> QED
  BY <1>1, <1>2, <1>3 DEF QueueOK

LEMMA UserOrHostOK == ASSUME IInv, UserOrHost PROVE IInv'
<1> USE DEF IInv
<1>1. /\ sheetShown \in BOOLEAN /\ crashed \in BOOLEAN
      /\ Attached => (screen = "STARTED" <=> state = "STARTED")
      /\ ~Attached => ~sheetShown /\ screen = "unloaded"
      /\ Supported \subseteq Languages
  BY SessionAssumption DEF TypeOK, VerdictOK
<1>2. CASE RecordTapped
  BY <1>2, StartRecordingOK DEF RecordTapped, Touch
<1>3. CASE CancelTapped
  BY <1>1, <1>3, CancelRecordingOK DEF CancelTapped
<1>4. CASE LanguageButtonTapped
  BY <1>1, <1>4, CancelRecordingOK DEF LanguageButtonTapped
<1>5. CASE SheetDismissed
  BY <1>1, <1>5, StillOK DEF SheetDismissed
<1>6. ASSUME NEW l \in Supported, LanguagePicked(l)
      PROVE  IInv'
  BY <1>1, <1>6, LanguageChangedOK DEF LanguagePicked
<1>7. CASE ConfigureAssistant
  BY <1>7, ConfigureAssistantOK
<1>8. CASE StartCrashes
  BY <1>1, <1>8, StillOK DEF StartCrashes, Crash, liveVars, userVars
<1>9. CASE TestCalls
  <2>1. ~Attached
    BY <1>9 DEF TestCalls, Attached
  <2>2. CASE StartRecording
    BY <1>1, <2>1, <2>2, StartRecordingOK
  <2>3. CASE CancelRecording /\ UNCHANGED sheetShown
    BY <1>1, <2>1, <2>3, CancelRecordingOK
  <2>4. ASSUME NEW l \in Languages, LanguageChanged(l), UNCHANGED sheetShown
        PROVE  IInv'
    BY <1>1, <2>1, <2>4, LanguageChangedOK
  <2>5. CASE state # "nil" /\ HasRoom /\ ProcessResponseObtained(mainQ, 1)
    BY <2>5, ProcessResponseOK
  <2> QED
    BY <1>9, <2>2, <2>3, <2>4, <2>5 DEF TestCalls
<1> QED
  BY <1>2, <1>3, <1>4, <1>5, <1>6, <1>7, <1>8, <1>9 DEF UserOrHost

LEMMA RunBlockOK == ASSUME IInv, RunBlock PROVE IInv'
<1>1. CASE RunNoResult
  BY <1>1, StillOK DEF RunNoResult, Crash, liveVars, userVars, IInv, TypeOK, VerdictOK
<1> QED
  BY <1>1, RunChunkOK, RunResultOK, RunIgnoredOK, RunTimerOK DEF RunBlock

-----------------------------------------------------------------------------
(* The invariant, and what follows from it.                                *)

LEMMA InitOK == Init => IInv
<1> SUFFICES ASSUME Init PROVE IInv
  OBVIOUS
<1> USE DEF Init, AudioInit, ServiceInit
<1>1. /\ mainQ = <<>> /\ mainQ \in Seq(Blocks) /\ DOMAIN mainQ = {}
      /\ calls = <<>> /\ calls \in Seq(Call) /\ DOMAIN calls = {} /\ Len(calls) = 0
  BY EmptySeq
<1>2. 0 \in Sessions /\ 0 \in 0..ChunkSize
  BY SessionAssumption DEF Sessions
<1>3. TypeOK
  <2>1. lastDelivery \in Delivery
    BY <1>2 DEF NoDelivery, Delivery
  <2>2. language \in [Copies -> Languages]
    BY SessionAssumption
  <2> QED
    BY <1>1, <1>2, <2>1, <2>2 DEF TypeOK, AudioTypeOK, ServiceTypeOK, Units
<1>4. QueueOK(mainQ, timer)
  BY <1>1 DEF QueueOK
<1>5. VerdictOK /\ FreshOK /\ BoundOK /\ HistoryOK
  BY <1>2 DEF VerdictOK, FreshOK, BoundOK, HistoryOK, Timers
<1>6. StreamOK
  BY <1>1 DEF StreamOK, Calls
<1>7. /\ MicrophoneOnlyInSession /\ SilenceFollowsSpeech
      /\ DeliveredAtMostOnce /\ CancelIsFinal
  BY DEF MicrophoneOnlyInSession, SilenceFollowsSpeech, DeliveredAtMostOnce,
         CancelIsFinal, Timers
<1> QED
  BY <1>3, <1>4, <1>5, <1>6, <1>7 DEF IInv

LEMMA NextOK == IInv /\ [Next]_vars => IInv'
<1> SUFFICES ASSUME IInv, [Next]_vars PROVE IInv'
  OBVIOUS
<1>1. CASE UNCHANGED vars
  BY <1>1, StillOK DEF vars, liveVars, userVars, IInv, TypeOK, VerdictOK
<1>2. CASE RecogniserSteps
  BY <1>2, ServerAnswersOK, CallEndsOK DEF RecogniserSteps
<1>3. CASE Next /\ ~RecogniserSteps
  BY <1>3, UserOrHostOK, RunBlockOK, TimerExpiresOK, MicrophoneRecordsOK DEF Next
<1> QED
  BY <1>1, <1>2, <1>3

\* The invariant is inductive.
THEOREM Invariance == SafetySpec => []IInv
BY InitOK, NextOK, PTL DEF SafetySpec

\* Every variable keeps its type, for any languages, bounds and environment.
THEOREM TypeCorrect == SafetySpec => []TypeOK
<1>1. IInv => TypeOK
  BY DEF IInv
<1> QED
  BY <1>1, Invariance, PTL

\* The microphone is off whenever no session runs.
THEOREM MicrophoneSafe == SafetySpec => []MicrophoneOnlyInSession
<1>1. IInv => MicrophoneOnlyInSession
  BY DEF IInv
<1> QED
  BY <1>1, Invariance, PTL

\* Exactly the running session has its 15 s timer pending.
THEOREM Bounded == SafetySpec => []SessionIsBounded
<1>1. IInv => SessionIsBounded
  BY DEF IInv, BoundOK, QueueOK, SessionIsBounded, Queued
<1> QED
  BY <1>1, Invariance, PTL

\* No session delivers twice, in any order of timers, answers, touches and
\* host navigations.
THEOREM AtMostOnce == SafetySpec => []DeliveredAtMostOnce
<1>1. IInv => DeliveredAtMostOnce
  BY DEF IInv
<1> QED
  BY <1>1, Invariance, PTL

\* A session that the user cancelled never delivers.
THEOREM CancelFinal == SafetySpec => []CancelIsFinal
<1>1. IInv => CancelIsFinal
  BY DEF IInv
<1> QED
  BY <1>1, Invariance, PTL

\* The silence timer runs only after something was recognised.
THEOREM SilenceSafe == SafetySpec => []SilenceFollowsSpeech
<1>1. IInv => SilenceFollowsSpeech
  BY DEF IInv
<1> QED
  BY <1>1, Invariance, PTL

\* One call at most is open for writing, and calls are bounded by sessions.
THEOREM Streams == SafetySpec => []OneOpenStream
<1>1. IInv => OneOpenStream
  <2>1. IInv => Len(calls) \in Nat /\ sessionNo \in Nat
    BY LenProperties, SessionAssumption DEF IInv, TypeOK, ServiceTypeOK, Sessions
  <2> QED
    BY <2>1 DEF IInv, StreamOK, OneOpenStream
<1> QED
  BY <1>1, Invariance, PTL

\* The language of a running session is fixed when the app drives it: the
\* sheet is never up in a session, and the host's language ends it.
THEOREM LanguageFixed == SafetySpec /\ Driver = "app" => LanguageFixedInSession
<1>1. ASSUME IInv, Driver = "app", [Next]_vars, state = "STARTED", state' = "STARTED"
      PROVE  language' = language
  <2>1. sheetShown => state # "STARTED"
    BY <1>1 DEF IInv, VerdictOK
  <2>2. CASE UNCHANGED vars
    BY <2>2 DEF vars, liveVars, userVars
  <2>3. CASE UserOrHost
    <3>1. ASSUME NEW l \in Supported PROVE ~LanguagePicked(l)
      BY <1>1, <2>1 DEF LanguagePicked
    <3>2. ~ConfigureAssistant
      BY <1>1 DEF ConfigureAssistant, SetEnded
    <3>3. ~TestCalls
      BY <1>1 DEF TestCalls
    <3> QED
      BY <2>3, <3>1, <3>2, <3>3
         DEF UserOrHost, RecordTapped, StartRecording, CancelTapped, CancelRecording,
             LanguageButtonTapped, SheetDismissed, StartCrashes, Crash, liveVars, userVars
  <2>4. CASE RunBlock
    BY <2>4 DEF RunBlock, RunChunk, RunResult, ProcessResponseObtained, RunNoResult, RunIgnored, RunTimer,
                FinishTrue, Crash, liveVars, userVars
  <2>5. CASE (\E n \in Timers : TimerExpires(n)) \/ MicrophoneRecords \/ RecogniserSteps
    BY <2>5 DEF TimerExpires, MicrophoneRecords, RecogniserSteps, userVars
  <2> QED
    BY <1>1, <2>2, <2>3, <2>4, <2>5 DEF Next
<1>2. IInv /\ Driver = "app" /\ [Next]_vars
        => [state = "STARTED" /\ state' = "STARTED" => language' = language]_vars
  BY <1>1
<1>3. (Driver = "app") => [](Driver = "app")
  OBVIOUS
<1> QED
  BY <1>2, <1>3, Invariance, PTL DEF SafetySpec, LanguageFixedInSession
=============================================================================
