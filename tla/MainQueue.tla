----------------------------- MODULE MainQueue -----------------------------
(***************************************************************************)
(* The serial main dispatch queue.  Every thread of the app talks to the   *)
(* view model through it: the audio thread posts sample blocks, the gRPC   *)
(* response queue posts the recogniser's answers, and the two timers post  *)
(* their work items when their deadline passes.  The main thread takes the *)
(* blocks off in order and runs each to completion.                        *)
(***************************************************************************)
EXTENDS Naturals, Sequences

CONSTANT QueueRoom  \* bound: samples and answers are posted below this length

ASSUME QueueRoomAssumption == QueueRoom \in Nat

VARIABLE mainQ

Timers == {"ending", "maxEnding"}

\* A block says what it will run and for whom: the session whose microphone
\* recorded a chunk, the call that an answer or a completion belongs to.
BlockKinds == {"chunk", "result", "noResult", "done", "skipped"} \cup Timers

Blocks == [kind : BlockKinds, of : Nat]

Block(kind, of) == [kind |-> kind, of |-> of]

HasRoom == Len(mainQ) < QueueRoom

AtHead(kind) == mainQ # <<>> /\ Head(mainQ).kind = kind

Queued(kind) == \E i \in DOMAIN mainQ : mainQ[i].kind = kind

\* A cancelled block keeps its place in the queue and does nothing when it
\* gets there.
Cancel(q, doomed) ==
    [i \in DOMAIN q |-> IF q[i] \in doomed THEN Block("skipped", 0) ELSE q[i]]

TimerBlocks(names) == [kind : names, of : {0}]
=============================================================================
