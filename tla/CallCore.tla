------------------------------ MODULE CallCore ------------------------------
(***************************************************************************)
(* One client call of the gRPC core: the batches of surface/call.cc and    *)
(* the HTTP/2 stream under them (chttp2_transport.cc), as GRPCCall sees     *)
(* them.  A batch holds one operation; its completion is an event of the   *)
(* completion queue, which a single thread empties in order.               *)
(***************************************************************************)
EXTENDS Naturals, Sequences

CONSTANT MaxAnswers  \* bound: responses of the server

ASSUME MaxAnswersAssumption == MaxAnswers \in Nat

VARIABLES slot,        \* active_batches: where the batch of each operation is
          outgoing,    \* the message of the last SEND_MESSAGE
          cq,          \* the completion queue
          rejected,    \* has any batch been refused?
          sent,        \* the messages handed to the stream
          halfClosed,  \* has END_STREAM been sent?
          stream,      \* is it "live", or how it was closed?
          unread,      \* responses received that nobody asked for yet
          answered     \* history: responses received

coreVars == <<slot, outgoing, cq, rejected, sent, halfClosed, stream, unread, answered>>

Ops == {"sendHeaders", "recvHeaders", "sendMessage", "sendClose", "recvMessage", "recvStatus"}

\* These may be started once in the life of a call.
OnceOps == {"sendHeaders", "recvHeaders", "sendClose", "recvStatus"}

\* For recvMessage, ok says whether there was a message; for recvStatus,
\* whose batch always succeeds, it is the status.
Completion == [op : Ops, ok : BOOLEAN]

CoreTypeOK ==
    /\ slot \in [Ops -> {"free", "busy", "posted", "used"}]
    /\ outgoing \in Nat /\ sent \in Seq(Nat)
    /\ cq \in Seq(Completion)
    /\ rejected \in BOOLEAN /\ halfClosed \in BOOLEAN
    /\ stream \in {"live", "ok", "error"}
    /\ unread \in Nat /\ answered \in 0..MaxAnswers

CoreInit ==
    /\ slot = [op \in Ops |-> "free"]
    /\ outgoing = 0 /\ cq = <<>> /\ rejected = FALSE
    /\ sent = <<>> /\ halfClosed = FALSE
    /\ stream = "live" /\ unread = 0 /\ answered = 0

-----------------------------------------------------------------------------
(* grpc_call_start_batch: a batch whose slot is not free is refused, and   *)
(* none of its handlers ever runs.                                         *)

StartBatches(ops) ==
    /\ rejected' = (rejected \/ \E op \in ops : slot[op] # "free")
    /\ slot' = [op \in Ops |-> IF op \in ops /\ slot[op] = "free" THEN "busy" ELSE slot[op]]
    /\ UNCHANGED <<cq, sent, halfClosed, stream, unread, answered>>

SendMessage(v) ==
    /\ StartBatches({"sendMessage"})
    /\ outgoing' = IF slot["sendMessage"] = "free" THEN v ELSE outgoing

Start(ops) == StartBatches(ops) /\ UNCHANGED outgoing

-----------------------------------------------------------------------------
(* The stream completes a batch; post_batch_completion queues the event.   *)

Complete(op, ok) ==
    /\ slot[op] = "busy"
    /\ slot' = [slot EXCEPT ![op] = "posted"]
    /\ cq' = Append(cq, [op |-> op, ok |-> ok])
    /\ UNCHANGED <<outgoing, rejected, answered>>

\* The headers open the stream, and nothing passes it before them.
HeadersSent ==
    /\ Complete("sendHeaders", stream = "live")
    /\ UNCHANGED <<sent, halfClosed, stream, unread>>

HeadersOut == slot["sendHeaders"] # "busy" \/ stream # "live"

\* A message written to a closed stream fails without cancelling the call.
MessageSent ==
    /\ HeadersOut
    /\ Complete("sendMessage", stream = "live")
    /\ sent' = IF stream = "live" THEN Append(sent, outgoing) ELSE sent
    /\ UNCHANGED <<halfClosed, stream, unread>>

\* END_STREAM follows the message that is being written.
CloseSent ==
    /\ HeadersOut /\ slot["sendMessage"] # "busy"
    /\ Complete("sendClose", TRUE)
    /\ halfClosed' = (halfClosed \/ stream = "live")
    /\ UNCHANGED <<sent, stream, unread>>

HeadersArrive ==
    /\ HeadersOut
    /\ \E ok \in {TRUE, stream # "error"} : Complete("recvHeaders", ok)
    /\ UNCHANGED <<sent, halfClosed, stream, unread>>

MessageRead ==
    /\ unread > 0
    /\ Complete("recvMessage", TRUE)
    /\ unread' = unread - 1
    /\ UNCHANGED <<sent, halfClosed, stream>>

NoMoreMessages ==
    /\ unread = 0 /\ stream # "live"
    /\ Complete("recvMessage", FALSE)
    /\ UNCHANGED <<sent, halfClosed, stream, unread>>

\* Fault: the status does not wait for the responses before it.
StatusAtOnce ==
    /\ stream # "live"
    /\ Complete("recvStatus", stream = "ok")
    /\ UNCHANGED <<sent, halfClosed, stream, unread>>

\* The status is published once every response before it has been read.
StatusArrives ==
    /\ stream # "live" /\ unread = 0 /\ slot["recvMessage"] # "busy"
    /\ Complete("recvStatus", stream = "ok")
    /\ UNCHANGED <<sent, halfClosed, stream, unread>>

StreamSteps ==
    \/ HeadersSent \/ MessageSent \/ CloseSent
    \/ HeadersArrive \/ MessageRead \/ NoMoreMessages \/ StatusArrives

-----------------------------------------------------------------------------
(* The server and the network.                                             *)

ServerSends ==
    /\ stream = "live" /\ slot["recvHeaders"] \in {"posted", "used"}
    /\ answered < MaxAnswers
    /\ answered' = answered + 1 /\ unread' = unread + 1
    /\ UNCHANGED <<slot, outgoing, cq, rejected, sent, halfClosed, stream>>

\* A reset drops the responses that have not been read; the trailers of the
\* server, whatever their status, leave them to be read.
StreamEnds(status) ==
    /\ stream = "live" /\ slot["recvStatus"] # "free"
    /\ stream' = status
    /\ unread' \in {unread} \cup (IF status = "error" THEN {0} ELSE {})
    /\ UNCHANGED <<slot, outgoing, cq, rejected, sent, halfClosed, answered>>

\* grpc_call_cancel: a reset by the client.
Cancel ==
    /\ stream' = IF stream = "live" THEN "error" ELSE stream
    /\ unread' = 0
    /\ UNCHANGED <<slot, outgoing, cq, rejected, sent, halfClosed, answered>>

-----------------------------------------------------------------------------
(* grpc_completion_queue_next hands over the first event.                  *)

TakeCompletion ==
    LET op == Head(cq).op IN
    /\ cq' = Tail(cq)
    /\ slot' = [slot EXCEPT ![op] = IF op \in OnceOps THEN "used" ELSE "free"]
    /\ UNCHANGED <<outgoing, rejected, sent, halfClosed, stream, unread, answered>>
=============================================================================
