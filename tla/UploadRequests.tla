--------------------------- MODULE UploadRequests ---------------------------
(***************************************************************************)
(* Requests.swift: a delivered recording is posted to a bucket, the        *)
(* completion handler is told on the main queue, and the upload is logged  *)
(* with a second request to another server.  The two requests of one       *)
(* recording follow each other; those of several recordings overlap.       *)
(***************************************************************************)
EXTENDS Naturals, Sequences

CONSTANT MaxRecordings  \* bound: recordings delivered

ASSUME MaxRecordingsAssumption == MaxRecordings \in Nat

VARIABLES recordings,  \* how many have been delivered, which numbers them
          upload,      \* the upload task of each
          logPost,     \* the task that writes it to the realtime DB
          callbacks,   \* the completion handlers on the main queue
          stored,      \* the recordings that the bucket holds
          logged       \* the recordings that the realtime DB knows

uploadVars == <<recordings, upload, logPost, callbacks, stored, logged>>

Recordings == 1..MaxRecordings

Task == {"none", "posting", "answered", "failed"}

Report == [of : Recordings, success : BOOLEAN]

UploadTypeOK ==
    /\ recordings \in 0..MaxRecordings
    /\ upload \in [Recordings -> Task] /\ logPost \in [Recordings -> Task]
    /\ callbacks \in Seq(Report)
    /\ stored \subseteq Recordings /\ logged \subseteq Recordings

UploadInit ==
    /\ recordings = 0
    /\ upload = [r \in Recordings |-> "none"] /\ logPost = upload
    /\ callbacks = <<>> /\ stored = {} /\ logged = {}

UploadDataToGoogleCloud ==
    /\ recordings < MaxRecordings
    /\ recordings' = recordings + 1
    /\ upload' = [upload EXCEPT ![recordings'] = "posting"]
    /\ UNCHANGED <<logPost, callbacks, stored, logged>>

\* The bucket takes the recording; its answer may be lost on the way back.
BucketStores(r) ==
    /\ upload[r] = "posting"
    /\ stored' = stored \cup {r}
    /\ UNCHANGED <<recordings, upload, logPost, callbacks, logged>>

\* Fault: the status is not looked at.
LogsWhatever(status) == TRUE

Logs(status) == status \in {200, 201}

\* The handler is told of a success whatever the status of the answer is.
UploadAnswered(r, status) ==
    /\ upload[r] = "posting" /\ (status \in {200, 201} <=> r \in stored)
    /\ upload' = [upload EXCEPT ![r] = "answered"]
    /\ callbacks' = Append(callbacks, [of |-> r, success |-> TRUE])
    /\ logPost' = IF Logs(status) THEN [logPost EXCEPT ![r] = "posting"] ELSE logPost
    /\ UNCHANGED <<recordings, stored, logged>>

\* A transport error, or an answer without data: nobody is told.
UploadFails(r) ==
    /\ upload[r] = "posting"
    /\ upload' = [upload EXCEPT ![r] = "failed"]
    /\ UNCHANGED <<recordings, logPost, callbacks, stored, logged>>

\* The realtime DB takes the entry.
LogKept(r) ==
    /\ logPost[r] = "posting"
    /\ logged' = logged \cup {r}
    /\ UNCHANGED <<recordings, upload, logPost, callbacks, stored>>

\* The outcome of writeToRealTimeDB is ignored, be it good or bad.
LogEnds(r) ==
    /\ logPost[r] = "posting"
    /\ logPost' = [logPost EXCEPT ![r] = IF r \in logged THEN "answered" ELSE "failed"]
    /\ UNCHANGED <<recordings, upload, callbacks, stored, logged>>

NetworkSteps ==
    \E r \in Recordings :
        \/ BucketStores(r) \/ LogKept(r)
        \/ (\E status \in {200, 500} : UploadAnswered(r, status)) \/ UploadFails(r) \/ LogEnds(r)

\* The main queue runs the handler at its head.
TakeReport ==
    /\ callbacks # <<>> /\ callbacks' = Tail(callbacks)
    /\ UNCHANGED <<recordings, upload, logPost, stored, logged>>
=============================================================================
