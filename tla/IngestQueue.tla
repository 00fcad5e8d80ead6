----------------------------- MODULE IngestQueue -----------------------------
(***************************************************************************)
(* Queued ingestion: IngestService.async_ingest_bin_data and               *)
(* async_ingest_text (src/production_rag/server/ingest/ingest_service.py), *)
(* DocumentStorageService.store_document, IngestProducer, SQSComponent and *)
(* IngestWorker (src/production_rag/components/storage, .../queue).        *)
(*                                                                         *)
(* An upload is stored in S3 and Postgres, if both are configured, then    *)
(* sent to SQS, if configured, or else ingested within the request.  Each  *)
(* process runs a worker that receives a message, ingests it and deletes   *)
(* it.  SQS delivers a message that was not deleted in time again, and     *)
(* moves it to the dead letter queue (DLQ) after MaxReceive deliveries.    *)
(*                                                                         *)
(* Every ingestion creates documents with ids of its own, so ingesting an  *)
(* upload again adds a copy; a single ingestion is atomic here, its steps  *)
(* are those of IngestIndex and IngestPipeline.  Left out: the retention   *)
(* period of the queue, after which SQS drops any message.                 *)
(***************************************************************************)
EXTENDS Integers, FiniteSets

CONSTANTS
    FileUploads, TextUploads,  \* the requests to ingest/file and ingest/text
    Workers,                   \* the IngestWorkers, one per process
    Configs,                   \* the settings considered
    MaxReceive,                \* maxReceiveCount of the queue
    MaxStops,                  \* bound on the number of shutdowns and crashes
    None                       \* no message

Uploads == FileUploads \cup TextUploads

ASSUME QueueAssumption ==
    /\ FileUploads \cap TextUploads = {}
    /\ Configs \subseteq [storage : BOOLEAN, sqs : BOOLEAN]
    /\ MaxReceive \in Nat \ {0}
    /\ MaxStops \in Nat
    /\ None \notin Uploads

VARIABLES
    config,         \* storage: S3 and Postgres are configured; sqs: SQS is
    pc,             \* pc[u]: how far the request of upload u is
    drained,        \* the uploads whose file has been read to its end
    fellBack,       \* the uploads ingested within the request
    objects, rows,  \* the uploads in S3, and in document_metadata
    msg,            \* msg[u]: the state of the message of upload u
    receives,       \* receives[u]: how often SQS has delivered it
    work,           \* work[w]: what worker w is doing
    job,            \* job[w]: the upload it is working on
    receipt,        \* receipt[w]: which delivery of it the worker holds
    stops,
    copies          \* copies[u]: how often upload u has been ingested

requestVars == <<pc, drained, fellBack, objects, rows>>
workerVars  == <<work, job, receipt, stops>>
vars == <<config, requestVars, msg, receives, workerVars, copies>>

Finished == {"answered", "failed"}
Gone     == {"deleted", "dead"}

TypeOK ==
    /\ config \in Configs
    /\ pc \in [Uploads -> {"new", "put", "insert", "send", "ingest"} \cup Finished]
    /\ {drained, fellBack, objects, rows} \subseteq SUBSET Uploads
    /\ msg \in [Uploads -> {"none", "visible", "inflight"} \cup Gone]
    /\ receives \in [Uploads -> 0 .. MaxReceive]
    /\ work \in [Workers -> {"open", "unopened", "poll", "read", "ingest", "delete",
                             "stopped"}]
    /\ job \in [Workers -> Uploads \cup {None}]
    /\ receipt \in [Workers -> 0 .. MaxReceive]
    /\ stops \in 0 .. MaxStops
    /\ copies \in [Uploads -> Nat]

Init ==
    /\ config \in Configs
    /\ pc = [u \in Uploads |-> "new"]
    /\ drained = {} /\ fellBack = {} /\ objects = {} /\ rows = {}
    /\ msg = [u \in Uploads |-> "none"]
    /\ receives = [u \in Uploads |-> 0]
    /\ work = [w \in Workers |-> "open"]
    /\ job = [w \in Workers |-> None]
    /\ receipt = [w \in Workers |-> 0]
    /\ stops = 0
    /\ copies = [u \in Uploads |-> 0]

-----------------------------------------------------------------------------
(* The request.                                                            *)

Goto(u, from, to) ==
    /\ pc[u] = from
    /\ pc' = [pc EXCEPT ![u] = to]
    /\ UNCHANGED <<config, receives, workerVars>>

\* store_document records nothing unless S3 and Postgres are both configured.
Begin(u) ==
    /\ Goto(u, "new", IF u \in FileUploads /\ config.storage THEN "put" ELSE "send")
    /\ UNCHANGED <<drained, fellBack, objects, rows, msg, copies>>

PutObject(u) ==
    /\ Goto(u, "put", "insert")
    /\ objects' = objects \cup {u}
    /\ drained' = drained \cup {u}
    /\ UNCHANGED <<fellBack, rows, msg, copies>>

\* put_object raises; S3 may have stored the object all the same.
PutObjectFails(u) ==
    /\ Goto(u, "put", "failed")
    /\ objects' \in {objects, objects \cup {u}}
    /\ drained' = drained \cup {u}
    /\ UNCHANGED <<fellBack, rows, msg, copies>>

\* Mutant: the session is closed without a commit.
InsertRowNoCommit(u) ==
    /\ Goto(u, "insert", "send")
    /\ UNCHANGED <<drained, fellBack, objects, rows, msg, copies>>

InsertRow(u) ==
    /\ Goto(u, "insert", "send")
    /\ rows' = rows \cup {u}
    /\ UNCHANGED <<drained, fellBack, objects, msg, copies>>

\* The transaction is rolled back, or only the answer to its commit is lost.
InsertRowFails(u) ==
    /\ Goto(u, "insert", "failed")
    /\ rows' \in {rows, rows \cup {u}}
    /\ UNCHANGED <<drained, fellBack, objects, msg, copies>>

\* The message is queued.  The request then fails: the IngestedDoc it wants
\* to return has no doc_metadata, a field without a default.
Send(u) ==
    /\ config.sqs
    /\ Goto(u, "send", "failed")
    /\ msg' = [msg EXCEPT ![u] = "visible"]
    /\ UNCHANGED <<drained, fellBack, objects, rows, copies>>

\* Mutant: the file is not rewound.
FallBackNoSeek(u) ==
    /\ Goto(u, "send", "ingest")
    /\ fellBack' = fellBack \cup {u}
    /\ UNCHANGED <<drained, objects, rows, copies>>

\* queue_ingestion has returned None: the file is rewound and ingested here.
FallBack(u) ==
    /\ Goto(u, "send", "ingest")
    /\ drained' = drained \ {u}
    /\ fellBack' = fellBack \cup {u}
    /\ UNCHANGED <<objects, rows, copies>>

SqsDisabled(u) ==
    /\ ~config.sqs
    /\ FallBack(u)
    /\ UNCHANGED msg

\* send_message swallows the exception; SQS may have queued the message.
SendFails(u) ==
    /\ config.sqs
    /\ FallBack(u)
    /\ msg' \in {msg, [msg EXCEPT ![u] = "visible"]}

\* ingest_bin_data and ingest_text; an exhausted file ingests nothing.
IngestHere(u) ==
    /\ Goto(u, "ingest", "answered")
    /\ copies' = IF u \in drained THEN copies ELSE [copies EXCEPT ![u] = @ + 1]
    /\ UNCHANGED <<drained, fellBack, objects, rows, msg>>

IngestHereFails(u) ==
    /\ Goto(u, "ingest", "failed")
    /\ UNCHANGED <<drained, fellBack, objects, rows, msg, copies>>

-----------------------------------------------------------------------------
(* SQS.                                                                    *)

\* The visibility timeout passes, whether or not a worker is still busy.
VisibilityTimeout(u) ==
    /\ msg[u] = "inflight"
    /\ msg' = [msg EXCEPT ![u] = IF receives[u] < MaxReceive THEN "visible" ELSE "dead"]
    /\ UNCHANGED <<config, requestVars, receives, workerVars, copies>>

Deliver(u) ==
    /\ msg[u] = "visible"
    /\ msg' = [msg EXCEPT ![u] = "inflight"]
    /\ receives' = [receives EXCEPT ![u] = @ + 1]

\* receive_message fails after SQS has delivered: no worker has the message.
DeliveryLost(u) ==
    /\ \E w \in Workers : work[w] = "poll"
    /\ Deliver(u)
    /\ UNCHANGED <<config, requestVars, workerVars, copies>>

-----------------------------------------------------------------------------
(* IngestWorker.                                                           *)

Step(w, from, to) ==
    /\ work[w] = from
    /\ work' = [work EXCEPT ![w] = to]
    /\ UNCHANGED <<config, requestVars, stops>>

\* The job is over for this worker.
Finish(w, from, to) ==
    /\ Step(w, from, to)
    /\ job' = [job EXCEPT ![w] = None]
    /\ receipt' = [receipt EXCEPT ![w] = 0]

\* start: the client is opened, and the polling begins.
Open(w) ==
    /\ config.sqs
    /\ Step(w, "open", "poll")
    /\ UNCHANGED <<msg, receives, job, receipt, copies>>

\* SQS is disabled, or opening the client raises, which no try statement catches:
\* the task is over, and no other one is made while the process lives.
OpenFails(w) ==
    /\ Step(w, "open", "unopened")
    /\ UNCHANGED <<msg, receives, job, receipt, copies>>

\* What the message of u carries is enough to ingest it: a text, or a bucket
\* and a key.
HasContent(u) == u \in TextUploads \/ config.storage

Receive(w, u) ==
    /\ Step(w, "poll", "read")
    /\ Deliver(u)
    /\ job' = [job EXCEPT ![w] = u]
    /\ receipt' = [receipt EXCEPT ![w] = receives'[u]]
    /\ UNCHANGED copies

\* get_object; without text or S3 data the job is over with a warning.
Read(w) ==
    /\ job[w] \in FileUploads /\ config.storage => job[w] \in objects
    /\ Step(w, "read", IF HasContent(job[w]) THEN "ingest" ELSE "delete")
    /\ UNCHANGED <<msg, receives, job, receipt, copies>>

Ingest(w) ==
    /\ Step(w, "ingest", "delete")
    /\ copies' = [copies EXCEPT ![job[w]] = @ + 1]
    /\ UNCHANGED <<msg, receives, job, receipt>>

\* Mutant: the exception ends the polling loop.
AttemptFailsLoopEnds(w) ==
    /\ work[w] \in {"read", "ingest"}
    /\ Finish(w, work[w], "ended")
    /\ UNCHANGED <<msg, receives, copies>>

\* Mutant: a failing attempt deletes the message.
AttemptFailsDeletes(w) ==
    /\ work[w] \in {"read", "ingest"}
    /\ Step(w, work[w], "delete")
    /\ UNCHANGED <<msg, receives, job, receipt, copies>>

\* Reading or ingesting raises: the message stays, the loop goes on.
AttemptFails(w) ==
    /\ work[w] \in {"read", "ingest"}
    /\ Finish(w, work[w], "poll")
    /\ UNCHANGED <<msg, receives, copies>>

\* delete_message: with the receipt of an earlier delivery SQS may or may not
\* delete the message; what is in the DLQ stays there.
DeleteMessage(w) ==
    /\ Finish(w, "delete", "poll")
    /\ LET u == job[w]
           deleted == [msg EXCEPT ![u] = "deleted"]
       IN  CASE msg[u] \in Gone -> UNCHANGED msg
             [] msg[u] \notin Gone /\ receipt[w] = receives[u] -> msg' = deleted
             [] OTHER -> msg' \in {msg, deleted}
    /\ UNCHANGED <<receives, copies>>

\* Mutant: the job is done again when its message could not be deleted.
DeleteMessageFailsRetry(w) ==
    /\ Step(w, "delete", "read")
    /\ UNCHANGED <<msg, receives, job, receipt, copies>>

DeleteMessageFails(w) ==
    /\ Finish(w, "delete", "poll")
    /\ UNCHANGED <<msg, receives, copies>>

-----------------------------------------------------------------------------
(* The lifespan of the application.                                        *)

\* On shutdown the worker is cancelled after five seconds; on a crash it
\* ends at once.  The thread that ingests may still get to its end.
Stop(w) ==
    /\ stops < MaxStops
    /\ stops' = stops + 1
    /\ work[w] # "stopped"
    /\ work' = [work EXCEPT ![w] = "stopped"]
    /\ job' = [job EXCEPT ![w] = None]
    /\ receipt' = [receipt EXCEPT ![w] = 0]
    /\ \/ UNCHANGED copies
       \/ /\ work[w] = "ingest"
          /\ copies' = [copies EXCEPT ![job[w]] = @ + 1]
    /\ UNCHANGED <<config, requestVars, msg, receives>>

Start(w) ==
    /\ Step(w, "stopped", "open")
    /\ UNCHANGED <<msg, receives, job, receipt, copies>>

\* The process that serves the request ends.
Abort(u) ==
    /\ stops < MaxStops
    /\ stops' = stops + 1
    /\ pc[u] \notin {"new"} \cup Finished
    /\ pc' = [pc EXCEPT ![u] = "failed"]
    /\ UNCHANGED <<config, drained, fellBack, objects, rows, msg, receives,
                   work, job, receipt, copies>>

-----------------------------------------------------------------------------

Store(u) ==
    \/ PutObject(u)
    \/ PutObjectFails(u)
    \/ InsertRow(u)
    \/ InsertRowFails(u)

Queue(u) ==
    \/ Send(u)
    \/ SqsDisabled(u)
    \/ SendFails(u)

Request(u) ==
    \/ Store(u)
    \/ Queue(u)
    \/ IngestHere(u)
    \/ IngestHereFails(u)

Work(w) ==
    \/ Read(w)
    \/ Ingest(w)
    \/ AttemptFails(w)
    \/ DeleteMessage(w)
    \/ DeleteMessageFails(w)

Poll(w) ==
    \/ Open(w)
    \/ OpenFails(w)
    \/ \E u \in Uploads : Receive(w, u)

\* In no process is there a task that receives messages, or will be.
NobodyPolls == \A w \in Workers : work[w] = "unopened"

\* Every request has ended, and every message has left the queue or stays there.
Quiescent ==
    /\ \A u \in Uploads :
          /\ pc[u] \in Finished
          /\ \/ msg[u] \in {"none"} \cup Gone
             \/ msg[u] = "visible" /\ NobodyPolls
    /\ \A w \in Workers : job[w] = None
    /\ UNCHANGED vars

Next ==
    \/ \E u \in Uploads : \/ Begin(u)
                          \/ Request(u)
                          \/ Abort(u)
                          \/ VisibilityTimeout(u)
                          \/ DeliveryLost(u)
    \/ \E w \in Workers : Poll(w) \/ Work(w) \/ Stop(w) \/ Start(w)
    \/ Quiescent

\* A request and a worker that can go on do, a stopped process is started
\* again, and visibility timeouts pass.
Fairness ==
    /\ \A u \in Uploads : WF_vars(Request(u)) /\ WF_vars(VisibilityTimeout(u))
    /\ \A w \in Workers : WF_vars(Poll(w) \/ Work(w) \/ Start(w))

Spec == Init /\ [][Next]_vars
FairSpec == Spec /\ Fairness

-----------------------------------------------------------------------------

\* The worker deletes a message only after it has ingested what the message
\* carries, whatever failed, timed out or was redelivered before.
DeletedWereIngested ==
    \A u \in Uploads : msg[u] = "deleted" /\ HasContent(u) => copies[u] > 0

\* Every job whose message carries a key finds its object in S3 and its row in
\* Postgres: both are written before the message is sent.
JobsAreStored ==
    \A u \in FileUploads :
        config.storage /\ msg[u] # "none" => u \in objects /\ u \in rows

\* A request that is answered has ingested its content itself, also when the
\* file had been read before, for S3.
AnsweredWereIngested ==
    \A u \in Uploads : pc[u] = "answered" => copies[u] > 0

\* Redelivery makes duplicates, but no more than one per delivery and one for
\* the request that fell back: at most MaxReceive + 1 copies of an upload.
CopiesArePaidFor ==
    \A u \in Uploads :
        LET busy == {w \in Workers : work[w] \in {"read", "ingest"} /\ job[w] = u}
            own == IF u \in fellBack THEN 1 ELSE 0
        IN  copies[u] + Cardinality(busy) <= receives[u] + own

\* IngestWorker.start: a job that is queued does not stay in the queue for ever,
\* whatever fails in the polling loop or on the way: in the end it has been
\* deleted or is in the DLQ.  The one exception: from some time on no process has
\* a worker, because each of them failed to open its client, before the loop.
JobsSettle ==
    \/ \A u \in Uploads : <>[](msg[u] \in {"none"} \cup Gone)
    \/ <>[]NobodyPolls

\* ingest_consumer.py: a job that fails is retried and then kept in the DLQ;
\* it does not disappear.
NoJobIsDropped ==
    \A u \in Uploads : msg[u] = "deleted" => copies[u] > 0
=============================================================================
