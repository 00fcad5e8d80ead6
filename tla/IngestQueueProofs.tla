-------------------------- MODULE IngestQueueProofs --------------------------
(***************************************************************************)
(* Theorems about IngestQueue, for every set of uploads and workers, every *)
(* configuration and every MaxReceive and MaxStops.                        *)
(***************************************************************************)
EXTENDS IngestQueue, FiniteSetTheorems, TLAPS

\* A message is sent once, from pc "send", and is not visible again after its
\* last delivery.
Counted ==
    \A u \in Uploads :
        /\ pc[u] \in {"new", "put", "insert", "send"} => msg[u] = "none"
        /\ msg[u] = "none" => receives[u] = 0
        /\ msg[u] = "visible" => receives[u] < MaxReceive

\* The request passes put and insert, in this order, before send.
Stored ==
    \A u \in FileUploads :
        config.storage =>
            /\ pc[u] = "insert" => u \in objects
            /\ pc[u] = "send" \/ msg[u] # "none" => u \in objects /\ u \in rows

\* Within the request a file is read from its start.
Rewound == \A u \in Uploads : pc[u] = "ingest" => u \notin drained

\* A worker that is busy has a job, and the message of the job was sent.
Working ==
    \A w \in Workers :
        work[w] \in {"read", "ingest", "delete"} => job[w] \in Uploads /\ msg[job[w]] # "none"

\* A worker that is about to delete a message has ingested what it carries.
IngestedFirst ==
    \A w \in Workers : work[w] = "delete" /\ HasContent(job[w]) => copies[job[w]] > 0

\* The inductive invariant.
QueueInv ==
    /\ TypeOK
    /\ Counted
    /\ Stored
    /\ Rewound
    /\ Working
    /\ IngestedFirst
    /\ AnsweredWereIngested
    /\ DeletedWereIngested

\* Nothing is sent, stored or delivered at the start.
LEMMA QueueInvInit == Init => QueueInv
<1> SUFFICES ASSUME Init PROVE QueueInv
    OBVIOUS
<1> USE QueueAssumption DEF Init
<1>1. TypeOK
    BY DEF TypeOK
<1>2. Counted /\ Stored /\ Rewound /\ Working /\ IngestedFirst
    BY DEF Counted, Stored, Rewound, Working, IngestedFirst, Uploads
<1>3. AnsweredWereIngested /\ DeletedWereIngested
    BY DEF AnsweredWereIngested, DeletedWereIngested
<1> QED BY <1>1, <1>2, <1>3 DEF QueueInv

\* delete_message leaves the message or deletes it, and never brings it back.
LEMMA DeleteEffect ==
    ASSUME NEW w \in Workers, DeleteMessage(w)
    PROVE  /\ work[w] = "delete"
           /\ msg' \in {msg, [msg EXCEPT ![job[w]] = "deleted"]}
<1>1. CASE msg[job[w]] \in Gone
    BY <1>1 DEF DeleteMessage, Finish, Step
<1>2. CASE msg[job[w]] \notin Gone /\ receipt[w] = receives[job[w]]
    BY <1>2 DEF DeleteMessage, Finish, Step
<1>3. CASE msg[job[w]] \notin Gone /\ receipt[w] # receives[job[w]]
    BY <1>3 DEF DeleteMessage, Finish, Step
<1> QED BY <1>1, <1>2, <1>3

\* What a request, and a message that comes or returns, does not do: it leaves
\* the workers alone, takes no copy away and deletes no message.
RequestFrame ==
    /\ UNCHANGED <<config, work, job>>
    /\ \A v \in Uploads : /\ copies'[v] \in Nat /\ copies'[v] >= copies[v]
                          /\ msg'[v] = "deleted" => msg[v] = "deleted"
                          /\ msg'[v] = "none" => msg[v] = "none"

\* What a request leaves alone.
LEMMA RequestFramed ==
    ASSUME QueueInv, NEW u \in Uploads,
           Begin(u) \/ Request(u) \/ Abort(u) \/ VisibilityTimeout(u) \/ DeliveryLost(u)
    PROVE  RequestFrame
<1> USE DEF QueueInv, TypeOK, RequestFrame, requestVars, workerVars, Gone, Finished
<1>1. CASE Begin(u)
    BY <1>1 DEF Begin, Goto
<1>2. CASE PutObject(u)
    BY <1>2 DEF PutObject, Goto
<1>3. CASE PutObjectFails(u)
    BY <1>3 DEF PutObjectFails, Goto
<1>4. CASE InsertRow(u)
    BY <1>4 DEF InsertRow, Goto
<1>5. CASE InsertRowFails(u)
    BY <1>5 DEF InsertRowFails, Goto
<1>6. CASE Send(u)
    BY <1>6 DEF Send, Goto
<1>7. CASE SqsDisabled(u)
    BY <1>7 DEF SqsDisabled, FallBack, Goto
<1>8. CASE SendFails(u)
    BY <1>8 DEF SendFails, FallBack, Goto
<1>9. CASE IngestHere(u)
    BY <1>9 DEF IngestHere, Goto
<1>10. CASE IngestHereFails(u)
    BY <1>10 DEF IngestHereFails, Goto
<1>11. CASE Abort(u)
    BY <1>11 DEF Abort
<1>12. CASE VisibilityTimeout(u)
    BY <1>12 DEF VisibilityTimeout
<1>13. CASE DeliveryLost(u)
    BY <1>13 DEF DeliveryLost, Deliver
<1> QED BY <1>1, <1>2, <1>3, <1>4, <1>5, <1>6, <1>7, <1>8, <1>9, <1>10,
         <1>11, <1>12, <1>13
        DEF Request, Store, Queue

\* What a worker does not do: it leaves the requests alone, takes no copy away
\* and makes no message visible.
WorkerFrame ==
    /\ UNCHANGED <<config, pc, drained, objects, rows>>
    /\ \A v \in Uploads : /\ copies'[v] \in Nat /\ copies'[v] >= copies[v]
                          /\ msg'[v] \in {"none", "visible"} => /\ msg'[v] = msg[v]
                                                               /\ receives'[v] = receives[v]
                          /\ msg[v] = "none" => msg'[v] = "none"

\* What a worker leaves alone.
LEMMA WorkerFramed ==
    ASSUME QueueInv, NEW w \in Workers, Poll(w) \/ Work(w) \/ Stop(w) \/ Start(w)
    PROVE  WorkerFrame
<1> USE DEF QueueInv, TypeOK, WorkerFrame, requestVars, workerVars, Gone, Finished
<1>1. ASSUME NEW u \in Uploads, Receive(w, u)
      PROVE  WorkerFrame
    BY <1>1 DEF Receive, Deliver, Step
<1>2. CASE Read(w)
    BY <1>2 DEF Read, Step
<1>3. CASE Ingest(w)
    BY <1>3 DEF Ingest, Step
<1>4. CASE AttemptFails(w)
    BY <1>4 DEF AttemptFails, Finish, Step
<1>5. CASE DeleteMessage(w)
    <2>1. copies' = copies /\ receives' = receives
        BY <1>5 DEF DeleteMessage
    <2>2. UNCHANGED <<config, pc, drained, objects, rows>>
        BY <1>5 DEF DeleteMessage, Finish, Step
    <2>3. \A v \in Uploads : msg'[v] = msg[v] \/ msg'[v] = "deleted"
        BY <1>5, DeleteEffect
    <2>4. msg[job[w]] # "none"
        BY <1>5, DeleteEffect DEF Working
    <2> QED BY <1>5, <2>1, <2>2, <2>3, <2>4, DeleteEffect
<1>6. CASE DeleteMessageFails(w)
    BY <1>6 DEF DeleteMessageFails, Finish, Step
<1>7. CASE Stop(w)
    BY <1>7 DEF Stop
<1>8. CASE Open(w) \/ OpenFails(w) \/ Start(w)
    BY <1>8 DEF Open, OpenFails, Start, Step
<1> QED BY <1>1, <1>2, <1>3, <1>4, <1>5, <1>6, <1>7, <1>8
        DEF Poll, Work

\* Every step keeps the types; a delivery needs the count below MaxReceive, and
\* the worker that ingests or deletes needs its job.
LEMMA QueueTypeStep ==
    ASSUME QueueInv, [Next]_vars
    PROVE  TypeOK'
<1> USE QueueAssumption DEF QueueInv, TypeOK, Counted, Working, requestVars, workerVars,
                        Finished, Gone
<1>1. ASSUME NEW u \in Uploads, Begin(u)
      PROVE  TypeOK'
    BY <1>1 DEF Begin, Goto
<1>2. ASSUME NEW u \in Uploads, PutObject(u)
      PROVE  TypeOK'
    BY <1>2 DEF PutObject, Goto
<1>3. ASSUME NEW u \in Uploads, PutObjectFails(u)
      PROVE  TypeOK'
    BY <1>3 DEF PutObjectFails, Goto
<1>4. ASSUME NEW u \in Uploads, InsertRow(u)
      PROVE  TypeOK'
    BY <1>4 DEF InsertRow, Goto
<1>5. ASSUME NEW u \in Uploads, InsertRowFails(u)
      PROVE  TypeOK'
    BY <1>5 DEF InsertRowFails, Goto
<1>6. ASSUME NEW u \in Uploads, Send(u)
      PROVE  TypeOK'
    BY <1>6 DEF Send, Goto
<1>7. ASSUME NEW u \in Uploads, SqsDisabled(u)
      PROVE  TypeOK'
    BY <1>7 DEF SqsDisabled, FallBack, Goto
<1>8. ASSUME NEW u \in Uploads, SendFails(u)
      PROVE  TypeOK'
    BY <1>8 DEF SendFails, FallBack, Goto
<1>9. ASSUME NEW u \in Uploads, IngestHere(u)
      PROVE  TypeOK'
    BY <1>9 DEF IngestHere, Goto
<1>10. ASSUME NEW u \in Uploads, IngestHereFails(u)
       PROVE  TypeOK'
    BY <1>10 DEF IngestHereFails, Goto
<1>11. ASSUME NEW u \in Uploads, Abort(u)
       PROVE  TypeOK'
    BY <1>11 DEF Abort
<1>12. ASSUME NEW u \in Uploads, VisibilityTimeout(u)
       PROVE  TypeOK'
    BY <1>12 DEF VisibilityTimeout
<1>13. ASSUME NEW u \in Uploads, DeliveryLost(u)
       PROVE  TypeOK'
    BY <1>13 DEF DeliveryLost, Deliver
<1>14. ASSUME NEW w \in Workers, NEW u \in Uploads, Receive(w, u)
       PROVE  TypeOK'
    BY <1>14 DEF Receive, Deliver, Step
<1>15. ASSUME NEW w \in Workers, Read(w)
       PROVE  TypeOK'
    BY <1>15 DEF Read, Step
<1>16. ASSUME NEW w \in Workers, Ingest(w)
       PROVE  TypeOK'
    BY <1>16 DEF Ingest, Step
<1>17. ASSUME NEW w \in Workers, AttemptFails(w)
       PROVE  TypeOK'
    BY <1>17 DEF AttemptFails, Finish, Step
<1>18. ASSUME NEW w \in Workers, DeleteMessage(w)
       PROVE  TypeOK'
    BY <1>18 DEF DeleteMessage, Finish, Step
<1>19. ASSUME NEW w \in Workers, DeleteMessageFails(w)
       PROVE  TypeOK'
    BY <1>19 DEF DeleteMessageFails, Finish, Step
<1>20. ASSUME NEW w \in Workers, Stop(w)
       PROVE  TypeOK'
    BY <1>20 DEF Stop
<1>21. ASSUME NEW w \in Workers, Open(w) \/ OpenFails(w) \/ Start(w)
       PROVE  TypeOK'
    BY <1>21 DEF Open, OpenFails, Start, Step
<1>22. CASE Quiescent \/ UNCHANGED vars
    BY <1>22 DEF Quiescent, vars
<1> QED BY <1>1, <1>2, <1>3, <1>4, <1>5, <1>6, <1>7, <1>8, <1>9, <1>10,
         <1>11, <1>12, <1>13, <1>14, <1>15, <1>16, <1>17, <1>18, <1>19,
         <1>20, <1>21, <1>22
        DEF Next, Request, Store, Queue, Poll, Work

\* The order of the steps of a request.
LEMMA RequestStep ==
    ASSUME QueueInv, [Next]_vars
    PROVE  Counted' /\ Stored' /\ Rewound'
<1>a. ASSUME NEW w \in Workers, Poll(w) \/ Work(w) \/ Stop(w) \/ Start(w)
      PROVE  WorkerFrame
    BY <1>a, WorkerFramed
<1> USE QueueAssumption DEF QueueInv, TypeOK, Counted, Stored, Rewound, requestVars,
                        workerVars, Finished, Gone, Uploads
<1>1. ASSUME NEW u \in Uploads, Begin(u)
      PROVE  Counted' /\ Stored' /\ Rewound'
    BY <1>1 DEF Begin, Goto
<1>2. ASSUME NEW u \in Uploads, PutObject(u)
      PROVE  Counted' /\ Stored' /\ Rewound'
    BY <1>2 DEF PutObject, Goto
<1>3. ASSUME NEW u \in Uploads, PutObjectFails(u)
      PROVE  Counted' /\ Stored' /\ Rewound'
    BY <1>3 DEF PutObjectFails, Goto
<1>4. ASSUME NEW u \in Uploads, InsertRow(u)
      PROVE  Counted' /\ Stored' /\ Rewound'
    BY <1>4 DEF InsertRow, Goto
<1>5. ASSUME NEW u \in Uploads, InsertRowFails(u)
      PROVE  Counted' /\ Stored' /\ Rewound'
    BY <1>5 DEF InsertRowFails, Goto
<1>6. ASSUME NEW u \in Uploads, Send(u)
      PROVE  Counted' /\ Stored' /\ Rewound'
    BY <1>6 DEF Send, Goto
<1>7. ASSUME NEW u \in Uploads, SqsDisabled(u)
      PROVE  Counted' /\ Stored' /\ Rewound'
    BY <1>7 DEF SqsDisabled, FallBack, Goto
<1>8. ASSUME NEW u \in Uploads, SendFails(u)
      PROVE  Counted' /\ Stored' /\ Rewound'
    BY <1>8 DEF SendFails, FallBack, Goto
<1>9. ASSUME NEW u \in Uploads, IngestHere(u)
      PROVE  Counted' /\ Stored' /\ Rewound'
    BY <1>9 DEF IngestHere, Goto
<1>10. ASSUME NEW u \in Uploads, IngestHereFails(u)
       PROVE  Counted' /\ Stored' /\ Rewound'
    BY <1>10 DEF IngestHereFails, Goto
<1>11. ASSUME NEW u \in Uploads, Abort(u)
       PROVE  Counted' /\ Stored' /\ Rewound'
    BY <1>11 DEF Abort
<1>12. ASSUME NEW u \in Uploads, VisibilityTimeout(u)
       PROVE  Counted' /\ Stored' /\ Rewound'
    BY <1>12 DEF VisibilityTimeout
<1>13. ASSUME NEW u \in Uploads, DeliveryLost(u)
       PROVE  Counted' /\ Stored' /\ Rewound'
    BY <1>13 DEF DeliveryLost, Deliver
<1>14. ASSUME NEW w \in Workers, Poll(w) \/ Work(w) \/ Stop(w) \/ Start(w)
       PROVE  Counted' /\ Stored' /\ Rewound'
    <2>1. WorkerFrame
        BY <1>14, <1>a
    <2> QED BY <2>1 DEF WorkerFrame
<1>15. CASE Quiescent \/ UNCHANGED vars
    BY <1>15 DEF Quiescent, vars
<1>16. ASSUME NEW u \in Uploads, Request(u)
       PROVE  Counted' /\ Stored' /\ Rewound'
    BY <1>2, <1>3, <1>4, <1>5, <1>6, <1>7, <1>8, <1>9, <1>10, <1>16
    DEF Request, Store, Queue
<1> QED BY <1>1, <1>11, <1>12, <1>13, <1>14, <1>15, <1>16 DEF Next

\* The order of the steps of a worker.
LEMMA WorkerStep ==
    ASSUME QueueInv, [Next]_vars
    PROVE  Working' /\ IngestedFirst' /\ DeletedWereIngested'
<1>a. ASSUME NEW u \in Uploads,
             Begin(u) \/ Request(u) \/ Abort(u) \/ VisibilityTimeout(u) \/ DeliveryLost(u)
      PROVE  RequestFrame
    BY <1>a, RequestFramed
<1> USE DEF QueueInv, TypeOK, Working, IngestedFirst, DeletedWereIngested, HasContent
<1>1. ASSUME NEW u \in Uploads,
             Begin(u) \/ Request(u) \/ Abort(u) \/ VisibilityTimeout(u) \/ DeliveryLost(u)
      PROVE  Working' /\ IngestedFirst' /\ DeletedWereIngested'
    <2>1. RequestFrame
        BY <1>1, <1>a
    <2> QED BY <2>1 DEF RequestFrame
<1>2. ASSUME NEW w \in Workers, NEW u \in Uploads, Receive(w, u)
      PROVE  Working' /\ IngestedFirst' /\ DeletedWereIngested'
    BY <1>2 DEF Receive, Deliver, Step
<1>3. ASSUME NEW w \in Workers, Read(w)
      PROVE  Working' /\ IngestedFirst' /\ DeletedWereIngested'
    BY <1>3 DEF Read, Step
<1>4. ASSUME NEW w \in Workers, Ingest(w)
      PROVE  Working' /\ IngestedFirst' /\ DeletedWereIngested'
    BY <1>4 DEF Ingest, Step
<1>5. ASSUME NEW w \in Workers, AttemptFails(w)
      PROVE  Working' /\ IngestedFirst' /\ DeletedWereIngested'
    BY <1>5 DEF AttemptFails, Finish, Step
<1>6. ASSUME NEW w \in Workers, DeleteMessage(w)
      PROVE  Working' /\ IngestedFirst' /\ DeletedWereIngested'
    BY <1>6 DEF DeleteMessage, Finish, Step
<1>7. ASSUME NEW w \in Workers, DeleteMessageFails(w)
      PROVE  Working' /\ IngestedFirst' /\ DeletedWereIngested'
    BY <1>7 DEF DeleteMessageFails, Finish, Step
<1>8. ASSUME NEW w \in Workers, Stop(w)
      PROVE  Working' /\ IngestedFirst' /\ DeletedWereIngested'
    BY <1>8 DEF Stop
<1>9. ASSUME NEW w \in Workers, Open(w) \/ OpenFails(w) \/ Start(w)
      PROVE  Working' /\ IngestedFirst' /\ DeletedWereIngested'
    BY <1>9 DEF Open, OpenFails, Start, Step
<1>10. CASE Quiescent \/ UNCHANGED vars
    BY <1>10 DEF Quiescent, vars, requestVars, workerVars
<1> QED BY <1>1, <1>2, <1>3, <1>4, <1>5, <1>6, <1>7, <1>8, <1>9, <1>10
        DEF Next, Poll, Work

\* Only IngestHere answers, and there the file has been rewound.
LEMMA AnsweredStep ==
    ASSUME QueueInv, [Next]_vars
    PROVE  AnsweredWereIngested'
<1>a. ASSUME NEW w \in Workers, Poll(w) \/ Work(w) \/ Stop(w) \/ Start(w)
      PROVE  WorkerFrame
    BY <1>a, WorkerFramed
<1> USE DEF QueueInv, AnsweredWereIngested
<1>1. ASSUME NEW u \in Uploads, IngestHere(u)
      PROVE  AnsweredWereIngested'
    BY <1>1 DEF IngestHere, Goto, Rewound, TypeOK
<1>2. ASSUME NEW u \in Uploads,
             Begin(u) \/ Store(u) \/ Queue(u) \/ IngestHereFails(u) \/ Abort(u)
      PROVE  /\ copies' = copies
             /\ \A v \in Uploads : pc'[v] = "answered" => pc[v] = "answered"
    BY <1>2
    DEF Begin, Store, PutObject, PutObjectFails, InsertRow, InsertRowFails, Queue,
        Send, SqsDisabled, SendFails, FallBack, IngestHereFails, Abort, Goto, TypeOK
<1>3. ASSUME NEW u \in Uploads, VisibilityTimeout(u) \/ DeliveryLost(u)
      PROVE  UNCHANGED <<pc, copies>>
    BY <1>3 DEF VisibilityTimeout, DeliveryLost, requestVars
<1>4. ASSUME NEW w \in Workers, Poll(w) \/ Work(w) \/ Stop(w) \/ Start(w)
      PROVE  AnsweredWereIngested'
    <2>1. WorkerFrame
        BY <1>4, <1>a
    <2> QED BY <2>1 DEF WorkerFrame, TypeOK
<1>5. CASE Quiescent \/ UNCHANGED vars
    BY <1>5 DEF Quiescent, vars, requestVars
<1> QED BY <1>1, <1>2, <1>3, <1>4, <1>5 DEF Next, Request

\* The invariant holds in every reachable state.
LEMMA QueueInvariant == Spec => []QueueInv
<1>1. QueueInv /\ [Next]_vars => QueueInv'
    BY QueueTypeStep, RequestStep, WorkerStep, AnsweredStep DEF QueueInv
<1> QED BY <1>1, QueueInvInit, PTL DEF Spec

\* The queued ingestion is well typed; in particular SQS delivers a message
\* MaxReceive times at most.
THEOREM QueueTypeCorrect == Spec => []TypeOK
BY QueueInvariant, PTL DEF QueueInv

\* _process_message: a message that the worker deleted and that carries its
\* content has been ingested, whatever failed or was redelivered.
THEOREM AcknowledgedWereIngested == Spec => []DeletedWereIngested
BY QueueInvariant, PTL DEF QueueInv

\* store_document and queue_ingestion: a job that carries a key is in S3 and
\* in Postgres from the moment its message may be visible.
THEOREM QueuedWereStored == Spec => []JobsAreStored
<1>1. QueueInv => JobsAreStored
    BY DEF QueueInv, Stored, JobsAreStored
<1> QED BY <1>1, QueueInvariant, PTL

\* async_ingest_bin_data and async_ingest_text: a request that falls back and
\* is answered has ingested its content.
THEOREM FallbackWasIngested == Spec => []AnsweredWereIngested
BY QueueInvariant, PTL DEF QueueInv

-----------------------------------------------------------------------------
(* Every copy is paid for by a delivery, or by the fallback of the request. *)

\* Worker w has taken a delivery of u that may still become a copy; so has the
\* request of u, once it has fallen back.
Takes(w, u) == work[w] \in {"read", "ingest"} /\ job[w] = u
Busy(u) == {w \in Workers : Takes(w, u)}
Pending(u) == IF pc[u] = "ingest" THEN 1 ELSE 0
Own(u) == IF u \in fellBack THEN 1 ELSE 0

\* A request falls back once, from pc "send".
Paid ==
    \A u \in Uploads :
        /\ IsFiniteSet(Busy(u))
        /\ pc[u] \in {"new", "put", "insert", "send"} => u \notin fellBack
        /\ copies[u] + Cardinality(Busy(u)) + Pending(u) <= receives[u] + Own(u)

\* The inductive invariant.
PaidInv == QueueInv /\ Paid

\* Sets that differ in one element.
LEMMA OneApart ==
    ASSUME NEW S, NEW T, NEW x, IsFiniteSet(S), S \ {x} = T \ {x}
    PROVE  /\ IsFiniteSet(T)
           /\ Cardinality(S) \in Nat /\ Cardinality(T) \in Nat
           /\ Cardinality(T) + (IF x \in S THEN 1 ELSE 0)
                  = Cardinality(S) + (IF x \in T THEN 1 ELSE 0)
<1>1. IsFiniteSet(S \ {x}) /\ Cardinality(S) \in Nat /\ Cardinality(S \ {x}) \in Nat
    BY FS_RemoveElement, FS_CardinalityType
<1>2. Cardinality(S) = Cardinality(S \ {x}) + (IF x \in S THEN 1 ELSE 0)
    BY <1>1, FS_RemoveElement
<1>3. T = IF x \in T THEN (S \ {x}) \cup {x} ELSE S \ {x}
    OBVIOUS
<1>4. x \notin S \ {x}
    OBVIOUS
<1>5. /\ IsFiniteSet(T)
      /\ Cardinality(T) = Cardinality(S \ {x}) + (IF x \in T THEN 1 ELSE 0)
    <2>1. CASE x \in T
        <3>1. T = (S \ {x}) \cup {x}
            BY <1>3, <2>1
        <3> QED BY <1>1, <1>4, <2>1, <3>1, FS_AddElement
    <2>2. CASE x \notin T
        <3>1. T = S \ {x}
            BY <1>3, <2>2
        <3> QED BY <1>1, <2>2, <3>1
    <2> QED BY <2>1, <2>2
<1> QED BY <1>1, <1>2, <1>5

\* What a step of worker w adds to the copies and takes, a delivery pays.
Pays(w) ==
    /\ UNCHANGED <<pc, fellBack>>
    /\ \A x \in Workers \ {w} : work'[x] = work[x] /\ job'[x] = job[x]
    /\ \A u \in Uploads :
          /\ copies'[u] \in Nat /\ receives'[u] \in Nat
          /\ copies'[u] + (IF Takes(w, u)' THEN 1 ELSE 0) + receives[u]
                 <= copies[u] + (IF Takes(w, u) THEN 1 ELSE 0) + receives'[u]

\* A worker makes a copy only by giving up the one it may still make, and comes
\* to make one only by a delivery.
LEMMA WorkerPays ==
    ASSUME QueueInv, NEW w \in Workers, Poll(w) \/ Work(w) \/ Stop(w) \/ Start(w)
    PROVE  Pays(w)
<1> USE QueueAssumption
    DEF QueueInv, TypeOK, Counted, Working, Pays, Takes, requestVars, workerVars, Finished, Gone
<1>1. ASSUME NEW u \in Uploads, Receive(w, u)
      PROVE  Pays(w)
    BY <1>1 DEF Receive, Deliver, Step
<1>2. CASE Read(w)
    BY <1>2 DEF Read, Step
<1>3. CASE Ingest(w)
    BY <1>3 DEF Ingest, Step
<1>4. CASE AttemptFails(w)
    BY <1>4 DEF AttemptFails, Finish, Step
<1>5. CASE DeleteMessage(w) \/ DeleteMessageFails(w)
    BY <1>5 DEF DeleteMessage, DeleteMessageFails, Finish, Step
<1>6. CASE Stop(w)
    BY <1>6 DEF Stop
<1>7. CASE Open(w) \/ OpenFails(w) \/ Start(w)
    BY <1>7 DEF Open, OpenFails, Start, Step
<1> QED BY <1>1, <1>2, <1>3, <1>4, <1>5, <1>6, <1>7 DEF Poll, Work

\* So the steps of a worker keep the account.
LEMMA PaidByWorker ==
    ASSUME QueueInv, Paid, NEW w \in Workers, Poll(w) \/ Work(w) \/ Stop(w) \/ Start(w)
    PROVE  Paid'
<1> SUFFICES ASSUME NEW u \in Uploads
             PROVE  /\ IsFiniteSet(Busy(u)')
                    /\ pc'[u] \in {"new", "put", "insert", "send"} => u \notin fellBack'
                    /\ copies'[u] + Cardinality(Busy(u)') + Pending(u)'
                           <= receives'[u] + Own(u)'
    BY DEF Paid
<1>1. Pays(w)
    BY WorkerPays
<1>2. Busy(u) \ {w} = Busy(u)' \ {w}
    BY <1>1 DEF Pays, Busy, Takes
<1>3. /\ w \in Busy(u) <=> Takes(w, u)
      /\ w \in Busy(u)' <=> Takes(w, u)'
    BY DEF Busy
<1>4. /\ IsFiniteSet(Busy(u))
      /\ pc[u] \in {"new", "put", "insert", "send"} => u \notin fellBack
      /\ copies[u] + Cardinality(Busy(u)) + Pending(u) <= receives[u] + Own(u)
    BY DEF Paid
<1>5. /\ IsFiniteSet(Busy(u)')
      /\ Cardinality(Busy(u)) \in Nat /\ Cardinality(Busy(u)') \in Nat
      /\ Cardinality(Busy(u)') + (IF w \in Busy(u) THEN 1 ELSE 0)
             = Cardinality(Busy(u)) + (IF w \in Busy(u)' THEN 1 ELSE 0)
    BY <1>2, <1>4, OneApart
<1>6. /\ Pending(u)' = Pending(u) /\ Pending(u) \in {0, 1}
      /\ Own(u)' = Own(u) /\ Own(u) \in {0, 1}
    BY <1>1 DEF Pays, Pending, Own
<1>7. /\ copies[u] \in Nat /\ copies'[u] \in Nat /\ receives[u] \in Nat /\ receives'[u] \in Nat
      /\ copies'[u] + (IF w \in Busy(u)' THEN 1 ELSE 0) + receives[u]
             <= copies[u] + (IF w \in Busy(u) THEN 1 ELSE 0) + receives'[u]
    BY <1>1, <1>3 DEF Pays, QueueInv, TypeOK
<1>8. copies'[u] + Cardinality(Busy(u)') + Pending(u)' <= receives'[u] + Own(u)'
    BY <1>4, <1>5, <1>6, <1>7
<1> QED BY <1>1, <1>4, <1>5, <1>8 DEF Pays

\* What the request of u adds to the copies, its fallback pays.
LEMMA PaidByRequest ==
    ASSUME QueueInv, Paid, NEW u \in Uploads,
           Begin(u) \/ Request(u) \/ Abort(u) \/ VisibilityTimeout(u) \/ DeliveryLost(u)
    PROVE  Paid'
<1>1. \A v \in Uploads : Busy(v)' = Busy(v)
    BY RequestFramed DEF RequestFrame, Busy, Takes
<1>2. \A v \in Uploads : /\ IsFiniteSet(Busy(v)) /\ Cardinality(Busy(v)) \in Nat
    BY FS_CardinalityType DEF Paid
<1> SUFFICES ASSUME NEW v \in Uploads
             PROVE  /\ pc'[v] \in {"new", "put", "insert", "send"} => v \notin fellBack'
                    /\ copies'[v] + Cardinality(Busy(v)) + Pending(v)' <= receives'[v] + Own(v)'
    BY <1>1, <1>2 DEF Paid
<1>3. PICK n \in Nat : n = Cardinality(Busy(v))
    BY <1>2
<1>4. /\ pc[v] \in {"new", "put", "insert", "send"} => v \notin fellBack
      /\ copies[v] + n + Pending(v) <= receives[v] + Own(v)
      /\ copies[v] \in Nat /\ receives[v] \in Nat
    BY <1>3 DEF Paid, QueueInv, TypeOK
<1>5. /\ pc'[v] \in {"new", "put", "insert", "send"} => v \notin fellBack'
      /\ copies'[v] + n + Pending(v)' <= receives'[v] + Own(v)'
    <2> USE <1>4 DEF QueueInv, TypeOK, Pending, Own, requestVars, workerVars, Finished
    <2>1. CASE Begin(u) \/ Store(u)
        BY <2>1 DEF Begin, Store, PutObject, PutObjectFails, InsertRow, InsertRowFails, Goto
    <2>2. CASE Queue(u)
        BY <2>2 DEF Queue, Send, SqsDisabled, SendFails, FallBack, Goto
    <2>3. CASE IngestHere(u) \/ IngestHereFails(u)
        BY <2>3 DEF IngestHere, IngestHereFails, Goto
    <2>4. CASE Abort(u)
        BY <2>4 DEF Abort
    <2>5. CASE VisibilityTimeout(u) \/ DeliveryLost(u)
        BY <2>5 DEF VisibilityTimeout, DeliveryLost, Deliver
    <2> QED BY <2>1, <2>2, <2>3, <2>4, <2>5 DEF Request
<1> QED BY <1>3, <1>5

\* The account holds in every reachable state.
LEMMA PaidInvariant == Spec => []PaidInv
<1>1. Init => PaidInv
    <2> SUFFICES ASSUME Init PROVE Paid
        BY QueueInvInit DEF PaidInv
    <2>1. \A u \in Uploads : Busy(u) = {}
        BY DEF Init, Busy, Takes
    <2> QED BY <2>1, FS_EmptySet DEF Init, Paid, Pending, Own
<1>2. PaidInv /\ [Next]_vars => PaidInv'
    <2> SUFFICES ASSUME PaidInv, [Next]_vars PROVE Paid'
        BY QueueTypeStep, RequestStep, WorkerStep, AnsweredStep DEF PaidInv, QueueInv
    <2>1. CASE Quiescent \/ UNCHANGED vars
        BY <2>1 DEF PaidInv, Paid, Busy, Takes, Pending, Own, Quiescent, vars, requestVars,
            workerVars
    <2> QED BY <2>1, PaidByWorker, PaidByRequest DEF PaidInv, Next
<1> QED BY <1>1, <1>2, PTL DEF Spec

\* _process_message and the fallback of async_ingest_*: however often deliveries
\* fail, time out or outlive their worker, an upload has no more copies than it
\* had deliveries, and one of the request.
THEOREM CopiesAlwaysPaidFor == Spec => []CopiesArePaidFor
<1>1. PaidInv => CopiesArePaidFor
    <2> SUFFICES ASSUME PaidInv, NEW u \in Uploads
                 PROVE  copies[u] + Cardinality(Busy(u)) <= receives[u] + Own(u)
        BY DEF CopiesArePaidFor, Busy, Takes, Own
    <2>1. /\ copies[u] + Cardinality(Busy(u)) + Pending(u) <= receives[u] + Own(u)
          /\ IsFiniteSet(Busy(u)) /\ copies[u] \in Nat /\ receives[u] \in Nat
        BY DEF PaidInv, Paid, QueueInv, TypeOK
    <2> QED BY <2>1, FS_CardinalityType DEF Pending, Own
<1> QED BY <1>1, PaidInvariant, PTL

\* The number of copies that the redelivery can make.
THEOREM CopiesAreBounded == Spec => [](\A u \in Uploads : copies[u] <= MaxReceive + 1)
<1>1. PaidInv => \A u \in Uploads : copies[u] <= MaxReceive + 1
    <2> SUFFICES ASSUME PaidInv, NEW u \in Uploads
                 PROVE  copies[u] <= MaxReceive + 1
        OBVIOUS
    <2>1. /\ copies[u] + Cardinality(Busy(u)) + Pending(u) <= receives[u] + Own(u)
          /\ IsFiniteSet(Busy(u)) /\ copies[u] \in Nat /\ receives[u] \in 0 .. MaxReceive
        BY DEF PaidInv, Paid, QueueInv, TypeOK
    <2> QED BY <2>1, FS_CardinalityType, QueueAssumption DEF Pending, Own
<1> QED BY <1>1, PaidInvariant, PTL
=============================================================================
