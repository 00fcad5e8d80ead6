------------------------ MODULE IngestPipelineProofs ------------------------
(***************************************************************************)
(* Theorems about IngestPipeline, for every set of files and requests and  *)
(* every size of the queues, the pool and the flush threshold.             *)
(***************************************************************************)
EXTENDS IngestPipeline, FiniteSetTheorems, TLAPS

-----------------------------------------------------------------------------
(* Queues: what put and get do to the contents of a queue.                 *)

\* put: the new command is last and the others keep their place.
LEMMA PutContents ==
    ASSUME NEW S, NEW q \in Seq(S), NEW e \in S
    PROVE  /\ Append(q, e) \in Seq(S)
           /\ Len(Append(q, e)) = Len(q) + 1
           /\ \A i \in 1 .. Len(q) : Append(q, e)[i] = q[i]
           /\ Append(q, e)[Len(q) + 1] = e
OBVIOUS

\* get: the first command leaves and the others move up.
LEMMA GetContents ==
    ASSUME NEW S, NEW q \in Seq(S), q # <<>>
    PROVE  /\ Len(q) \in Nat \ {0}
           /\ Head(q) = q[1]
           /\ Head(q) \in S
           /\ Tail(q) \in Seq(S)
           /\ Len(Tail(q)) = Len(q) - 1
           /\ \A i \in 1 .. Len(Tail(q)) : Tail(q)[i] = q[i + 1]
OBVIOUS

\* After a put the queue holds what it held and the new command.
LEMMA PutQueued ==
    ASSUME NEW S, NEW q \in Seq(S), NEW e \in S, NEW c
    PROVE  Queued(Append(q, e), c) <=> (Queued(q, c) \/ c = e)
BY PutContents DEF Queued

\* A get leaves nothing in the queue that was not there.
LEMMA GetQueued ==
    ASSUME NEW S, NEW q \in Seq(S), q # <<>>, NEW c
    PROVE  /\ Queued(q, Head(q))
           /\ Queued(Tail(q), c) => Queued(q, c)
           /\ Queued(q, c) => (Queued(Tail(q), c) \/ c = Head(q))
<1>1. Queued(q, Head(q))
    BY GetContents DEF Queued
<1>2. Queued(Tail(q), c) => Queued(q, c)
    <2> SUFFICES ASSUME NEW i \in 1 .. Len(Tail(q)), Tail(q)[i] = c
                 PROVE  Queued(q, c)
        BY DEF Queued
    <2>1. i + 1 \in 1 .. Len(q) /\ q[i + 1] = c
        BY GetContents
    <2> QED BY <2>1 DEF Queued
<1>3. Queued(q, c) => (Queued(Tail(q), c) \/ c = Head(q))
    <2> SUFFICES ASSUME NEW i \in 1 .. Len(q), q[i] = c, i # 1
                 PROVE  Queued(Tail(q), c)
        BY GetContents DEF Queued
    <2>1. i - 1 \in 1 .. Len(Tail(q)) /\ Tail(q)[i - 1] = c
        BY GetContents
    <2> QED BY <2>1 DEF Queued
<1> QED BY <1>1, <1>2, <1>3

-----------------------------------------------------------------------------
(* Types.                                                                  *)

\* A count that a pending task contributes to is not zero.
LEMMA PendingTasks ==
    ASSUME TypeOK, Counts
    PROVE  /\ Cardinality(Working) \in Nat
           /\ IsFiniteSet(Holding) /\ Cardinality(Holding) \in Nat
           /\ Working # {} => Cardinality(Working) > 0
           /\ Holding # {} => Cardinality(Holding) > 0
           /\ doc_cmd # None => doc_unfinished > 0
           /\ Working # {} => doc_unfinished > 0
           /\ writer # "get" => node_unfinished > 0
           /\ Holding # {} => doc_semaphore < CountWorkers
           /\ doc_unfinished = 0 => doc_q = <<>> /\ doc_cmd = None /\ Working = {}
           /\ node_unfinished = 0 => node_q = <<>> /\ writer = "get"
<1>1. Cardinality(Working) \in Nat /\ (Cardinality(Working) = 0 <=> Working = {})
    BY FS_CardinalityType, FS_EmptySet DEF Counts
<1>2. Holding \subseteq Working
    BY DEF Holding, Working
<1>3. IsFiniteSet(Holding)
    BY <1>2, FS_Subset DEF Counts
<1>4. Cardinality(Holding) \in Nat /\ (Cardinality(Holding) = 0 <=> Holding = {})
    BY <1>3, FS_CardinalityType, FS_EmptySet
<1>5. Len(doc_q) \in Nat /\ Len(node_q) \in Nat
    BY DEF TypeOK
<1>6. (Len(doc_q) = 0 => doc_q = <<>>) /\ (Len(node_q) = 0 => node_q = <<>>)
    BY DEF TypeOK
<1>7. doc_unfinished \in Nat /\ node_unfinished \in Nat /\ doc_semaphore \in Nat
    BY SizesAssumption DEF TypeOK
<1>8. doc_unfinished = Len(doc_q) + Cardinality(Working)
                          + (IF doc_cmd = None THEN 0 ELSE 1)
    BY DEF Counts, TasksAccounted
<1>9. node_unfinished = Len(node_q) + (IF writer = "get" THEN 0 ELSE 1)
    BY DEF Counts, TasksAccounted
<1>10. doc_semaphore + Cardinality(Holding) = CountWorkers
    BY DEF Counts, PermitsAccounted
<1>11. /\ doc_cmd # None => doc_unfinished > 0
       /\ Working # {} => doc_unfinished > 0
       /\ doc_unfinished = 0 => doc_q = <<>> /\ doc_cmd = None /\ Working = {}
    BY <1>1, <1>5, <1>6, <1>8
<1>12. /\ writer # "get" => node_unfinished > 0
       /\ node_unfinished = 0 => node_q = <<>> /\ writer = "get"
    BY <1>5, <1>6, <1>9
<1>13. Holding # {} => doc_semaphore < CountWorkers
    BY <1>4, <1>7, <1>10, SizesAssumption
<1> QED
    BY <1>1, <1>3, <1>4, <1>11, <1>12, <1>13

\* Every step keeps the types of the variables; that a counter stays a natural
\* number (task_done never raises) rests on the accounting.
LEMMA TypeStep == TypeOK /\ Counts /\ [Next]_vars => TypeOK'
<1> SUFFICES ASSUME TypeOK, Counts, [Next]_vars PROVE TypeOK'
    OBVIOUS
<1> USE FilesAssumption, SizesAssumption, NamesAssumption
    DEF TypeOK, requestVars, docVars, workVars, nodeVars, writerVars, storeVars, deleteVars
<1>1. ASSUME NEW r \in Requests, NEW f \in Files, SubmitFile(r, f) PROVE TypeOK'
    BY <1>1 DEF SubmitFile, PutDoc, Command
<1>2. ASSUME NEW r \in Requests, NEW f \in Files, TransformFails(r, f) PROVE TypeOK'
    BY <1>2 DEF TransformFails
<1>3. ASSUME NEW r \in Requests, FlushDocs(r) PROVE TypeOK'
    BY <1>3 DEF FlushDocs, PutDoc, Command
<1>4. ASSUME NEW r \in Requests, JoinDocs(r) PROVE TypeOK'
    BY <1>4 DEF JoinDocs
<1>5. ASSUME NEW r \in Requests, FlushNodes(r) PROVE TypeOK'
    BY <1>5 DEF FlushNodes, PutNode, Command
<1>6. ASSUME NEW r \in Requests, JoinNodes(r) PROVE TypeOK'
    BY <1>6 DEF JoinNodes
<1>7. ASSUME GetDoc PROVE TypeOK'
    BY <1>7 DEF GetDoc
<1>8. ASSUME StartJob PROVE TypeOK'
    BY <1>8 DEF StartJob
<1>9. ASSUME FlushDone PROVE TypeOK'
    <2>1. doc_unfinished > 0
        BY <1>9, PendingTasks DEF FlushDone
    <2> QED
        BY <1>9, <2>1 DEF FlushDone
<1>10. ASSUME NEW f \in Files, Embed(f) PROVE TypeOK'
    BY <1>10 DEF Embed
<1>11. ASSUME NEW f \in Files, EmbedFails(f) PROVE TypeOK'
    BY <1>11 DEF EmbedFails
<1>12. ASSUME NEW f \in Files, PutNodes(f) PROVE TypeOK'
    BY <1>12 DEF PutNodes, PutNode, Command
<1>13. ASSUME NEW f \in Files, Release(f) PROVE TypeOK'
    <2>1. doc_semaphore < CountWorkers
        BY <1>13, PendingTasks DEF Release, Holding
    <2> QED
        BY <1>13, <2>1 DEF Release
<1>14. ASSUME NEW f \in Files, JobDone(f) PROVE TypeOK'
    <2>1. doc_unfinished > 0
        BY <1>14, PendingTasks DEF JobDone, Working
    <2> QED
        BY <1>14, <2>1 DEF JobDone
<1>15. ASSUME GetFlush PROVE TypeOK'
    BY <1>15 DEF GetFlush, Saving
<1>16. ASSUME GetNodes PROVE TypeOK'
    BY <1>16 DEF GetNodes, Saving, Command
<1>17. ASSUME Insert PROVE TypeOK'
    BY <1>17 DEF Insert, Saving
<1>18. ASSUME Snapshot PROVE TypeOK'
    BY <1>18 DEF Snapshot, Open, Opened, Saving, Persisters, Writer
<1>19. ASSUME Write PROVE TypeOK'
    BY <1>19 DEF Write, WriteOut, PersistEnds, Saving, Persisters, Writer
<1>20. ASSUME SaveFails PROVE TypeOK'
    <2>1. index' \subseteq Files /\ disk' \subseteq Files
        BY <1>20 DEF SaveFails, InsertFails, PersistFails
    <2>2. /\ torn' \in BOOLEAN /\ overlapped' \subseteq Persisters
          /\ snapshot' \in [Persisters -> SUBSET Files]
        BY <1>20 DEF SaveFails, InsertFails, PersistFails, PersistEnds, Persisters, Writer
    <2> QED BY <1>20, <2>1, <2>2 DEF SaveFails, Saving
<1>21. ASSUME Clear PROVE TypeOK'
    BY <1>21 DEF Clear, Saving
<1>22. ASSUME NodeDone PROVE TypeOK'
    <2>1. node_unfinished > 0
        BY <1>22, PendingTasks DEF NodeDone
    <2> QED
        BY <1>22, <2>1 DEF NodeDone, Saving
<1>23. ASSUME NEW d \in Deleters, RequestDelete(d) PROVE TypeOK'
    BY <1>23 DEF RequestDelete
<1>24. ASSUME NEW d \in Deleters, AcquireLock(d) PROVE TypeOK'
    BY <1>24 DEF AcquireLock
<1>25. ASSUME NEW d \in Deleters, DeleteRefDoc(d) PROVE TypeOK'
    BY <1>25 DEF DeleteRefDoc
<1>26. ASSUME NEW d \in Deleters, DeleteSnapshot(d) PROVE TypeOK'
    BY <1>26 DEF DeleteSnapshot, Open, Opened, Persisters, Writer
<1>27. ASSUME NEW d \in Deleters, DeleteWrite(d) PROVE TypeOK'
    BY <1>27 DEF DeleteWrite, WriteOut, PersistEnds, Persisters
<1>28. ASSUME NEW d \in Deleters, DeleteFails(d) PROVE TypeOK'
    <2>1. index' \subseteq Files /\ disk' \subseteq Files
        BY <1>28 DEF DeleteFails, DeleteRefDocFails, PersistFails
    <2>2. /\ torn' \in BOOLEAN /\ overlapped' \subseteq Persisters
          /\ snapshot' \in [Persisters -> SUBSET Files]
        BY <1>28 DEF DeleteFails, DeleteRefDocFails, PersistFails, PersistEnds, Persisters
    <2> QED BY <1>28, <2>1, <2>2 DEF DeleteFails
<1>29. CASE UNCHANGED vars
    BY <1>29 DEF vars
<1> QED
    BY <1>1, <1>2, <1>3, <1>4, <1>5, <1>6, <1>7, <1>8, <1>9, <1>10, <1>11, <1>12, <1>13,
       <1>14, <1>15, <1>16, <1>17, <1>18, <1>19, <1>20, <1>21, <1>22, <1>23, <1>24, <1>25,
       <1>26, <1>27, <1>28, <1>29
    DEF Next, Request, DocToNode, Worker, WriteNodes, Delete, Quiescent

-----------------------------------------------------------------------------
(* Each file is submitted once and waits at one place.                     *)

\* The steps that touch what is upstream of node_q.
LEMMA DocSide ==
    ASSUME [Next]_vars
    PROVE  \/ \E r \in Requests, f \in Files : SubmitFile(r, f)
           \/ \E r \in Requests, f \in Files : TransformFails(r, f)
           \/ \E r \in Requests : FlushDocs(r)
           \/ GetDoc
           \/ StartJob
           \/ FlushDone
           \/ \E f \in Files : Embed(f) \/ EmbedFails(f) \/ PutNodes(f) \/ Release(f)
           \/ \E f \in Files : JobDone(f)
           \/ UNCHANGED <<todo, docVars, doc_semaphore, job>>
<1> USE DEF requestVars, docVars, workVars, nodeVars, writerVars, storeVars, deleteVars
<1>1. \A r \in Requests : JoinDocs(r) \/ FlushNodes(r) \/ JoinNodes(r)
          => UNCHANGED <<todo, docVars, doc_semaphore, job>>
    BY DEF JoinDocs, FlushNodes, JoinNodes
<1>2. WriteNodes => UNCHANGED <<todo, docVars, doc_semaphore, job>>
    BY DEF WriteNodes, GetFlush, GetNodes, Insert, Snapshot, Write, SaveFails,
           Clear, NodeDone
<1>3. \A d \in Deleters : RequestDelete(d) \/ Delete(d)
          => UNCHANGED <<todo, docVars, doc_semaphore, job>>
    BY DEF RequestDelete, Delete, AcquireLock, DeleteRefDoc, DeleteSnapshot,
           DeleteWrite, DeleteFails
<1>4. Quiescent \/ UNCHANGED vars => UNCHANGED <<todo, docVars, doc_semaphore, job>>
    BY DEF Quiescent, vars
<1> QED
    BY <1>1, <1>2, <1>3, <1>4 DEF Next, Request, DocToNode, Worker

\* A file moves from one place to the next; no step leaves it behind or makes
\* another of it.
LEMMA OnceStep == TypeOK /\ OnceEach /\ [Next]_vars => OnceEach'
<1> SUFFICES ASSUME TypeOK, OnceEach, [Next]_vars PROVE OnceEach'
    OBVIOUS
<1> USE FilesAssumption, NamesAssumption
<1>q. doc_q \in Seq(Command) /\ job \in [Files -> {"none", "embed", "put", "release", "task_done"}]
      /\ todo \in [Requests -> SUBSET Files]
    BY DEF TypeOK
<1>1. ASSUME NEW r \in Requests, NEW f \in Files, SubmitFile(r, f) PROVE OnceEach'
    <2>1. /\ f \in todo[r] /\ todo' = [todo EXCEPT ![r] = @ \ {f}]
          /\ doc_q' = Append(doc_q, f) /\ UNCHANGED <<doc_cmd, job>>
        BY <1>1 DEF SubmitFile, PutDoc, workVars
    <2>2. ~Waiting(f)
        BY <2>1 DEF OnceEach
    <2>3. \A c : Queued(doc_q, c)' <=> Queued(doc_q, c) \/ c = f
        BY <1>q, <2>1, PutQueued DEF Command
    <2>4. \A s \in Requests : todo'[s] \subseteq todo[s] /\ f \notin todo'[s]
        BY <1>q, <2>1 DEF OnceEach
    <2>5. \A s \in Requests : todo'[s] \subseteq FilesOf[s]
        BY <2>4 DEF OnceEach
    <2>6. \A s \in Requests : \A g \in todo'[s] : ~Waiting(g)'
        BY <2>1, <2>3, <2>4 DEF OnceEach, Waiting
    <2>7. \A g \in Files : doc_cmd' = g \/ job'[g] # "none" => ~Queued(doc_q, g)'
        BY <2>1, <2>2, <2>3 DEF OnceEach, Waiting
    <2>8. doc_cmd' \in Files => job'[doc_cmd'] = "none"
        BY <2>1 DEF OnceEach
    <2>9. ASSUME NEW i \in 1 .. Len(doc_q'), NEW j \in 1 .. Len(doc_q'),
                 doc_q'[i] = doc_q'[j], i # j
          PROVE  doc_q'[i] = Flush
        <3>1. /\ Len(doc_q') = Len(doc_q) + 1 /\ Len(doc_q) \in Nat
              /\ \A k \in 1 .. Len(doc_q) : doc_q'[k] = doc_q[k] /\ doc_q[k] # f
              /\ doc_q'[Len(doc_q) + 1] = f
            BY <1>q, <2>1, <2>2, PutContents DEF Command, Waiting, Queued
        <3>2. i \in 1 .. Len(doc_q) /\ j \in 1 .. Len(doc_q)
            BY <2>9, <3>1
        <3> QED BY <2>9, <3>1, <3>2 DEF OnceEach
    <2> QED BY <2>5, <2>6, <2>7, <2>8, <2>9 DEF OnceEach
<1>2. ASSUME NEW r \in Requests, NEW f \in Files, TransformFails(r, f) PROVE OnceEach'
    <2>1. /\ todo' = [todo EXCEPT ![r] = @ \ {f}]
          /\ UNCHANGED <<doc_q, doc_cmd, job>>
        BY <1>2 DEF TransformFails, docVars, workVars
    <2>2. \A s \in Requests : todo'[s] \subseteq todo[s]
        BY <1>q, <2>1
    <2> QED BY <2>1, <2>2 DEF OnceEach, Waiting, Queued
<1>3. ASSUME NEW r \in Requests, FlushDocs(r) PROVE OnceEach'
    <2>1. doc_q' = Append(doc_q, Flush) /\ UNCHANGED <<todo, doc_cmd, job>>
        BY <1>3 DEF FlushDocs, PutDoc, workVars
    <2>2. \A c : Queued(doc_q, c)' <=> Queued(doc_q, c) \/ c = Flush
        BY <1>q, <2>1, PutQueued DEF Command
    <2>3. \A s \in Requests : todo'[s] \subseteq Files
        BY <1>q, <2>1
    <2>4. \A s \in Requests : \A g \in todo'[s] : ~Waiting(g)'
        BY <2>1, <2>2, <2>3 DEF OnceEach, Waiting
    <2>5. \A g \in Files : doc_cmd' = g \/ job'[g] # "none" => ~Queued(doc_q, g)'
        BY <2>1, <2>2 DEF OnceEach
    <2>6. ASSUME NEW i \in 1 .. Len(doc_q'), NEW j \in 1 .. Len(doc_q'),
                 doc_q'[i] = doc_q'[j], i # j
          PROVE  doc_q'[i] = Flush
        <3>1. /\ Len(doc_q') = Len(doc_q) + 1 /\ Len(doc_q) \in Nat
              /\ \A k \in 1 .. Len(doc_q) : doc_q'[k] = doc_q[k]
              /\ doc_q'[Len(doc_q) + 1] = Flush
            BY <1>q, <2>1, PutContents DEF Command
        <3>2. CASE i \in 1 .. Len(doc_q) /\ j \in 1 .. Len(doc_q)
            BY <2>6, <3>1, <3>2 DEF OnceEach
        <3>3. CASE i = Len(doc_q) + 1 \/ j = Len(doc_q) + 1
            BY <2>6, <3>1, <3>3
        <3> QED BY <3>1, <3>2, <3>3
    <2> QED BY <2>1, <2>4, <2>5, <2>6 DEF OnceEach
<1>4. CASE GetDoc
    <2>1. /\ doc_q # <<>> /\ doc_cmd' = Head(doc_q) /\ doc_q' = Tail(doc_q)
          /\ doc_cmd = None /\ UNCHANGED <<todo, job>>
        BY <1>4 DEF GetDoc, requestVars, workVars
    <2>2. \A c : /\ Queued(doc_q, c)' => Queued(doc_q, c)
                 /\ Queued(doc_q, doc_cmd')
        BY <1>q, <2>1, GetQueued
    <2>3. /\ Len(doc_q) \in Nat \ {0} /\ doc_cmd' = doc_q[1]
          /\ Len(doc_q') = Len(doc_q) - 1
          /\ \A k \in 1 .. Len(doc_q') : doc_q'[k] = doc_q[k + 1]
        BY <1>q, <2>1, GetContents
    <2>4. doc_cmd' \in Files => ~Queued(doc_q, doc_cmd)'
        <3> SUFFICES ASSUME doc_cmd' \in Files,
                            NEW i \in 1 .. Len(doc_q'), doc_q'[i] = doc_cmd'
                     PROVE  FALSE
            BY DEF Queued
        <3>1. /\ 1 \in 1 .. Len(doc_q) /\ i + 1 \in 1 .. Len(doc_q) /\ i + 1 # 1
              /\ doc_q[i + 1] = doc_q[1] /\ doc_q[1] # Flush
            BY <2>3
        <3> QED BY <3>1 DEF OnceEach
    <2>5. \A s \in Requests : \A g \in todo'[s] : ~Waiting(g)'
        BY <2>1, <2>2 DEF OnceEach, Waiting
    <2>6. \A g \in Files : doc_cmd' = g \/ job'[g] # "none" => ~Queued(doc_q, g)'
        BY <2>1, <2>2, <2>4 DEF OnceEach
    <2>7. doc_cmd' \in Files => job'[doc_cmd'] = "none"
        BY <2>1, <2>2 DEF OnceEach
    <2>8. ASSUME NEW i \in 1 .. Len(doc_q'), NEW j \in 1 .. Len(doc_q'),
                 doc_q'[i] = doc_q'[j], i # j
          PROVE  doc_q'[i] = Flush
        <3>1. /\ i + 1 \in 1 .. Len(doc_q) /\ j + 1 \in 1 .. Len(doc_q) /\ i + 1 # j + 1
              /\ doc_q[i + 1] = doc_q[j + 1]
            BY <2>3, <2>8
        <3> QED BY <2>3, <3>1 DEF OnceEach
    <2> QED BY <2>1, <2>5, <2>6, <2>7, <2>8 DEF OnceEach
<1>5. CASE StartJob
    <2>1. /\ doc_cmd \in Files /\ doc_cmd' = None /\ UNCHANGED <<todo, doc_q>>
          /\ \A g \in Files : job'[g] # "none" <=> (job[g] # "none" \/ g = doc_cmd)
        BY <1>5, <1>q DEF StartJob, requestVars
    <2>2. \A s \in Requests : \A g \in todo'[s] : ~Waiting(g)'
        BY <1>q, <2>1 DEF OnceEach, Waiting
    <2> QED BY <2>1, <2>2 DEF OnceEach, Queued
<1>6. CASE FlushDone
    <2>1. doc_cmd' = None /\ UNCHANGED <<todo, doc_q, job>>
        BY <1>6 DEF FlushDone, requestVars, workVars
    <2>2. \A s \in Requests : todo[s] \subseteq Files
        BY <1>q
    <2> QED BY <2>1, <2>2 DEF OnceEach, Waiting, Queued
<1>7. ASSUME NEW f \in Files, Embed(f) \/ EmbedFails(f) \/ PutNodes(f) \/ Release(f)
      PROVE  OnceEach'
    <2>1. /\ UNCHANGED <<todo, doc_q, doc_cmd>>
          /\ \A g \in Files : job'[g] # "none" <=> job[g] # "none"
        BY <1>7, <1>q DEF Embed, EmbedFails, PutNodes, Release, requestVars, docVars
    <2>2. \A s \in Requests : todo[s] \subseteq Files
        BY <1>q
    <2> QED BY <2>1, <2>2 DEF OnceEach, Waiting, Queued
<1>8. ASSUME NEW f \in Files, JobDone(f) PROVE OnceEach'
    <2>1. /\ UNCHANGED <<todo, doc_q, doc_cmd>>
          /\ \A g \in Files : job'[g] # "none" => job[g] # "none"
        BY <1>8, <1>q DEF JobDone, requestVars
    <2>2. \A s \in Requests : todo[s] \subseteq Files
        BY <1>q
    <2> QED BY <2>1, <2>2 DEF OnceEach, Waiting, Queued
<1>9. CASE UNCHANGED <<todo, docVars, doc_semaphore, job>>
    BY <1>9 DEF OnceEach, Waiting, Queued, docVars
<1> QED
    BY <1>1, <1>2, <1>3, <1>4, <1>5, <1>6, <1>7, <1>8, <1>9, DocSide

-----------------------------------------------------------------------------
(* Every command that was put is counted until it is dealt with.           *)

\* The steps that touch node_q and the writer.
LEMMA NodeSide ==
    ASSUME [Next]_vars
    PROVE  \/ \E r \in Requests : FlushNodes(r)
           \/ \E f \in Files : PutNodes(f)
           \/ GetFlush
           \/ GetNodes
           \/ Insert \/ Snapshot \/ Write \/ SaveFails
           \/ Clear
           \/ NodeDone
           \/ UNCHANGED <<nodeVars, writerVars>>
<1> USE DEF requestVars, docVars, workVars, nodeVars, writerVars, storeVars, deleteVars
<1>1. \A r \in Requests : (\E f \in Files : SubmitFile(r, f) \/ TransformFails(r, f))
                              \/ FlushDocs(r) \/ JoinDocs(r) \/ JoinNodes(r)
          => UNCHANGED <<nodeVars, writerVars>>
    BY DEF SubmitFile, TransformFails, FlushDocs, JoinDocs, JoinNodes
<1>2. DocToNode => UNCHANGED <<nodeVars, writerVars>>
    BY DEF DocToNode, GetDoc, StartJob, FlushDone
<1>3. \A f \in Files : Embed(f) \/ EmbedFails(f) \/ Release(f) \/ JobDone(f)
          => UNCHANGED <<nodeVars, writerVars>>
    BY DEF Embed, EmbedFails, Release, JobDone
<1>4. \A d \in Deleters : RequestDelete(d) \/ Delete(d) => UNCHANGED <<nodeVars, writerVars>>
    BY DEF RequestDelete, Delete, AcquireLock, DeleteRefDoc, DeleteSnapshot,
           DeleteWrite, DeleteFails
<1>5. Quiescent \/ UNCHANGED vars => UNCHANGED <<nodeVars, writerVars>>
    BY DEF Quiescent, vars
<1> QED
    BY <1>1, <1>2, <1>3, <1>4, <1>5 DEF Next, Request, Worker, WriteNodes

\* The accounting of doc_q and of the semaphore, without the queue of nodes.
LEMMA DocCountStep ==
    ASSUME TypeOK, OnceEach, Counts, [Next]_vars
    PROVE  /\ IsFiniteSet(Working)'
           /\ PermitsAccounted'
           /\ (doc_unfinished = Len(doc_q) + Cardinality(Working)
                                + (IF doc_cmd = None THEN 0 ELSE 1))'
<1> DEFINE Doc == doc_unfinished = Len(doc_q) + Cardinality(Working)
                                   + (IF doc_cmd = None THEN 0 ELSE 1)
           Goal == IsFiniteSet(Working)' /\ PermitsAccounted' /\ Doc'
<1> USE NamesAssumption, SizesAssumption
<1>q. /\ doc_q \in Seq(Command) /\ doc_unfinished \in Nat /\ doc_cmd \in Command \cup {None}
      /\ job \in [Files -> {"none", "embed", "put", "release", "task_done"}]
      /\ doc_semaphore \in 0 .. CountWorkers
      /\ todo \in [Requests -> SUBSET Files]
      /\ Len(doc_q) \in Nat
    BY DEF TypeOK
<1>c. /\ IsFiniteSet(Working) /\ IsFiniteSet(Holding)
      /\ Cardinality(Working) \in Nat /\ Cardinality(Holding) \in Nat
      /\ Doc /\ doc_semaphore + Cardinality(Holding) = CountWorkers
    BY PendingTasks DEF Counts, TasksAccounted, PermitsAccounted
<1>1. ASSUME NEW r \in Requests, NEW f \in Files, SubmitFile(r, f) PROVE Goal
    <2>1. /\ doc_q' = Append(doc_q, f) /\ doc_unfinished' = doc_unfinished + 1
          /\ UNCHANGED <<doc_cmd, doc_semaphore, job>>
        BY <1>1 DEF SubmitFile, PutDoc, workVars
    <2>2. Len(doc_q') = Len(doc_q) + 1
        BY <1>q, <2>1, PutContents DEF Command
    <2>3. Working' = Working /\ Holding' = Holding
        BY <2>1 DEF Working, Holding
    <2> QED BY <1>c, <1>q, <2>1, <2>2, <2>3 DEF PermitsAccounted
<1>2. ASSUME NEW r \in Requests, FlushDocs(r) PROVE Goal
    <2>1. /\ doc_q' = Append(doc_q, Flush) /\ doc_unfinished' = doc_unfinished + 1
          /\ UNCHANGED <<doc_cmd, doc_semaphore, job>>
        BY <1>2 DEF FlushDocs, PutDoc, workVars
    <2>2. Len(doc_q') = Len(doc_q) + 1
        BY <1>q, <2>1, PutContents DEF Command
    <2>3. Working' = Working /\ Holding' = Holding
        BY <2>1 DEF Working, Holding
    <2> QED BY <1>c, <1>q, <2>1, <2>2, <2>3 DEF PermitsAccounted
<1>3. ASSUME GetDoc PROVE Goal
    <2>1. /\ doc_q # <<>> /\ doc_cmd = None /\ doc_cmd' = Head(doc_q)
          /\ doc_q' = Tail(doc_q) /\ UNCHANGED <<doc_unfinished, doc_semaphore, job>>
        BY <1>3 DEF GetDoc, workVars
    <2>2. Len(doc_q') = Len(doc_q) - 1 /\ doc_cmd' \in Command
        BY <1>q, <2>1, GetContents
    <2>3. doc_cmd' # None
        BY <2>2 DEF Command
    <2>4. Working' = Working /\ Holding' = Holding
        BY <2>1 DEF Working, Holding
    <2> QED BY <1>c, <1>q, <2>1, <2>2, <2>3, <2>4 DEF PermitsAccounted
<1>4. ASSUME StartJob PROVE Goal
    <2>1. /\ doc_cmd \in Files /\ job[doc_cmd] = "none" /\ doc_semaphore > 0
          /\ job' = [job EXCEPT ![doc_cmd] = "embed"]
          /\ doc_semaphore' = doc_semaphore - 1 /\ doc_cmd' = None
          /\ UNCHANGED <<doc_q, doc_unfinished>>
        BY <1>4 DEF StartJob, OnceEach
    <2>2. /\ Working' = Working \cup {doc_cmd} /\ doc_cmd \notin Working
          /\ Holding' = Holding \cup {doc_cmd} /\ doc_cmd \notin Holding
        BY <1>q, <2>1 DEF Working, Holding
    <2>3. /\ IsFiniteSet(Working') /\ Cardinality(Working') = Cardinality(Working) + 1
          /\ Cardinality(Holding') = Cardinality(Holding) + 1
        BY <1>c, <2>2, FS_AddElement
    <2>4. doc_cmd # None
        BY <2>1
    <2>5. PermitsAccounted'
        BY <1>c, <1>q, <2>1, <2>3 DEF PermitsAccounted
    <2>6. Doc'
        BY <1>c, <1>q, <2>1, <2>3, <2>4
    <2> QED BY <2>3, <2>5, <2>6
<1>5. ASSUME FlushDone PROVE Goal
    <2>1. /\ doc_cmd # None /\ doc_cmd' = None /\ doc_unfinished' = doc_unfinished - 1
          /\ UNCHANGED <<doc_q, doc_semaphore, job>>
        BY <1>5 DEF FlushDone, workVars
    <2>2. Working' = Working /\ Holding' = Holding
        BY <2>1 DEF Working, Holding
    <2> QED BY <1>c, <1>q, <2>1, <2>2 DEF PermitsAccounted
<1>6. ASSUME NEW f \in Files, Embed(f) \/ EmbedFails(f) \/ PutNodes(f) PROVE Goal
    <2>1. /\ UNCHANGED <<doc_q, doc_cmd, doc_unfinished, doc_semaphore>>
          /\ job[f] \in {"embed", "put"} /\ job'[f] \in {"put", "release"}
          /\ \A g \in Files : g # f => job'[g] = job[g]
        BY <1>6, <1>q DEF Embed, EmbedFails, PutNodes, docVars
    <2>2. Working' = Working /\ Holding' = Holding
        BY <2>1 DEF Working, Holding
    <2> QED BY <1>c, <1>q, <2>1, <2>2 DEF PermitsAccounted
<1>7. ASSUME NEW f \in Files, Release(f) PROVE Goal
    <2>1. /\ UNCHANGED <<doc_q, doc_cmd, doc_unfinished>>
          /\ doc_semaphore' = doc_semaphore + 1
          /\ job[f] = "release" /\ job' = [job EXCEPT ![f] = "task_done"]
        BY <1>7 DEF Release, docVars
    <2>2. Working' = Working /\ Holding' = Holding \ {f} /\ f \in Holding
        BY <1>q, <2>1 DEF Working, Holding
    <2>3. Cardinality(Holding') = Cardinality(Holding) - 1
        BY <1>c, <2>2, FS_RemoveElement
    <2> QED BY <1>c, <1>q, <2>1, <2>2, <2>3 DEF PermitsAccounted
<1>8. ASSUME NEW f \in Files, JobDone(f) PROVE Goal
    <2>1. /\ UNCHANGED <<doc_q, doc_cmd, doc_semaphore>>
          /\ doc_unfinished' = doc_unfinished - 1
          /\ job[f] = "task_done" /\ job' = [job EXCEPT ![f] = "none"]
        BY <1>8 DEF JobDone
    <2>2. Holding' = Holding /\ Working' = Working \ {f} /\ f \in Working
        BY <1>q, <2>1 DEF Working, Holding
    <2>3. IsFiniteSet(Working') /\ Cardinality(Working') = Cardinality(Working) - 1
        BY <1>c, <2>2, FS_RemoveElement
    <2> QED BY <1>c, <1>q, <2>1, <2>2, <2>3 DEF PermitsAccounted
<1>9. ASSUME UNCHANGED <<docVars, doc_semaphore, job>> PROVE Goal
    <2>1. UNCHANGED <<doc_q, doc_cmd, doc_unfinished, doc_semaphore, job>>
        BY <1>9 DEF docVars
    <2>2. Working' = Working /\ Holding' = Holding
        BY <2>1 DEF Working, Holding
    <2> QED BY <1>c, <2>1, <2>2 DEF PermitsAccounted
<1>10. ASSUME NEW r \in Requests, NEW f \in Files, TransformFails(r, f) PROVE Goal
    BY <1>9, <1>10 DEF TransformFails, workVars
<1>11. ASSUME UNCHANGED <<todo, docVars, doc_semaphore, job>> PROVE Goal
    BY <1>9, <1>11
<1> HIDE DEF Goal
<1>12. Goal
    BY <1>1, <1>2, <1>3, <1>4, <1>5, <1>6, <1>7, <1>8, <1>10, <1>11, DocSide
<1> QED BY <1>12 DEF Goal

\* The accounting of node_q.
LEMMA NodeCountStep ==
    ASSUME TypeOK, Counts, [Next]_vars
    PROVE  (node_unfinished = Len(node_q) + (IF writer = "get" THEN 0 ELSE 1))'
<1>q. node_q \in Seq(Command) /\ node_unfinished \in Nat /\ Len(node_q) \in Nat
    BY DEF TypeOK
<1>c. node_unfinished = Len(node_q) + (IF writer = "get" THEN 0 ELSE 1)
    BY DEF Counts, TasksAccounted
<1>1. ASSUME NEW cmd \in Command, PutNode(cmd), UNCHANGED writer
      PROVE  node_unfinished' = Len(node_q') + (IF writer' = "get" THEN 0 ELSE 1)
    <2>1. Len(node_q') = Len(node_q) + 1 /\ node_unfinished' = node_unfinished + 1
        BY <1>1, <1>q, PutContents DEF PutNode
    <2> QED BY <1>1, <1>q, <1>c, <2>1
<1>2. ASSUME writer = "get", writer' # "get", node_q # <<>>, node_q' = Tail(node_q),
             UNCHANGED node_unfinished
      PROVE  node_unfinished' = Len(node_q') + (IF writer' = "get" THEN 0 ELSE 1)
    <2>1. Len(node_q') = Len(node_q) - 1
        BY <1>2, <1>q, GetContents
    <2> QED BY <1>2, <1>q, <1>c, <2>1
<1>3. CASE \E r \in Requests : FlushNodes(r)
    BY <1>1, <1>3 DEF FlushNodes, Command, writerVars
<1>4. CASE \E f \in Files : PutNodes(f)
    BY <1>1, <1>4 DEF PutNodes, Command, writerVars
<1>5. CASE GetFlush
    BY <1>2, <1>5 DEF GetFlush
<1>6. CASE GetNodes
    BY <1>2, <1>6 DEF GetNodes
<1>7. CASE Insert \/ Snapshot \/ Write \/ SaveFails \/ Clear
    BY <1>7, <1>c DEF Insert, Snapshot, Write, SaveFails, Clear, nodeVars
<1>8. CASE NodeDone
    BY <1>8, <1>c, <1>q DEF NodeDone
<1>9. CASE UNCHANGED <<nodeVars, writerVars>>
    BY <1>9, <1>c DEF nodeVars, writerVars
<1> QED
    BY <1>3, <1>4, <1>5, <1>6, <1>7, <1>8, <1>9, NodeSide

\* Every step keeps both counts.
LEMMA CountStep == TypeOK /\ OnceEach /\ Counts /\ [Next]_vars => Counts'
BY DocCountStep, NodeCountStep DEF Counts, TasksAccounted

-----------------------------------------------------------------------------
(* A request that got past a join stays past it.                           *)

\* A file whose request has nothing left to submit does not come back upstream
\* of node_q once it has left.
LEMMA StaysDone ==
    ASSUME TypeOK, OnceEach, [Next]_vars,
           NEW r \in Requests, NEW f \in FilesOf[r], todo[r] = {}, ~Waiting(f)
    PROVE  ~Waiting(f)'
<1> USE FilesAssumption, NamesAssumption
<1>q. /\ doc_q \in Seq(Command) /\ f \in Files
      /\ job \in [Files -> {"none", "embed", "put", "release", "task_done"}]
    BY DEF TypeOK
<1>w. ~Queued(doc_q, f) /\ doc_cmd # f /\ job[f] = "none"
    BY DEF Waiting
<1>1. ASSUME NEW s \in Requests, NEW g \in Files, SubmitFile(s, g) PROVE ~Waiting(f)'
    <2>1. g \in todo[s] /\ doc_q' = Append(doc_q, g) /\ UNCHANGED <<doc_cmd, job>>
        BY <1>1 DEF SubmitFile, PutDoc, workVars
    <2>2. g # f
        BY <2>1 DEF OnceEach
    <2>3. g \in Command
        BY DEF Command
    <2>4. Queued(Append(doc_q, g), f) <=> Queued(doc_q, f) \/ f = g
        BY <1>q, <2>3, PutQueued
    <2>5. ~Queued(doc_q, f)'
        BY <1>w, <2>1, <2>2, <2>4
    <2> QED BY <1>w, <2>1, <2>5 DEF Waiting
<1>2. ASSUME NEW s \in Requests, FlushDocs(s) PROVE ~Waiting(f)'
    <2>1. doc_q' = Append(doc_q, Flush) /\ UNCHANGED <<doc_cmd, job>>
        BY <1>2 DEF FlushDocs, PutDoc, workVars
    <2>2. ~Queued(doc_q, f)'
        BY <1>q, <1>w, <2>1, PutQueued DEF Command
    <2> QED BY <1>w, <2>1, <2>2 DEF Waiting
<1>3. CASE GetDoc
    <2>1. /\ doc_q # <<>> /\ doc_cmd' = Head(doc_q) /\ doc_q' = Tail(doc_q)
          /\ UNCHANGED job
        BY <1>3 DEF GetDoc, workVars
    <2>2. ~Queued(doc_q, f)' /\ doc_cmd' # f
        BY <1>q, <1>w, <2>1, GetQueued
    <2> QED BY <1>w, <2>1, <2>2 DEF Waiting
<1>4. CASE StartJob
    <2>1. doc_cmd' = None /\ UNCHANGED doc_q /\ job'[f] = "none"
        BY <1>4, <1>q, <1>w DEF StartJob
    <2> QED BY <1>q, <1>w, <2>1 DEF Waiting, Queued
<1>5. CASE FlushDone
    <2>1. doc_cmd' = None /\ UNCHANGED <<doc_q, job>>
        BY <1>5 DEF FlushDone, workVars
    <2> QED BY <1>q, <1>w, <2>1 DEF Waiting, Queued
<1>6. ASSUME NEW g \in Files, Embed(g) \/ EmbedFails(g) \/ PutNodes(g) \/ Release(g) \/ JobDone(g)
      PROVE  ~Waiting(f)'
    <2>1. UNCHANGED <<doc_q, doc_cmd>> /\ job'[f] = "none"
        BY <1>6, <1>q, <1>w
        DEF Embed, EmbedFails, PutNodes, Release, JobDone, docVars
    <2> QED BY <1>w, <2>1 DEF Waiting, Queued
<1>7. CASE UNCHANGED <<todo, docVars, doc_semaphore, job>>
    BY <1>w, <1>7 DEF Waiting, Queued, docVars
<1>8. ASSUME NEW s \in Requests, NEW g \in Files, TransformFails(s, g) PROVE ~Waiting(f)'
    BY <1>w, <1>8 DEF TransformFails, Waiting, Queued, docVars, workVars
<1> QED
    BY <1>1, <1>2, <1>3, <1>4, <1>5, <1>6, <1>7, <1>8, DocSide

\* What the steps of the writer's side leave of a file that is past its job:
\* the flush behind it stays behind it until the save, and a file that has left
\* the stacks does not come back.
LEMMA StaysFlushed ==
    ASSUME TypeOK, [Next]_vars, NEW f \in Files, ~Waiting(f)
    PROVE  /\ FlushBehind(f) => FlushBehind(f)'
           /\ ~Queued(node_q, f) /\ f \notin file_stack
                  => ~Queued(node_q, f)' /\ f \notin file_stack'
<1> DEFINE Behind == FlushBehind(f) => FlushBehind(f)'
           Gone == ~Queued(node_q, f) /\ f \notin file_stack
                       => ~Queued(node_q, f)' /\ f \notin file_stack'
<1> USE NamesAssumption
<1>q. node_q \in Seq(Command) /\ Len(node_q) \in Nat /\ job[f] = "none"
    BY DEF TypeOK, Waiting
<1>1. ASSUME NEW cmd \in Command, cmd # f, node_q' = Append(node_q, cmd),
             UNCHANGED <<writer, file_stack>>
      PROVE  Behind /\ Gone
    <2>1. /\ Len(node_q') = Len(node_q) + 1
          /\ \A i \in 1 .. Len(node_q) : node_q'[i] = node_q[i]
          /\ node_q'[Len(node_q) + 1] = cmd
        BY <1>1, <1>q, PutContents
    <2>2. \A c : Queued(node_q, c)' <=> Queued(node_q, c) \/ c = cmd
        BY <1>1, <1>q, PutQueued
    <2>3. ASSUME FlushBehind(f), NEW i \in 1 .. Len(node_q'), node_q'[i] = f
          PROVE  \E j \in i + 1 .. Len(node_q') : node_q'[j] = Flush
        <3>1. i \in 1 .. Len(node_q) /\ node_q[i] = f
            BY <1>1, <1>q, <2>1, <2>3
        <3>2. PICK j \in i + 1 .. Len(node_q) : node_q[j] = Flush
            BY <2>3, <3>1 DEF FlushBehind
        <3>3. j \in 1 .. Len(node_q) /\ j \in i + 1 .. Len(node_q')
            BY <1>q, <2>1, <3>1
        <3>4. node_q'[j] = Flush
            BY <2>1, <3>2, <3>3
        <3> QED BY <3>3, <3>4
    <2> QED BY <1>1, <2>2, <2>3 DEF FlushBehind
<1>2. ASSUME node_q # <<>>, node_q' = Tail(node_q), writer = "get", FlushBehind(f)
      PROVE  /\ \A i \in 1 .. Len(node_q') : node_q'[i] = f =>
                    \E j \in i + 1 .. Len(node_q') : node_q'[j] = Flush
             /\ Head(node_q) # Flush /\ (f \in file_stack \/ f = Head(node_q))
                    => Queued(node_q, Flush)'
    <2>1. /\ Len(node_q) \in Nat \ {0} /\ Head(node_q) = node_q[1]
          /\ Len(node_q') = Len(node_q) - 1
          /\ \A k \in 1 .. Len(node_q') : node_q'[k] = node_q[k + 1]
        BY <1>2, <1>q, GetContents
    <2>2. ASSUME NEW i \in 1 .. Len(node_q'), node_q'[i] = f
          PROVE  \E j \in i + 1 .. Len(node_q') : node_q'[j] = Flush
        <3>1. i + 1 \in 1 .. Len(node_q) /\ node_q[i + 1] = f
            BY <2>1, <2>2
        <3>2. PICK j \in i + 2 .. Len(node_q) : node_q[j] = Flush
            BY <1>2, <3>1 DEF FlushBehind
        <3>3. j - 1 \in i + 1 .. Len(node_q') /\ j - 1 \in 1 .. Len(node_q')
            BY <2>1, <3>1
        <3>4. node_q'[j - 1] = node_q[(j - 1) + 1] /\ (j - 1) + 1 = j
            BY <2>1, <3>3
        <3> QED BY <3>2, <3>3, <3>4
    <2>3. ASSUME Head(node_q) # Flush, f \in file_stack \/ f = Head(node_q)
          PROVE  Queued(node_q, Flush)'
        <3>1. Queued(node_q, Flush)
            <4>1. CASE f \in file_stack
                BY <4>1, <1>2 DEF FlushBehind, Saving
            <4>2. CASE f = Head(node_q)
                <5>1. 1 \in 1 .. Len(node_q) /\ node_q[1] = f
                    BY <4>2, <2>1
                <5>2. PICK j \in 2 .. Len(node_q) : node_q[j] = Flush
                    BY <1>2, <5>1 DEF FlushBehind
                <5> QED BY <5>2 DEF Queued
            <4> QED BY <2>3, <4>1, <4>2
        <3> QED BY <1>2, <1>q, <2>3, <3>1, GetQueued
    <2> QED BY <2>2, <2>3
<1>3. ASSUME node_q # <<>>, node_q' = Tail(node_q), ~Queued(node_q, f)
      PROVE  ~Queued(node_q, f)' /\ Head(node_q) # f
    BY <1>3, <1>q, GetQueued
<1>4. CASE \E r \in Requests : FlushNodes(r)
    BY <1>1, <1>4 DEF FlushNodes, PutNode, Command, writerVars
<1>5. ASSUME NEW g \in Files, PutNodes(g) PROVE Behind /\ Gone
    <2>1. g # f
        BY <1>5, <1>q DEF PutNodes
    <2> QED BY <1>1, <1>5, <2>1 DEF PutNodes, PutNode, Command, writerVars
<1>6. CASE GetFlush
    <2>1. /\ node_q # <<>> /\ node_q' = Tail(node_q) /\ writer = "get"
          /\ UNCHANGED file_stack /\ (file_stack # {} => writer' \in Saving)
        BY <1>6 DEF GetFlush, Saving
    <2> QED BY <1>2, <1>3, <2>1 DEF FlushBehind
<1>7. CASE GetNodes
    <2>1. /\ node_q # <<>> /\ node_q' = Tail(node_q) /\ writer = "get"
          /\ Head(node_q) # Flush /\ file_stack' = file_stack \cup {Head(node_q)}
        BY <1>7 DEF GetNodes
    <2> QED BY <1>2, <1>3, <2>1 DEF FlushBehind
<1>8. CASE Insert \/ Snapshot \/ Write \/ SaveFails
    <2>1. UNCHANGED <<node_q, file_stack>> /\ writer' \in Saving
        BY <1>8 DEF Insert, Snapshot, Write, SaveFails, nodeVars, Saving
    <2> QED BY <2>1 DEF FlushBehind, Queued
<1>9. CASE Clear
    <2>1. UNCHANGED node_q /\ file_stack' = {}
        BY <1>9 DEF Clear, nodeVars
    <2> QED BY <2>1 DEF FlushBehind, Queued
<1>10. CASE NodeDone
    <2>1. UNCHANGED <<node_q, file_stack>> /\ writer \notin Saving
        BY <1>10 DEF NodeDone, Saving
    <2> QED BY <2>1 DEF FlushBehind, Queued
<1>11. CASE UNCHANGED <<nodeVars, writerVars>>
    BY <1>11 DEF FlushBehind, Queued, nodeVars, writerVars
<1> QED
    BY <1>4, <1>5, <1>6, <1>7, <1>8, <1>9, <1>10, <1>11, NodeSide

\* What a step does to the request r.
LEMMA RequestSide ==
    ASSUME TypeOK, [Next]_vars, NEW r \in Requests
    PROVE  \/ pc'[r] = pc[r] /\ (pc[r] = "submit" \/ todo'[r] = todo[r])
           \/ pc'[r] = "raised"
           \/ FlushDocs(r) \/ JoinDocs(r) \/ FlushNodes(r) \/ JoinNodes(r)
<1> USE DEF TypeOK, requestVars
<1>1. ASSUME NEW s \in Requests, NEW f \in Files, SubmitFile(s, f) \/ TransformFails(s, f)
      PROVE  \/ pc'[r] = pc[r] /\ (pc[r] = "submit" \/ todo'[r] = todo[r])
             \/ pc'[r] = "raised"
    BY <1>1 DEF SubmitFile, TransformFails
<1>2. ASSUME NEW s \in Requests, s # r,
             FlushDocs(s) \/ JoinDocs(s) \/ FlushNodes(s) \/ JoinNodes(s)
      PROVE  pc'[r] = pc[r] /\ todo'[r] = todo[r]
    BY <1>2 DEF FlushDocs, JoinDocs, FlushNodes, JoinNodes
<1>3. DocToNode \/ (\E f \in Files : Worker(f)) => UNCHANGED <<pc, todo>>
    BY DEF DocToNode, GetDoc, StartJob, FlushDone, Worker, Embed, EmbedFails,
           PutNodes, Release, JobDone
<1>4. WriteNodes => UNCHANGED <<pc, todo>>
    BY DEF WriteNodes, GetFlush, GetNodes, Insert, Snapshot, Write, SaveFails,
           Clear, NodeDone
<1>5. (\E d \in Deleters : RequestDelete(d) \/ Delete(d)) => UNCHANGED <<pc, todo>>
    BY DEF RequestDelete, Delete, AcquireLock, DeleteRefDoc, DeleteSnapshot,
           DeleteWrite, DeleteFails
<1>6. Quiescent \/ UNCHANGED vars => UNCHANGED <<pc, todo>>
    BY DEF Quiescent, vars
<1> QED
    BY <1>1, <1>2, <1>3, <1>4, <1>5, <1>6 DEF Next, Request

\* Every step keeps what is known of the position of a request.
LEMMA FlushingStep ==
    TypeOK /\ OnceEach /\ Counts /\ Flushing /\ [Next]_vars => Flushing'
<1> SUFFICES ASSUME TypeOK, OnceEach, Counts, Flushing, [Next]_vars, NEW r \in Requests
             PROVE  /\ pc'[r] \notin {"submit", "raised"} => todo'[r] = {}
                    /\ \A f \in FilesOf[r] :
                        /\ pc'[r] \in {"flush_nodes", "join_nodes", "returned"}
                               => ~Waiting(f)'
                        /\ pc'[r] = "join_nodes" => FlushBehind(f)'
                        /\ pc'[r] = "returned" => ~InFlight(f)'
    BY DEF Flushing
<1>f. FilesOf[r] \subseteq Files /\ pc \in [Requests -> {"submit", "join_doc",
          "flush_nodes", "join_nodes", "returned", "raised"}]
    BY FilesAssumption DEF TypeOK
<1>1. CASE pc'[r] = pc[r] /\ (pc[r] = "submit" \/ todo'[r] = todo[r])
    <2>1. pc'[r] \notin {"submit", "raised"} => todo[r] = {} /\ todo'[r] = {}
        BY <1>1 DEF Flushing
    <2>2. ASSUME NEW f \in FilesOf[r], pc'[r] \in {"flush_nodes", "join_nodes", "returned"}
          PROVE  /\ ~Waiting(f)'
                 /\ pc'[r] = "join_nodes" => FlushBehind(f)'
                 /\ pc'[r] = "returned" => ~InFlight(f)'
        <3>1. /\ todo[r] = {} /\ ~Waiting(f)
              /\ pc[r] = "join_nodes" => FlushBehind(f)
              /\ pc[r] = "returned" => ~InFlight(f)
            BY <1>1, <2>1, <2>2 DEF Flushing
        <3>2. ~Waiting(f)'
            BY <3>1, StaysDone
        <3>3. /\ FlushBehind(f) => FlushBehind(f)'
              /\ ~Queued(node_q, f) /\ f \notin file_stack
                     => ~Queued(node_q, f)' /\ f \notin file_stack'
            BY <1>f, <3>1, StaysFlushed
        <3> QED BY <1>1, <3>1, <3>2, <3>3 DEF InFlight
    <2> QED BY <2>1, <2>2
<1>2. CASE pc'[r] = "raised"
    BY <1>2
<1>3. CASE FlushDocs(r)
    <2>1. pc'[r] = "join_doc" /\ todo'[r] = {}
        BY <1>f, <1>3 DEF FlushDocs
    <2> QED BY <2>1
<1>4. CASE JoinDocs(r)
    <2>1. /\ pc'[r] = "flush_nodes" /\ doc_unfinished = 0 /\ todo'[r] = {}
          /\ UNCHANGED <<doc_q, doc_cmd, job>>
        BY <1>f, <1>4 DEF JoinDocs, docVars, workVars, Flushing
    <2>2. doc_q = <<>> /\ doc_cmd = None /\ Working = {}
        BY <2>1, PendingTasks
    <2>3. ASSUME NEW f \in FilesOf[r] PROVE ~Waiting(f)'
        BY <1>f, <2>1, <2>2, NamesAssumption DEF Waiting, Queued, Working
    <2> QED BY <2>1, <2>3
<1>5. CASE FlushNodes(r)
    <2>1. /\ pc[r] = "flush_nodes" /\ pc'[r] = "join_nodes"
          /\ todo'[r] = todo[r] /\ node_q' = Append(node_q, Flush)
          /\ UNCHANGED <<docVars, job>>
        BY <1>f, <1>5 DEF FlushNodes, PutNode, workVars
    <2>2. todo'[r] = {}
        BY <2>1 DEF Flushing
    <2>3. /\ Len(node_q') = Len(node_q) + 1 /\ Len(node_q) \in Nat
          /\ node_q'[Len(node_q) + 1] = Flush
        BY <2>1, PutContents DEF TypeOK, Command
    <2>4. ASSUME NEW f \in FilesOf[r] PROVE ~Waiting(f)' /\ FlushBehind(f)'
        <3>1. ~Waiting(f)'
            BY <2>1 DEF Flushing, Waiting, Queued, docVars
        <3>2. Queued(node_q, Flush)'
            BY <2>3 DEF Queued
        <3>3. ASSUME NEW i \in 1 .. Len(node_q'), node_q'[i] = f
              PROVE  \E j \in i + 1 .. Len(node_q') : node_q'[j] = Flush
            <4>1. i # Len(node_q) + 1
                BY <1>f, <2>3, <3>3, NamesAssumption
            <4>2. Len(node_q) + 1 \in i + 1 .. Len(node_q')
                BY <2>3, <4>1
            <4> QED BY <2>3, <4>2
        <3> QED BY <3>1, <3>2, <3>3 DEF FlushBehind
    <2> QED BY <2>1, <2>2, <2>4
<1>6. CASE JoinNodes(r)
    <2>1. /\ pc[r] = "join_nodes" /\ pc'[r] = "returned" /\ node_unfinished = 0
          /\ todo'[r] = todo[r]
          /\ UNCHANGED <<docVars, job, node_q, file_stack>>
        BY <1>f, <1>6 DEF JoinNodes, workVars, nodeVars, writerVars
    <2>2. node_q = <<>> /\ writer = "get"
        BY <2>1, PendingTasks
    <2>3. ASSUME NEW f \in FilesOf[r] PROVE ~Waiting(f)' /\ ~InFlight(f)'
        <3>1. ~Waiting(f)'
            BY <2>1 DEF Flushing, Waiting, Queued, docVars
        <3>2. ~Queued(node_q, f)' /\ ~Queued(node_q, Flush)
            BY <2>1, <2>2 DEF Queued
        <3>3. f \notin file_stack'
            BY <2>1, <2>2, <3>2 DEF Flushing, FlushBehind, Saving
        <3> QED BY <3>1, <3>2, <3>3 DEF InFlight
    <2>4. todo'[r] = {}
        BY <2>1 DEF Flushing
    <2> QED BY <2>1, <2>3, <2>4
<1> QED
    BY <1>1, <1>2, <1>3, <1>4, <1>5, <1>6, RequestSide

-----------------------------------------------------------------------------
(* The theorems.                                                           *)

\* Nothing is on its way at the start.
LEMMA FlushInvInit == Init => FlushInv
<1> SUFFICES ASSUME Init PROVE FlushInv
    OBVIOUS
<1> USE FilesAssumption, SizesAssumption, NamesAssumption DEF Init
<1>1. TypeOK
    <2>1. /\ doc_unfinished \in Nat /\ doc_semaphore \in 0 .. CountWorkers
          /\ node_unfinished \in Nat /\ node_count \in Nat
          /\ doc_q \in Seq(Command) /\ node_q \in Seq(Command)
        OBVIOUS
    <2>2. torn \in BOOLEAN /\ snapshot \in [Persisters -> SUBSET Files]
        OBVIOUS
    <2> QED BY <2>1, <2>2 DEF TypeOK, Saving
<1>2. Working = {} /\ Holding = {}
    BY DEF Working, Holding
<1>3. Counts
    BY <1>2, FS_EmptySet DEF Counts, TasksAccounted, PermitsAccounted
<1>4. \A f \in Files : ~Waiting(f)
    BY DEF Waiting, Queued
<1>5. OnceEach
    BY <1>4 DEF OnceEach, Queued
<1>6. Flushing
    BY DEF Flushing
<1> QED BY <1>1, <1>3, <1>5, <1>6 DEF FlushInv

\* Every step keeps the invariant.
LEMMA FlushStep == FlushInv /\ [Next]_vars => FlushInv'
BY TypeStep, OnceStep, CountStep, FlushingStep DEF FlushInv

\* FlushInv is an inductive invariant of the pipeline.
THEOREM FlushInvariant == Spec => []FlushInv
<1>1. FlushInv /\ [Next]_vars => FlushInv'
    BY FlushStep
<1> QED BY <1>1, FlushInvInit, PTL DEF Spec

\* Types: no counter ever leaves the natural numbers, so task_done never raises.
THEOREM TypeCorrect == Spec => []TypeOK
<1>1. FlushInv => TypeOK
    BY DEF FlushInv
<1> QED BY <1>1, FlushInvariant, PTL

\* The counts that the joins wait on are exact, in every interleaving of any
\* number of requests, jobs and failures.
THEOREM TasksAlwaysAccounted == Spec => []TasksAccounted
<1>1. FlushInv => TasksAccounted
    BY DEF FlushInv, Counts
<1> QED BY <1>1, FlushInvariant, PTL

\* No permit of the semaphore is lost or invented.
THEOREM PermitsAlwaysAccounted == Spec => []PermitsAccounted
<1>1. FlushInv => PermitsAccounted
    BY DEF FlushInv, Counts
<1> QED BY <1>1, FlushInvariant, PTL

\* A request that returned has none of its files on the way, for any number of
\* requests sharing the queues: one request's flush also settles the files of
\* others, and never leaves its own behind.
THEOREM ReturnedAlwaysSettled == Spec => []ReturnedAreSettled
<1>1. FlushInv => ReturnedAreSettled
    BY DEF FlushInv, Flushing, ReturnedAreSettled
<1> QED BY <1>1, FlushInvariant, PTL

\* Who waits for a place in node_q waits for the writer, which waits for nothing
\* but commands.
LEMMA NodesAreTaken ==
    ASSUME TypeOK
    PROVE  Len(node_q) < NodeQSize \/ WriteNodesGoesOn
<1> SUFFICES ASSUME ~(Len(node_q) < NodeQSize)
             PROVE  node_q # <<>>
    BY DEF WriteNodesGoesOn
<1>1. Len(node_q) \in Nat /\ NodeQSize \in Nat \ {0}
    BY SizesAssumption DEF TypeOK
<1>2. Len(node_q) # 0
    BY <1>1
<1> QED BY <1>2

\* So a job that has begun ends.
LEMMA JobsAreDone ==
    ASSUME TypeOK, NEW f \in Files, job[f] # "none"
    PROVE  WorkerGoesOn(f) \/ WriteNodesGoesOn
<1>1. job[f] \in {"none", "embed", "put", "release", "task_done"}
    BY DEF TypeOK
<1> QED BY <1>1, NodesAreTaken DEF WorkerGoesOn

\* Commands of doc_q are taken: without a permit some job holds one.
LEMMA DocsAreTaken ==
    ASSUME TypeOK, Counts, doc_q # <<>> \/ doc_cmd # None
    PROVE  \/ DocToNodeGoesOn
           \/ \E f \in Files : WorkerGoesOn(f)
           \/ WriteNodesGoesOn
<1>1. doc_cmd \in Files \cup {Flush, None}
    BY DEF TypeOK, Command
<1>2. CASE doc_cmd \notin Files \/ doc_semaphore > 0
    BY <1>1, <1>2 DEF DocToNodeGoesOn
<1>3. CASE doc_cmd \in Files /\ ~(doc_semaphore > 0)
    <2>1. doc_semaphore = 0 /\ CountWorkers \in Nat \ {0}
        BY <1>3, SizesAssumption DEF TypeOK
    <2>2. Cardinality(Holding) = CountWorkers
        <3>1. Holding \subseteq Working
            BY DEF Holding, Working
        <3>2. Cardinality(Holding) \in Nat
            BY <3>1, FS_Subset, FS_CardinalityType DEF Counts
        <3> QED BY <2>1, <3>2 DEF Counts, PermitsAccounted
    <2>3. Holding # {}
        BY <2>1, <2>2, FS_EmptySet
    <2>4. PICK f \in Files : job[f] # "none"
        BY <2>3 DEF Holding
    <2> QED BY <2>4, JobsAreDone
<1> QED BY <1>2, <1>3

\* Queues, semaphore and joins: as long as a call has not ended, it or a thread
\* that it waits for goes on, for every number of requests and every size of the
\* queues and of the pool.  The counts are what the joins rest on: what they
\* count is at some place, and is moved on from there.
THEOREM NobodyIsEverStuck == Spec => []NobodyIsStuck
<1>1. ASSUME FlushInv PROVE NobodyIsStuck
    <2>1. TypeOK /\ Counts /\ TasksAccounted
        BY <1>1 DEF FlushInv, Counts
    <2> SUFFICES ASSUME NEW r \in Requests, ~Ended(r), ~RequestGoesOn(r)
                 PROVE  \/ DocToNodeGoesOn
                        \/ \E f \in Files : WorkerGoesOn(f)
                        \/ WriteNodesGoesOn
        BY DEF NobodyIsStuck
    <2>2. pc[r] \in {"submit", "join_doc", "flush_nodes", "join_nodes"}
        BY <2>1 DEF TypeOK, Ended
    <2>3. CASE pc[r] = "submit"
        <3>1. Len(doc_q) \in Nat /\ DocQSize \in Nat \ {0} /\ ~(Len(doc_q) < DocQSize)
            BY <2>1, <2>3, SizesAssumption DEF TypeOK, RequestGoesOn
        <3>2. doc_q # <<>>
            BY <3>1
        <3> QED BY <2>1, <3>2, DocsAreTaken
    <2>4. CASE pc[r] = "join_doc"
        <3>1. doc_unfinished # 0
            BY <2>4 DEF RequestGoesOn
        <3>2. CASE doc_q # <<>> \/ doc_cmd # None
            BY <2>1, <3>2, DocsAreTaken
        <3>3. CASE doc_q = <<>> /\ doc_cmd = None
            <4>1. Working # {}
                BY <2>1, <3>1, <3>3, FS_EmptySet DEF TasksAccounted
            <4>2. PICK f \in Files : job[f] # "none"
                BY <4>1 DEF Working
            <4> QED BY <2>1, <4>2, JobsAreDone
        <3> QED BY <3>2, <3>3
    <2>5. CASE pc[r] = "flush_nodes"
        BY <2>1, <2>5, NodesAreTaken DEF RequestGoesOn
    <2>6. CASE pc[r] = "join_nodes"
        <3>1. node_unfinished # 0
            BY <2>6 DEF RequestGoesOn
        <3>2. node_q # <<>> \/ writer # "get"
            BY <2>1, <3>1 DEF TasksAccounted
        <3> QED BY <3>2 DEF WriteNodesGoesOn
    <2> QED BY <2>2, <2>3, <2>4, <2>5, <2>6
<1> QED BY <1>1, FlushInvariant, PTL

-----------------------------------------------------------------------------
(* The writer's stacks.                                                    *)

\* StacksAgree when the writer is about to look at them: between the last task
\* and the next one the stack is below the threshold.
StackInv ==
    /\ writer \in {"get", "task_done"} => node_count < NodeFlushCount
    /\ file_stack = {} => node_count = 0

\* Every step keeps the stacks of the writer as its position says.
LEMMA StackStep == TypeOK /\ StackInv /\ [Next]_vars => StackInv'
<1> SUFFICES ASSUME TypeOK, StackInv, [Next]_vars PROVE StackInv'
    OBVIOUS
<1> USE SizesAssumption DEF StackInv, TypeOK, Saving
<1>1. CASE \E r \in Requests : FlushNodes(r)
    BY <1>1 DEF FlushNodes, writerVars
<1>2. CASE \E f \in Files : PutNodes(f)
    BY <1>2 DEF PutNodes, writerVars
<1>3. CASE GetFlush
    BY <1>3 DEF GetFlush
<1>4. CASE GetNodes
    BY <1>4 DEF GetNodes
<1>5. CASE Insert \/ Snapshot \/ Write \/ SaveFails
    BY <1>5 DEF Insert, Snapshot, Write, SaveFails
<1>6. CASE Clear
    BY <1>6 DEF Clear
<1>7. CASE NodeDone
    BY <1>7 DEF NodeDone
<1>8. CASE UNCHANGED <<nodeVars, writerVars>>
    BY <1>8 DEF writerVars
<1> QED BY <1>1, <1>2, <1>3, <1>4, <1>5, <1>6, <1>7, <1>8, NodeSide

\* _write_nodes never waits for a command with a stack that reached the
\* threshold, and never keeps the nodes of files it has cleared.
THEOREM StacksAlwaysAgree == Spec => []StacksAgree
<1>1. Init => StackInv
    BY SizesAssumption DEF Init, StackInv
<1>2. StackInv => StacksAgree
    BY DEF StackInv, StacksAgree
<1> QED BY <1>1, <1>2, StackStep, TypeCorrect, PTL DEF Spec

-----------------------------------------------------------------------------
(* What reaches the files, as long as nobody deletes: the writer does not  *)
(* take the lock of the delete calls, and one of them may write over it.   *)

\* The file is in the persisted index, or was given up on.
Settled(f) == f \in disk \cup logged \cup async_error

\* The worker of the file has done its part.
Passed(f) == Queued(node_q, f) \/ f \in file_stack \/ Settled(f)

\* How far the save under way is: who writes alone leaves whole files behind, and
\* who raises has a file to log.
SaveInv ==
    /\ disk \subseteq index
    /\ overlapped = {}
    /\ torn => writer = "write" \/ logged # {}
    /\ writer \in {"insert", "snapshot", "write"} => file_stack # {}
    /\ writer = "snapshot" => file_stack \subseteq index
    /\ writer = "write" => /\ torn
                           /\ disk \cup file_stack \subseteq snapshot[Writer]
                           /\ snapshot[Writer] \subseteq index
    /\ writer = "clear" => file_stack \subseteq disk \cup logged

\* No file gets lost on the way, in a failing job or a failing save.
NothingLost ==
    /\ \A f \in Files : job[f] \in {"release", "task_done"} => Passed(f)
    /\ \A r \in Requests : pc[r] # "raised" =>
           \A f \in FilesOf[r] : f \in todo[r] \/ Waiting(f) \/ Passed(f)

DurableInv == NoDeletes => SaveInv /\ NothingLost

\* The steps that change the stores.
LEMMA StoreSide ==
    ASSUME TypeOK, [Next]_vars, NoDeletes'
    PROVE  /\ NoDeletes
           /\ logged \subseteq logged' /\ async_error \subseteq async_error'
           /\ Insert \/ Snapshot \/ Write \/ SaveFails \/ UNCHANGED storeVars
<1> DEFINE Goal == /\ NoDeletes
                   /\ logged \subseteq logged' /\ async_error \subseteq async_error'
                   /\ Insert \/ Snapshot \/ Write \/ SaveFails \/ UNCHANGED storeVars
<1> USE DEF NoDeletes, requestVars, docVars, workVars, nodeVars, writerVars, deleteVars
<1>1. ASSUME NEW r \in Requests, Request(r) PROVE Goal
    BY <1>1 DEF Request, SubmitFile, TransformFails, FlushDocs, JoinDocs, FlushNodes, JoinNodes
<1>2. ASSUME DocToNode PROVE Goal
    BY <1>2 DEF DocToNode, GetDoc, StartJob, FlushDone
<1>3. ASSUME NEW f \in Files, Worker(f) PROVE Goal
    BY <1>3 DEF Worker, Embed, EmbedFails, PutNodes, Release, JobDone
<1>4. ASSUME WriteNodes PROVE Goal
    <2>1. CASE GetFlush \/ GetNodes \/ Clear \/ NodeDone
        BY <2>1 DEF GetFlush, GetNodes, Clear, NodeDone
    <2>2. CASE Insert \/ Snapshot \/ Write \/ SaveFails
        BY <2>2 DEF Insert, Snapshot, Write, SaveFails
    <2> QED BY <1>4, <2>1, <2>2 DEF WriteNodes
<1>5. ASSUME NEW d \in Deleters, RequestDelete(d) \/ Delete(d) PROVE Goal
    <2>1. del_pc' \in [Deleters -> {"idle", "acquire", "delete", "snapshot",
                                    "write", "returned", "raised"}] /\ del_pc'[d] # "idle"
        BY <1>5 DEF RequestDelete, Delete, AcquireLock, DeleteRefDoc, DeleteSnapshot,
            DeleteWrite, DeleteFails, TypeOK
    <2> QED BY <2>1
<1>6. ASSUME Quiescent \/ UNCHANGED vars PROVE Goal
    BY <1>6 DEF Quiescent, vars
<1> QED BY <1>1, <1>2, <1>3, <1>4, <1>5, <1>6 DEF Next

\* _save_docs, from the insertion to the write.
LEMMA SaveStep ==
    ASSUME TypeOK, SaveInv, [Next]_vars, NoDeletes'
    PROVE  SaveInv'
<1> USE DEF SaveInv, TypeOK, Persisters, Writer
<1>o. /\ Opened = IF writer = "write" THEN {Writer} ELSE {}
      /\ logged \subseteq logged'
    BY StoreSide DEF NoDeletes, Opened
<1>1. CASE Insert
    BY <1>1 DEF Insert
<1>2. CASE Snapshot
    BY <1>2, <1>o DEF Snapshot, Open
<1>3. CASE Write
    BY <1>3 DEF Write, WriteOut, PersistEnds
<1>4. CASE SaveFails
    <2>1. /\ writer' = "clear" /\ file_stack' = file_stack /\ file_stack # {}
          /\ logged' = logged \cup file_stack
        BY <1>4 DEF SaveFails
    <2>2. disk' = disk /\ index \subseteq index' /\ overlapped' = {}
        BY <1>4 DEF SaveFails, InsertFails, PersistFails, PersistEnds
    <2> QED BY <2>1, <2>2
<1>5. CASE UNCHANGED storeVars
    <2>1. UNCHANGED <<index, snapshot, disk, torn, overlapped>> /\ logged \subseteq logged'
        BY <1>5, <1>o DEF storeVars
    <2>2. CASE GetFlush \/ GetNodes \/ Clear \/ NodeDone
        BY <2>1, <2>2 DEF GetFlush, GetNodes, Clear, NodeDone
    <2>3. CASE UNCHANGED <<writer, file_stack>>
        BY <2>1, <2>3
    <2>4. \/ GetFlush \/ GetNodes \/ Clear \/ NodeDone
          \/ Insert \/ Snapshot \/ Write \/ SaveFails
          \/ UNCHANGED <<writer, file_stack>>
        BY NodeSide DEF FlushNodes, PutNodes, writerVars
    <2> QED BY <2>2, <2>3, <2>4, <1>1, <1>2, <1>3, <1>4
<1> QED BY <1>1, <1>2, <1>3, <1>4, <1>5, StoreSide

\* From its job on, a file stays in the queue, in the stack or settled.
LEMMA PassedStays ==
    ASSUME TypeOK, SaveInv, [Next]_vars, NoDeletes', NEW f \in Files, Passed(f)
    PROVE  Passed(f)'
<1> USE NamesAssumption DEF Passed
<1>q. node_q \in Seq(Command)
    BY DEF TypeOK
<1>s. Settled(f) => Settled(f)'
    <2>1. disk \subseteq disk'
        <3>1. CASE Write
            BY <3>1 DEF Write, WriteOut, SaveInv
        <3>2. CASE Insert \/ Snapshot \/ SaveFails \/ UNCHANGED storeVars
            BY <3>2 DEF Insert, Snapshot, SaveFails, Open, InsertFails, PersistFails, storeVars
        <3> QED BY <3>1, <3>2, StoreSide
    <2> QED BY <2>1, StoreSide DEF Settled
<1>1. CASE \E r \in Requests : FlushNodes(r)
    BY <1>1, <1>q, <1>s, PutQueued DEF FlushNodes, PutNode, Command, writerVars
<1>2. CASE \E g \in Files : PutNodes(g)
    BY <1>2, <1>q, <1>s, PutQueued DEF PutNodes, PutNode, Command, writerVars
<1>3. CASE GetFlush
    BY <1>3, <1>q, <1>s, GetQueued DEF GetFlush
<1>4. CASE GetNodes
    BY <1>4, <1>q, <1>s, GetQueued DEF GetNodes
<1>5. CASE Insert \/ Snapshot \/ Write \/ SaveFails \/ NodeDone
    BY <1>5, <1>s DEF Insert, Snapshot, Write, SaveFails, NodeDone, nodeVars
<1>6. CASE Clear
    BY <1>6, <1>s DEF Clear, SaveInv, Settled, nodeVars
<1>7. CASE UNCHANGED <<nodeVars, writerVars>>
    BY <1>7, <1>s DEF nodeVars, writerVars
<1> QED BY <1>1, <1>2, <1>3, <1>4, <1>5, <1>6, <1>7, NodeSide

\* Upstream of node_q, a file leaves the last place it waits at only for the
\* queue, the stack, or having been given up on.
LEMMA LostStep ==
    ASSUME TypeOK, SaveInv, NothingLost, [Next]_vars, NoDeletes'
    PROVE  NothingLost'
<1> USE FilesAssumption, NamesAssumption
<1>q. /\ doc_q \in Seq(Command) /\ node_q \in Seq(Command)
      /\ job \in [Files -> {"none", "embed", "put", "release", "task_done"}]
      /\ todo \in [Requests -> SUBSET Files]
      /\ doc_cmd \in Command \cup {None}
      /\ \A r \in Requests : FilesOf[r] \subseteq Files
    BY DEF TypeOK
<1>j. ASSUME NEW f \in Files, job'[f] \in {"release", "task_done"} PROVE Passed(f)'
    <2>1. CASE job[f] \in {"release", "task_done"}
        BY <2>1, PassedStays DEF NothingLost
    <2>2. CASE EmbedFails(f)
        BY <2>2 DEF EmbedFails, Passed, Settled
    <2>3. CASE PutNodes(f)
        <3>1. f \in Command /\ node_q' = Append(node_q, f)
            BY <2>3 DEF PutNodes, PutNode, Command
        <3>2. Queued(Append(node_q, f), f)
            BY <1>q, <3>1, PutQueued
        <3> QED BY <3>1, <3>2 DEF Passed, Queued
    <2>4. job[f] \in {"release", "task_done"} \/ EmbedFails(f) \/ PutNodes(f)
        <3>1. CASE StartJob
            BY <1>j, <1>q, <3>1 DEF StartJob
        <3>2. ASSUME NEW g \in Files,
                     Embed(g) \/ EmbedFails(g) \/ PutNodes(g) \/ Release(g) \/ JobDone(g)
              PROVE  job[f] \in {"release", "task_done"} \/ EmbedFails(f) \/ PutNodes(f)
            BY <1>j, <1>q, <3>2 DEF Embed, EmbedFails, PutNodes, Release, JobDone
        <3>3. CASE job' = job
            BY <1>j, <3>3
        <3> QED BY <3>1, <3>2, <3>3, DocSide
                DEF SubmitFile, TransformFails, FlushDocs, GetDoc, FlushDone, workVars
    <2> QED BY <2>1, <2>2, <2>3, <2>4
<1>r. ASSUME NEW r \in Requests, pc'[r] # "raised", NEW f \in FilesOf[r],
             ~Passed(f)'
      PROVE  f \in todo'[r] \/ Waiting(f)'
    <2>1. ~Passed(f) /\ f \in Files
        BY <1>q, <1>r, PassedStays
    <2>2. pc[r] # "raised"
        BY <1>r, <2>1, RequestSide DEF FlushDocs, JoinDocs, FlushNodes, JoinNodes
    <2>3. f \in todo[r] \/ Waiting(f)
        BY <2>1, <2>2 DEF NothingLost
    <2>4. job[f] \notin {"release", "task_done"}
        BY <2>1 DEF NothingLost
    <2> DEFINE Kept == f \in todo'[r] \/ Waiting(f)'
    <2>5. ASSUME NEW s \in Requests, NEW g \in Files, SubmitFile(s, g) PROVE Kept
        <3>1. /\ todo' = [todo EXCEPT ![s] = @ \ {g}] /\ doc_q' = Append(doc_q, g)
              /\ UNCHANGED <<doc_cmd, job>>
            BY <2>5 DEF SubmitFile, PutDoc, workVars
        <3>2. \A c : Queued(doc_q, c)' <=> Queued(doc_q, c) \/ c = g
            BY <1>q, <3>1, PutQueued DEF Command
        <3> QED BY <1>q, <2>3, <3>1, <3>2 DEF Waiting
    <2>6. ASSUME NEW s \in Requests, NEW g \in Files, TransformFails(s, g) PROVE Kept
        <3>1. /\ todo' = [todo EXCEPT ![s] = @ \ {g}]
              /\ UNCHANGED <<doc_q, doc_cmd, job>>
            BY <2>6 DEF TransformFails, docVars, workVars
        <3>2. s # r \/ g # f
            BY <1>r, <2>6 DEF TransformFails, Passed, Settled, TypeOK
        <3> QED BY <1>q, <2>3, <3>1, <3>2 DEF Waiting, Queued
    <2>7. ASSUME NEW s \in Requests, FlushDocs(s) PROVE Kept
        <3>1. doc_q' = Append(doc_q, Flush) /\ UNCHANGED <<todo, doc_cmd, job>>
            BY <2>7 DEF FlushDocs, PutDoc, workVars
        <3>2. Queued(doc_q, f) => Queued(doc_q, f)'
            BY <1>q, <3>1, PutQueued DEF Command
        <3> QED BY <2>3, <3>1, <3>2 DEF Waiting
    <2>8. CASE GetDoc
        <3>1. /\ doc_cmd = None /\ doc_q # <<>> /\ doc_cmd' = Head(doc_q)
              /\ doc_q' = Tail(doc_q) /\ UNCHANGED <<todo, job>>
            BY <2>8 DEF GetDoc, requestVars, workVars
        <3>2. Queued(doc_q, f) => Queued(doc_q, f)' \/ doc_cmd' = f
            BY <1>q, <3>1, GetQueued
        <3> QED BY <2>1, <2>3, <3>1, <3>2 DEF Waiting
    <2>9. CASE StartJob
        <3>1. /\ job' = [job EXCEPT ![doc_cmd] = "embed"] /\ doc_cmd \in Files
              /\ UNCHANGED <<todo, doc_q>>
            BY <2>9 DEF StartJob, requestVars
        <3>2. job[f] # "none" \/ doc_cmd = f => job'[f] # "none"
            BY <1>q, <2>1, <3>1
        <3> QED BY <2>3, <3>1, <3>2 DEF Waiting, Queued
    <2>10. CASE FlushDone
        <3>1. doc_cmd # f /\ UNCHANGED <<todo, doc_q, job>>
            BY <2>1, <2>10 DEF FlushDone, requestVars, workVars
        <3> QED BY <2>3, <3>1 DEF Waiting, Queued
    <2>11. ASSUME NEW g \in Files,
                  Embed(g) \/ EmbedFails(g) \/ PutNodes(g) \/ Release(g) \/ JobDone(g)
           PROVE  Kept
        <3>1. UNCHANGED <<todo, doc_q, doc_cmd>> /\ (job[f] # "none" => job'[f] # "none")
            BY <1>q, <2>1, <2>4, <2>11
            DEF Embed, EmbedFails, PutNodes, Release, JobDone, requestVars, docVars
        <3> QED BY <2>3, <3>1 DEF Waiting, Queued
    <2>12. CASE UNCHANGED <<todo, docVars, doc_semaphore, job>>
        BY <2>3, <2>12 DEF Waiting, Queued, docVars
    <2> QED BY <2>5, <2>6, <2>7, <2>8, <2>9, <2>10, <2>11, <2>12, DocSide
<1> QED BY <1>j, <1>r DEF NothingLost

\* The conditional invariant holds in every reachable state.
LEMMA DurableInvariant == Spec => [](FlushInv /\ DurableInv)
<1>1. Init => DurableInv
    <2> SUFFICES ASSUME Init PROVE SaveInv /\ NothingLost
        BY DEF DurableInv
    <2>1. SaveInv
        BY DEF Init, SaveInv
    <2>2. NothingLost
        BY DEF Init, NothingLost
    <2> QED BY <2>1, <2>2
<1>2. FlushInv /\ DurableInv /\ [Next]_vars => DurableInv'
    <2> SUFFICES ASSUME TypeOK, DurableInv, [Next]_vars, NoDeletes' PROVE SaveInv' /\ NothingLost'
        BY DEF FlushInv, DurableInv
    <2>1. SaveInv /\ NothingLost
        BY StoreSide DEF DurableInv
    <2> QED BY <2>1, SaveStep, LostStep
<1> QED BY <1>1, <1>2, FlushInvariant, PTL DEF Spec

\* Up to the first delete call, each file of a request that returned is in the
\* index and persisted, or a log entry names it or its embedding raised; and what
\* is persisted can be read, but while the writer writes and after a logged failure.
THEOREM ReturnedAlwaysDurable == Spec => []ReturnedAreDurable
<1>1. FlushInv /\ DurableInv => ReturnedAreDurable
    <2> SUFFICES ASSUME FlushInv, SaveInv, NothingLost
                 PROVE  /\ \A r \in Requests : pc[r] = "returned" =>
                              FilesOf[r] \subseteq (disk \cap index) \cup logged \cup async_error
                        /\ torn => writer = "write" \/ logged # {}
        BY DEF DurableInv, ReturnedAreDurable
    <2>1. ASSUME NEW r \in Requests, pc[r] = "returned", NEW f \in FilesOf[r]
          PROVE  f \in (disk \cap index) \cup logged \cup async_error
        <3>1. todo[r] = {} /\ ~InFlight(f)
            BY <2>1 DEF FlushInv, Flushing
        <3>2. f \in todo[r] \/ Waiting(f) \/ Passed(f)
            BY <2>1 DEF NothingLost
        <3> QED BY <3>1, <3>2 DEF InFlight, Passed, Settled, SaveInv
    <2> QED BY <2>1 DEF SaveInv
<1> QED BY <1>1, DurableInvariant, PTL

-----------------------------------------------------------------------------
(* The contract.                                                           *)

\* The steps the contract tells apart from a stutter.
LEMMA ContractSide ==
    ASSUME TypeOK, [Next]_vars, NoDeletes'
    PROVE  \/ \E r \in Requests, f \in Files : TransformFails(r, f)
           \/ \E r \in Requests : JoinNodes(r)
           \/ \E f \in Files : EmbedFails(f)
           \/ Snapshot
           \/ Write
           \/ SaveFails
           \/ /\ UNCHANGED <<disk, torn, logged, async_error>>
              /\ \A r \in Requests : pc'[r] = "returned" <=> pc[r] = "returned"
<1> DEFINE Stutter == /\ UNCHANGED <<disk, torn, logged, async_error>>
                      /\ \A r \in Requests : pc'[r] = "returned" <=> pc[r] = "returned"
<1> USE DEF TypeOK, requestVars, docVars, workVars, nodeVars, writerVars, storeVars, deleteVars
<1>1. ASSUME NEW r \in Requests, NEW f \in Files, SubmitFile(r, f) PROVE Stutter
    BY <1>1 DEF SubmitFile
<1>2. ASSUME NEW r \in Requests, FlushDocs(r) \/ JoinDocs(r) \/ FlushNodes(r) PROVE Stutter
    BY <1>2 DEF FlushDocs, JoinDocs, FlushNodes
<1>3. ASSUME DocToNode PROVE Stutter
    BY <1>3 DEF DocToNode, GetDoc, StartJob, FlushDone
<1>4. ASSUME NEW f \in Files, Embed(f) \/ PutNodes(f) \/ Release(f) \/ JobDone(f) PROVE Stutter
    BY <1>4 DEF Embed, PutNodes, Release, JobDone
<1>5. CASE GetFlush \/ GetNodes \/ Insert \/ Clear \/ NodeDone
    BY <1>5 DEF GetFlush, GetNodes, Insert, Clear, NodeDone
<1>6. ASSUME NEW d \in Deleters, RequestDelete(d) \/ Delete(d) PROVE Stutter
    <2>1. del_pc'[d] # "idle"
        BY <1>6 DEF RequestDelete, Delete, AcquireLock, DeleteRefDoc, DeleteSnapshot,
            DeleteWrite, DeleteFails
    <2> QED BY <2>1 DEF NoDeletes
<1>7. CASE Quiescent \/ UNCHANGED vars
    BY <1>7 DEF Quiescent, vars
<1> QED BY <1>1, <1>2, <1>3, <1>4, <1>5, <1>6, <1>7 DEF Next, Request, Worker, WriteNodes

\* Each of them is the step of the contract it stands for.  A persist that raises
\* cuts no file short that its opening has not: only the discarded files are new.
LEMMA ContractStep ==
    ASSUME FlushInv, DurableInv, DurableInv', [Next]_vars, NoDeletes'
    PROVE  [Contract!Next]_(Contract!vars)
<1> DEFINE Returned == {r \in Requests : pc[r] = "returned"}
<1>t. TypeOK /\ SaveInv /\ NoDeletes
    BY StoreSide DEF FlushInv, DurableInv
<1>d. ASSUME disk' = disk, torn' = torn, Returned' = Returned,
             \E lost \in SUBSET Files :
                 logged' \cup async_error' = (logged \cup async_error) \cup lost
      PROVE  Contract!Discard
    BY <1>d DEF Contract!Discard
<1>1. ASSUME NEW r \in Requests, NEW f \in Files, TransformFails(r, f)
      PROVE  [Contract!Next]_(Contract!vars)
    <2>1. /\ UNCHANGED <<disk, torn, async_error>>
          /\ logged' = logged \/ logged' = logged \cup {f}
          /\ Returned' = Returned
        BY <1>1, <1>t DEF TransformFails, storeVars, workVars, TypeOK
    <2>2. {} \in SUBSET Files /\ {f} \in SUBSET Files
        OBVIOUS
    <2>3. \E lost \in SUBSET Files :
              logged' \cup async_error' = (logged \cup async_error) \cup lost
        BY <2>1, <2>2
    <2> QED BY <2>1, <2>3, <1>d DEF Contract!Next
<1>2. ASSUME NEW r \in Requests, JoinNodes(r)
      PROVE  Contract!IngestReturns(r)
    <2>1. /\ UNCHANGED <<disk, torn, logged, async_error>>
          /\ pc' = [pc EXCEPT ![r] = "returned"]
        BY <1>2 DEF JoinNodes, storeVars, workVars
    <2>2. Returned' = Returned \cup {r}
        BY <2>1, <1>t DEF TypeOK
    <2>3. FilesOf[r] \subseteq disk \cup (logged \cup async_error) \cup {}
        <3> SUFFICES ASSUME NEW f \in FilesOf[r] PROVE f \in disk \cup logged \cup async_error
            OBVIOUS
        <3>1. pc'[r] = "returned"
            BY <2>1, <1>t DEF TypeOK
        <3>2. todo'[r] = {} /\ ~InFlight(f)'
            BY <3>1, FlushStep DEF FlushInv, Flushing
        <3>3. NothingLost'
            BY DEF DurableInv
        <3>4. f \in todo'[r] \/ Waiting(f)' \/ Passed(f)'
            BY <3>1, <3>3 DEF NothingLost
        <3>5. f \in (disk \cup logged \cup async_error)'
            BY <3>2, <3>4 DEF InFlight, Passed, Settled
        <3> QED BY <2>1, <3>5
    <2> QED BY <2>1, <2>2, <2>3 DEF Contract!IngestReturns
<1>3. ASSUME NEW f \in Files, EmbedFails(f)
      PROVE  Contract!Discard
    BY <1>3, <1>d DEF EmbedFails, requestVars, storeVars
<1>4. ASSUME Snapshot
      PROVE  Contract!Tear
    <2>1. torn' = TRUE /\ UNCHANGED <<disk, pc, logged, async_error>>
        BY <1>4 DEF Snapshot, Open, requestVars, workVars
    <2>2. Returned' = Returned
        BY <2>1
    <2> QED BY <2>1, <2>2 DEF Contract!Tear
<1>5. ASSUME Write
      PROVE  Contract!Persist
    <2>1. /\ disk' = snapshot[Writer] /\ disk \subseteq snapshot[Writer]
          /\ snapshot[Writer] \subseteq Files
          /\ torn' = FALSE
          /\ UNCHANGED <<pc, logged, async_error>>
        BY <1>5, <1>t DEF Write, WriteOut, SaveInv, TypeOK, requestVars, workVars
    <2>2. Returned' = Returned
        BY <2>1
    <2>3. /\ snapshot[Writer] \in SUBSET Files /\ {} \in SUBSET Files
          /\ snapshot[Writer] \cap ({} \cup {} \cup {}) = {}
          /\ disk' = (disk \cup snapshot[Writer]) \ {}
        BY <2>1
    <2> QED BY <2>1, <2>2, <2>3 DEF Contract!Persist
<1>6. ASSUME SaveFails
      PROVE  Contract!Discard
    <2>1. /\ disk' = disk /\ logged' = logged \cup file_stack /\ file_stack \in SUBSET Files
          /\ UNCHANGED <<pc, async_error>>
        BY <1>6, <1>t
        DEF SaveFails, InsertFails, PersistFails, TypeOK, requestVars, workVars
    <2>2. torn' = torn
        BY <1>6, <1>t
        DEF SaveFails, InsertFails, PersistFails, TypeOK, Opened, NoDeletes, SaveInv, Writer
    <2>3. logged' \cup async_error' = (logged \cup async_error) \cup file_stack
          /\ Returned' = Returned
        BY <2>1
    <2> QED BY <2>1, <2>2, <2>3, <1>d
<1>7. CASE /\ UNCHANGED <<disk, torn, logged, async_error>>
           /\ \A r \in Requests : pc'[r] = "returned" <=> pc[r] = "returned"
    <2>1. Returned' = Returned
        BY <1>7
    <2> QED BY <2>1, <1>7 DEF Contract!vars
<1> HIDE DEF Returned
<1>8. Contract!Discard \/ Contract!Persist \/ Contract!Tear => Contract!Next
    BY DEF Contract!Next
<1> QED BY <1>1, <1>2, <1>3, <1>4, <1>5, <1>6, <1>7, <1>8, <1>t, ContractSide DEF Contract!Next

\* Up to the first delete call the pipeline keeps the promise of an ingestion
\* component, for any number of requests and any sizes of the queues, the pool and
\* the flush threshold.
THEOREM PipelineImplementsContract == Spec => ImplementsContract
<1>1. Init => Contract!Init
    BY DEF Init, Contract!Init
<1>2. FlushInv /\ DurableInv /\ FlushInv' /\ DurableInv' /\ [Next]_vars
      => [NoDeletes' => Contract!Next]_(Contract!vars)
    BY ContractStep
<1> QED BY <1>1, <1>2, DurableInvariant, PTL DEF Spec, ImplementsContract

\* Where nobody ever deletes, the contract holds without a condition.
COROLLARY PipelineKeepsContract ==
    ASSUME Deleters = {}
    PROVE  Spec => Contract!Spec
<1>1. Init => Contract!Init
    BY DEF Init, Contract!Init
<1>2. FlushInv /\ DurableInv /\ DurableInv' /\ [Next]_vars => [Contract!Next]_(Contract!vars)
    BY ContractStep DEF NoDeletes
<1> QED BY <1>1, <1>2, DurableInvariant, PTL DEF Spec, Contract!Spec
=============================================================================
