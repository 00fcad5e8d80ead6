--------------------------- MODULE IngestPipeline ---------------------------
(***************************************************************************)
(* PipelineIngestComponent of                                              *)
(* src/production_rag/components/ingest/ingest_component.py.               *)
(*                                                                         *)
(* Request threads parse files and put them in the bounded queue doc_q.    *)
(* The thread _doc_to_node takes them out and, under a semaphore, gives    *)
(* them to a pool of workers that compute the embeddings and put the nodes *)
(* in the bounded queue node_q.  The thread _write_nodes accumulates the   *)
(* nodes and saves the index when enough of them are there or when a flush *)
(* command arrives.  A request ends with _flush: put a flush in doc_q,     *)
(* join doc_q, put a flush in node_q, join node_q.  Delete requests work   *)
(* on the same index under _index_thread_lock, which the writer does not   *)
(* take.                                                                   *)
(*                                                                         *)
(* A queue.Queue is its contents and its count of unfinished tasks: put    *)
(* adds one, task_done takes one away, join waits for zero.  A "process"   *)
(* command is the file it carries; Flush is the other command.  (Nothing   *)
(* in the repository sends "quit".)                                        *)
(***************************************************************************)
EXTENDS Integers, Sequences, FiniteSets

CONSTANTS
    Files,           \* the files of all requests
    Requests,        \* the ingest and bulk_ingest calls
    Bulk,            \* those of them that are bulk_ingest calls
    FilesOf,         \* FilesOf[r]: the files request r submits
    Deleters,        \* the delete calls
    CountWorkers,    \* count_workers
    DocQSize,        \* capacity of doc_q: 20
    NodeQSize,       \* capacity of node_q: 40
    NodeFlushCount,  \* NODE_FLUSH_COUNT: 5000
    NodesOf,         \* NodesOf[f]: how many nodes file f is split into
    Flush,           \* the flush command
    None             \* no file, nobody

ASSUME FilesAssumption ==
    /\ Bulk \subseteq Requests
    /\ FilesOf \in [Requests -> SUBSET Files]
    /\ \A r, s \in Requests : r # s => FilesOf[r] \cap FilesOf[s] = {}
    /\ NodesOf \in [Files -> Nat]

ASSUME SizesAssumption ==
    /\ CountWorkers \in Nat \ {0}
    /\ DocQSize \in Nat \ {0}
    /\ NodeQSize \in Nat \ {0}
    /\ NodeFlushCount \in Nat \ {0}

ASSUME NamesAssumption ==
    /\ Flush \notin Files
    /\ None \notin Files \cup {Flush} \cup Deleters

VARIABLES
    pc, todo,                   \* the request threads and what they still submit
    doc_q, doc_unfinished,      \* the queue of parsed files
    doc_cmd,                    \* the command _doc_to_node works on
    doc_semaphore,
    job,                        \* the workers: where the job of a file stands
    async_error,                \* files whose AsyncResult holds an exception
    node_q, node_unfinished,    \* the queue of embedded files
    writer,                     \* where _write_nodes stands
    file_stack, node_count,     \* its file_stack and len(node_stack)
    index,                      \* the files of the index, in memory
    snapshot,                   \* what a persist is about to write, per thread
    disk,                       \* what the last complete persist wrote
    torn,                       \* the files it wrote to cannot be read
    overlapped,                 \* who persists beside somebody else
    logged,                     \* the files an error log entry names
    del_pc, del_file,           \* the delete calls
    lock                        \* who holds _index_thread_lock

requestVars == <<pc, todo>>
docVars     == <<doc_q, doc_unfinished, doc_cmd>>
workVars    == <<doc_semaphore, job, async_error>>
nodeVars    == <<node_q, node_unfinished>>
writerVars  == <<writer, file_stack, node_count>>
storeVars   == <<index, snapshot, disk, torn, overlapped>>
deleteVars  == <<del_pc, del_file, lock>>

vars == <<requestVars, docVars, workVars, nodeVars, writerVars, storeVars,
          logged, deleteVars>>

Command == Files \cup {Flush}

\* The thread that runs _write_nodes, among those that persist the index.
Writer == None
Persisters == Deleters \cup {Writer}

\* A job holds its semaphore permit until it releases it.
Holding == {f \in Files : job[f] \in {"embed", "put", "release"}}
Working == {f \in Files : job[f] # "none"}
Saving  == {"insert", "snapshot", "write", "clear"}

TypeOK ==
    /\ pc \in [Requests -> {"submit", "join_doc", "flush_nodes", "join_nodes",
                            "returned", "raised"}]
    /\ todo \in [Requests -> SUBSET Files]
    /\ doc_q \in Seq(Command)
    /\ doc_unfinished \in Nat
    /\ doc_cmd \in Command \cup {None}
    /\ doc_semaphore \in 0 .. CountWorkers
    /\ job \in [Files -> {"none", "embed", "put", "release", "task_done"}]
    /\ async_error \subseteq Files
    /\ node_q \in Seq(Command)
    /\ node_unfinished \in Nat
    /\ writer \in {"get", "task_done"} \cup Saving
    /\ file_stack \subseteq Files
    /\ node_count \in Nat
    /\ index \subseteq Files
    /\ snapshot \in [Persisters -> SUBSET Files]
    /\ disk \subseteq Files
    /\ torn \in BOOLEAN
    /\ overlapped \subseteq Persisters
    /\ logged \subseteq Files
    /\ del_pc \in [Deleters -> {"idle", "acquire", "delete", "snapshot",
                                "write", "returned", "raised"}]
    /\ del_file \in [Deleters -> Files \cup {None}]
    /\ lock \in Deleters \cup {None}

Init ==
    /\ pc = [r \in Requests |-> "submit"]
    /\ todo = FilesOf
    /\ doc_q = <<>>
    /\ doc_unfinished = 0
    /\ doc_cmd = None
    /\ doc_semaphore = CountWorkers
    /\ job = [f \in Files |-> "none"]
    /\ async_error = {}
    /\ node_q = <<>>
    /\ node_unfinished = 0
    /\ writer = "get"
    /\ file_stack = {}
    /\ node_count = 0
    /\ index = {}
    /\ snapshot = [p \in Persisters |-> {}]
    /\ disk = {}
    /\ torn = FALSE
    /\ overlapped = {}
    /\ logged = {}
    /\ del_pc = [d \in Deleters |-> "idle"]
    /\ del_file = [d \in Deleters |-> None]
    /\ lock = None

-----------------------------------------------------------------------------
(* ingest, bulk_ingest and _flush, in the thread of the request.           *)

PutDoc(cmd) ==
    /\ Len(doc_q) < DocQSize
    /\ doc_q' = Append(doc_q, cmd)
    /\ doc_unfinished' = doc_unfinished + 1
    /\ UNCHANGED doc_cmd

\* transform_file_into_documents succeeds and the documents go to the workers.
SubmitFile(r, f) ==
    /\ pc[r] = "submit"
    /\ f \in todo[r]
    /\ PutDoc(f)
    /\ todo' = [todo EXCEPT ![r] = @ \ {f}]
    /\ UNCHANGED <<pc, workVars, nodeVars, writerVars, storeVars, logged, deleteVars>>

\* transform_file_into_documents raises: bulk_ingest logs it and goes on,
\* ingest lets the exception out.
TransformFails(r, f) ==
    /\ pc[r] = "submit"
    /\ f \in todo[r]
    /\ todo' = [todo EXCEPT ![r] = @ \ {f}]
    /\ IF r \in Bulk
       THEN logged' = logged \cup {f} /\ UNCHANGED pc
       ELSE pc' = [pc EXCEPT ![r] = "raised"] /\ UNCHANGED logged
    /\ UNCHANGED <<docVars, workVars, nodeVars, writerVars, storeVars, deleteVars>>

FlushDocs(r) ==
    /\ pc[r] = "submit"
    /\ todo[r] = {}
    /\ PutDoc(Flush)
    /\ pc' = [pc EXCEPT ![r] = "join_doc"]
    /\ UNCHANGED <<todo, workVars, nodeVars, writerVars, storeVars, logged, deleteVars>>

\* Mutant: _flush does not join doc_q.
NoJoinDocs(r) ==
    /\ pc[r] = "join_doc"
    /\ pc' = [pc EXCEPT ![r] = "flush_nodes"]
    /\ UNCHANGED <<todo, docVars, workVars, nodeVars, writerVars, storeVars,
                   logged, deleteVars>>

JoinDocs(r) ==
    /\ pc[r] = "join_doc"
    /\ doc_unfinished = 0
    /\ pc' = [pc EXCEPT ![r] = "flush_nodes"]
    /\ UNCHANGED <<todo, docVars, workVars, nodeVars, writerVars, storeVars,
                   logged, deleteVars>>

PutNode(cmd) ==
    /\ Len(node_q) < NodeQSize
    /\ node_q' = Append(node_q, cmd)
    /\ node_unfinished' = node_unfinished + 1

FlushNodes(r) ==
    /\ pc[r] = "flush_nodes"
    /\ PutNode(Flush)
    /\ pc' = [pc EXCEPT ![r] = "join_nodes"]
    /\ UNCHANGED <<todo, docVars, workVars, writerVars, storeVars, logged, deleteVars>>

\* Mutant: _flush does not join node_q.
NoJoinNodes(r) ==
    /\ pc[r] = "join_nodes"
    /\ pc' = [pc EXCEPT ![r] = "returned"]
    /\ UNCHANGED <<todo, docVars, workVars, nodeVars, writerVars, storeVars,
                   logged, deleteVars>>

JoinNodes(r) ==
    /\ pc[r] = "join_nodes"
    /\ node_unfinished = 0
    /\ pc' = [pc EXCEPT ![r] = "returned"]
    /\ UNCHANGED <<todo, docVars, workVars, nodeVars, writerVars, storeVars,
                   logged, deleteVars>>

-----------------------------------------------------------------------------
(* _doc_to_node: one thread between doc_q and the pool of workers.         *)

GetDoc ==
    /\ doc_cmd = None
    /\ doc_q # <<>>
    /\ doc_cmd' = Head(doc_q)
    /\ doc_q' = Tail(doc_q)
    /\ UNCHANGED <<requestVars, doc_unfinished, workVars, nodeVars, writerVars,
                   storeVars, logged, deleteVars>>

\* Mutant: the finally clause of _doc_to_node calls task_done for every command.
StartJobAndTaskDone ==
    /\ doc_cmd \in Files
    /\ doc_semaphore > 0
    /\ doc_semaphore' = doc_semaphore - 1
    /\ job' = [job EXCEPT ![doc_cmd] = "embed"]
    /\ doc_cmd' = None
    /\ doc_unfinished' = doc_unfinished - 1
    /\ UNCHANGED <<requestVars, doc_q, async_error, nodeVars, writerVars,
                   storeVars, logged, deleteVars>>

\* doc_semaphore.acquire, then apply_async, which does not wait.
StartJob ==
    /\ doc_cmd \in Files
    /\ doc_semaphore > 0
    /\ doc_semaphore' = doc_semaphore - 1
    /\ job' = [job EXCEPT ![doc_cmd] = "embed"]
    /\ doc_cmd' = None
    /\ UNCHANGED <<requestVars, doc_q, doc_unfinished, async_error, nodeVars,
                   writerVars, storeVars, logged, deleteVars>>

FlushDone ==
    /\ doc_cmd = Flush
    /\ doc_unfinished' = doc_unfinished - 1
    /\ doc_cmd' = None
    /\ UNCHANGED <<requestVars, doc_q, workVars, nodeVars, writerVars, storeVars,
                   logged, deleteVars>>

-----------------------------------------------------------------------------
(* _doc_to_node_worker: the job of a file, on a thread of the pool.        *)

Embed(f) ==
    /\ job[f] = "embed"
    /\ job' = [job EXCEPT ![f] = "put"]
    /\ UNCHANGED <<requestVars, docVars, doc_semaphore, async_error, nodeVars,
                   writerVars, storeVars, logged, deleteVars>>

\* Mutant: the worker has no finally clause.
EmbedFailsNoFinally(f) ==
    /\ job[f] = "embed"
    /\ job' = [job EXCEPT ![f] = "none"]
    /\ async_error' = async_error \cup {f}
    /\ UNCHANGED <<requestVars, docVars, doc_semaphore, nodeVars, writerVars,
                   storeVars, logged, deleteVars>>

\* run_transformations raises: the finally clause runs, and the exception
\* stays in an AsyncResult nobody looks at.
EmbedFails(f) ==
    /\ job[f] = "embed"
    /\ job' = [job EXCEPT ![f] = "release"]
    /\ async_error' = async_error \cup {f}
    /\ UNCHANGED <<requestVars, docVars, doc_semaphore, nodeVars, writerVars,
                   storeVars, logged, deleteVars>>

PutNodes(f) ==
    /\ job[f] = "put"
    /\ PutNode(f)
    /\ job' = [job EXCEPT ![f] = "release"]
    /\ UNCHANGED <<requestVars, docVars, doc_semaphore, async_error, writerVars,
                   storeVars, logged, deleteVars>>

\* Mutant: the semaphore is not released.
NoRelease(f) ==
    /\ job[f] = "release"
    /\ job' = [job EXCEPT ![f] = "task_done"]
    /\ UNCHANGED <<requestVars, docVars, doc_semaphore, async_error, nodeVars,
                   writerVars, storeVars, logged, deleteVars>>

Release(f) ==
    /\ job[f] = "release"
    /\ job' = [job EXCEPT ![f] = "task_done"]
    /\ doc_semaphore' = doc_semaphore + 1
    /\ UNCHANGED <<requestVars, docVars, async_error, nodeVars, writerVars,
                   storeVars, logged, deleteVars>>

JobDone(f) ==
    /\ job[f] = "task_done"
    /\ job' = [job EXCEPT ![f] = "none"]
    /\ doc_unfinished' = doc_unfinished - 1
    /\ UNCHANGED <<requestVars, doc_q, doc_cmd, doc_semaphore, async_error,
                   nodeVars, writerVars, storeVars, logged, deleteVars>>

-----------------------------------------------------------------------------
(* persist, called by the writer and by delete: it opens the files of the  *)
(* index, which cuts them short, serialises the index and writes.  It is   *)
(* not atomic: where two of them overlap, each writes from the start of    *)
(* the same files, and the shorter one may leave a tail of the other.      *)

Opened == {d \in Deleters : del_pc[d] = "write"}
              \cup (IF writer = "write" THEN {Writer} ELSE {})

Open(p) ==
    /\ torn' = TRUE
    /\ snapshot' = [snapshot EXCEPT ![p] = index]
    /\ overlapped' = IF Opened = {} THEN overlapped
                     ELSE overlapped \cup Opened \cup {p}
    /\ UNCHANGED <<index, disk>>

PersistEnds(p) ==
    /\ snapshot' = [snapshot EXCEPT ![p] = {}]
    /\ overlapped' = overlapped \ {p}

WriteOut(p) ==
    /\ disk' = snapshot[p]
    /\ torn' \in IF p \in overlapped THEN BOOLEAN ELSE {FALSE}
    /\ PersistEnds(p)
    /\ UNCHANGED index

\* It raises: files it has opened stay cut short.
PersistFails(p) ==
    /\ torn' = (torn \/ p \in Opened)
    /\ PersistEnds(p)
    /\ UNCHANGED <<index, disk>>

-----------------------------------------------------------------------------
(* _write_nodes and _save_docs: one thread between node_q and the index.   *)

GetFlush ==
    /\ writer = "get"
    /\ node_q # <<>>
    /\ Head(node_q) = Flush
    /\ node_q' = Tail(node_q)
    /\ writer' = IF file_stack # {} THEN "insert" ELSE "task_done"
    /\ UNCHANGED <<requestVars, docVars, workVars, node_unfinished, file_stack,
                   node_count, storeVars, logged, deleteVars>>

GetNodes ==
    /\ writer = "get"
    /\ node_q # <<>>
    /\ Head(node_q) # Flush
    /\ node_q' = Tail(node_q)
    /\ file_stack' = file_stack \cup {Head(node_q)}
    /\ node_count' = node_count + NodesOf[Head(node_q)]
    /\ writer' = IF node_count' >= NodeFlushCount THEN "insert" ELSE "task_done"
    /\ UNCHANGED <<requestVars, docVars, workVars, node_unfinished, storeVars,
                   logged, deleteVars>>

\* Mutant: _save_docs does not persist.
InsertOnly ==
    /\ writer = "insert"
    /\ writer' = "clear"
    /\ index' = index \cup file_stack
    /\ UNCHANGED <<requestVars, docVars, workVars, nodeVars, file_stack, node_count,
                   snapshot, disk, torn, overlapped, logged, deleteVars>>

\* insert_nodes and the document hashes, which change the index in memory.
Insert ==
    /\ writer = "insert"
    /\ writer' = "snapshot"
    /\ index' = index \cup file_stack
    /\ UNCHANGED <<requestVars, docVars, workVars, nodeVars, file_stack, node_count,
                   snapshot, disk, torn, overlapped, logged, deleteVars>>

Snapshot ==
    /\ writer = "snapshot"
    /\ writer' = "write"
    /\ Open(Writer)
    /\ UNCHANGED <<requestVars, docVars, workVars, nodeVars, file_stack, node_count,
                   logged, deleteVars>>

Write ==
    /\ writer = "write"
    /\ writer' = "clear"
    /\ WriteOut(Writer)
    /\ UNCHANGED <<requestVars, docVars, workVars, nodeVars, file_stack, node_count,
                   logged, deleteVars>>

\* An insertion that raises may have inserted some of the files.
InsertFails ==
    /\ \E some \in SUBSET file_stack : index' = index \cup some
    /\ UNCHANGED <<snapshot, disk, torn, overlapped>>

\* Any of the three raises: the files are logged.
SaveFails ==
    /\ \/ writer = "insert" /\ InsertFails
       \/ writer \in {"snapshot", "write"} /\ PersistFails(Writer)
    /\ writer' = "clear"
    /\ logged' = logged \cup file_stack
    /\ UNCHANGED <<requestVars, docVars, workVars, nodeVars, file_stack, node_count,
                   deleteVars>>

\* Mutant: the node stack is not cleared.
ClearFilesOnly ==
    /\ writer = "clear"
    /\ writer' = "task_done"
    /\ file_stack' = {}
    /\ UNCHANGED <<requestVars, docVars, workVars, nodeVars, node_count, storeVars,
                   logged, deleteVars>>

Clear ==
    /\ writer = "clear"
    /\ writer' = "task_done"
    /\ file_stack' = {}
    /\ node_count' = 0
    /\ UNCHANGED <<requestVars, docVars, workVars, nodeVars, storeVars, logged,
                   deleteVars>>

NodeDone ==
    /\ writer = "task_done"
    /\ writer' = "get"
    /\ node_unfinished' = node_unfinished - 1
    /\ UNCHANGED <<requestVars, docVars, workVars, node_q, file_stack, node_count,
                   storeVars, logged, deleteVars>>

-----------------------------------------------------------------------------
(* delete: with _index_thread_lock, remove the file and persist.           *)

\* Callers take the ids they delete from what the index lists.
RequestDelete(d) ==
    /\ del_pc[d] = "idle"
    /\ \E f \in index : del_file' = [del_file EXCEPT ![d] = f]
    /\ del_pc' = [del_pc EXCEPT ![d] = "acquire"]
    /\ UNCHANGED <<requestVars, docVars, workVars, nodeVars, writerVars, storeVars,
                   logged, lock>>

AcquireLock(d) ==
    /\ del_pc[d] = "acquire"
    /\ lock = None
    /\ lock' = d
    /\ del_pc' = [del_pc EXCEPT ![d] = "delete"]
    /\ UNCHANGED <<requestVars, docVars, workVars, nodeVars, writerVars, storeVars,
                   logged, del_file>>

DeleteRefDoc(d) ==
    /\ del_pc[d] = "delete"
    /\ index' = index \ {del_file[d]}
    /\ del_pc' = [del_pc EXCEPT ![d] = "snapshot"]
    /\ UNCHANGED <<requestVars, docVars, workVars, nodeVars, writerVars, snapshot,
                   disk, torn, overlapped, logged, del_file, lock>>

DeleteSnapshot(d) ==
    /\ del_pc[d] = "snapshot"
    /\ Open(d)
    /\ del_pc' = [del_pc EXCEPT ![d] = "write"]
    /\ UNCHANGED <<requestVars, docVars, workVars, nodeVars, writerVars, logged,
                   del_file, lock>>

DeleteWrite(d) ==
    /\ del_pc[d] = "write"
    /\ WriteOut(d)
    /\ lock' = None
    /\ del_pc' = [del_pc EXCEPT ![d] = "returned"]
    /\ UNCHANGED <<requestVars, docVars, workVars, nodeVars, writerVars, logged,
                   del_file>>

\* delete_ref_doc raises, before or after the file has left the index.
DeleteRefDocFails(d) ==
    /\ index' \in {index, index \ {del_file[d]}}
    /\ UNCHANGED <<snapshot, disk, torn, overlapped>>

\* It or persist raises; the with statement releases the lock.
DeleteFails(d) ==
    /\ \/ del_pc[d] = "delete" /\ DeleteRefDocFails(d)
       \/ del_pc[d] \in {"snapshot", "write"} /\ PersistFails(d)
    /\ lock' = None
    /\ del_pc' = [del_pc EXCEPT ![d] = "raised"]
    /\ UNCHANGED <<requestVars, docVars, workVars, nodeVars, writerVars, logged,
                   del_file>>

-----------------------------------------------------------------------------

Request(r) ==
    \/ \E f \in Files : SubmitFile(r, f) \/ TransformFails(r, f)
    \/ FlushDocs(r)
    \/ JoinDocs(r)
    \/ FlushNodes(r)
    \/ JoinNodes(r)

DocToNode == GetDoc \/ StartJob \/ FlushDone

Worker(f) ==
    \/ Embed(f)
    \/ EmbedFails(f)
    \/ PutNodes(f)
    \/ Release(f)
    \/ JobDone(f)

WriteNodes ==
    \/ GetFlush
    \/ GetNodes
    \/ Insert
    \/ Snapshot
    \/ Write
    \/ SaveFails
    \/ Clear
    \/ NodeDone

Delete(d) ==
    \/ AcquireLock(d)
    \/ DeleteRefDoc(d)
    \/ DeleteSnapshot(d)
    \/ DeleteWrite(d)
    \/ DeleteFails(d)

Ended(r) == pc[r] \in {"returned", "raised"}

\* Every call has ended and the threads wait for the next one.
Quiescent ==
    /\ \A r \in Requests : Ended(r)
    /\ \A d \in Deleters : del_pc[d] \in {"idle", "returned", "raised"}
    /\ UNCHANGED vars

Next ==
    \/ \E r \in Requests : Request(r)
    \/ DocToNode
    \/ \E f \in Files : Worker(f)
    \/ WriteNodes
    \/ \E d \in Deleters : RequestDelete(d) \/ Delete(d)
    \/ Quiescent

\* Every thread that can run is eventually run: they are operating system
\* threads, and nothing is asked of the order in which they win a queue.
Fairness ==
    /\ \A r \in Requests : WF_vars(Request(r))
    /\ WF_vars(DocToNode)
    /\ \A f \in Files : WF_vars(Worker(f))
    /\ WF_vars(WriteNodes)
    /\ \A d \in Deleters : WF_vars(Delete(d))

Spec == Init /\ [][Next]_vars
FairSpec == Spec /\ Fairness
-----------------------------------------------------------------------------
(* What the component owes its callers.                                    *)

Queued(q, cmd) == \E i \in 1 .. Len(q) : q[i] = cmd

Waiting(f) ==
    \/ Queued(doc_q, f)
    \/ doc_cmd = f
    \/ job[f] # "none"

InFlight(f) ==
    \/ Waiting(f)
    \/ Queued(node_q, f)
    \/ f \in file_stack

\* Queue.join is only as good as the count it waits for: each queue counts
\* exactly the commands that were put and not fully dealt with, wherever they
\* are (in the queue, in a thread's hands, in a job of the pool).  A count too
\* high hangs every request, one too low lets a request return early or makes
\* task_done raise in the middle of a daemon thread.
TasksAccounted ==
    /\ doc_unfinished = Len(doc_q) + Cardinality(Working)
                          + (IF doc_cmd = None THEN 0 ELSE 1)
    /\ node_unfinished = Len(node_q) + (IF writer = "get" THEN 0 ELSE 1)

\* doc_semaphore plus the jobs that have not released it is count_workers, on
\* the failing path of a job too: no permit is lost, and no more than
\* count_workers files are being embedded or wait to leave the pool.
PermitsAccounted == doc_semaphore + Cardinality(Holding) = CountWorkers

\* _flush: when a request returns, none of its files is in a queue, in a job
\* or in the writer's stacks, whatever the other requests are doing.
ReturnedAreSettled ==
    \A r \in Requests : pc[r] = "returned" =>
        \A f \in FilesOf[r] : f \notin todo[r] /\ ~InFlight(f)

\* The writer never goes back to its queue with a stack that reached
\* NODE_FLUSH_COUNT, nor with nodes it has no file for: the stacks are
\* accumulated and cleared together.
StacksAgree ==
    /\ writer = "get" => node_count < NodeFlushCount
    /\ file_stack = {} => node_count = 0

\* The threads that are not waiting for another one: what they do next, other
\* than raise, can be done.
RequestGoesOn(r) ==
    \/ pc[r] = "submit" /\ Len(doc_q) < DocQSize
    \/ pc[r] = "join_doc" /\ doc_unfinished = 0
    \/ pc[r] = "flush_nodes" /\ Len(node_q) < NodeQSize
    \/ pc[r] = "join_nodes" /\ node_unfinished = 0

DocToNodeGoesOn ==
    \/ doc_cmd = None /\ doc_q # <<>>
    \/ doc_cmd \in Files /\ doc_semaphore > 0
    \/ doc_cmd = Flush

WorkerGoesOn(f) ==
    \/ job[f] \in {"embed", "release", "task_done"}
    \/ job[f] = "put" /\ Len(node_q) < NodeQSize

WriteNodesGoesOn == writer # "get" \/ node_q # <<>>

\* The request threads, _doc_to_node, the pool and _write_nodes wait for one
\* another at two bounded queues, two joins and a semaphore, but never in a
\* circle: as long as a call has not ended, it or one of the daemon threads it
\* waits for goes on, whatever the other requests do.
NobodyIsStuck ==
    \A r \in Requests :
        \/ Ended(r)
        \/ RequestGoesOn(r)
        \/ DocToNodeGoesOn
        \/ \E f \in Files : WorkerGoesOn(f)
        \/ WriteNodesGoesOn

NoDeletes == \A d \in Deleters : del_pc[d] = "idle"

\* Up to the first delete call: when a request returns, each of its files is in
\* the index and in what the last complete persist wrote, whatever was saved
\* since, unless a save that raised has logged it or its embedding raised; and
\* the persisted files cannot be read only while the writer writes them or
\* after a save that raised and was logged.  (_flush, _save_docs.  A file whose
\* embedding raised is lost without a word: DiscardedAreReported.)
ReturnedAreDurable ==
    NoDeletes =>
        /\ \A r \in Requests : pc[r] = "returned" =>
               FilesOf[r] \subseteq (disk \cap index) \cup logged \cup async_error
        /\ torn => writer = "write" \/ logged # {}

\* "Any discarded files will be reported": when a request returns and nobody
\* deletes, each of its files is persisted or an error log entry names it.
DiscardedAreReported ==
    NoDeletes => \A r \in Requests : pc[r] = "returned" =>
        FilesOf[r] \subseteq disk \cup logged

\* "The document will be effectively deleted from your storage context": when a
\* delete call has returned, the persisted index does not hold its file.
DeletedAreGone ==
    \A d \in Deleters : del_pc[d] = "returned" => del_file[d] \notin disk

\* Every ingest call comes to an end: no queue, semaphore or join blocks it for
\* good, whatever fails and whoever else is ingesting.
CallsEnd == \A r \in Requests : <>Ended(r)

\* Up to the first delete call, the pipeline implements the contract of an
\* ingestion component: a save is one update of the persisted index, whose files
\* are cut short from the opening to the end of the write, and for longer if it
\* raises; a logged failure or a failed embedding discards the file, and what the
\* contract allows silently is silent here (_write_nodes, _save_docs, _flush).
Contract == INSTANCE IngestContract WITH
    durable   <- disk,
    readable  <- ~torn,
    discarded <- logged \cup async_error,
    removed   <- {},
    returned  <- {r \in Requests : pc[r] = "returned"},
    deleted   <- {}

ImplementsContract ==
    Contract!Init /\ [][NoDeletes' => Contract!Next]_(Contract!vars)
-----------------------------------------------------------------------------
(* An inductive invariant that implies the properties of _flush.           *)

\* Each file is submitted once, and is at one place on its way to its job.
OnceEach ==
    /\ \A r \in Requests : todo[r] \subseteq FilesOf[r]
    /\ \A r \in Requests : \A f \in todo[r] : ~Waiting(f)
    /\ \A f \in Files : doc_cmd = f \/ job[f] # "none" => ~Queued(doc_q, f)
    /\ doc_cmd \in Files => job[doc_cmd] = "none"
    /\ \A i, j \in 1 .. Len(doc_q) :
          doc_q[i] = doc_q[j] => i = j \/ doc_q[i] = Flush

Counts ==
    /\ IsFiniteSet(Working)
    /\ TasksAccounted
    /\ PermitsAccounted

\* The writer has not met the flush that will save file f.
FlushBehind(f) ==
    /\ \A i \in 1 .. Len(node_q) : node_q[i] = f =>
           \E j \in i + 1 .. Len(node_q) : node_q[j] = Flush
    /\ f \in file_stack => writer \in Saving \/ Queued(node_q, Flush)

Flushing ==
    \A r \in Requests :
        /\ pc[r] \notin {"submit", "raised"} => todo[r] = {}
        /\ \A f \in FilesOf[r] :
              /\ pc[r] \in {"flush_nodes", "join_nodes", "returned"} => ~Waiting(f)
              /\ pc[r] = "join_nodes" => FlushBehind(f)
              /\ pc[r] = "returned" => ~InFlight(f)

FlushInv == TypeOK /\ OnceEach /\ Counts /\ Flushing
=============================================================================
