----------------------------- MODULE IngestIndex -----------------------------
(***************************************************************************)
(* SimpleIngestComponent, BatchIngestComponent and                         *)
(* ParallelizedIngestComponent of                                          *)
(* src/production_rag/components/ingest/ingest_component.py: the ingestion *)
(* strategies that change the index under _index_thread_lock, in the       *)
(* thread of the request.                                                  *)
(*                                                                         *)
(* A request is cut into batches, each saved by one call of _save_docs:    *)
(* one batch per file, one after the other (simple) or all at once         *)
(* (parallel), or one batch of all the files (batch).  A save adds the     *)
(* vectors to the vector store, which keeps them by itself, then the nodes *)
(* to the index in memory, and then persists the index to files.  The      *)
(* process may crash and is restarted on what the files hold.              *)
(*                                                                         *)
(* Left out: the size of the pools, which only forbids some interleavings, *)
(* and the files a ThreadPool skips after a failure in the same chunk      *)
(* (chunks hold one file up to four files per worker).                     *)
(***************************************************************************)
EXTENDS Integers, FiniteSets

CONSTANTS
    Files,       \* the files of all requests
    Requests,    \* the ingest and bulk_ingest calls
    FilesOf,     \* FilesOf[r]: the files request r submits
    Deleters,    \* the delete calls
    Modes,       \* the settings of embedding.ingest_mode considered
    MaxCrashes,  \* bound on the number of crashes
    None         \* no file, nobody

\* What a call of _save_docs may save: the files of a request, or one of them.
AllBatches == UNION {{FilesOf[r]} \cup {{f} : f \in FilesOf[r]} : r \in Requests}

ASSUME IndexAssumption ==
    /\ FilesOf \in [Requests -> (SUBSET Files) \ {{}}]
    /\ \A r, s \in Requests : r # s => FilesOf[r] \cap FilesOf[s] = {}
    /\ Modes \subseteq {"simple", "batch", "parallel"}
    /\ MaxCrashes \in Nat
    /\ None \notin Files \cup Deleters \cup AllBatches
    /\ Deleters \cap AllBatches = {}

VARIABLES
    mode,              \* embedding.ingest_mode, fixed by the settings
    up,                \* the process runs
    crashes,
    pc,                \* pc[r]: how the request stands
    stage,             \* stage[b]: how far the save of batch b is
    del_pc, del_file,  \* the delete calls
    lock,              \* who holds _index_thread_lock: a batch or a delete call
    vectors,           \* the files in the vector store
    index,             \* the files in the index, in memory
    image,             \* image[c]: what the persist of a save or delete c is about to write
    disk,              \* the files the last complete persist wrote
    torn,              \* the persisted files are truncated, not yet rewritten
    removed            \* history: the files persists have dropped

storeVars  == <<vectors, index, image, disk, torn, removed>>
callVars   == <<pc, stage>>
deleteVars == <<del_pc, del_file>>
vars == <<mode, up, crashes, callVars, deleteVars, lock, storeVars>>

\* The batches of a request.
Batches(r) == IF mode = "batch" THEN {FilesOf[r]} ELSE {{f} : f \in FilesOf[r]}

Locked == {"vectors", "nodes", "persist", "write", "release"}
Ended  == {"returned", "raised", "aborted"}

TypeOK ==
    /\ mode \in Modes
    /\ up \in BOOLEAN
    /\ crashes \in 0 .. MaxCrashes
    /\ pc \in [Requests -> {"running"} \cup Ended]
    /\ stage \in [AllBatches -> {"ready", "acquire", "saved", "failed"} \cup Locked]
    /\ del_pc \in [Deleters -> {"idle", "acquire"} \cup Locked \cup Ended]
    /\ del_file \in [Deleters -> Files \cup {None}]
    /\ lock \in AllBatches \cup Deleters \cup {None}
    /\ {vectors, index, disk, removed} \subseteq SUBSET Files
    /\ image \in [AllBatches \cup Deleters -> SUBSET Files]
    /\ torn \in BOOLEAN

Init ==
    /\ mode \in Modes
    /\ up = TRUE
    /\ crashes = 0
    /\ pc = [r \in Requests |-> "running"]
    /\ stage = [b \in AllBatches |-> "ready"]
    /\ del_pc = [d \in Deleters |-> "idle"]
    /\ del_file = [d \in Deleters |-> None]
    /\ lock = None
    /\ vectors = {} /\ index = {} /\ disk = {}
    /\ image = [c \in AllBatches \cup Deleters |-> {}]
    /\ torn = FALSE
    /\ removed = {}

-----------------------------------------------------------------------------
(* ingest, bulk_ingest and _save_docs.                                     *)

Move(b, from, to) ==
    /\ stage[b] = from
    /\ stage' = [stage EXCEPT ![b] = to]
    /\ UNCHANGED <<mode, up, crashes, pc, deleteVars>>

\* A request works on its batches together, or, when simple, one after the
\* other until one fails.
MayStart(r, b) ==
    /\ up
    /\ pc[r] = "running"
    /\ mode = "simple" =>
           \A other \in Batches(r) \ {b} : stage[other] \in {"ready", "saved"}

\* transform_file_into_documents; run_transformations in batch and parallel.
Transform(r, b) ==
    /\ MayStart(r, b)
    /\ Move(b, "ready", "acquire")
    /\ UNCHANGED <<lock, storeVars>>

TransformFails(r, b) ==
    /\ MayStart(r, b)
    /\ Move(b, "ready", "failed")
    /\ UNCHANGED <<lock, storeVars>>

\* Mutant: _save_docs does not take the lock.
AcquireNoLock(b) ==
    /\ Move(b, "acquire", "vectors")
    /\ UNCHANGED <<lock, storeVars>>

Acquire(b) ==
    /\ lock = None
    /\ Move(b, "acquire", "vectors")
    /\ lock' = b
    /\ UNCHANGED storeVars

AddVectors(b) ==
    /\ Move(b, "vectors", "nodes")
    /\ vectors' = vectors \cup b
    /\ UNCHANGED <<lock, index, image, disk, torn, removed>>

\* The nodes in the index and the document store, and the document hashes.
AddNodes(b) ==
    /\ Move(b, "nodes", "persist")
    /\ index' = index \cup b
    /\ UNCHANGED <<lock, vectors, image, disk, torn, removed>>

\* persist opens the files, which empties them, and serialises the index ...
Truncate(c) ==
    /\ torn' = TRUE
    /\ image' = [image EXCEPT ![c] = index]
    /\ UNCHANGED <<lock, vectors, index, disk, removed>>

\* ... then writes them.
WriteOut(c) ==
    /\ torn' = FALSE
    /\ disk' = image[c]
    /\ image' = [image EXCEPT ![c] = {}]
    /\ removed' = removed \cup (disk \ image[c])
    /\ UNCHANGED <<lock, vectors, index>>

\* The with statement ends.
Release ==
    /\ lock' = None
    /\ UNCHANGED storeVars

BeginPersist(b) == Move(b, "persist", "write") /\ Truncate(b)
EndPersist(b) == Move(b, "write", "release") /\ WriteOut(b)
EndSave(b) == Move(b, "release", "saved") /\ Release

\* Mutant: acquire and release without a with statement.
SaveFailsNoRelease(b) ==
    /\ stage[b] \in Locked \ {"release"}
    /\ Move(b, stage[b], "failed")
    /\ UNCHANGED <<lock, storeVars>>

\* Any of the steps raises, the insertions half-way: the lock is released and
\* what was added stays.
SaveFails(b) ==
    /\ stage[b] \in Locked \ {"release"}
    /\ Move(b, stage[b], "failed")
    /\ lock' = None
    /\ \E some \in SUBSET b :
          /\ vectors' = IF stage[b] = "vectors" THEN vectors \cup some ELSE vectors
          /\ index' = IF stage[b] = "nodes" THEN index \cup some ELSE index
    /\ image' = [image EXCEPT ![b] = {}]
    /\ UNCHANGED <<disk, torn, removed>>

\* Mutant: the call returns with its first saved batch.
ReturnEarly(r) ==
    /\ up
    /\ pc[r] = "running"
    /\ \E b \in Batches(r) : stage[b] = "saved"
    /\ pc' = [pc EXCEPT ![r] = "returned"]
    /\ UNCHANGED <<mode, up, crashes, stage, deleteVars, lock, storeVars>>

Return(r) ==
    /\ up
    /\ pc[r] = "running"
    /\ \A b \in Batches(r) : stage[b] = "saved"
    /\ pc' = [pc EXCEPT ![r] = "returned"]
    /\ UNCHANGED <<mode, up, crashes, stage, deleteVars, lock, storeVars>>

\* The exception of a batch leaves the call; starmap lets the others end first.
Raise(r) ==
    /\ up
    /\ pc[r] = "running"
    /\ \E b \in Batches(r) : stage[b] = "failed"
    /\ mode = "parallel" => \A b \in Batches(r) : stage[b] \in {"saved", "failed"}
    /\ pc' = [pc EXCEPT ![r] = "raised"]
    /\ UNCHANGED <<mode, up, crashes, stage, deleteVars, lock, storeVars>>

-----------------------------------------------------------------------------
(* delete.                                                                 *)

MoveDelete(d, from, to) ==
    /\ up
    /\ del_pc[d] = from
    /\ del_pc' = [del_pc EXCEPT ![d] = to]
    /\ UNCHANGED <<mode, up, crashes, callVars>>

\* Callers take the ids they delete from what the index lists.
RequestDelete(d) ==
    /\ MoveDelete(d, "idle", "acquire")
    /\ \E f \in index : del_file' = [del_file EXCEPT ![d] = f]
    /\ UNCHANGED <<lock, storeVars>>

\* Mutant: delete does not take the lock.
AcquireDeleteNoLock(d) ==
    /\ MoveDelete(d, "acquire", "vectors")
    /\ UNCHANGED <<del_file, lock, storeVars>>

AcquireDelete(d) ==
    /\ lock = None
    /\ MoveDelete(d, "acquire", "vectors")
    /\ lock' = d
    /\ UNCHANGED <<del_file, storeVars>>

\* Mutant: only the document store is told.
DeleteNoVectors(d) ==
    /\ MoveDelete(d, "vectors", "nodes")
    /\ UNCHANGED <<del_file, lock, storeVars>>

DeleteVectors(d) ==
    /\ MoveDelete(d, "vectors", "nodes")
    /\ vectors' = vectors \ {del_file[d]}
    /\ UNCHANGED <<del_file, lock, index, image, disk, torn, removed>>

DeleteNodes(d) ==
    /\ MoveDelete(d, "nodes", "persist")
    /\ index' = index \ {del_file[d]}
    /\ UNCHANGED <<del_file, lock, vectors, image, disk, torn, removed>>

BeginPersistDelete(d) ==
    /\ MoveDelete(d, "persist", "write")
    /\ Truncate(d)
    /\ UNCHANGED del_file

EndPersistDelete(d) ==
    /\ MoveDelete(d, "write", "release")
    /\ WriteOut(d)
    /\ UNCHANGED del_file

EndDelete(d) ==
    /\ MoveDelete(d, "release", "returned")
    /\ Release
    /\ UNCHANGED del_file

\* Mutant: acquire and release without a with statement.
DeleteFailsNoRelease(d) ==
    /\ del_pc[d] \in Locked \ {"release"}
    /\ MoveDelete(d, del_pc[d], "raised")
    /\ UNCHANGED <<del_file, lock, storeVars>>

DeleteFails(d) ==
    /\ del_pc[d] \in Locked \ {"release"}
    /\ MoveDelete(d, del_pc[d], "raised")
    /\ lock' = None
    /\ image' = [image EXCEPT ![d] = {}]
    /\ UNCHANGED <<del_file, vectors, index, disk, torn, removed>>

-----------------------------------------------------------------------------
(* Crash and restart: _initialize_index loads what the files hold.  A file *)
(* cut short does not parse, and the process does not come up again.       *)

Begun(r) == \E b \in Batches(r) : stage[b] # "ready"

Crash ==
    /\ up
    /\ crashes < MaxCrashes
    /\ crashes' = crashes + 1
    /\ up' = ~torn
    /\ index' = IF torn THEN {} ELSE disk
    /\ lock' = None
    /\ pc' = [r \in Requests |->
                 IF pc[r] = "running" /\ Begun(r) THEN "aborted" ELSE pc[r]]
    /\ stage' = [b \in AllBatches |->
                    IF stage[b] \in {"acquire"} \cup Locked THEN "failed" ELSE stage[b]]
    /\ del_pc' = [d \in Deleters |->
                     IF del_pc[d] \in {"acquire"} \cup Locked THEN "aborted" ELSE del_pc[d]]
    /\ image' = [c \in AllBatches \cup Deleters |-> {}]
    /\ UNCHANGED <<mode, del_file, vectors, disk, torn, removed>>

-----------------------------------------------------------------------------

Save(b) ==
    /\ up
    /\ \/ Acquire(b)
       \/ AddVectors(b)
       \/ AddNodes(b)
       \/ BeginPersist(b)
       \/ EndPersist(b)
       \/ EndSave(b)
       \/ SaveFails(b)

Request(r) ==
    \/ \E b \in Batches(r) : Transform(r, b) \/ TransformFails(r, b) \/ Save(b)
    \/ Return(r)
    \/ Raise(r)

Delete(d) ==
    \/ AcquireDelete(d)
    \/ DeleteVectors(d)
    \/ DeleteNodes(d)
    \/ BeginPersistDelete(d)
    \/ EndPersistDelete(d)
    \/ EndDelete(d)
    \/ DeleteFails(d)

\* All calls have ended, or the process is down.
Quiescent ==
    /\ up => /\ \A r \in Requests : pc[r] \in Ended
             /\ \A d \in Deleters : del_pc[d] \in {"idle"} \cup Ended
    /\ UNCHANGED vars

Next ==
    \/ \E r \in Requests : Request(r)
    \/ \E d \in Deleters : RequestDelete(d) \/ Delete(d)
    \/ Crash
    \/ Quiescent

\* Request threads that can run are run; the lock is taken in any order.
Fairness ==
    /\ \A r \in Requests : WF_vars(Request(r))
    /\ \A d \in Deleters : WF_vars(Delete(d))

Spec == Init /\ [][Next]_vars
FairSpec == Spec /\ Fairness

-----------------------------------------------------------------------------

\* _index_thread_lock is held by exactly the call that is changing or persisting
\* the index, and by nobody once that call has ended, failed or crashed.
OneAtATime ==
    /\ \A b \in AllBatches : stage[b] \in Locked <=> lock = b
    /\ \A d \in Deleters : del_pc[d] \in Locked <=> lock = d

\* The vector store and the index are two stores and no transaction spans them:
\* while the process runs and nobody holds the lock they differ only on files whose own ingestion or
\* deletion failed or was cut off by a crash.
StoresAgree ==
    up /\ lock = None =>
        \A f \in Files :
            \/ f \in vectors <=> f \in index
            \/ \E b \in AllBatches : f \in b /\ stage[b] = "failed"
            \/ \E d \in Deleters : del_file[d] = f /\ del_pc[d] \in {"raised", "aborted"}

\* A file whose delete call returned is in no store, whatever was being saved,
\* failed half-way or crashed before or after.
DeletedStayDeleted ==
    \A d \in Deleters : del_pc[d] = "returned" =>
        del_file[d] \notin vectors \cup index \cup disk

\* What a request that returned has saved is in the persisted files whenever
\* they can be read, and in the index after any restart, unless a delete call
\* was made for it.
ReturnedSurvive ==
    \A r \in Requests : pc[r] = "returned" =>
        /\ ~torn => FilesOf[r] \subseteq disk \cup removed
        /\ up => FilesOf[r] \ {del_file[d] : d \in Deleters} \subseteq index

\* A call that began ends, unless the process is down: a failing save or delete
\* releases the lock.
CallsEnd ==
    /\ \A r \in Requests : <>(~up \/ pc[r] \in Ended)
    /\ \A d \in Deleters : del_pc[d] = "acquire" ~> (~up \/ del_pc[d] \in Ended)

\* Each strategy implements the contract of an ingestion component, where what
\* is persisted is what the last complete persist wrote, and the files cannot be
\* read from the truncation on until a write has come to its end: after a persist
\* that raised, and for good after a crash within one.
Contract == INSTANCE IngestContract WITH
    durable   <- disk,
    readable  <- ~torn,
    discarded <- {},
    returned  <- {r \in Requests : pc[r] = "returned"},
    deleted   <- {del_file[d] : d \in {e \in Deleters : del_pc[e] = "returned"}}

ImplementsContract == Contract!Spec
=============================================================================
