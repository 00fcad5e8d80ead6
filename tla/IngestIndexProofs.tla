-------------------------- MODULE IngestIndexProofs --------------------------
(***************************************************************************)
(* Theorems about IngestIndex, for every set of files, requests and delete *)
(* calls, every strategy and every number of crashes.                      *)
(***************************************************************************)
EXTENDS IngestIndex, TLAPS

\* The batches of the strategy in use.
ActiveBatches == UNION {Batches(r) : r \in Requests}

\* A save that will add no more nodes.
Added == {"persist", "write", "release", "saved", "failed"}

\* A file that the index, the files or a persist under way hold, or that a
\* delete call was made for, has been added by its save, which adds nothing
\* any more.
AddedOnce ==
    \A b \in ActiveBatches : \A f \in b :
        \/ f \in index \cup disk
        \/ \E d \in Deleters : del_pc[d] # "idle" /\ del_file[d] = f
        => stage[b] \in Added

\* Between the two halves of a persist the index does not change.
ImageCurrent ==
    /\ \A b \in AllBatches : stage[b] = "write" => image[b] = index
    /\ \A d \in Deleters : del_pc[d] = "write" => image[d] = index

\* How far a delete call has come.
DeleteProgress ==
    \A d \in Deleters :
        /\ del_pc[d] \in {"nodes", "persist", "write", "release", "returned"}
               => del_file[d] \notin vectors
        /\ del_pc[d] \in {"persist", "write", "release", "returned"} => del_file[d] \notin index
        /\ del_pc[d] \in {"release", "returned"} => del_file[d] \notin disk

\* The inductive invariant.
IndexInv ==
    /\ TypeOK
    /\ OneAtATime
    /\ AddedOnce
    /\ ImageCurrent
    /\ DeleteProgress

\* A batch of a request is a set of its files, and a batch of the strategy.
LEMMA BatchFacts ==
    /\ AllBatches \subseteq SUBSET Files
    /\ TypeOK => ActiveBatches \subseteq AllBatches
    /\ \A r \in Requests : Batches(r) \subseteq ActiveBatches
<1>1. AllBatches \subseteq SUBSET Files
    BY IndexAssumption DEF AllBatches
<1>2. \A r \in Requests : Batches(r) \subseteq AllBatches
    BY DEF Batches, AllBatches
<1> QED BY <1>1, <1>2 DEF ActiveBatches

\* Nothing runs, is deleted or is being written at the start.
LEMMA IndexInvInit == Init => IndexInv
<1> SUFFICES ASSUME Init PROVE IndexInv
    OBVIOUS
<1>1. TypeOK
    <2>1. crashes \in 0 .. MaxCrashes
        BY IndexAssumption DEF Init
    <2> QED BY <2>1 DEF Init, TypeOK
<1>2. OneAtATime /\ ImageCurrent /\ DeleteProgress
    BY IndexAssumption DEF Init, OneAtATime, ImageCurrent, DeleteProgress, Locked
<1>3. AddedOnce
    BY BatchFacts, <1>1 DEF Init, AddedOnce
<1> QED BY <1>1, <1>2, <1>3 DEF IndexInv

\* The requests submit different files, so two batches of the strategy with a
\* file in common are the same batch.
LEMMA ActiveDisjoint ==
    ASSUME NEW a \in ActiveBatches, NEW b \in ActiveBatches, NEW f \in a \cap b
    PROVE  a = b
<1>1. PICK r \in Requests, t \in Requests : a \in Batches(r) /\ b \in Batches(t)
    BY DEF ActiveBatches
<1>2. f \in FilesOf[r] /\ f \in FilesOf[t]
    BY <1>1 DEF Batches
<1>3. r = t
    BY <1>2, IndexAssumption
<1> QED BY <1>1, <1>3 DEF Batches

\* The strategy does not change, so its batches do not.
LEMMA ActiveFixed == mode' = mode => ActiveBatches' = ActiveBatches
BY DEF ActiveBatches, Batches

\* _save_docs: with the lock, the only one to change the index.
LEMMA SaveKeeps ==
    ASSUME IndexInv, NEW b \in ActiveBatches, Save(b)
    PROVE  IndexInv'
<1> USE IndexAssumption
    DEF IndexInv, TypeOK, OneAtATime, Locked, storeVars, callVars, deleteVars
<1>0. b \in AllBatches
    BY BatchFacts
<1>1. CASE Acquire(b)
    <2>1. TypeOK'
        BY <1>1, <1>0, BatchFacts DEF Acquire, Move, Ended
    <2>2. OneAtATime'
        BY <1>1, <1>0, BatchFacts DEF Acquire, Move
    <2>3. AddedOnce'
        BY <1>1, <1>0, BatchFacts, ActiveFixed
        DEF Acquire, Move, AddedOnce, Added, ImageCurrent
    <2>4. ImageCurrent'
        BY <1>1, <1>0, BatchFacts DEF Acquire, Move, ImageCurrent
    <2>5. DeleteProgress'
        BY <1>1, <1>0, BatchFacts
        DEF Acquire, Move, DeleteProgress, ImageCurrent, AddedOnce, Added
    <2> QED BY <2>1, <2>2, <2>3, <2>4, <2>5
<1>2. CASE AddVectors(b)
    <2>1. TypeOK'
        BY <1>2, <1>0, BatchFacts DEF AddVectors, Move, Ended
    <2>2. OneAtATime'
        BY <1>2, <1>0, BatchFacts DEF AddVectors, Move
    <2>3. AddedOnce'
        BY <1>2, <1>0, BatchFacts, ActiveFixed
        DEF AddVectors, Move, AddedOnce, Added, ImageCurrent
    <2>4. ImageCurrent'
        BY <1>2, <1>0, BatchFacts DEF AddVectors, Move, ImageCurrent
    <2>5. DeleteProgress'
        BY <1>2, <1>0, BatchFacts
        DEF AddVectors, Move, DeleteProgress, ImageCurrent, AddedOnce, Added
    <2> QED BY <2>1, <2>2, <2>3, <2>4, <2>5
<1>3. CASE AddNodes(b)
    <2>1. TypeOK'
        BY <1>3, <1>0, BatchFacts DEF AddNodes, Move, Ended
    <2>2. OneAtATime'
        BY <1>3, <1>0, BatchFacts DEF AddNodes, Move
    <2>3. AddedOnce'
        BY <1>3, <1>0, BatchFacts, ActiveDisjoint, ActiveFixed
        DEF AddNodes, Move, AddedOnce, Added, ImageCurrent
    <2>4. ImageCurrent'
        BY <1>3, <1>0, BatchFacts DEF AddNodes, Move, ImageCurrent
    <2>5. DeleteProgress'
        BY <1>3, <1>0, BatchFacts
        DEF AddNodes, Move, DeleteProgress, ImageCurrent, AddedOnce, Added
    <2> QED BY <2>1, <2>2, <2>3, <2>4, <2>5
<1>4. CASE BeginPersist(b)
    <2>1. TypeOK'
        BY <1>4, <1>0, BatchFacts DEF BeginPersist, Move, Truncate, Ended
    <2>2. OneAtATime'
        BY <1>4, <1>0, BatchFacts DEF BeginPersist, Move, Truncate
    <2>3. AddedOnce'
        BY <1>4, <1>0, BatchFacts, ActiveFixed
        DEF BeginPersist, Move, Truncate, AddedOnce, Added, ImageCurrent
    <2>4. ImageCurrent'
        BY <1>4, <1>0, BatchFacts DEF BeginPersist, Move, Truncate, ImageCurrent
    <2>5. DeleteProgress'
        BY <1>4, <1>0, BatchFacts
        DEF BeginPersist, Move, Truncate, DeleteProgress, ImageCurrent, AddedOnce,
            Added
    <2> QED BY <2>1, <2>2, <2>3, <2>4, <2>5
<1>5. CASE EndPersist(b)
    <2>1. TypeOK'
        <3>1. image[b] \in SUBSET Files
            BY <1>0 DEF TypeOK
        <3>2. {vectors, index, disk, removed}' \subseteq SUBSET Files
            BY <3>1, <1>5 DEF EndPersist, Move, WriteOut
        <3>3. image' \in [AllBatches \cup Deleters -> SUBSET Files]
            BY <1>5 DEF EndPersist, WriteOut
        <3> QED BY <3>2, <3>3, <1>5, <1>0 DEF EndPersist, Move, WriteOut
    <2>2. OneAtATime'
        BY <1>5, <1>0, BatchFacts DEF EndPersist, Move, WriteOut
    <2>3. AddedOnce'
        BY <1>5, <1>0, BatchFacts, ActiveFixed
        DEF EndPersist, Move, WriteOut, AddedOnce, Added, ImageCurrent
    <2>4. ImageCurrent'
        BY <1>5, <1>0, BatchFacts DEF EndPersist, Move, WriteOut, ImageCurrent
    <2>5. DeleteProgress'
        BY <1>5, <1>0, BatchFacts
        DEF EndPersist, Move, WriteOut, DeleteProgress, ImageCurrent, AddedOnce, Added
    <2> QED BY <2>1, <2>2, <2>3, <2>4, <2>5
<1>6. CASE EndSave(b)
    <2>1. TypeOK'
        BY <1>6, <1>0, BatchFacts DEF EndSave, Move, Release, Ended
    <2>2. OneAtATime'
        BY <1>6, <1>0, BatchFacts DEF EndSave, Move, Release
    <2>3. AddedOnce'
        BY <1>6, <1>0, BatchFacts, ActiveFixed
        DEF EndSave, Move, Release, AddedOnce, Added, ImageCurrent
    <2>4. ImageCurrent'
        BY <1>6, <1>0, BatchFacts DEF EndSave, Move, Release, ImageCurrent
    <2>5. DeleteProgress'
        BY <1>6, <1>0, BatchFacts
        DEF EndSave, Move, Release, DeleteProgress, ImageCurrent, AddedOnce, Added
    <2> QED BY <2>1, <2>2, <2>3, <2>4, <2>5
<1>7. CASE SaveFails(b)
    <2>1. TypeOK'
        BY <1>7, <1>0, BatchFacts DEF SaveFails, Move, Ended
    <2>2. OneAtATime'
        BY <1>7, <1>0, BatchFacts DEF SaveFails, Move
    <2>3. AddedOnce'
        BY <1>7, <1>0, BatchFacts, ActiveDisjoint, ActiveFixed
        DEF SaveFails, Move, AddedOnce, Added, ImageCurrent
    <2>4. ImageCurrent'
        BY <1>7, <1>0, BatchFacts DEF SaveFails, Move, ImageCurrent
    <2>5. DeleteProgress'
        BY <1>7, <1>0, BatchFacts
        DEF SaveFails, Move, DeleteProgress, ImageCurrent, AddedOnce, Added
    <2> QED BY <2>1, <2>2, <2>3, <2>4, <2>5
<1> QED BY <1>1, <1>2, <1>3, <1>4, <1>5, <1>6, <1>7 DEF Save

\* delete, with the lock.
LEMMA DeleteKeeps ==
    ASSUME IndexInv, NEW d \in Deleters, Delete(d)
    PROVE  IndexInv'
<1> USE IndexAssumption
    DEF IndexInv, TypeOK, OneAtATime, Locked, storeVars, callVars, deleteVars
<1>1. CASE AcquireDelete(d)
    <2>1. TypeOK'
        BY <1>1, BatchFacts DEF AcquireDelete, MoveDelete, Ended
    <2>2. OneAtATime'
        BY <1>1, BatchFacts DEF AcquireDelete, MoveDelete
    <2>3. AddedOnce'
        BY <1>1, BatchFacts, ActiveFixed
        DEF AcquireDelete, MoveDelete, AddedOnce, Added, ImageCurrent
    <2>4. ImageCurrent'
        BY <1>1, BatchFacts DEF AcquireDelete, MoveDelete, ImageCurrent
    <2>5. DeleteProgress'
        BY <1>1, BatchFacts
        DEF AcquireDelete, MoveDelete, DeleteProgress, ImageCurrent, AddedOnce, Added
    <2> QED BY <2>1, <2>2, <2>3, <2>4, <2>5
<1>2. CASE DeleteVectors(d)
    <2>1. TypeOK'
        BY <1>2, BatchFacts DEF DeleteVectors, MoveDelete, Ended
    <2>2. OneAtATime'
        BY <1>2, BatchFacts DEF DeleteVectors, MoveDelete
    <2>3. AddedOnce'
        BY <1>2, BatchFacts, ActiveFixed
        DEF DeleteVectors, MoveDelete, AddedOnce, Added, ImageCurrent
    <2>4. ImageCurrent'
        BY <1>2, BatchFacts DEF DeleteVectors, MoveDelete, ImageCurrent
    <2>5. DeleteProgress'
        BY <1>2, BatchFacts
        DEF DeleteVectors, MoveDelete, DeleteProgress, ImageCurrent, AddedOnce, Added
    <2> QED BY <2>1, <2>2, <2>3, <2>4, <2>5
<1>3. CASE DeleteNodes(d)
    <2>1. TypeOK'
        BY <1>3, BatchFacts DEF DeleteNodes, MoveDelete, Ended
    <2>2. OneAtATime'
        BY <1>3, BatchFacts DEF DeleteNodes, MoveDelete
    <2>3. AddedOnce'
        BY <1>3, BatchFacts, ActiveFixed
        DEF DeleteNodes, MoveDelete, AddedOnce, Added, ImageCurrent
    <2>4. ImageCurrent'
        BY <1>3, BatchFacts DEF DeleteNodes, MoveDelete, ImageCurrent
    <2>5. DeleteProgress'
        BY <1>3, BatchFacts
        DEF DeleteNodes, MoveDelete, DeleteProgress, ImageCurrent, AddedOnce, Added
    <2> QED BY <2>1, <2>2, <2>3, <2>4, <2>5
<1>4. CASE BeginPersistDelete(d)
    <2>1. TypeOK'
        BY <1>4, BatchFacts DEF BeginPersistDelete, MoveDelete, Truncate, Ended
    <2>2. OneAtATime'
        BY <1>4, BatchFacts DEF BeginPersistDelete, MoveDelete, Truncate
    <2>3. AddedOnce'
        BY <1>4, BatchFacts, ActiveFixed
        DEF BeginPersistDelete, MoveDelete, Truncate, AddedOnce, Added, ImageCurrent
    <2>4. ImageCurrent'
        BY <1>4, BatchFacts DEF BeginPersistDelete, MoveDelete, Truncate, ImageCurrent
    <2>5. DeleteProgress'
        BY <1>4, BatchFacts
        DEF BeginPersistDelete, MoveDelete, Truncate, DeleteProgress, ImageCurrent,
            AddedOnce, Added
    <2> QED BY <2>1, <2>2, <2>3, <2>4, <2>5
<1>5. CASE EndPersistDelete(d)
    <2>1. TypeOK'
        <3>1. image[d] \in SUBSET Files
            BY DEF TypeOK
        <3>2. {vectors, index, disk, removed}' \subseteq SUBSET Files
            BY <3>1, <1>5 DEF EndPersistDelete, MoveDelete, WriteOut
        <3>3. image' \in [AllBatches \cup Deleters -> SUBSET Files]
            BY <1>5 DEF EndPersistDelete, WriteOut
        <3> QED BY <3>2, <3>3, <1>5 DEF EndPersistDelete, MoveDelete, WriteOut
    <2>2. OneAtATime'
        BY <1>5, BatchFacts DEF EndPersistDelete, MoveDelete, WriteOut
    <2>3. AddedOnce'
        BY <1>5, BatchFacts, ActiveFixed
        DEF EndPersistDelete, MoveDelete, WriteOut, AddedOnce, Added, ImageCurrent
    <2>4. ImageCurrent'
        BY <1>5, BatchFacts DEF EndPersistDelete, MoveDelete, WriteOut, ImageCurrent
    <2>5. DeleteProgress'
        BY <1>5, BatchFacts
        DEF EndPersistDelete, MoveDelete, WriteOut, DeleteProgress, ImageCurrent,
            AddedOnce, Added
    <2> QED BY <2>1, <2>2, <2>3, <2>4, <2>5
<1>6. CASE EndDelete(d)
    <2>1. TypeOK'
        BY <1>6, BatchFacts DEF EndDelete, MoveDelete, Release, Ended
    <2>2. OneAtATime'
        BY <1>6, BatchFacts DEF EndDelete, MoveDelete, Release
    <2>3. AddedOnce'
        BY <1>6, BatchFacts, ActiveFixed
        DEF EndDelete, MoveDelete, Release, AddedOnce, Added, ImageCurrent
    <2>4. ImageCurrent'
        BY <1>6, BatchFacts DEF EndDelete, MoveDelete, Release, ImageCurrent
    <2>5. DeleteProgress'
        BY <1>6, BatchFacts
        DEF EndDelete, MoveDelete, Release, DeleteProgress, ImageCurrent, AddedOnce,
            Added
    <2> QED BY <2>1, <2>2, <2>3, <2>4, <2>5
<1>7. CASE DeleteFails(d)
    <2>1. TypeOK'
        BY <1>7, BatchFacts DEF DeleteFails, MoveDelete, Ended
    <2>2. OneAtATime'
        BY <1>7, BatchFacts DEF DeleteFails, MoveDelete
    <2>3. AddedOnce'
        BY <1>7, BatchFacts, ActiveFixed
        DEF DeleteFails, MoveDelete, AddedOnce, Added, ImageCurrent
    <2>4. ImageCurrent'
        BY <1>7, BatchFacts DEF DeleteFails, MoveDelete, ImageCurrent
    <2>5. DeleteProgress'
        BY <1>7, BatchFacts
        DEF DeleteFails, MoveDelete, DeleteProgress, ImageCurrent, AddedOnce, Added
    <2> QED BY <2>1, <2>2, <2>3, <2>4, <2>5
<1> QED BY <1>1, <1>2, <1>3, <1>4, <1>5, <1>6, <1>7 DEF Delete

\* A batch that begins, or fails before it takes the lock, and a request or a
\* delete call that begins or ends.
LEMMA OthersKeep ==
    ASSUME IndexInv,
           \/ \E r \in Requests : \/ \E b \in Batches(r) : Transform(r, b) \/ TransformFails(r, b)
                                 \/ Return(r)
                                 \/ Raise(r)
           \/ \E d \in Deleters : RequestDelete(d)
           \/ Quiescent
           \/ UNCHANGED vars
    PROVE  IndexInv'
<1> USE IndexAssumption
    DEF IndexInv, TypeOK, OneAtATime, Locked, storeVars, callVars, deleteVars
<1>1. ASSUME NEW r \in Requests, NEW b \in Batches(r), Transform(r, b) \/ TransformFails(r, b)
      PROVE  IndexInv'
    <2>1. b \in AllBatches
        BY BatchFacts
    <2>2. TypeOK' /\ OneAtATime'
        BY <1>1, <2>1 DEF Transform, TransformFails, Move
    <2>3. AddedOnce'
        BY <1>1, <2>1, BatchFacts, ActiveFixed
        DEF Transform, TransformFails, Move, AddedOnce, Added
    <2>4. ImageCurrent' /\ DeleteProgress'
        BY <1>1, <2>1 DEF Transform, TransformFails, Move, ImageCurrent, DeleteProgress
    <2> QED BY <2>2, <2>3, <2>4
<1>2. ASSUME NEW r \in Requests, Return(r) \/ Raise(r)
      PROVE  IndexInv'
    <2>1. TypeOK' /\ OneAtATime'
        BY <1>2 DEF Return, Raise, Ended
    <2>2. AddedOnce'
        BY <1>2, ActiveFixed DEF Return, Raise, AddedOnce
    <2>3. ImageCurrent' /\ DeleteProgress'
        BY <1>2 DEF Return, Raise, ImageCurrent, DeleteProgress
    <2> QED BY <2>1, <2>2, <2>3
<1>3. ASSUME NEW d \in Deleters, RequestDelete(d)
      PROVE  IndexInv'
    <2>1. TypeOK' /\ OneAtATime'
        BY <1>3 DEF RequestDelete, MoveDelete
    <2>2. AddedOnce'
        BY <1>3, ActiveFixed DEF RequestDelete, MoveDelete, AddedOnce
    <2>3. ImageCurrent' /\ DeleteProgress'
        BY <1>3 DEF RequestDelete, MoveDelete, ImageCurrent, DeleteProgress
    <2> QED BY <2>1, <2>2, <2>3
<1>4. CASE Quiescent \/ UNCHANGED vars
    <2>1. UNCHANGED vars
        BY <1>4 DEF Quiescent
    <2>2. AddedOnce'
        BY <2>1, ActiveFixed DEF vars, AddedOnce
    <2> QED BY <2>1, <2>2 DEF vars, ImageCurrent, DeleteProgress
<1> QED BY <1>1, <1>2, <1>3, <1>4

\* A crash frees the lock, ends the calls that run and forgets what is not on
\* disk.
LEMMA CrashKeeps ==
    ASSUME IndexInv, Crash
    PROVE  IndexInv'
<1> USE IndexAssumption DEF IndexInv, TypeOK, Crash, Locked
<1>1. TypeOK'
    BY DEF Ended
<1>2. OneAtATime'
    BY DEF OneAtATime
<1>3. AddedOnce'
    BY BatchFacts, ActiveFixed DEF AddedOnce, Added
<1>4. ImageCurrent'
    BY DEF ImageCurrent
<1>5. DeleteProgress'
    BY DEF DeleteProgress
<1> QED BY <1>1, <1>2, <1>3, <1>4, <1>5

\* The invariant holds in every reachable state.
LEMMA IndexInvariant == Spec => []IndexInv
<1>1. IndexInv /\ [Next]_vars => IndexInv'
    BY SaveKeeps, DeleteKeeps, OthersKeep, CrashKeeps, BatchFacts DEF Next, Request
<1> QED BY <1>1, IndexInvInit, PTL DEF Spec

\* The strategies that work in the thread of the request are well typed.
THEOREM IndexTypeCorrect == Spec => []TypeOK
BY IndexInvariant, PTL DEF IndexInv

\* _index_thread_lock: whatever raises or crashes, the lock is held by the call
\* that changes or persists the index and by nobody else.
THEOREM IndexIsLocked == Spec => []OneAtATime
BY IndexInvariant, PTL DEF IndexInv

\* delete: what a delete call that returned has removed does not come back,
\* from a save under way, a failed save or a restart.
THEOREM DeletionsAreFinal == Spec => []DeletedStayDeleted
<1>1. IndexInv => DeletedStayDeleted
    BY DEF IndexInv, DeleteProgress, DeletedStayDeleted
<1> QED BY <1>1, IndexInvariant, PTL

-----------------------------------------------------------------------------
(* What the stores hold.                                                   *)

\* A delete call has been made for the file.
DeleteCalled(f) == \E d \in Deleters : del_pc[d] # "idle" /\ del_file[d] = f

\* A save or a delete call of the file is at one of these points.
Underway(f, saves, deletes) ==
    \/ \E b \in AllBatches : f \in b /\ stage[b] \in saves
    \/ \E d \in Deleters : del_file[d] = f /\ del_pc[d] \in deletes

\* Where the vector store and the index differ, a call is between the two, or
\* did not end.
StoresApart ==
    up => \A f \in Files :
              \/ f \in vectors <=> f \in index
              \/ Underway(f, {"nodes", "failed"}, {"nodes", "raised", "aborted"})

\* Where the index and the files differ, a call is about to persist, or did not
\* end.
DiskApart ==
    up /\ ~torn => \A f \in Files :
                       \/ f \in index <=> f \in disk
                       \/ Underway(f, {"persist", "failed"}, {"persist", "raised", "aborted"})

\* How far a save has come.
SaveProgress ==
    \A b \in AllBatches :
        /\ stage[b] = "nodes" => b \subseteq vectors
        /\ stage[b] \in {"persist", "write"} => b \subseteq index
        /\ stage[b] \in {"release", "saved"} =>
               /\ b \subseteq disk \cup removed
               /\ up => \A f \in b : f \in index \/ DeleteCalled(f)

\* Only a delete call takes a file out, and then for good.
RemovedGone ==
    /\ removed \cap (index \cup disk) = {}
    /\ \A f \in removed : DeleteCalled(f)
    /\ up => \A f \in disk \ index : DeleteCalled(f)

\* A request that returned has saved its batches, and a delete call has a file.
CallsKnown ==
    /\ \A r \in Requests : pc[r] = "returned" => \A b \in Batches(r) : stage[b] = "saved"
    /\ \A d \in Deleters : del_pc[d] # "idle" => del_file[d] \in Files

\* Inductive with IndexInv.
StoreInv ==
    /\ StoresApart
    /\ DiskApart
    /\ SaveProgress
    /\ RemovedGone
    /\ CallsKnown

\* _save_docs, step by step.
LEMMA SaveKeepsStores ==
    ASSUME IndexInv, IndexInv', StoreInv, NEW b \in ActiveBatches, Save(b)
    PROVE  StoreInv'
<1> USE IndexAssumption, BatchFacts
    DEF IndexInv, TypeOK, OneAtATime, Locked, storeVars, callVars, deleteVars, StoreInv
<1>1. CASE Acquire(b)
    <2>1. StoresApart'
        BY <1>1 DEF Acquire, Move, StoresApart, Underway
    <2>2. DiskApart'
        BY <1>1 DEF Acquire, Move, DiskApart, Underway
    <2>3. SaveProgress'
        BY <1>1 DEF Acquire, Move, SaveProgress, DeleteCalled
    <2>4. RemovedGone'
        BY <1>1 DEF Acquire, Move, RemovedGone, DeleteCalled
    <2>5. CallsKnown'
        BY <1>1 DEF Acquire, Move, CallsKnown, Batches
    <2> QED BY <2>1, <2>2, <2>3, <2>4, <2>5
<1>2. CASE AddVectors(b)
    <2>1. StoresApart'
        BY <1>2 DEF AddVectors, Move, StoresApart, Underway
    <2>2. DiskApart'
        BY <1>2 DEF AddVectors, Move, DiskApart, Underway
    <2>3. SaveProgress'
        BY <1>2 DEF AddVectors, Move, SaveProgress, DeleteCalled
    <2>4. RemovedGone'
        BY <1>2 DEF AddVectors, Move, RemovedGone, DeleteCalled
    <2>5. CallsKnown'
        BY <1>2 DEF AddVectors, Move, CallsKnown, Batches
    <2> QED BY <2>1, <2>2, <2>3, <2>4, <2>5
<1>3. CASE AddNodes(b)
    <2>1. StoresApart'
        BY <1>3 DEF AddNodes, Move, StoresApart, Underway, SaveProgress
    <2>2. DiskApart'
        BY <1>3 DEF AddNodes, Move, DiskApart, Underway
    <2>3. SaveProgress'
        BY <1>3 DEF AddNodes, Move, SaveProgress, DeleteCalled
    <2>4. RemovedGone'
        BY <1>3 DEF AddNodes, Move, RemovedGone, DeleteCalled, AddedOnce, Added
    <2>5. CallsKnown'
        BY <1>3 DEF AddNodes, Move, CallsKnown, Batches
    <2> QED BY <2>1, <2>2, <2>3, <2>4, <2>5
<1>4. CASE BeginPersist(b)
    <2>1. StoresApart'
        BY <1>4 DEF BeginPersist, Move, Truncate, StoresApart, Underway
    <2>2. DiskApart'
        BY <1>4 DEF BeginPersist, Move, Truncate, DiskApart, Underway
    <2>3. SaveProgress'
        BY <1>4 DEF BeginPersist, Move, Truncate, SaveProgress, DeleteCalled
    <2>4. RemovedGone'
        BY <1>4 DEF BeginPersist, Move, Truncate, RemovedGone, DeleteCalled
    <2>5. CallsKnown'
        BY <1>4 DEF BeginPersist, Move, Truncate, CallsKnown, Batches
    <2> QED BY <2>1, <2>2, <2>3, <2>4, <2>5
<1>5. CASE EndPersist(b)
    <2>1. StoresApart'
        BY <1>5 DEF EndPersist, Move, WriteOut, StoresApart, Underway, ImageCurrent
    <2>2. DiskApart'
        BY <1>5 DEF EndPersist, Move, WriteOut, DiskApart, Underway, ImageCurrent
    <2>3. SaveProgress'
        BY <1>5 DEF EndPersist, Move, WriteOut, SaveProgress, DeleteCalled, ImageCurrent
    <2>4. RemovedGone'
        <3>1. image[b] = index
            BY <1>5 DEF EndPersist, Move, ImageCurrent
        <3>2. \A f \in disk \ index : DeleteCalled(f)
            BY DEF RemovedGone, Save
        <3>3. disk' = index /\ index' = index /\ removed' = removed \cup (disk \ index)
            BY <1>5, <3>1 DEF EndPersist, WriteOut
        <3>4. \A f : DeleteCalled(f)' <=> DeleteCalled(f)
            BY <1>5 DEF EndPersist, Move, DeleteCalled
        <3> QED BY <3>2, <3>3, <3>4 DEF RemovedGone
    <2>5. CallsKnown'
        BY <1>5 DEF EndPersist, Move, WriteOut, CallsKnown, Batches, ImageCurrent
    <2> QED BY <2>1, <2>2, <2>3, <2>4, <2>5
<1>6. CASE EndSave(b)
    <2>1. StoresApart'
        BY <1>6 DEF EndSave, Move, Release, StoresApart, Underway
    <2>2. DiskApart'
        BY <1>6 DEF EndSave, Move, Release, DiskApart, Underway
    <2>3. SaveProgress'
        BY <1>6 DEF EndSave, Move, Release, SaveProgress, DeleteCalled
    <2>4. RemovedGone'
        BY <1>6 DEF EndSave, Move, Release, RemovedGone, DeleteCalled
    <2>5. CallsKnown'
        BY <1>6 DEF EndSave, Move, Release, CallsKnown, Batches
    <2> QED BY <2>1, <2>2, <2>3, <2>4, <2>5
<1>7. CASE SaveFails(b)
    <2>1. StoresApart'
        BY <1>7 DEF SaveFails, Move, StoresApart, Underway
    <2>2. DiskApart'
        BY <1>7 DEF SaveFails, Move, DiskApart, Underway
    <2>3. SaveProgress'
        BY <1>7 DEF SaveFails, Move, SaveProgress, DeleteCalled
    <2>4. RemovedGone'
        BY <1>7 DEF SaveFails, Move, RemovedGone, DeleteCalled, AddedOnce, Added
    <2>5. CallsKnown'
        BY <1>7 DEF SaveFails, Move, CallsKnown, Batches
    <2> QED BY <2>1, <2>2, <2>3, <2>4, <2>5
<1> QED BY <1>1, <1>2, <1>3, <1>4, <1>5, <1>6, <1>7 DEF Save

\* delete, step by step.
LEMMA DeleteKeepsStores ==
    ASSUME IndexInv, IndexInv', StoreInv, NEW d \in Deleters, Delete(d)
    PROVE  StoreInv'
<1> USE IndexAssumption, BatchFacts
    DEF IndexInv, TypeOK, OneAtATime, Locked, storeVars, callVars, deleteVars, StoreInv
<1>1. CASE AcquireDelete(d)
    <2>1. StoresApart'
        BY <1>1 DEF AcquireDelete, MoveDelete, StoresApart, Underway
    <2>2. DiskApart'
        BY <1>1 DEF AcquireDelete, MoveDelete, DiskApart, Underway
    <2>3. SaveProgress'
        BY <1>1 DEF AcquireDelete, MoveDelete, SaveProgress, DeleteCalled
    <2>4. RemovedGone'
        BY <1>1 DEF AcquireDelete, MoveDelete, RemovedGone, DeleteCalled
    <2>5. CallsKnown'
        BY <1>1 DEF AcquireDelete, MoveDelete, CallsKnown, Batches
    <2> QED BY <2>1, <2>2, <2>3, <2>4, <2>5
<1>2. CASE DeleteVectors(d)
    <2>1. StoresApart'
        BY <1>2 DEF DeleteVectors, MoveDelete, StoresApart, Underway, DeleteProgress
    <2>2. DiskApart'
        BY <1>2 DEF DeleteVectors, MoveDelete, DiskApart, Underway, DeleteProgress
    <2>3. SaveProgress'
        BY <1>2 DEF DeleteVectors, MoveDelete, SaveProgress, DeleteCalled, DeleteProgress
    <2>4. RemovedGone'
        BY <1>2 DEF DeleteVectors, MoveDelete, RemovedGone, DeleteCalled, DeleteProgress
    <2>5. CallsKnown'
        BY <1>2 DEF DeleteVectors, MoveDelete, CallsKnown, Batches, DeleteProgress
    <2> QED BY <2>1, <2>2, <2>3, <2>4, <2>5
<1>3. CASE DeleteNodes(d)
    <2>1. StoresApart'
        BY <1>3 DEF DeleteNodes, MoveDelete, StoresApart, Underway, DeleteProgress
    <2>2. DiskApart'
        BY <1>3 DEF DeleteNodes, MoveDelete, DiskApart, Underway, DeleteProgress
    <2>3. SaveProgress'
        BY <1>3 DEF DeleteNodes, MoveDelete, SaveProgress, DeleteCalled, DeleteProgress
    <2>4. RemovedGone'
        BY <1>3 DEF DeleteNodes, MoveDelete, RemovedGone, DeleteCalled, DeleteProgress
    <2>5. CallsKnown'
        BY <1>3 DEF DeleteNodes, MoveDelete, CallsKnown, Batches, DeleteProgress
    <2> QED BY <2>1, <2>2, <2>3, <2>4, <2>5
<1>4. CASE BeginPersistDelete(d)
    <2>1. StoresApart'
        BY <1>4 DEF BeginPersistDelete, MoveDelete, Truncate, StoresApart, Underway
    <2>2. DiskApart'
        BY <1>4 DEF BeginPersistDelete, MoveDelete, Truncate, DiskApart, Underway
    <2>3. SaveProgress'
        BY <1>4 DEF BeginPersistDelete, MoveDelete, Truncate, SaveProgress, DeleteCalled
    <2>4. RemovedGone'
        BY <1>4 DEF BeginPersistDelete, MoveDelete, Truncate, RemovedGone, DeleteCalled
    <2>5. CallsKnown'
        BY <1>4 DEF BeginPersistDelete, MoveDelete, Truncate, CallsKnown, Batches
    <2> QED BY <2>1, <2>2, <2>3, <2>4, <2>5
<1>5. CASE EndPersistDelete(d)
    <2>1. StoresApart'
        BY <1>5 DEF EndPersistDelete, MoveDelete, WriteOut, StoresApart, Underway, ImageCurrent
    <2>2. DiskApart'
        BY <1>5 DEF EndPersistDelete, MoveDelete, WriteOut, DiskApart, Underway, ImageCurrent
    <2>3. SaveProgress'
        BY <1>5 DEF EndPersistDelete, MoveDelete, WriteOut, SaveProgress, DeleteCalled,
            ImageCurrent
    <2>4. RemovedGone'
        BY <1>5 DEF EndPersistDelete, MoveDelete, WriteOut, RemovedGone, DeleteCalled,
            ImageCurrent
    <2>5. CallsKnown'
        BY <1>5 DEF EndPersistDelete, MoveDelete, WriteOut, CallsKnown, Batches, ImageCurrent
    <2> QED BY <2>1, <2>2, <2>3, <2>4, <2>5
<1>6. CASE EndDelete(d)
    <2>1. StoresApart'
        BY <1>6 DEF EndDelete, MoveDelete, Release, StoresApart, Underway
    <2>2. DiskApart'
        BY <1>6 DEF EndDelete, MoveDelete, Release, DiskApart, Underway
    <2>3. SaveProgress'
        BY <1>6 DEF EndDelete, MoveDelete, Release, SaveProgress, DeleteCalled
    <2>4. RemovedGone'
        BY <1>6 DEF EndDelete, MoveDelete, Release, RemovedGone, DeleteCalled
    <2>5. CallsKnown'
        BY <1>6 DEF EndDelete, MoveDelete, Release, CallsKnown, Batches
    <2> QED BY <2>1, <2>2, <2>3, <2>4, <2>5
<1>7. CASE DeleteFails(d)
    <2>1. StoresApart'
        BY <1>7 DEF DeleteFails, MoveDelete, StoresApart, Underway
    <2>2. DiskApart'
        BY <1>7 DEF DeleteFails, MoveDelete, DiskApart, Underway
    <2>3. SaveProgress'
        BY <1>7 DEF DeleteFails, MoveDelete, SaveProgress, DeleteCalled
    <2>4. RemovedGone'
        BY <1>7 DEF DeleteFails, MoveDelete, RemovedGone, DeleteCalled
    <2>5. CallsKnown'
        BY <1>7 DEF DeleteFails, MoveDelete, CallsKnown, Batches
    <2> QED BY <2>1, <2>2, <2>3, <2>4, <2>5
<1> QED BY <1>1, <1>2, <1>3, <1>4, <1>5, <1>6, <1>7 DEF Delete

\* A request that begins a batch, returns or raises, and a delete call that
\* begins.
LEMMA OthersKeepStores ==
    ASSUME IndexInv, IndexInv', StoreInv,
           \/ \E r \in Requests : \/ \E b \in Batches(r) : Transform(r, b) \/ TransformFails(r, b)
                                 \/ Return(r)
                                 \/ Raise(r)
           \/ \E d \in Deleters : RequestDelete(d)
           \/ Quiescent
           \/ UNCHANGED vars
    PROVE  StoreInv'
<1> USE IndexAssumption, BatchFacts
    DEF IndexInv, TypeOK, storeVars, callVars, deleteVars, StoreInv
<1>1. ASSUME NEW r \in Requests, NEW b \in Batches(r), Transform(r, b) \/ TransformFails(r, b)
      PROVE  StoreInv'
    <2>1. b \in AllBatches
        OBVIOUS
    <2>2. StoresApart' /\ DiskApart'
        BY <1>1, <2>1 DEF Transform, TransformFails, Move, StoresApart, DiskApart, Underway
    <2>3. SaveProgress' /\ RemovedGone'
        BY <1>1, <2>1
        DEF Transform, TransformFails, Move, SaveProgress, RemovedGone, DeleteCalled
    <2>4. CallsKnown'
        BY <1>1, <2>1 DEF Transform, TransformFails, Move, CallsKnown, Batches
    <2> QED BY <2>2, <2>3, <2>4
<1>2. ASSUME NEW r \in Requests, Return(r) \/ Raise(r)
      PROVE  StoreInv'
    <2>1. StoresApart' /\ DiskApart'
        BY <1>2 DEF Return, Raise, StoresApart, DiskApart, Underway
    <2>2. SaveProgress' /\ RemovedGone'
        BY <1>2 DEF Return, Raise, SaveProgress, RemovedGone, DeleteCalled
    <2>3. CallsKnown'
        BY <1>2 DEF Return, Raise, CallsKnown, Batches
    <2> QED BY <2>1, <2>2, <2>3
<1>3. ASSUME NEW d \in Deleters, RequestDelete(d)
      PROVE  StoreInv'
    <2>1. StoresApart' /\ DiskApart'
        BY <1>3 DEF RequestDelete, MoveDelete, StoresApart, DiskApart, Underway
    <2>2. \A f : DeleteCalled(f) => DeleteCalled(f)'
        BY <1>3 DEF RequestDelete, MoveDelete, DeleteCalled
    <2>3. SaveProgress' /\ RemovedGone'
        BY <1>3, <2>2 DEF RequestDelete, MoveDelete, SaveProgress, RemovedGone
    <2>4. CallsKnown'
        BY <1>3 DEF RequestDelete, MoveDelete, CallsKnown, Batches
    <2> QED BY <2>1, <2>3, <2>4
<1>4. CASE Quiescent \/ UNCHANGED vars
    <2>1. UNCHANGED vars
        BY <1>4 DEF Quiescent
    <2>2. StoresApart' /\ DiskApart' /\ SaveProgress' /\ RemovedGone'
        BY <2>1 DEF vars, StoresApart, DiskApart, SaveProgress, RemovedGone, Underway,
            DeleteCalled
    <2>3. CallsKnown'
        BY <2>1 DEF vars, CallsKnown, Batches
    <2> QED BY <2>2, <2>3
<1> QED BY <1>1, <1>2, <1>3, <1>4

\* After a crash the index is what the files hold; the calls cut off explain
\* where the vector store differs from it.
LEMMA CrashKeepsStores ==
    ASSUME IndexInv, IndexInv', StoreInv, Crash
    PROVE  StoreInv'
<1> USE DEF IndexInv, TypeOK, Crash, StoreInv, Locked
<1>1. StoresApart'
    <2> SUFFICES ASSUME ~torn, NEW f \in Files
                 PROVE  \/ f \in vectors <=> f \in disk
                        \/ Underway(f, {"nodes", "failed"}, {"nodes", "raised", "aborted"})'
        BY DEF StoresApart
    <2>1. Underway(f, {"nodes", "failed"}, {"nodes", "raised", "aborted"})
          => Underway(f, {"nodes", "failed"}, {"nodes", "raised", "aborted"})'
        BY DEF Underway
    <2>2. Underway(f, {"persist", "failed"}, {"persist", "raised", "aborted"})
          => Underway(f, {"nodes", "failed"}, {"nodes", "raised", "aborted"})'
        BY DEF Underway
    <2> QED BY <2>1, <2>2 DEF StoresApart, DiskApart
<1>2. DiskApart'
    BY DEF DiskApart, Underway
<1>3. \A f : DeleteCalled(f)' <=> DeleteCalled(f)
    BY DEF DeleteCalled
<1>4. SaveProgress'
    BY <1>3, BatchFacts DEF SaveProgress, RemovedGone
<1>5. RemovedGone'
    BY <1>3 DEF RemovedGone
<1>6. CallsKnown'
    BY BatchFacts DEF CallsKnown, Batches
<1> QED BY <1>1, <1>2, <1>4, <1>5, <1>6

\* The stores are equal at the start.
LEMMA StoreInvInit == Init => StoreInv
<1> SUFFICES ASSUME Init PROVE StoreInv
    OBVIOUS
<1>1. StoresApart /\ DiskApart /\ SaveProgress /\ RemovedGone
    BY DEF Init, StoresApart, DiskApart, SaveProgress, RemovedGone
<1>2. CallsKnown
    BY DEF Init, CallsKnown
<1> QED BY <1>1, <1>2 DEF StoreInv

\* The invariant of the stores holds in every reachable state.
LEMMA StoreInvariant == Spec => [](IndexInv /\ StoreInv)
<1>1. IndexInv /\ IndexInv' /\ StoreInv /\ [Next]_vars => StoreInv'
    BY SaveKeepsStores, DeleteKeepsStores, OthersKeepStores, CrashKeepsStores, BatchFacts
    DEF Next, Request
<1> QED BY <1>1, StoreInvInit, IndexInvariant, PTL DEF Spec

\* _save_docs and delete change the vector store and the index one after the
\* other: whatever fails and wherever the process crashes, outside the lock they
\* differ only on the files of a call that failed or was cut off.
THEOREM StoresDifferOnFailures == Spec => []StoresAgree
<1>1. IndexInv /\ StoreInv => StoresAgree
    BY IndexAssumption
    DEF IndexInv, StoreInv, OneAtATime, Locked, StoresApart, Underway, StoresAgree
<1> QED BY <1>1, StoreInvariant, PTL

\* ingest and bulk_ingest: what a call that returned has saved stays on disk and
\* in the index, through failing saves, deletions of other files and crashes.
THEOREM SavedFilesSurvive == Spec => []ReturnedSurvive
<1>1. ASSUME IndexInv, StoreInv, NEW r \in Requests, pc[r] = "returned", NEW f \in FilesOf[r]
      PROVE  /\ f \in disk \cup removed
             /\ up => f \in index \/ DeleteCalled(f)
    <2>1. PICK b \in Batches(r) : f \in b
        BY DEF Batches
    <2>2. b \in AllBatches /\ stage[b] = "saved"
        BY <1>1, <2>1, BatchFacts DEF IndexInv, StoreInv, CallsKnown
    <2> QED BY <1>1, <2>1, <2>2 DEF StoreInv, SaveProgress
<1>2. IndexInv /\ StoreInv => ReturnedSurvive
    BY <1>1 DEF ReturnedSurvive, DeleteCalled
<1> QED BY <1>2, StoreInvariant, PTL

\* The steps that persist, in the terms of the contract: no file comes back that
\* a delete call removed.
LEMMA PersistRefines ==
    ASSUME IndexInv, StoreInv, StoreInv', disk' = index, removed' = removed \cup (disk \ index),
           torn' = FALSE, UNCHANGED pc,
           \A d \in Deleters : del_pc'[d] = "returned" <=> del_pc[d] = "returned",
           UNCHANGED del_file
    PROVE  Contract!Persist
<1> DEFINE added == index \ disk
           dropped == disk \ index
<1>1. added \in SUBSET Files /\ dropped \in SUBSET Files
    BY DEF IndexInv, TypeOK
<1>2. added \cap (removed \cup dropped \cup
                  {del_file[d] : d \in {e \in Deleters : del_pc[e] = "returned"}}) = {}
    BY DEF IndexInv, DeleteProgress, StoreInv, RemovedGone
<1>3. disk' = (disk \cup added) \ dropped
    OBVIOUS
<1>4. {r \in Requests : pc[r] = "returned"}' = {r \in Requests : pc[r] = "returned"}
    OBVIOUS
<1>5. {del_file[d] : d \in {e \in Deleters : del_pc[e] = "returned"}}'
      = {del_file[d] : d \in {e \in Deleters : del_pc[e] = "returned"}}
    OBVIOUS
<1> QED BY <1>1, <1>2, <1>3, <1>4, <1>5 DEF Contract!Persist

\* A step that neither persists nor ends a call normally.
LEMMA StutterRefines ==
    ASSUME UNCHANGED <<disk, torn, removed>>,
           \A r \in Requests : pc'[r] = "returned" <=> pc[r] = "returned",
           \A d \in Deleters :
               /\ del_pc'[d] = "returned" <=> del_pc[d] = "returned"
               /\ del_pc[d] = "returned" => del_file'[d] = del_file[d]
    PROVE  UNCHANGED Contract!vars
<1>1. {r \in Requests : pc[r] = "returned"}' = {r \in Requests : pc[r] = "returned"}
    OBVIOUS
<1>2. {del_file[d] : d \in {e \in Deleters : del_pc[e] = "returned"}}'
      = {del_file[d] : d \in {e \in Deleters : del_pc[e] = "returned"}}
    OBVIOUS
<1> QED BY <1>1, <1>2 DEF Contract!vars

\* Opening the files cuts them short.
LEMMA TearRefines ==
    ASSUME torn' = TRUE, UNCHANGED <<disk, removed, pc, del_file>>,
           \A d \in Deleters : del_pc'[d] = "returned" <=> del_pc[d] = "returned"
    PROVE  Contract!Tear
<1>1. {r \in Requests : pc[r] = "returned"}' = {r \in Requests : pc[r] = "returned"}
    OBVIOUS
<1>2. {del_file[d] : d \in {e \in Deleters : del_pc[e] = "returned"}}'
      = {del_file[d] : d \in {e \in Deleters : del_pc[e] = "returned"}}
    OBVIOUS
<1> QED BY <1>1, <1>2 DEF Contract!Tear

\* A save that opens the files tears them, and one that ends its persist is the
\* Persist of the contract; its other steps are stutters.
LEMMA SaveRefines ==
    ASSUME IndexInv, StoreInv, StoreInv', NEW b \in ActiveBatches, Save(b)
    PROVE  Contract!Tear \/ Contract!Persist \/ UNCHANGED Contract!vars
<1> USE DEF storeVars, deleteVars, Move
<1>1. CASE EndPersist(b)
    <2>1. image[b] = index
        BY <1>1, BatchFacts DEF EndPersist, IndexInv, ImageCurrent
    <2>2. /\ disk' = index /\ removed' = removed \cup (disk \ index)
          /\ torn' = FALSE /\ UNCHANGED <<pc, del_pc, del_file>>
        BY <1>1, <2>1 DEF EndPersist, WriteOut
    <2> QED BY <2>2, PersistRefines
<1>2. CASE Acquire(b) \/ AddVectors(b) \/ AddNodes(b) \/ EndSave(b) \/ SaveFails(b)
    <2>1. UNCHANGED <<disk, torn, removed, pc, del_pc, del_file>>
        BY <1>2 DEF Acquire, AddVectors, AddNodes, EndSave, Release, SaveFails
    <2> QED BY <2>1, StutterRefines
<1>3. CASE BeginPersist(b)
    <2>1. torn' = TRUE /\ UNCHANGED <<disk, removed, pc, del_pc, del_file>>
        BY <1>3 DEF BeginPersist, Truncate
    <2> QED BY <2>1, TearRefines
<1> QED BY <1>1, <1>2, <1>3 DEF Save

\* So does the persist of a delete call; its return is that of the contract.
LEMMA DeleteRefines ==
    ASSUME IndexInv, StoreInv, StoreInv', NEW d \in Deleters, Delete(d)
    PROVE  [Contract!Next]_(Contract!vars)
<1> USE DEF storeVars, callVars, MoveDelete, IndexInv, TypeOK
<1>1. CASE EndPersistDelete(d)
    <2>1. image[d] = index
        BY <1>1 DEF EndPersistDelete, ImageCurrent
    <2>2. /\ disk' = index /\ removed' = removed \cup (disk \ index)
          /\ torn' = FALSE /\ UNCHANGED <<pc, del_file>>
          /\ \A e \in Deleters : del_pc'[e] = "returned" <=> del_pc[e] = "returned"
        BY <1>1, <2>1 DEF EndPersistDelete, WriteOut
    <2> QED BY <2>2, PersistRefines DEF Contract!Next
<1>2. CASE EndDelete(d)
    <2>1. del_file[d] \in Files
        BY <1>2 DEF EndDelete, StoreInv, CallsKnown
    <2> QED BY <2>1, <1>2 DEF EndDelete, Release, DeleteProgress, Contract!Next,
            Contract!DeleteReturns
<1>3. CASE AcquireDelete(d) \/ DeleteVectors(d) \/ DeleteNodes(d) \/ DeleteFails(d)
    <2>1. /\ UNCHANGED <<disk, torn, removed, pc, del_file>>
          /\ \A e \in Deleters : del_pc'[e] = "returned" <=> del_pc[e] = "returned"
        BY <1>3 DEF AcquireDelete, DeleteVectors, DeleteNodes, DeleteFails, Locked
    <2> QED BY <2>1, StutterRefines
<1>4. CASE BeginPersistDelete(d)
    <2>1. /\ torn' = TRUE /\ UNCHANGED <<disk, removed, pc, del_file>>
          /\ \A e \in Deleters : del_pc'[e] = "returned" <=> del_pc[e] = "returned"
        BY <1>4 DEF BeginPersistDelete, Truncate
    <2> QED BY <2>1, TearRefines DEF Contract!Next
<1> QED BY <1>1, <1>2, <1>3, <1>4 DEF Delete

\* A request that returns returns in the contract; what precedes a save, calls
\* that raise and crashes are stutters.
LEMMA OthersRefine ==
    ASSUME IndexInv, StoreInv,
           \/ \E r \in Requests : \/ \E b \in Batches(r) : Transform(r, b) \/ TransformFails(r, b)
                                 \/ Return(r)
                                 \/ Raise(r)
           \/ \E d \in Deleters : RequestDelete(d)
           \/ Crash
           \/ Quiescent
           \/ UNCHANGED vars
    PROVE  [Contract!Next]_(Contract!vars)
<1> USE DEF storeVars, callVars, deleteVars, IndexInv, TypeOK
<1>1. ASSUME NEW r \in Requests, NEW b \in Batches(r), Transform(r, b) \/ TransformFails(r, b)
      PROVE  UNCHANGED Contract!vars
    BY <1>1, StutterRefines DEF Transform, TransformFails, Move
<1>2. ASSUME NEW r \in Requests, Return(r)
      PROVE  Contract!IngestReturns(r)
    <2>1. FilesOf[r] \subseteq disk \cup {} \cup removed
        <3>1. \A b \in Batches(r) : b \in AllBatches /\ stage[b] = "saved"
            BY <1>2, BatchFacts DEF Return
        <3>2. \A b \in Batches(r) : b \subseteq disk \cup removed
            BY <3>1 DEF StoreInv, SaveProgress
        <3> QED BY <3>2 DEF Batches
    <2>2. {t \in Requests : pc[t] = "returned"}' = {t \in Requests : pc[t] = "returned"} \cup {r}
        BY <1>2 DEF Return
    <2>3. UNCHANGED <<disk, torn, removed, del_pc, del_file>>
        BY <1>2 DEF Return
    <2> QED BY <2>1, <2>2, <2>3 DEF Contract!IngestReturns
<1>3. ASSUME NEW r \in Requests, Raise(r)
      PROVE  UNCHANGED Contract!vars
    BY <1>3, StutterRefines DEF Raise
<1>4. ASSUME NEW d \in Deleters, RequestDelete(d)
      PROVE  UNCHANGED Contract!vars
    BY <1>4, StutterRefines DEF RequestDelete, MoveDelete
<1>5. CASE Crash
    BY <1>5, StutterRefines DEF Crash, Locked
<1>6. CASE Quiescent \/ UNCHANGED vars
    <2>1. UNCHANGED vars
        BY <1>6 DEF Quiescent
    <2> QED BY <2>1, StutterRefines DEF vars
<1> QED BY <1>1, <1>2, <1>3, <1>4, <1>5, <1>6 DEF Contract!Next

\* ingest, bulk_ingest and delete of these strategies keep the promise of an
\* ingestion component, for any number of requests, delete calls and crashes.
THEOREM StrategiesImplementContract == Spec => ImplementsContract
<1>1. Init => Contract!Init
    BY DEF Init, Contract!Init
<1>2. IndexInv /\ StoreInv /\ StoreInv' /\ [Next]_vars => [Contract!Next]_(Contract!vars)
    <2> SUFFICES ASSUME IndexInv, StoreInv, StoreInv', [Next]_vars
                 PROVE  [Contract!Next]_(Contract!vars)
        OBVIOUS
    <2>1. ASSUME NEW r \in Requests, NEW b \in Batches(r), Save(b)
          PROVE  [Contract!Next]_(Contract!vars)
        <3>1. b \in ActiveBatches
            BY BatchFacts
        <3> QED BY <3>1, <2>1, SaveRefines DEF Contract!Next
    <2> QED BY <2>1, DeleteRefines, OthersRefine DEF Next, Request
<1> QED BY <1>1, <1>2, StoreInvariant, PTL DEF Spec, ImplementsContract, Contract!Spec
=============================================================================
