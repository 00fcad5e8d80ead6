--------------------------- MODULE IngestContract ---------------------------
(***************************************************************************)
(* What an ingestion component promises its callers, whatever strategy it  *)
(* uses to get there (BaseIngestComponent: ingest, bulk_ingest, delete).   *)
(*                                                                         *)
(*   - the persisted index changes by whole updates: some files are added, *)
(*     some are removed, and a file that was removed is never added again; *)
(*   - the update rewrites the files it is kept in: they cannot be read     *)
(*     from its start to its end, and if it raises or the process crashes   *)
(*     meanwhile, until a later update has come to its end;                 *)
(*   - a file that is not persisted is given up on (discarded) for good;   *)
(*   - an ingest call returns only when each of its files is persisted,    *)
(*     was discarded, or has been deleted by somebody since;               *)
(*   - a delete call returns only when its file is not persisted any more. *)
(*                                                                         *)
(* Either kind of call may raise instead, and then promises nothing.       *)
(***************************************************************************)

CONSTANTS
    Files,      \* the files callers hand over, each ingested once
    Requests,   \* the ingest and bulk_ingest calls
    FilesOf     \* FilesOf[r]: the files request r submits

VARIABLES
    durable,    \* the files the persisted index holds, as last written
    readable,   \* whether what was written can be read
    discarded,  \* the files the component gave up on
    removed,    \* the files deleted from the persisted index
    returned,   \* the ingest calls that returned normally
    deleted     \* the files some delete call returned for

vars == <<durable, readable, discarded, removed, returned, deleted>>

TypeOK ==
    /\ durable \subseteq Files
    /\ readable \in BOOLEAN
    /\ discarded \subseteq Files
    /\ removed \subseteq Files
    /\ returned \subseteq Requests
    /\ deleted \subseteq Files

Init ==
    /\ durable = {}
    /\ readable = TRUE
    /\ discarded = {}
    /\ removed = {}
    /\ returned = {}
    /\ deleted = {}

Tear ==
    /\ readable' = FALSE
    /\ UNCHANGED <<durable, discarded, removed, returned, deleted>>

Persist ==
    \E added, dropped \in SUBSET Files :
        /\ added \cap (removed \cup dropped \cup deleted) = {}
        /\ durable' = (durable \cup added) \ dropped
        /\ removed' = removed \cup dropped
        /\ readable' = TRUE
        /\ UNCHANGED <<discarded, returned, deleted>>

Discard ==
    \E lost \in SUBSET Files :
        /\ discarded' = discarded \cup lost
        /\ UNCHANGED <<durable, readable, removed, returned, deleted>>

IngestReturns(r) ==
    /\ FilesOf[r] \subseteq durable \cup discarded \cup removed
    /\ returned' = returned \cup {r}
    /\ UNCHANGED <<durable, readable, discarded, removed, deleted>>

DeleteReturns(f) ==
    /\ f \notin durable
    /\ deleted' = deleted \cup {f}
    /\ UNCHANGED <<durable, readable, discarded, removed, returned>>

Next ==
    \/ Tear
    \/ Persist
    \/ Discard
    \/ \E r \in Requests : IngestReturns(r)
    \/ \E f \in Files : DeleteReturns(f)

Spec == Init /\ [][Next]_vars
=============================================================================
