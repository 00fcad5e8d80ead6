-------------------------- MODULE MCIngestPipeline --------------------------
(* A small instance of IngestPipeline: a bulk_ingest and an ingest, a      *)
(* delete call, queues of one place and a pool of one worker.              *)
EXTENDS IngestPipeline

CONSTANTS f1, f2, bulk, single

MCFiles == {f1, f2}
MCRequests == {bulk, single}
MCBulk == {bulk}
MCFilesOf == [r \in MCRequests |-> IF r = bulk THEN {f1} ELSE {f2}]

\* f1 alone reaches the flush threshold of 2, f2 does not.
MCNodesOf == [f \in MCFiles |-> IF f = f1 THEN 2 ELSE 1]
=============================================================================
