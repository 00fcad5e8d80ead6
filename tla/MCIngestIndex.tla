---------------------------- MODULE MCIngestIndex ----------------------------
(* Every strategy on a request of two files and one of one file, a delete  *)
(* call and one crash.                                                     *)
EXTENDS IngestIndex

CONSTANTS f1, f2, f3, bulk, single

MCFiles == {f1, f2, f3}
MCRequests == {bulk, single}
MCFilesOf == [r \in MCRequests |-> IF r = bulk THEN {f1, f2} ELSE {f3}]
MCModes == {"simple", "batch", "parallel"}
=============================================================================
