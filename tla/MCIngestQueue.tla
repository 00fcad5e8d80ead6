---------------------------- MODULE MCIngestQueue ----------------------------
(* Every configuration, a file and a text, two processes, one of which is  *)
(* stopped or crashes.                                                     *)
EXTENDS IngestQueue

CONSTANTS file, text

MCFileUploads == {file}
MCTextUploads == {text}
MCConfigs == [storage : BOOLEAN, sqs : BOOLEAN]
=============================================================================
