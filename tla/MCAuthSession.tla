--------------------------- MODULE MCAuthSession ---------------------------
(* Three requests, one address, two pooled connections.                  *)
EXTENDS AuthSession

CONSTANTS ann

MCRequests == 1 .. 3
MCEmails == {ann}
=============================================================================
