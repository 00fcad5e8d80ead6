----------------------------- MODULE MCLlmBreaker -----------------------------
(* Threads that serve one request after the other, for ever.               *)
EXTENDS LlmBreaker
=============================================================================
