--------------------------- MODULE MCSolanaClient ---------------------------
(* The instances of SolanaClient give its constants numbers; nothing else. *)
EXTENDS SolanaClient
=============================================================================
