----------------------------- MODULE MCProcess -----------------------------
(* Process with a bounded number of process blocks. *)
EXTENDS Process
=============================================================================
