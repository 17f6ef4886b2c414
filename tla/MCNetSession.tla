----------------------------- MODULE MCNetSession -----------------------------
(* NetSession with an interval and timeouts of a few ticks. *)
EXTENDS NetSession
===============================================================================
