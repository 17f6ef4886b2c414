----------------------------- MODULE MCNetClient ------------------------------
(* NetClient on short timeouts: every order of the thresholds' expiry occurs. *)
EXTENDS NetClient
===============================================================================
