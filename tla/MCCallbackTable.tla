--------------------------- MODULE MCCallbackTable ----------------------------
(* CallbackTable with few threads, keys and callables, which are interchangeable. *)
EXTENDS CallbackTable, TLC

Symmetry == Permutations(Threads) \cup Permutations(Keys) \cup Permutations(Callables)
===============================================================================
