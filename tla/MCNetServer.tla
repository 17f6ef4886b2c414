----------------------------- MODULE MCNetServer ------------------------------
(* NetServer on small instances.  The endpoints are interchangeable: they are  *)
(* compared with each other and never ordered, so safety may use symmetry.     *)
EXTENDS NetServer, TLC

Symmetry == Permutations(Endpoints)
===============================================================================
