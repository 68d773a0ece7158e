---------------------------- MODULE MCOutputStore ----------------------------
(***************************************************************************)
(* Instances of OutputStore for TLC.                                       *)
(***************************************************************************)
EXTENDS OutputStore, TLC

\* Savers are interchangeable, and so are clients.
Symmetry == Permutations(Savers) \cup Permutations(Clients)
=============================================================================
