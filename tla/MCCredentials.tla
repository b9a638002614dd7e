--------------------------- MODULE MCCredentials ---------------------------
(* A small instance of Credentials for TLC.                                *)
EXTENDS Credentials, TLC

Symmetry == Permutations(Procs)
=============================================================================
