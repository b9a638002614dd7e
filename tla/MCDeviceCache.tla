--------------------------- MODULE MCDeviceCache ---------------------------
(* Small instance of DeviceCache for TLC.                                   *)
EXTENDS DeviceCache, TLC

Symmetry == Permutations(Procs) \cup Permutations(Scopes)
=============================================================================
