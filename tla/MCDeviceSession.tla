--------------------------- MODULE MCDeviceSession ---------------------------
(***************************************************************************)
(* DeviceSession for TLC.  Clients and uplink goroutines are               *)
(* interchangeable, and everything the runs check is safety, so symmetry   *)
(* is sound.                                                               *)
(***************************************************************************)
EXTENDS DeviceSession, TLC

Symmetry == Permutations(Clients) \cup Permutations(Workers)
=============================================================================
