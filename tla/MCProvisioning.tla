--------------------------- MODULE MCProvisioning ---------------------------
(***************************************************************************)
(* Provisioning for TLC.  Processes, requests, EUIs and values other than  *)
(* the default are interchangeable, and all properties are safety.         *)
(***************************************************************************)
EXTENDS Provisioning, TLC

Symmetry == Permutations(Procs) \cup Permutations(Requests) \cup Permutations(EUIs)
=============================================================================
