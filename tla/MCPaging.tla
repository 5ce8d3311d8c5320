------------------------------ MODULE MCPaging -------------------------------
(***************************************************************************)
(* Paging for TLC.  Versions only label stores and nothing depends on      *)
(* which is which; nor does anything choose between processes by name.     *)
(* Both may be permuted where no liveness is checked.                      *)
(***************************************************************************)
EXTENDS Paging, TLC

VersionSymmetry == Permutations(Versions)
ProcSymmetry    == Permutations(Procs)
=============================================================================
