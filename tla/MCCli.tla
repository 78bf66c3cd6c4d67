------------------------------- MODULE MCCli -------------------------------
(* Small instances of SyrenCli. *)
EXTENDS SyrenCli, TLC

\* The tids a clone may hand out are interchangeable.
Symmetry == Permutations(Task \ Root)
=============================================================================
