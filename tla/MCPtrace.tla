------------------------------ MODULE MCPtrace ------------------------------
(* Small instances of PtraceTracer. *)
EXTENDS PtraceTracer, TLC

\* The tids a clone may hand out are interchangeable.
Symmetry == Permutations(Task \ Root)
=============================================================================
