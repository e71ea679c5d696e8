----------------------------- MODULE MCPgFault -----------------------------
(* Two processes on two CPUs share a swap device of two frames; each has   *)
(* mapped two of its four pages and faults on the other two.               *)
EXTENDS PgFault, TLC

CONSTANTS p1, p2

MCProcs == {p1, p2}

\* The processes are interchangeable.
MCSymmetry == Permutations(MCProcs)
=============================================================================
