----------------------------- MODULE MCKillall -----------------------------
(* Instances of Killall: three pcbs in the level-0 queue.  Two of them   *)
(* carry the name killall is given, so that some orders put the matches  *)
(* next to each other (idx must stay put after a match); the third does  *)
(* not, so that the shift moves it and killall has to keep it.  Level 1  *)
(* stays empty and the loop still walks it.                              *)
EXTENDS Killall

CONSTANTS p1, p2, p3, nA, nB, c1, c2, kNr, oNr

MCProcs == {p1, p2, p3}
MCPrio == [p \in MCProcs |-> 0]
MCName == [p \in MCProcs |-> IF p = p2 THEN nB ELSE nA]
====
