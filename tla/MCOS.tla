-------------------------------- MODULE MCOS --------------------------------
(* The harness and scheduler instantiated for TLC: two CPUs, two priority   *)
(* levels and three processes.                                              *)
EXTENDS OS

MCProcs == 1..3
MCPrio == <<0, 1, 0>>
MCStart == <<1, 1, 2>>
MCCodeSize == <<3, 1, 2>>

\* One process of priority 0 on two CPUs (spec section 8, scenario 1).
OneProc == 1..1
OnePrio == <<0>>
OneStart == <<1>>
OneCodeSize == <<4>>

\* A process that arrives at slot 0, as most shipped configurations have.
ZeroStart == <<0, 1, 2>>
=============================================================================
