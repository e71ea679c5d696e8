------------------------------- MODULE MCMem -------------------------------
(* One process, pages of two bytes, three RAM frames and two swap frames.  *)
EXTENDS Mem
=============================================================================
