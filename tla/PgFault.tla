------------------------------ MODULE PgFault ------------------------------
(***************************************************************************)
(* Page faults of several processes, each on its own CPU, against the one  *)
(* swap device they share (os.c hands every process &mswp[0] as its        *)
(* active_mswp).  pg_getpage (libmem.c) takes no lock, and neither do       *)
(* MEMPHY_get_freefp and MEMPHY_put_freefp (mm-memphy.c): each reads the   *)
(* head of the free list in one statement and writes it in a later one.    *)
(*                                                                         *)
(* Mem makes each memory instruction one atomic step; here pg_getpage is   *)
(* cut at its accesses to the shared list:                                 *)
(*   Victim  find_victim_page, then fp = free_fp_list and the NULL check   *)
(*   GetFp   *retfpn = fp->fpn; free_fp_list = fp->fp_next; free(fp)      *)
(*   Copy    the two SYSMEM_SWP_OP copies, then put's fp = free_fp_list   *)
(*   PutFp   newnode->fp_next = fp; free_fp_list = newnode, and the PTE   *)
(*           and FIFO updates of the faulting process                     *)
(* The page table and FIFO list are the process's own, so the steps that   *)
(* touch only them need no finer cut.  Page contents are left out: the     *)
(* copies never fail (__swap_cp_page returns 0), so they move no control.  *)
(*                                                                         *)
(* A list node's fpn and fp_next are written only when it is created, so   *)
(* the list from a node on is a fixed sequence and a pointer read at the   *)
(* head is that sequence.  A node freed by one CPU and still read by       *)
(* another is read with the contents it had (the allocator may reuse it;  *)
(* that is not modelled).                                                  *)
(***************************************************************************)
EXTENDS Integers, Sequences, FiniteSets

CONSTANTS
  Procs,      \* processes faulting concurrently, one per CPU
  SwpFrames,  \* memswpsz[0] / PAGING_PAGESZ
  MaxPgn,     \* PAGING_MAX_PGN
  Mapped      \* pages each process mapped with ALLOC before the faults

ASSUME /\ SwpFrames \in Nat \ {0}
       /\ Mapped \in 1..MaxPgn

VARIABLES
  free_fp_list, \* mswp[0].free_fp_list, head first
  pgd,          \* pgd[p][pgn]: "none" (zero PTE), "ram" or "swap"
  fifo_pgn,     \* fifo_pgn[p]: mm->fifo_pgn, head first
  pc,           \* where each process is in pg_getpage
  fp,           \* local fp: the list read at the head
  swpfpn,       \* local swpfpn (-1 until get_freefp sets it)
  vicpgn,       \* local vicpgn
  fpgn          \* the faulting page pgn

vars == <<free_fp_list, pgd, fifo_pgn, pc, fp, swpfpn, vicpgn, fpgn>>

Pgns == 0..MaxPgn-1
Frames == 0..SwpFrames-1

\* PAGING_PAGE_PRESENT: pte_set_swap leaves the present bit set, so only a
\* page never mapped faults.
Present(st) == st # "none"

\* MEMPHY_format: the free list holds 0, 1, ..., numfp-1 with 0 at the head.
MEMPHY_format(numfp) == [i \in 1..numfp |-> i - 1]

\* find_victim_page: the victim is the head of the FIFO list, which is
\* unlinked.
find_victim_page(q) == [pgn |-> Head(q), fifo |-> Tail(q)]

-----------------------------------------------------------------------------
(* pg_getpage, one step per access to the shared free list.                *)

\* An access to the absent page g: find_victim_page unlinks the FIFO head
\* (an empty list fails with -1 and leaves everything as it was), then
\* MEMPHY_get_freefp reads the list head and returns -1 when it is NULL;
\* the victim stays unlinked.
Victim(p, g) ==
  /\ pc[p] = "idle"
  /\ ~Present(pgd[p][g])
  /\ fifo_pgn[p] # <<>>
  /\ fifo_pgn' = [fifo_pgn EXCEPT ![p] = find_victim_page(@).fifo]
  /\ vicpgn' = [vicpgn EXCEPT ![p] = find_victim_page(fifo_pgn[p]).pgn]
  /\ fpgn' = [fpgn EXCEPT ![p] = g]
  /\ fp' = [fp EXCEPT ![p] = free_fp_list]
  /\ pc' = [pc EXCEPT ![p] = IF free_fp_list = <<>> THEN "idle" ELSE "get"]
  /\ UNCHANGED <<free_fp_list, pgd, swpfpn>>

\* MEMPHY_get_freefp, after the NULL check: the frame of the node read
\* earlier, and the list set to that node's successor.
GetFp(p) ==
  /\ pc[p] = "get"
  /\ swpfpn' = [swpfpn EXCEPT ![p] = Head(fp[p])]
  /\ free_fp_list' = Tail(fp[p])
  /\ pc' = [pc EXCEPT ![p] = "copy"]
  /\ UNCHANGED <<pgd, fifo_pgn, fp, vicpgn, fpgn>>

\* Victim frame to the scratch slot, target slot to the victim frame (both
\* succeed), then MEMPHY_put_freefp reads the list head.
Copy(p) ==
  /\ pc[p] = "copy"
  /\ fp' = [fp EXCEPT ![p] = free_fp_list]
  /\ pc' = [pc EXCEPT ![p] = "put"]
  /\ UNCHANGED <<free_fp_list, pgd, fifo_pgn, swpfpn, vicpgn, fpgn>>

\* MEMPHY_put_freefp links the scratch frame in front of the head it read;
\* pte_set_swap marks the victim, pte_set_fpn maps the faulting page and
\* enlist_pgn_node prepends it to the FIFO list.
PutFp(p) ==
  /\ pc[p] = "put"
  /\ free_fp_list' = <<swpfpn[p]>> \o fp[p]
  /\ pgd' = [pgd EXCEPT ![p][vicpgn[p]] = "swap", ![p][fpgn[p]] = "ram"]
  /\ fifo_pgn' = [fifo_pgn EXCEPT ![p] = <<fpgn[p]>> \o @]
  /\ pc' = [pc EXCEPT ![p] = "idle"]
  /\ UNCHANGED <<fp, swpfpn, vicpgn, fpgn>>

-----------------------------------------------------------------------------
(* Each process has mapped pages 0..Mapped-1 with one ALLOC, so they are   *)
(* resident and on its FIFO list last-mapped first (vmap_page_range       *)
(* prepends); init_memphy has formatted the swap device.                    *)

Init ==
  /\ free_fp_list = MEMPHY_format(SwpFrames)
  /\ pgd = [p \in Procs |-> [g \in Pgns |-> IF g < Mapped THEN "ram" ELSE "none"]]
  /\ fifo_pgn = [p \in Procs |-> [i \in 1..Mapped |-> Mapped - i]]
  /\ pc = [p \in Procs |-> "idle"]
  /\ fp = [p \in Procs |-> <<>>]
  /\ swpfpn = [p \in Procs |-> -1]
  /\ vicpgn = [p \in Procs |-> -1]
  /\ fpgn = [p \in Procs |-> -1]

Next ==
  \E p \in Procs :
    \/ \E g \in Pgns : Victim(p, g)
    \/ GetFp(p)
    \/ Copy(p)
    \/ PutFp(p)

\* The processes stop once every page is present.
Spec == Init /\ [][Next]_vars

-----------------------------------------------------------------------------
(* Properties.                                                              *)

\* Every variable holds a value of its type.
TypeOK ==
  /\ free_fp_list \in Seq(Frames)
  /\ pgd \in [Procs -> [Pgns -> {"none", "ram", "swap"}]]
  /\ fifo_pgn \in [Procs -> Seq(Pgns)]
  /\ pc \in [Procs -> {"idle", "get", "copy", "put"}]
  /\ fp \in [Procs -> Seq(Frames)]
  /\ swpfpn \in [Procs -> Frames \cup {-1}]

\* The scratch frame a fault holds between get_freefp and put_freefp.
Holds(p, f) == pc[p] \in {"copy", "put"} /\ swpfpn[p] = f

\* Swap-frame conservation: every swap frame is, exactly once, either on
\* the free list or the scratch frame of one fault in progress, whatever
\* the interleaving of MEMPHY_get_freefp and MEMPHY_put_freefp on two CPUs
\* (spec section 5: the shared free lists are guarded by the paging mutex).
SwapConserved ==
  \A f \in Frames :
    Cardinality({i \in DOMAIN free_fp_list : free_fp_list[i] = f})
      + Cardinality({p \in Procs : Holds(p, f)}) = 1

=============================================================================
