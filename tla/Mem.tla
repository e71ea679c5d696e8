-------------------------------- MODULE Mem --------------------------------
(***************************************************************************)
(* The paged memory of the simulator (MM_PAGING build): the per-process    *)
(* address space of libmem.c / mm.c and the physical devices of            *)
(* mm-memphy.c, driven by the memory opcodes ALLOC, FREE, READ and WRITE   *)
(* of cpu.c.                                                               *)
(*                                                                         *)
(* Each memory instruction is one atomic step of its process: __alloc runs *)
(* under mmvm_lock, and read, write and free touch only the caller's mm    *)
(* (PgFault cuts a fault at its unlocked swap free-list accesses).  Only  *)
(* swap device 0 is modelled: it is the active_mswp the loader hands every *)
(* process, and no code switches it.                                       *)
(*                                                                         *)
(* A PTE is a record of its fields.  The bit layout and the accessor       *)
(* macros live in mm.h, which is not in the source tree; they follow the   *)
(* spec (present bit, swapped bit, FPN, swap type and offset).             *)
(***************************************************************************)
EXTENDS Integers, Sequences, FiniteSets, SequencesExt

CONSTANTS
  MProcs,     \* processes owning an address space
  PageSize,   \* PAGING_PAGESZ
  RamFrames,  \* memramsz / PAGING_PAGESZ
  SwpFrames,  \* memswpsz[0] / PAGING_PAGESZ
  MaxPgn,     \* PAGING_MAX_PGN
  MaxSym,     \* PAGING_MAX_SYMTBL_SZ
  Sizes,      \* ALLOC sizes the programs use
  Offsets,    \* READ / WRITE offsets the programs use
  Vals,       \* non-zero byte values the programs write
  MaxOps      \* bound on the number of memory instructions executed

ASSUME /\ PageSize \in Nat \ {0}
       /\ RamFrames \in Nat \ {0}
       /\ SwpFrames \in Nat \ {0}
       /\ Sizes \subseteq Nat \ {0}
       /\ Offsets \subseteq Nat
       /\ 0 \notin Vals

VARIABLES
  pgd,      \* pgd[p][pgn]: mm->pgd
  symrg,    \* symrg[p][rgid]: mm->symrgtbl, [start, end)
  freerg,   \* freerg[p]: vma0->vm_freerg_list, head first
  fifo,     \* fifo[p]: mm->fifo_pgn, head first
  sbrk,     \* sbrk[p]: vma0->sbrk
  ram,      \* mram->storage
  swp,      \* mswp[0]->storage
  ramFree,  \* mram->free_fp_list, head first
  swpFree,  \* mswp[0]->free_fp_list, head first
  shadow,   \* history: shadow[p][vaddr] = the byte last written there
  evicted,  \* history: a page fault has evicted a page
  ops       \* history: memory instructions executed so far

mm_vars == <<pgd, symrg, freerg, fifo, sbrk>>
phy_vars == <<ram, swp, ramFree, swpFree>>
vars == <<mm_vars, phy_vars, shadow, evicted, ops>>

Pgns == 0..MaxPgn-1
RamAddrs == 0..RamFrames*PageSize-1
SwpAddrs == 0..SwpFrames*PageSize-1
Bytes == Vals \cup {0}

-----------------------------------------------------------------------------
(* Page-table entries (mm.c, mm.h).                                         *)

PteZero == [present |-> FALSE, swapped |-> FALSE, fpn |-> 0, swptyp |-> 0, swpoff |-> 0]

\* pte_set_fpn: present, not swapped, FPN field set.
PteSetFpn(pte, fpn) == [pte EXCEPT !.present = TRUE, !.swapped = FALSE, !.fpn = fpn]

\* Mutant: the swapped bit is never set.
PteSetSwapNoFlag(pte, typ, off) ==
  [pte EXCEPT !.present = TRUE, !.swptyp = typ, !.swpoff = off]

\* pte_set_swap: present and swapped, swap type and offset set.
PteSetSwap(pte, typ, off) ==
  [pte EXCEPT !.present = TRUE, !.swapped = TRUE, !.swptyp = typ, !.swpoff = off]

\* PAGING_PAGE_PRESENT tests the present bit only.
PAGING_PAGE_PRESENT(pte) == pte.present

PAGING_PGN(addr) == addr \div PageSize
PAGING_OFFST(addr) == addr % PageSize
PAGING_PAGE_ALIGNSZ(sz) == ((sz + PageSize - 1) \div PageSize) * PageSize

-----------------------------------------------------------------------------
(* Physical devices (mm-memphy.c).                                          *)

\* Mutant: frame numbers counted from 1.
MEMPHY_formatFromOne(numfp) == [i \in 1..numfp |-> i]

\* MEMPHY_format: the free list holds 0, 1, ..., numfp-1 with 0 at the head.
MEMPHY_format(numfp) == [i \in 1..numfp |-> i - 1]

\* MEMPHY_read on a random-access device (init_memphy always passes
\* rdmflg = 1, so the sequential branch is never taken).  Every caller
\* passes an address inside the device.
MEMPHY_read(mem, addr) == mem[addr]

\* MEMPHY_write: an address outside the device is refused with -1.
MEMPHY_write(mem, addr, data) ==
  IF addr \in DOMAIN mem THEN [mem EXCEPT ![addr] = data] ELSE mem

\* The loop of __swap_cp_page from cell i on: each byte is read from frame
\* sf of src and written to frame df of dst.
RECURSIVE CpCells(_, _, _, _, _)
CpCells(src, sf, dst, df, i) ==
  IF i = PageSize THEN dst
  ELSE CpCells(src, sf,
               MEMPHY_write(dst, df * PageSize + i, MEMPHY_read(src, sf * PageSize + i)),
               df, i + 1)

\* __swap_cp_page: frame sf of src copied byte by byte over frame df of dst.
SwapCpPage(src, sf, dst, df) == CpCells(src, sf, dst, df, 0)

\* find_victim_page: the victim is the head of the FIFO list, which is
\* unlinked (an empty list fails with -1).
find_victim_page(q) == [pgn |-> Head(q), fifo |-> Tail(q)]

\* init_vm_rg and enlist_vm_rg_node: a region node pushed on a region list.
init_vm_rg(s, e) == [start |-> s, end |-> e]
enlist_vm_rg_node(list, node) == <<node>> \o list

-----------------------------------------------------------------------------
(* pg_getpage: translate page pgn of process p, swapping on a fault.  The  *)
(* result carries the status, the frame and every structure it updates.    *)

PgGetPage(p, pgn) ==
  LET pte == pgd[p][pgn]
      same == [ok |-> TRUE, evict |-> FALSE, fpn |-> pte.fpn, pgd |-> pgd[p],
               fifo |-> fifo[p], ram |-> ram, swp |-> swp]
  IN
  IF PAGING_PAGE_PRESENT(pte) THEN same
  \* find_victim_page fails on an empty FIFO list
  ELSE IF fifo[p] = <<>> THEN [same EXCEPT !.ok = FALSE]
  \* the victim is already unlinked when MEMPHY_get_freefp finds no swap frame
  ELSE IF swpFree = <<>> THEN [same EXCEPT !.ok = FALSE, !.fifo = find_victim_page(fifo[p]).fifo]
  ELSE
    LET vicpgn == find_victim_page(fifo[p]).pgn
        vicfpn == pgd[p][vicpgn].fpn
        swpfpn == Head(swpFree)
        tgtfpn == pte.swpoff
        \* SYSMEM_SWP_OP(vicfpn, swpfpn): victim frame to the scratch swap slot
        swp1 == SwapCpPage(ram, vicfpn, swp, swpfpn)
        \* SYSMEM_SWP_OP(tgtfpn, vicfpn): target swap slot to the victim frame
        ram1 == SwapCpPage(swp1, tgtfpn, ram, vicfpn)
    IN [ok |-> TRUE, evict |-> TRUE, fpn |-> vicfpn,
        pgd |-> [pgd[p] EXCEPT ![vicpgn] = PteSetSwap(@, 0, tgtfpn),
                               ![pgn] = PteSetFpn(@, vicfpn)],
        fifo |-> <<pgn>> \o find_victim_page(fifo[p]).fifo,
        ram |-> ram1, swp |-> swp1]

\* Install the structures pg_getpage returned (the swap free list ends as it
\* started: the scratch slot is popped and pushed back).
ApplyGetPage(p, r) ==
  /\ pgd' = [pgd EXCEPT ![p] = r.pgd]
  /\ fifo' = [fifo EXCEPT ![p] = r.fifo]
  /\ swp' = r.swp
  /\ evicted' = (evicted \/ r.evict)
  /\ UNCHANGED swpFree

-----------------------------------------------------------------------------
(* Region allocation (libmem.c) and VMA extension (mm.c).                   *)

\* get_free_vmrg_area: the first free region that can hold size bytes.
FirstFit(p, size) ==
  SelectInSeq(freerg[p], LAMBDA rg : rg.end - rg.start >= size)

\* Mutant: the carved region's start is not advanced.
CarveFreeKeep(p, i, size) == freerg[p]

\* The free list after carving size bytes from the front of region i; a
\* region left empty is unlinked and freed.
CarveFree(p, i, size) ==
  LET rg == freerg[p][i]
      rest == [rg EXCEPT !.start = @ + size]
  IN IF rest.start = rest.end THEN RemoveAt(freerg[p], i)
     ELSE [freerg[p] EXCEPT ![i] = rest]

\* alloc_pages_range: pop npages RAM frames, each prepended to the frame
\* list, so the list is in reverse pop order.  On a shortage every frame
\* popped so far stays off the free list.
AllocPagesOk(npages) == Len(ramFree) >= npages
AllocPagesList(npages) == Reverse(SubSeq(ramFree, 1, npages))

\* vmap_page_range: page pgn_base + i gets the i-th frame of the list and is
\* prepended to the FIFO list; it stops (returning -1) at PAGING_MAX_PGN.
VmapPgns(base, npages) == {base + i : i \in 0..npages-1} \cap Pgns

\* Mutant: the frame iterator is never advanced.
VmapPgdSameFrame(p, base, frames) ==
  [pgn \in Pgns |->
     IF pgn \in VmapPgns(base, Len(frames))
     THEN PteSetFpn(pgd[p][pgn], frames[1])
     ELSE pgd[p][pgn]]

VmapPgd(p, base, frames) ==
  [pgn \in Pgns |->
     IF pgn \in VmapPgns(base, Len(frames))
     THEN PteSetFpn(pgd[p][pgn], frames[pgn - base + 1])
     ELSE pgd[p][pgn]]

\* Mutant: the enlisting loop stops one page early.
VmapFifoShort(p, base, npages) ==
  Reverse([i \in 1..Cardinality(VmapPgns(base, npages)) - 1 |-> base + i - 1]) \o fifo[p]

VmapFifo(p, base, npages) ==
  Reverse([i \in 1..Cardinality(VmapPgns(base, npages)) |-> base + i - 1]) \o fifo[p]

(***************************************************************************)
(* __alloc (liballoc with vmaid 0): first fit in the free-region list; on  *)
(* a miss, the SYSMEM_INC_OP memmap syscall maps PAGING_PAGE_ALIGNSZ(size) *)
(* bytes of new pages at sbrk (vm_map_ram), and the region becomes          *)
(* [old_sbrk, old_sbrk + inc_sz).  A failed syscall leaves the symbol       *)
(* table alone.                                                             *)
(***************************************************************************)
AllocFromFree(p, size, rgid) ==
  LET i == FirstFit(p, size)
      rg == freerg[p][i]
  IN /\ i # 0
     /\ freerg' = [freerg EXCEPT ![p] = CarveFree(p, i, size)]
     /\ symrg' = [symrg EXCEPT ![p][rgid] = [start |-> rg.start, end |-> rg.start + size]]
     /\ UNCHANGED <<pgd, fifo, sbrk, phy_vars>>

AllocIncOk(p, size, rgid) ==
  LET inc == PAGING_PAGE_ALIGNSZ(size)
      npages == inc \div PageSize
      base == PAGING_PGN(sbrk[p])
      frames == AllocPagesList(npages)
  IN /\ FirstFit(p, size) = 0
     /\ AllocPagesOk(npages)
     /\ ramFree' = SubSeq(ramFree, npages + 1, Len(ramFree))
     /\ pgd' = [pgd EXCEPT ![p] = VmapPgd(p, base, frames)]
     /\ fifo' = [fifo EXCEPT ![p] = VmapFifo(p, base, npages)]
     /\ sbrk' = [sbrk EXCEPT ![p] = @ + inc]
     /\ symrg' = [symrg EXCEPT ![p][rgid] = [start |-> sbrk[p], end |-> sbrk[p] + inc]]
     /\ UNCHANGED <<freerg, ram, swp, swpFree>>

AllocIncFail(p, size, rgid) ==
  LET npages == PAGING_PAGE_ALIGNSZ(size) \div PageSize IN
  /\ FirstFit(p, size) = 0
  /\ ~AllocPagesOk(npages)
  /\ ramFree' = <<>>
  /\ UNCHANGED <<mm_vars, ram, swp, swpFree>>

\* The addresses of region rgid of process p.
RegionAddrs(p, rgid) == symrg[p][rgid].start .. symrg[p][rgid].end - 1

\* A (re)bound region holds no byte written through it yet.
Forget(p, addrs) == [shadow EXCEPT ![p] = [a \in DOMAIN @ \ addrs |-> @[a]]]

liballoc(p, size, rgid) ==
  /\ \/ AllocFromFree(p, size, rgid)
     \/ AllocIncOk(p, size, rgid)
     \/ AllocIncFail(p, size, rgid)
  /\ shadow' = IF symrg'[p][rgid] # symrg[p][rgid]
               THEN Forget(p, symrg'[p][rgid].start .. symrg'[p][rgid].end - 1)
               ELSE shadow
  /\ UNCHANGED evicted

(***************************************************************************)
(* __free (libfree with vmaid 0): the region is pushed on the free list    *)
(* and its symbol-table slot cleared.  The PTE loop then runs over the     *)
(* cleared bounds, so no page is unmapped and no frame released.           *)
(***************************************************************************)
libfree(p, rgid) ==
  /\ freerg' = [freerg EXCEPT ![p] = <<symrg[p][rgid]>> \o @]
  /\ symrg' = [symrg EXCEPT ![p][rgid] = [start |-> 0, end |-> 0]]
  /\ shadow' = Forget(p, RegionAddrs(p, rgid))
  /\ UNCHANGED <<pgd, fifo, sbrk, phy_vars, evicted>>

(***************************************************************************)
(* __read / __write: the address is rg_start + offset, never checked      *)
(* against the region; pg_getval / pg_setval translate it and move the      *)
(* byte with SYSMEM_IO_READ / SYSMEM_IO_WRITE.  A failed translation is     *)
(* dropped: both report success.                                            *)
(***************************************************************************)
VAddr(p, rgid, off) == symrg[p][rgid].start + off

libread(p, rgid, off) ==
  LET a == VAddr(p, rgid, off)
      r == PgGetPage(p, PAGING_PGN(a))
  IN /\ PAGING_PGN(a) \in Pgns
     /\ ApplyGetPage(p, r)
     /\ ram' = r.ram
     /\ UNCHANGED <<symrg, freerg, sbrk, ramFree, shadow>>

libwrite(p, v, rgid, off) ==
  LET a == VAddr(p, rgid, off)
      r == PgGetPage(p, PAGING_PGN(a))
  IN /\ PAGING_PGN(a) \in Pgns
     /\ ApplyGetPage(p, r)
     /\ ram' = IF r.ok THEN MEMPHY_write(r.ram, r.fpn * PageSize + PAGING_OFFST(a), v)
               ELSE r.ram
     /\ shadow' = [shadow EXCEPT ![p] = (a :> v) @@ @]
     /\ UNCHANGED <<symrg, freerg, sbrk, ramFree>>

-----------------------------------------------------------------------------
(* init_mm gives each process an empty page table, an empty VMA at 0 whose *)
(* free list holds the empty region [0, 0), and an empty FIFO list;        *)
(* init_memphy zeroes and formats every device.                            *)

Init ==
  /\ pgd = [p \in MProcs |-> [pgn \in Pgns |-> PteZero]]
  /\ symrg = [p \in MProcs |-> [r \in 0..MaxSym-1 |-> [start |-> 0, end |-> 0]]]
  /\ freerg = [p \in MProcs |-> enlist_vm_rg_node(<<>>, init_vm_rg(0, 0))]
  /\ fifo = [p \in MProcs |-> <<>>]
  /\ sbrk = [p \in MProcs |-> 0]
  /\ ram = [a \in RamAddrs |-> 0]
  /\ swp = [a \in SwpAddrs |-> 0]
  /\ ramFree = MEMPHY_format(RamFrames)
  /\ swpFree = MEMPHY_format(SwpFrames)
  /\ shadow = [p \in MProcs |-> <<>>]
  /\ evicted = FALSE
  /\ ops = 0

\* One memory instruction of one process.
Step(p) ==
  /\ ops < MaxOps
  /\ ops' = ops + 1
  /\ \/ \E size \in Sizes, rgid \in 0..MaxSym-1 : liballoc(p, size, rgid)
     \/ \E rgid \in 0..MaxSym-1 : libfree(p, rgid)
     \/ \E rgid \in 0..MaxSym-1, off \in Offsets : libread(p, rgid, off)
     \/ \E v \in Vals, rgid \in 0..MaxSym-1, off \in Offsets : libwrite(p, v, rgid, off)

Next == \E p \in MProcs : Step(p)

Spec == Init /\ [][Next]_vars


-----------------------------------------------------------------------------
(* Properties.                                                              *)

Region == [start : Nat, end : Nat]
Pte == [present : BOOLEAN, swapped : BOOLEAN, fpn : Nat, swptyp : Nat, swpoff : Nat]

TypeOK ==
  /\ pgd \in [MProcs -> [Pgns -> Pte]]
  /\ symrg \in [MProcs -> [0..MaxSym-1 -> Region]]
  /\ freerg \in [MProcs -> Seq(Region)]
  /\ fifo \in [MProcs -> Seq(Pgns)]
  /\ sbrk \in [MProcs -> Nat]
  /\ ram \in [RamAddrs -> Bytes]
  /\ swp \in [SwpAddrs -> Bytes]
  /\ ramFree \in Seq(0..RamFrames-1)
  /\ swpFree \in Seq(0..SwpFrames-1)
  /\ evicted \in BOOLEAN
  /\ ops \in 0..MaxOps

\* Page pgn of p is resident: present and not swapped.
Resident(p, pgn) == pgd[p][pgn].present /\ ~pgd[p][pgn].swapped

Live(p, r) == symrg[p][r].start < symrg[p][r].end

\* The regions __alloc hands out never overlap: the live symbol-table
\* regions of a process are pairwise disjoint, none overlaps a free region,
\* and all lie below sbrk (first fit, carving, __free and the sbrk path).
RegionsDisjoint ==
  \A p \in MProcs :
    LET live == {r \in 0..MaxSym-1 : Live(p, r)}
        free == {freerg[p][i] : i \in DOMAIN freerg[p]}
    IN /\ \A r1, r2 \in live :
            r1 # r2 => RegionAddrs(p, r1) \cap RegionAddrs(p, r2) = {}
       /\ \A r \in live, rg \in free :
            RegionAddrs(p, r) \cap (rg.start .. rg.end - 1) = {}
       /\ \A r \in live : symrg[p][r].end <= sbrk[p]

\* No RAM frame backs two resident pages (of one process or of two), and no
\* frame on the RAM free list backs a resident page.
FrameExclusive ==
  \A p, q \in MProcs, g, h \in Pgns :
    /\ Resident(p, g) /\ Resident(q, h) /\ <<p, g>> # <<q, h>>
         => pgd[p][g].fpn # pgd[q][h].fpn
    /\ Resident(p, g) => ~Contains(ramFree, pgd[p][g].fpn)

\* Victim bookkeeping (spec 4.2): every page that holds a RAM frame is on
\* its process's FIFO list, so find_victim_page can still choose it and its
\* frame is not pinned for good.  vmap_page_range enlists each page it
\* maps and a fault enlists the page it maps, also when a stray access has
\* faulted in a page above sbrk that a later ALLOC maps again; the victim a
\* fault unlinks is the one it swaps out (libmem.c, pg_getpage).
ResidentEvictable ==
  \A p \in MProcs, g \in Pgns : Resident(p, g) => Contains(fifo[p], g)

\* Round trip (spec section 8): a byte written through a live region and not
\* overwritten since is what a read of it returns, eviction or not.  A read
\* of a present page returns RAM at the FPN of its PTE.
RoundTrip ==
  \A p \in MProcs, r \in 0..MaxSym-1 :
    \A a \in RegionAddrs(p, r) \cap DOMAIN shadow[p] :
      LET pte == pgd[p][PAGING_PGN(a)] IN
      PAGING_PAGE_PRESENT(pte) => ram[pte.fpn * PageSize + PAGING_OFFST(a)] = shadow[p][a]

\* Round trip up to the first eviction: until a page fault has swapped a
\* page out, a byte written through a live region reads back, whatever the
\* offsets, re-allocations and frees in between (alloc_pages_range,
\* vmap_page_range, __free and the translation of __read / __write).
RoundTripUntilEvict == ~evicted => RoundTrip

\* FIFO replacement (spec 4.2, 8): a page fault evicts the page that entered
\* the process's page list first.
FifoVictim ==
  [][\A p \in MProcs, g \in Pgns :
       (Resident(p, g) /\ pgd'[p][g].swapped) => g = Last(fifo[p])]_vars

\* Frame conservation (spec section 8): every RAM frame is either on the
\* free list or backs a resident page.
RamConserved ==
  \A f \in 0..RamFrames-1 :
    Contains(ramFree, f) \/ \E p \in MProcs, g \in Pgns : Resident(p, g) /\ pgd[p][g].fpn = f

=============================================================================
