# TLA+ models of the OS simulator

This directory holds TLA+ models of the simulator in `src/ossim_sierra/src`. The build modelled is the one the Makefile selects: `MLQ_SCHED` and `MM_PAGING`. The models are checked with TLC. `PROJECT.json` records the component inventory, the runs, the mutants, the source map, the findings and the hazards.

## The system

| Part | Source | What it does |
|---|---|---|
| Scheduler | `sched.c`, `queue.c` | `MAX_PRIO` bounded ready queues (`mlq_ready_queue`). `slot[i] = MAX_PRIO - i` credits per round (`slot_usage`). `get_mlq_proc` serves the lowest level that has credit and a process. `dequeue` takes the first process of minimum `prio`. Every operation holds `queue_lock`. |
| Harness | `os.c` | `main` reads the configuration, creates the loader thread, then calls `init_scheduler`, then creates one `cpu_routine` thread per CPU, then joins them all. `ld_routine` adds process *i* once `current_time() >= start_time[i]`, one per slot, and then sets `done`. `cpu_routine` dispatches, runs and preempts; it exits when it holds no process and `done` is set. |
| Timer | `timer.c` (not in the tree) | `next_slot` is a barrier: a time slot ends when every attached thread has called it. `detach_event` removes a thread that is leaving. |
| Executor | `cpu.c` | `run` executes `code[pc]` and increments `pc`. The memory opcodes call the paging library. |
| Paging library | `libmem.c` | `__alloc` uses first fit in the free-region list. On a miss, it grows the VMA by `SYSMEM_INC_OP`, which is `vm_map_ram`. `__free` pushes the region back on the free list. `__read` and `__write` translate `rg_start + offset` with `pg_getpage`, which handles page faults by swapping. |
| Page tables | `mm.c` | PTE setters; `vmap_page_range`, `alloc_pages_range` and `vm_map_ram`; `__swap_cp_page`; `init_mm`; `enlist_pgn_node` (the FIFO list). |
| Devices | `mm-memphy.c` | Byte storage (`MEMPHY_read`, `MEMPHY_write`) and a free-frame list (`MEMPHY_format`, `get_freefp`, `put_freefp`). One RAM device and swap device 0 are shared by every process. The list operations take no lock. |
| Syscalls | `syscall.c`, `sys_killall.c` | `syscall` switches over the number table `syscalltbl.lst`. An unknown number goes to `__sys_ni_syscall`. `killall` reads a name from the caller's region, removes every queued process with that path from the ready queues and frees its code and `mm`. It edits the queue arrays directly, without `queue_lock`. |

The parts interact as follows:
- The harness threads meet in the scheduler (through `queue_lock`) and in the timer barrier.
- A `SYSCALL` instruction runs its handler on the calling CPU's thread. `killall` therefore edits the ready queues while the other CPUs are inside `get_proc` and `put_proc`.
- Each CPU runs the instructions of the process it holds. Memory instructions modify that process's `mm` and the devices shared by all processes. `__alloc` holds `mmvm_lock`; `pg_getpage`, and so every page fault, holds no lock while it pops and pushes the swap free list.

## Modules

### `Sched.tla`: the scheduler

State:
- `mlq[i]` is a sequence of process ids; it stands for the array and its `size`.
- `slot_usage[i]` is the credit counter of level *i*.

Operators:
- `InitScheduler` is `init_scheduler`.
- `Enqueue` and `Dequeue` are `enqueue` and `dequeue`. `Enqueue` drops the process when the queue is full; `Dequeue` removes the first minimum-`prio` entry.
- `GetMlqProc` is `get_mlq_proc`'s effect on the queues. It performs the all-zero replenish, serves the lowest servable level (`ServedLevel`) and spends one credit.
- `GetMlqPick` is the pcb `get_mlq_proc` returns, or `NULL`. A CPU action conjoins `GetMlqProc` with its use of `GetMlqPick`, so the call and the assignment to `proc` form one step, as they do under the lock.
- `PutMlqProc` is `put_mlq_proc`, reached through `put_proc` and `add_proc`.

Each operator is atomic because `queue_lock` is held for the whole operation. The standalone `SchedSpec` describes the scheduler on its own.

### `OS.tla`: harness and scheduler composed

`OS` extends `Sched`.

| Variable | Stands for |
|---|---|
| `mainPc` | main before `init_scheduler`, joining, or returned |
| `cpuPc`, `cpuProc`, `timeLeft` | each `cpu_routine`'s loop position, its `proc` and its `time_left` |
| `pcount` | each process's `pc`; code is abstracted to its length |
| `freed` | the pcbs released by `free(proc)` |
| `ldPc`, `ldI` | the loader's position and its index *i* |
| `done` | the global `done` flag |
| `time` | the timer's current time |

`ranInSlice` is a history variable, the instructions run since this CPU last obtained its process.

`cpu_routine` is cut at its scheduler calls and at `next_slot`:
- `CpuFetch`: `proc == NULL`, so call `get_proc`. On `NULL`, call `next_slot` and continue.
- `CpuRetire`: the process has finished. `free(proc)`, then `get_proc`, then `time_left = 0`.
- `CpuPreempt`: `time_left == 0`, so call `put_proc`.
- `CpuGet`: the `get_proc` that follows `put_proc`.
- `CpuStop` and `CpuIdle`: the recheck that finds no process, with `done` set or not set.
- `CpuRun`: dispatch if `time_left == 0`, then `run`, then `time_left--`, then `next_slot`.

The loader has three actions:
- `LdWait`: one `next_slot` of the wait loop.
- `LdAdd`: `add_proc` followed by `next_slot`.
- `LdFinish`: `done = 1` and detach.

The timer and main:
- `Tick` ends a slot once every attached thread is waiting in `next_slot`. A stopped CPU and the finished loader are detached and not waited for.
- `MainInit` is `init_scheduler` plus the creation of the CPU threads. `MainExit` is the joins.

Time only ever appears in the loader's comparison with start times. It therefore saturates at the latest start time (`TimeBound`) without changing any comparison.

### `ProcLife.tla`: the abstract process life cycle

This is what the harness promises about one process, whatever queue discipline is used.
- The process is loaded in configuration order (`Load`).
- It runs only while a CPU holds it (`Exec`).
- A CPU's `Switch` releases its process and may take a ready one in the same step, as `free(proc); proc = get_proc()` does. A released process is retired if its `pc` has reached its code size and is ready again otherwise.

`OS` instantiates `ProcLife` with this refinement mapping:
- `status` is derived from `ldI`, `freed` and `cpuProc`: new, done, running, or ready otherwise.
- `onCpu` is `cpuProc`.
- `pc` is `pcount`.

`ImplementsProcLife` is `Life!LSpec`, checked as a `PROPERTY`. In the refinement, `CpuPreempt` and `CpuGet` are the two halves of a `Switch`, and `CpuRetire` is a whole `Switch`.

### `Mem.tla`: paged memory of one address space

State:
- `pgd` holds PTEs as records of the fields the spec names: present, swapped, fpn, swap type and swap offset.
- `symrg`, `freerg`, `fifo` and `sbrk` are the `mm` and its VMA 0.
- `ram`, `swp`, `ramFree` and `swpFree` are the RAM device and swap device 0, with their free-frame lists (head first).

`mm.h` is not in the tree. The PTE record and the `PAGING_*` macros therefore follow the spec and are marked `spec_modelled` in the map.

Each memory instruction is one step, as listed below. `Step(p)` is one memory instruction of `run`, and `ops` bounds how many run.

| Step | Code | What it does |
|---|---|---|
| `liballoc` | `__alloc` | One of three cases: first fit (`AllocFromFree`); `SYSMEM_INC_OP` with `vm_map_ram` succeeding (`AllocIncOk`); or with `alloc_pages_range` failing (`AllocIncFail`), which leaves the frames it popped off the free list. |
| `libfree` | `__free` | Pushes the region and clears the slot. Its PTE loop covers an empty range. |
| `libread` / `libwrite` | `__read` / `__write` | `PgGetPage` is `pg_getpage` with its two failure exits and the whole fault path: victim from the list head (`find_victim_page`), scratch swap slot, the two `SYSMEM_SWP_OP` copies, the slot returned, `pte_set_swap(victim, 0, tgtfpn)`, `pte_set_fpn(target, vicfpn)`, and a prepend to the FIFO list. |

`shadow` is a history variable. It holds the last byte written at each virtual address of a region that is still bound, and it is what `RoundTrip` compares against. `evicted` is a history flag, set by the first fault that evicts a page.

`sys_mem.c` and `mm-vm.c` are not in the tree, so what the `SYSMEM_INC_OP` syscall does between `__alloc` and `vm_map_ram` (map the pages at `sbrk`, then advance `sbrk` by the aligned size) follows the spec; `AllocIncOk` translates only the `__alloc` side of it (libmem.c:92-119). `Init` is `init_mm` for each process: a zero page table and a free list holding the one empty region `init_vm_rg(0, 0)` pushed by `enlist_vm_rg_node`. Byte moves go through `MEMPHY_read` and `MEMPHY_write`. `__swap_cp_page` is the recursive `CpCells`, one cell per call, as its loop.

### `PgFault.tla`: page faults of several CPUs on the shared swap device

Mem makes a fault one atomic step. Here several processes, each on its own CPU, fault at the same time. `pg_getpage` is cut at its unlocked accesses to the swap free list:

| Step | Code | What it does |
|---|---|---|
| `Victim(p, g)` | libmem.c:199-218 | An access to absent page `g`. `find_victim_page` unlinks the FIFO head; `MEMPHY_get_freefp` reads the list head into `fp` and returns -1 on NULL, leaving the victim unlinked. |
| `GetFp(p)` | mm-memphy.c:153-169 | `*retfpn = fp->fpn; free_fp_list = fp->fp_next`. |
| `Copy(p)` | libmem.c:220-243 | The two `SYSMEM_SWP_OP` copies, then `MEMPHY_put_freefp` reads the head. |
| `PutFp(p)` | mm-memphy.c:176-187, libmem.c:243-247 | `free_fp_list = newnode` in front of the head read earlier; `pte_set_swap`, `pte_set_fpn`, `enlist_pgn_node`. |

State is the free list, each process's page states (`none`, `ram`, `swap`) and FIFO list, and the locals of each fault. Page contents are left out: the copies cannot fail (`__swap_cp_page` returns 0), so they change no control. A list node is written only when it is created, so the list from a node on is a fixed sequence, and the model stores the pointer read at the head as that sequence. A node freed by one CPU and then read by another is read with the contents it had; what the allocator does with freed memory is not modelled.

### `Killall.tla`: the killall system call against the other CPUs

`killall` works on the raw arrays. This module therefore models the ready queues as `queue.c` lays them out:
- `arr[i][j]` is `mlq_ready_queue[i].proc[j]`, `size[i]` is the size counter, and `size[i]` may become negative.
- `ArrEnqueue`, `ArrDequeue` and `ScanBest` are `enqueue` and `dequeue` on that layout. They include the clamp of a negative size to 0, the early `NULL` return at `size <= 0`, the skipping of `NULL` slots, and a shift that does not clear the last slot.
- `CpuGet` and `CpuPut` are `get_mlq_proc` and `put_mlq_proc` (reached through `get_proc` and `put_proc`), one atomic step each under `queue_lock`. `held[c]` is the pcb another CPU holds.

The calling CPU runs one step per statement group:

| Step | Code |
|---|---|
| `Syscall` | `syscall`'s switch: the killall number starts `__sys_killall`, and any other number returns 0 (`__sys_ni_syscall`). `syscalltbl.lst` is not in the tree, so `SyscallTable` follows the spec. |
| `KLevel` | the `for (lvl ...)` loop and its `empty` check. Past the last level it is the `running_list` pass, which finds an empty list because nothing adds to it. |
| `KTest` | `while (idx < queue->size)` |
| `KRead` | `proc = queue->proc[idx]` and the path comparison, else `idx++` |
| `KFree` | `free(proc->code); free(proc->mm)` |
| `KShift` | one iteration of the shift loop, re-reading `size` |
| `KClear` | `queue->proc[queue->size - 1] = NULL`. A store outside the array is skipped, because the layout of `queue_t` is not in the tree. |
| `KShrink` | `queue->size--` |

The name read through `libread` is the constant `Target`, and a pcb's path is `Name[p]`.

Init enumerates every state the scheduler can be in when the call starts:
- each pcb is either held by one CPU or in its level's queue, in any order;
- each credit counter has any value within its budget.

Three history variables support the properties:
- `killed`: the pcbs whose code has been freed;
- `q0`: the queues at the start of the call;
- `quiet`: no other CPU has acted during the call.

## Runs

| Run | Config | Result | What it shows |
|---|---|---|---|
| os_main | `MCOS.cfg` | pass | No pcb is lost, duplicated or held by two CPUs (`ExactlyOnePlace`). Every put-back follows exactly `time_slot` instructions since the CPU got the process (`SliceExact`). The harness refines `ProcLife` (`ImplementsProcLife`). Every process is eventually retired (`EveryProcessRuns`). |
| os_term | `MCOS_term.cfg` | violation | `Termination` fails: an idle CPU never looks at `done` (os.c:58). |
| os_drain | `MCOS_drain.cfg` | violation | `StopsOnlyWhenDrained` fails: the credits of the only non-empty level are spent and are not refilled, so the CPU exits with work queued (sched.c:87). |
| os_race | `MCOS_race.cfg` | violation | `ExactlyOnePlace` fails: a process with start time 0 is added before `init_scheduler` and then erased (os.c:223/228). |
| killall_main | `MCKillall.cfg` | pass | `KillReturnsAlone`: a killall during which no other CPU acts returns. `KillResult`: when no other CPU acts during the call, killall leaves exactly the pcbs with other names, in their order, with every slot it vacated NULL again, and frees every queued pcb with the name, also when two matches are adjacent; any other call number changes nothing. `SizeFloor`: with two CPUs getting and putting, a queue's size can be driven negative, but never below -1, which is the value the guards in `enqueue` and `dequeue` handle. |
| killall_uaf | `MCKillall_NoUseAfterFree.cfg` | violation | `NoUseAfterFree` fails: after killall frees a pcb's code and before it removes the pcb, a CPU dequeues that pcb (sys_killall.c:50). |
| killall_lost | `MCKillall_NoLostPcb.cfg` | violation | `NoLostPcb` fails: a `put_proc` between killall's NULL store and its `size--` appends a pcb that `size--` then cuts off (sys_killall.c:57). |
| mem_main | `MCMem.cfg` | pass | Including out-of-bounds offsets and faults: live regions never overlap each other or a free region and stay below `sbrk` (`RegionsDisjoint`); no RAM frame backs two resident pages or a resident page and the free list (`FrameExclusive`); every resident page is on its FIFO list, so it can still be chosen as a victim, also after an ALLOC maps again a page that a stray access faulted in (`ResidentEvictable`); until the first eviction, a byte written through a live region reads back, across free and re-allocation (`RoundTripUntilEvict`). |
| mem_roundtrip | `MCMem_rt.cfg` | violation | An out-of-bounds write faults. The victim stays present at its old frame, which the new page now owns, so the victim's byte changes (libmem.c:244). |
| mem_fifo | `MCMem_fifo.cfg` | violation | The victim of a fault is the newest page, not the oldest (`FifoVictim`; libmem.c:437 with mm.c:238). |
| mem_leak | `MCMem_leak.cfg` | violation | An ALLOC needing more frames than are free drains the free list for good (`RamConserved`; mm.c:140). |
| pgfault_race | `MCPgFault.cfg` | violation | `SwapConserved` fails: two processes fault together, both read the same free-list head, and both take swap frame 0 (libmem.c:214, mm-memphy.c:157-163). The spec (§5) says the shared free lists are guarded by the paging mutex. The same unlocked read-then-write in `put_freefp` (mm-memphy.c:178-184) can also drop a frame. |

Each passing property has a mutant in `PROJECT.json`: a plausible bug in the mapped code that TLC must catch under the run's configuration. The mutants are:
- a budget one larger than `MAX_PRIO - i`;
- `dequeue` not removing the entry;
- a retire that keeps `time_left`;
- an end-of-code test one instruction early;
- `get_mlq_proc` without its refill of all-zero credits;
- frame numbers counted from 1;
- a carve that does not advance `rg_start`;
- `pte_set_swap` that does not set the swapped bit;
- `vmap_page_range` not advancing its frame iterator;
- `vmap_page_range` enlisting one page fewer than it maps;
- killall matching any non-NULL pcb (the dropped `strcmp`);
- killall's loop advancing `idx` after a match as well, as a `for` loop would;
- killall's loop without `idx++` after a non-matching slot;
- `dequeue` testing `size == 0` instead of `size <= 0`.

## Bounds

OS, main workload:
- Two CPUs, enough for the two-CPU interleavings of get, put and retire.
- Three processes on two levels, with two of them at level 0, so `dequeue`'s minimum scan and the per-level credits both matter.
- Start times 1, 1 and 2, so two processes arrive in the same slot.
- `time_slot` 2, so a process is preempted mid-program. Code lengths 3, 1 and 2, so processes finish both inside and at the end of a slice.
- The queue size of 3 leaves room for every process, so a drop would be a bug and not the configuration.

The violation configurations use the smallest workload that shows each behaviour:
- os_term and os_drain use a single process.
- os_race uses start time 0, which the shipped configurations use.

Killall:
- Three pcbs, all in the level-0 queue. Two carry the target name, so some initial orders put the matches next to each other, which is where `idx` must not advance after a match. The third does not, so the shift has to move it and keep it. Level 1 stays empty, and the loop still walks it. A fourth pcb (a match at level 1, as in scenario 4 of the spec) makes the run too large to finish: with two CPUs, about 1.9 million distinct states after two minutes with the queue still growing. So a bug that stops the loop after level 0 is not caught. The three-pcb run has 1,360,240 states and takes about 80 s.
- Two call numbers: killall and one other.
- The passing run has two other CPUs. `SizeFloor` is only at stake with two: one CPU that holds the stale pcb cannot also dequeue at size -1. A `MAX_QUEUE_SIZE` of 3 holds every pcb of a level.
- The violation runs use one other CPU, the fewest that show each race.

Mem:
- Page size 2, three or four RAM frames, two swap frames, four pages, two symbol-table slots, and five instructions (six in mem_main).
- Sizes 1 and 3 give one-page and two-page regions.
- Offset 2 is past a one-page region, so the fault path runs.
- RAM exhaustion is reached with three frames.
- The round-trip properties need two distinct values so that an overwrite is visible.
- `FrameExclusive` and `ResidentEvictable` were also checked with offsets 0, 2 and 4 and six instructions (107,194 states). There an ALLOC maps over a page an out-of-bounds access already faulted in (mm.c:105 sets the PTE without looking at it): the page's first frame is lost and the page is on the FIFO list twice. The stale second entry is never evicted: each fault prepends the page it maps and takes the head. Already with offsets 0 to 2 the FIFO list is not a set of the resident pages, which is why `ResidentEvictable` states only inclusion.

PgFault:
- Two processes on two CPUs, the fewest for a race. Each has mapped two of its four pages and faults on the other two, so each can fault twice.
- Two swap frames, one per CPU, so an empty list is not just contention.
- The processes are interchangeable, so the run uses symmetry.

## Fairness

`Spec` in OS has weak fairness on main, the loader, each CPU thread and the timer. They are POSIX threads, and the timer thread keeps running while any thread waits on it. No stronger assumption is made. `EveryProcessRuns` holds under this fairness on the os_main workload. os_drain shows that it can fail when a level runs out of credit while the other levels are empty. Killall's `Spec` has weak fairness on the killall thread only. The other CPUs may stop at any point. The killall thread is a CPU thread that stays scheduled while it runs the call, and it takes no lock it could wait on, so weak fairness is what the code justifies. `KillReturnsAlone` uses it. The Mem and PgFault runs check safety only.

## Not modelled, or not yet

- `read_config`: its result is the constants.
- The printing functions, `MEMPHY_dump` and the sequential cursor mode, which `main` never selects.
- `memmap` is folded into Mem's alloc and fault steps, not dispatched through `Syscall`.
- What happens when killall stores at `proc[-1]`: the layout of `queue_t` is not in the tree. The model skips the store. A state where the store is reached does occur in the killall_lost configuration.
- Whether killall returns while other CPUs keep running. TLC finds a cycle in which a CPU keeps putting back a pcb that killall has already freed, and killall matches it again. The cycle needs the CPU to finish whole time slices inside one killall iteration. The model has no notion of speed, so no property asserts termination.
- killall's effect on a running victim: spec §5 says killall does not preempt one, and `running_list` is always empty.
- Frame ownership across process exit. `cpu_routine` frees a finished pcb with `free(proc)` only, and `free_pcb_memph` (libmem.c:404) is never called. Mem has one address space for the whole run and no exit, so it cannot tell a frame held by an exited process from one in use.
- The consequence of a fault that finds the swap list empty (libmem.c:216): its victim is already unlinked from the FIFO list and stays resident, never to be evicted. `ResidentEvictable` states this and mem_main checks it, but with one CPU the swap list never empties (each fault pops and pushes back one frame). PgFault reaches the step with two CPUs, both by contention and after the race has dropped frames, and its run stops at the first broken conservation.
- `free_pcb_memph` (libmem.c:404) is never called, so it is no step of any module. Its branches are also inverted: it returns the FPN of a page that is not present to RAM and the swap offset of a present page to the swap device.
- `init_mm` leaves `vm_freerg_list` of its malloc'd VMA unset before `enlist_vm_rg_node` links the first region to it (mm.c:228). The model takes the NULL outcome, the only one under which the first-fit walk ends.
- The non-MLQ scheduler (sched.c:159-196) is compiled only without `MLQ_SCHED`. The model follows the MLQ build. `get_symrg_byid` accepts `rgid == PAGING_MAX_SYMTBL_SZ`; programs use slots below the table size, and memory past the table has no modelled content.
- A node that MEMPHY_format leaves with an uninitialised `fp_next` on a one-frame device (mm-memphy.c:131), and the allocator's reuse of a node freed under a concurrent reader. Both are undefined behaviour with no outcome the model can choose from the source.
- In PgFault, other memory instructions run beside the faults. `__alloc` holds `mmvm_lock` and touches only the RAM list, and `__free`, `__read` and `__write` without a fault touch only their own `mm`. None of them touches the swap list.

These are the next steps:
1. Compose Mem with OS so that retirement (`free(proc)` without releasing frames) meets frame conservation.
2. Check `ResidentEvictable` over PgFault's page states, where the stranded victim of libmem.c:216 is reachable.
