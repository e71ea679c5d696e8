------------------------------ MODULE Killall ------------------------------
(***************************************************************************)
(* The killall system call (sys_killall.c) on one CPU while the other CPUs *)
(* keep calling get_proc and put_proc.                                      *)
(*                                                                         *)
(* killall edits mlq_ready_queue[] in place, statement by statement, and   *)
(* never takes queue_lock; the other CPUs' scheduler calls hold the lock,   *)
(* so each of them is one atomic step.  Because killall works on the raw   *)
(* arrays, the queues are modelled here as queue.c lays them out: an array *)
(* of MAX_QUEUE_SIZE pcb slots and a size counter, which killall may drive *)
(* below zero.                                                             *)
(*                                                                         *)
(* The name killall reads from the caller's region (lines 26-37) is the    *)
(* constant Target; a pcb's path is Name[p].                                *)
(***************************************************************************)
EXTENDS Integers, Sequences, SequencesExt, FiniteSets

CONSTANTS
  Procs,         \* the pcbs in the system, other than killall's caller
  Prio,          \* Prio[p]: proc->prio
  Name,          \* Name[p]: proc->path
  Target,        \* the name killall was given
  Cpus,          \* the other CPU threads
  MaxPrio,       \* MAX_PRIO
  MaxQueueSize,  \* MAX_QUEUE_SIZE
  Nrs,           \* system call numbers a SYSCALL instruction may pass
  KillallNr,     \* the number syscalltbl.lst gives killall
  NULL

ASSUME /\ \A p \in Procs : Prio[p] \in 0..MaxPrio-1
       /\ NULL \notin Procs

VARIABLES
  arr,         \* arr[i][j]: mlq_ready_queue[i].proc[j]
  size,        \* size[i]: mlq_ready_queue[i].size
  slot_usage,  \* slot_usage[i]
  held,        \* held[c]: the proc local of CPU c
  kPc,         \* where killall is
  lvl,         \* its loop variable lvl
  idx,         \* its loop variable idx
  k,           \* its shift index k
  victim,      \* the proc it matched
  killed,      \* pcbs whose code and mm killall has freed
  q0,          \* history: the live queues when killall started
  nr,          \* the system call number the caller passed
  quiet        \* history: no other CPU has touched the queues during the call

vars == <<arr, size, slot_usage, held, kPc, lvl, idx, k, victim, killed, q0, nr, quiet>>

Prios == 0..MaxPrio-1
Slots == 0..MaxQueueSize-1
Slot == [i \in Prios |-> MaxPrio - i]

\* The live part of a queue, as a sequence.
Live(i) == [j \in 1..size[i] |-> arr[i][j-1]]

-----------------------------------------------------------------------------
(* queue.c on the array layout.                                            *)

\* empty(): size == 0 only; a negative size is "not empty".
Empty(i) == size[i] = 0

\* enqueue: drop when full, clamp a negative size to 0, store, increment.
ArrEnqueue(i, p) ==
  IF size[i] >= MaxQueueSize
  THEN UNCHANGED <<arr, size>>
  ELSE LET s == IF size[i] < 0 THEN 0 ELSE size[i] IN
       /\ arr' = [arr EXCEPT ![i][s] = p]
       /\ size' = [size EXCEPT ![i] = s + 1]

\* dequeue's scan: the first slot of minimum prio, skipping NULL slots, over
\* slots 1..n-1 starting from h = 0.
RECURSIVE ScanBest(_, _, _, _)
ScanBest(a, n, j, h) ==
  IF j >= n THEN h
  ELSE IF a[j] = NULL THEN ScanBest(a, n, j + 1, h)
  ELSE IF a[h] = NULL \/ Prio[a[j]] < Prio[a[h]] THEN ScanBest(a, n, j + 1, j)
  ELSE ScanBest(a, n, j + 1, h)

ArrDequeueZeroOnly(a, s) ==
  IF s = 0 THEN [proc |-> NULL, arr |-> a, size |-> s]
  ELSE LET n == IF s > MaxQueueSize THEN MaxQueueSize ELSE s
           h == ScanBest(a, n, 1, 0)
       IN IF a[h] = NULL THEN [proc |-> NULL, arr |-> a, size |-> n]
          ELSE [proc |-> a[h],
                arr |-> [j \in Slots |-> IF h <= j /\ j < n - 1 THEN a[j+1] ELSE a[j]],
                size |-> n - 1]

\* dequeue: the pcb it returns and the queue it leaves.  A non-positive size
\* returns NULL; a NULL best slot returns NULL after clamping the size.
ArrDequeue(a, s) ==
  IF s <= 0 THEN [proc |-> NULL, arr |-> a, size |-> s]
  ELSE LET n == IF s > MaxQueueSize THEN MaxQueueSize ELSE s
           h == ScanBest(a, n, 1, 0)
       IN IF a[h] = NULL THEN [proc |-> NULL, arr |-> a, size |-> n]
          ELSE [proc |-> a[h],
                arr |-> [j \in Slots |-> IF h <= j /\ j < n - 1 THEN a[j+1] ELSE a[j]],
                size |-> n - 1]

-----------------------------------------------------------------------------
(* The other CPUs: get_proc and put_proc under queue_lock.                 *)

Replenish(u) == IF \A i \in Prios : u[i] = 0 THEN Slot ELSE u

\* get_mlq_proc: the first level with credit and a non-empty queue.
CpuGet(c) ==
  LET u == Replenish(slot_usage)
      cand == {i \in Prios : u[i] > 0 /\ size[i] # 0}
  IN /\ held[c] = NULL
     /\ IF cand = {}
        THEN /\ slot_usage' = u
             /\ UNCHANGED <<arr, size, held>>
        ELSE LET i == Min(cand)
                 r == ArrDequeue(arr[i], size[i])
             IN /\ arr' = [arr EXCEPT ![i] = r.arr]
                /\ size' = [size EXCEPT ![i] = r.size]
                /\ slot_usage' = [u EXCEPT ![i] = @ - 1]
                /\ held' = [held EXCEPT ![c] = r.proc]
     /\ quiet' = FALSE
     /\ UNCHANGED <<kPc, lvl, idx, k, victim, killed, q0, nr>>

\* put_proc: the held pcb back on the queue of its priority.
CpuPut(c) ==
  /\ held[c] # NULL
  /\ ArrEnqueue(Prio[held[c]], held[c])
  /\ held' = [held EXCEPT ![c] = NULL]
  /\ quiet' = FALSE
  /\ UNCHANGED <<slot_usage, kPc, lvl, idx, k, victim, killed, q0, nr>>

-----------------------------------------------------------------------------
(* syscall(): the switch over syscalltbl.lst.  That file is not in the    *)
(* tree; the spec's table gives killall its own number and routes every   *)
(* number without an entry to __sys_ni_syscall, which returns 0.  memmap  *)
(* is reached only from the paging library and is part of Mem.           *)

\* The handler syscall() calls for number n.
SyscallTable(n) == IF n = KillallNr THEN "killall" ELSE "ni_syscall"

Syscall ==
  /\ kPc = "syscall"
  /\ kPc' = IF SyscallTable(nr) = "killall" THEN "level" ELSE "done"
  /\ UNCHANGED <<arr, size, slot_usage, held, lvl, idx, k, victim, killed, q0, nr, quiet>>

-----------------------------------------------------------------------------
(* __sys_killall, lines 40-63, one statement per step.  The running_list  *)
(* pass (lines 65-86) finds an empty list, since nothing adds to it, and  *)
(* is the step from the last level to "done".                              *)

\* for (lvl ...): skip an empty level, else start its scan at idx = 0.
KLevel ==
  /\ kPc = "level"
  /\ IF lvl >= MaxPrio
     THEN kPc' = "done" /\ UNCHANGED <<lvl, idx>>
     ELSE IF Empty(lvl)
     THEN lvl' = lvl + 1 /\ UNCHANGED <<kPc, idx>>
     ELSE kPc' = "test" /\ idx' = 0 /\ UNCHANGED lvl
  /\ UNCHANGED <<arr, size, slot_usage, held, k, victim, killed, q0, nr, quiet>>

\* while (idx < queue->size): leave the level once idx reaches the size.
KTest ==
  /\ kPc = "test"
  /\ IF idx < size[lvl]
     THEN kPc' = "read" /\ UNCHANGED lvl
     ELSE kPc' = "level" /\ lvl' = lvl + 1
  /\ UNCHANGED <<arr, size, slot_usage, held, idx, k, victim, killed, q0, nr, quiet>>

KReadAnyName ==
  LET p == arr[lvl][idx] IN
  /\ kPc = "read"
  /\ IF p # NULL
     THEN kPc' = "free" /\ victim' = p /\ UNCHANGED idx
     ELSE kPc' = "test" /\ idx' = idx + 1 /\ UNCHANGED victim
  /\ UNCHANGED <<arr, size, slot_usage, held, lvl, k, killed, q0, nr, quiet>>

\* Mutant: a pcb that does not match leaves idx where it is.
KReadNoAdvance ==
  LET p == arr[lvl][idx] IN
  /\ kPc = "read"
  /\ IF p # NULL /\ Name[p] = Target
     THEN kPc' = "free" /\ victim' = p /\ UNCHANGED idx
     ELSE kPc' = "test" /\ UNCHANGED <<idx, victim>>
  /\ UNCHANGED <<arr, size, slot_usage, held, lvl, k, killed, q0, nr, quiet>>

\* proc = queue->proc[idx]; a match on the path goes to the free, anything
\* else (NULL included) to idx++.
KRead ==
  LET p == arr[lvl][idx] IN
  /\ kPc = "read"
  /\ IF p # NULL /\ Name[p] = Target
     THEN kPc' = "free" /\ victim' = p /\ UNCHANGED idx
     ELSE kPc' = "test" /\ idx' = idx + 1 /\ UNCHANGED victim
  /\ UNCHANGED <<arr, size, slot_usage, held, lvl, k, killed, q0, nr, quiet>>

\* free(proc->code); free(proc->mm); the shift starts at k = idx.
KFree ==
  /\ kPc = "free"
  /\ killed' = killed \cup {victim}
  /\ k' = idx
  /\ kPc' = "shift"
  /\ UNCHANGED <<arr, size, slot_usage, held, lvl, idx, victim, q0, nr, quiet>>

\* for (k = idx; k < queue->size - 1; k++) proc[k] = proc[k + 1];
KShift ==
  /\ kPc = "shift"
  /\ IF k < size[lvl] - 1
     THEN arr' = [arr EXCEPT ![lvl][k] = arr[lvl][k + 1]] /\ k' = k + 1 /\ UNCHANGED kPc
     ELSE kPc' = "clear" /\ UNCHANGED <<arr, k>>
  /\ UNCHANGED <<size, slot_usage, held, lvl, idx, victim, killed, q0, nr, quiet>>

\* queue->proc[queue->size - 1] = NULL;  (a size already 0 writes before the
\* array, outside the queues modelled here)
KClear ==
  /\ kPc = "clear"
  /\ arr' = IF size[lvl] - 1 \in Slots
            THEN [arr EXCEPT ![lvl][size[lvl] - 1] = NULL] ELSE arr
  /\ kPc' = "shrink"
  /\ UNCHANGED <<size, slot_usage, held, lvl, idx, k, victim, killed, q0, nr, quiet>>

\* Mutant: the loop advances idx after a match as well, as a for loop would.
KShrinkAdvance ==
  /\ kPc = "shrink"
  /\ size' = [size EXCEPT ![lvl] = @ - 1]
  /\ idx' = idx + 1
  /\ kPc' = "test"
  /\ UNCHANGED <<arr, slot_usage, held, lvl, k, victim, killed, q0, nr, quiet>>

\* queue->size--; and back to the while test.
KShrink ==
  /\ kPc = "shrink"
  /\ size' = [size EXCEPT ![lvl] = @ - 1]
  /\ kPc' = "test"
  /\ UNCHANGED <<arr, slot_usage, held, lvl, idx, k, victim, killed, q0, nr, quiet>>

KillStep == Syscall \/ KLevel \/ KTest \/ KRead \/ KFree \/ KShift \/ KClear \/ KShrink

-----------------------------------------------------------------------------

\* A state of the scheduler when the syscall starts: every pcb either held
\* by one CPU or in one slot of the queue of its priority, in any order, and
\* credits anywhere within their budgets.
Init ==
  \E place \in [Procs -> Cpus \cup {"queue"}],
     u \in [Prios -> 0..MaxPrio] :
    /\ \A c \in Cpus : Cardinality({p \in Procs : place[p] = c}) <= 1
    /\ \A i \in Prios : u[i] <= Slot[i]
    /\ LET Queued(i) == {p \in Procs : place[p] = "queue" /\ Prio[p] = i} IN
       \E order \in [Prios -> UNION {SetToSeqs(Queued(i)) : i \in Prios}] :
         /\ \A i \in Prios : order[i] \in SetToSeqs(Queued(i))
         /\ \A i \in Prios : Len(order[i]) <= MaxQueueSize
         /\ arr = [i \in Prios |-> [j \in Slots |->
                     IF j < Len(order[i]) THEN order[i][j+1] ELSE NULL]]
         /\ size = [i \in Prios |-> Len(order[i])]
         /\ q0 = order
    /\ slot_usage = u
    /\ held = [c \in Cpus |->
                 IF \E p \in Procs : place[p] = c THEN CHOOSE p \in Procs : place[p] = c
                 ELSE NULL]
    /\ nr \in Nrs
    /\ kPc = "syscall"
    /\ lvl = 0
    /\ idx = 0
    /\ k = 0
    /\ victim = NULL
    /\ killed = {}
    /\ quiet = TRUE

Next ==
  \/ KillStep
  \/ \E c \in Cpus : CpuGet(c) \/ CpuPut(c)

\* killall runs on a CPU thread that keeps being scheduled.
Spec == Init /\ [][Next]_vars /\ WF_vars(KillStep)


-----------------------------------------------------------------------------
(* Properties.                                                             *)

TypeOK ==
  /\ arr \in [Prios -> [Slots -> Procs \cup {NULL}]]
  /\ size \in [Prios -> -MaxQueueSize..MaxQueueSize]
  /\ held \in [Cpus -> Procs \cup {NULL}]
  /\ kPc \in {"syscall", "level", "test", "read", "free", "shift", "clear", "shrink", "done"}
  /\ lvl \in 0..MaxPrio
  /\ idx \in 0..MaxQueueSize
  /\ killed \subseteq {p \in Procs : Name[p] = Target}

\* How many times pcb p appears in the live part of the queues and in the
\* CPUs' hands.
Copies(p) ==
  Cardinality({<<i, j>> \in Prios \X Slots : j < size[i] /\ arr[i][j] = p})
    + Cardinality({c \in Cpus : held[c] = p})

\* Queue array i holding the sequence s from slot 0 on and NULL after it.
Packed(s) == [j \in Slots |-> IF j < Len(s) THEN s[j+1] ELSE NULL]

\* Scenario 4 of the spec, for any queue contents: when the killall system
\* call returns and no other CPU touched the queues meanwhile, each ready
\* queue holds exactly the pcbs it held before whose path differs from the
\* name, in their order, every slot it vacated is NULL again, and the code
\* of every queued pcb with that path has been freed; any other system
\* call number leaves the queues alone.  This is syscall()'s dispatch
\* (syscall.c:39-44) and the removal loop of sys_killall.c:45-62 (the
\* shift, the NULL store, size-- and not advancing idx after a match, which
\* two adjacent matches in one queue need).
KillResult ==
  kPc = "done" /\ quiet =>
    IF SyscallTable(nr) = "killall"
    THEN /\ \A i \in Prios : LET kept == SelectSeq(q0[i], LAMBDA p : Name[p] # Target) IN
                              size[i] = Len(kept) /\ arr[i] = Packed(kept)
         /\ killed = {p \in Procs : Name[p] = Target /\ \E i \in Prios : p \in Range(q0[i])}
    ELSE /\ \A i \in Prios : Live(i) = q0[i]
         /\ killed = {}

\* The removal loop terminates: a killall during which no other CPU touches
\* the queues returns.  The while loop of sys_killall.c:45-61 re-reads the
\* same idx after a match, so it ends only because every match is followed
\* by size-- and every other slot by idx++.
KillReturnsAlone == []quiet => <>(kPc = "done")

\* The ownership rule of the spec's data model: the scheduler owns a pcb
\* while it is queued and a CPU owns the one it holds, so killall never
\* frees the code and mm of a pcb a CPU is running (sys_killall.c:50-52
\* against get_mlq_proc, sched.c:97).
NoUseAfterFree == \A c \in Cpus : held[c] = NULL \/ held[c] \notin killed

\* Whenever killall is between two removals, every pcb it did not free is
\* in exactly one place: one live slot of the ready queues or one CPU.
\* killall's shift, NULL store and size-- (sys_killall.c:54-58) run
\* without queue_lock, interleaved with enqueue and dequeue.
NoLostPcb ==
  kPc \in {"level", "test", "read", "done"} =>
    \A p \in Procs \ killed : Copies(p) = 1

\* However killall's unlocked size-- (sys_killall.c:58) interleaves with
\* dequeue, a ready queue's size never falls below -1: killall decrements
\* only after its while test saw size >= 1, and a dequeue stops at 0
\* (queue.c:56).  -1 is the one negative value enqueue's fix-up
\* (queue.c:36) and empty() then have to cope with.
SizeFloor == \A i \in Prios : size[i] >= -1

=============================================================================
