------------------------------- MODULE Sched -------------------------------
(***************************************************************************)
(* The MLQ scheduler of the simulator: sched.c (MLQ_SCHED build) over the  *)
(* bounded array queues of queue.c.                                        *)
(*                                                                         *)
(* mlq_ready_queue[prio] is a bounded array of PCB pointers with a size    *)
(* counter; it is modelled as a sequence of process ids.  slot[] is the    *)
(* static budget MAX_PRIO - i and slot_usage[] the credits left in the     *)
(* current round.  Every operation runs under queue_lock, so each one is a *)
(* single atomic step.                                                     *)
(***************************************************************************)
EXTENDS Integers, Sequences, SequencesExt

CONSTANTS
  Procs,         \* the process ids (PCBs) that may be scheduled
  Prio,          \* Prio[p]: proc->prio, fixed by the loader from the config
  MaxPrio,       \* MAX_PRIO
  MaxQueueSize,  \* MAX_QUEUE_SIZE
  NULL           \* the NULL pcb pointer

ASSUME /\ MaxPrio \in Nat \ {0}
       /\ MaxQueueSize \in Nat \ {0}
       /\ Prio \in [Procs -> 0..MaxPrio-1]
       /\ NULL \notin Procs

VARIABLES
  mlq,         \* mlq_ready_queue[0..MAX_PRIO)
  slot_usage   \* slot_usage[0..MAX_PRIO)

sched_vars == <<mlq, slot_usage>>

Prios == 0..MaxPrio-1

\* Mutant: a budget one larger than MAX_PRIO - i.
SlotOffByOne == [i \in 0..MaxPrio-1 |-> MaxPrio - i + 1]

\* slot[i] = MAX_PRIO - i, set once by init_scheduler.
Slot == [i \in Prios |-> MaxPrio - i]

\* Before init_scheduler runs, the file-scope arrays are zero (static storage).
SchedZero ==
  /\ mlq = [i \in Prios |-> <<>>]
  /\ slot_usage = [i \in Prios |-> 0]

\* init_scheduler: every level emptied (size = 0) and every credit refilled.
InitScheduler ==
  /\ mlq' = [i \in Prios |-> <<>>]
  /\ slot_usage' = Slot

\* enqueue: append at the tail; a full queue drops the process (an error
\* line is printed and the pcb is not stored anywhere).
Enqueue(q, p) == IF Len(q) >= MaxQueueSize THEN q ELSE Append(q, p)

\* dequeue: the linear scan keeps the first index whose proc->prio is
\* strictly smaller than every earlier one, i.e. the first minimum.
MinPrioIndex(q) ==
  CHOOSE i \in DOMAIN q :
    \A j \in DOMAIN q : Prio[q[i]] < Prio[q[j]] \/ (Prio[q[i]] = Prio[q[j]] /\ i <= j)

\* Mutant: the selected pcb is returned but left in the queue.
DequeueNoRemove(q) == q

Dequeue(q) == RemoveAt(q, MinPrioIndex(q))

\* Mutant: the refill of all-zero credits is missing.
ReplenishNever(u) == u

\* The credit vector after get_mlq_proc's "all zero => replenish" step.
Replenish(u) == IF \A i \in Prios : u[i] = 0 THEN Slot ELSE u

\* The levels get_mlq_proc may serve: credit left and a non-empty queue.
Servable(u) == {pr \in Prios : u[pr] > 0 /\ mlq[pr] # <<>>}

(***************************************************************************)
(* get_mlq_proc: replenish if every credit is spent, then serve the lowest *)
(* servable level, spending one of its credits; NULL when none qualifies.  *)
(* GetMlqPick is the pcb it returns, GetMlqProc its effect on the queues.  *)
(***************************************************************************)
ServedLevel == Min(Servable(Replenish(slot_usage)))

GetMlqPick ==
  IF Servable(Replenish(slot_usage)) = {} THEN NULL
  ELSE mlq[ServedLevel][MinPrioIndex(mlq[ServedLevel])]

GetMlqProc ==
  LET u == Replenish(slot_usage) IN
  IF Servable(u) = {}
  THEN /\ slot_usage' = u
       /\ mlq' = mlq
  ELSE /\ mlq' = [mlq EXCEPT ![ServedLevel] = Dequeue(@)]
       /\ slot_usage' = [u EXCEPT ![ServedLevel] = @ - 1]

\* put_proc / add_proc / put_mlq_proc: enqueue on the level of proc->prio.
PutMlqProc(p) ==
  /\ mlq' = [mlq EXCEPT ![Prio[p]] = Enqueue(@, p)]
  /\ UNCHANGED slot_usage

\* The processes currently in some ready queue.
Queued == UNION {Range(mlq[i]) : i \in Prios}

-----------------------------------------------------------------------------
(* The scheduler on its own: callers get processes and put back any that   *)
(* is not queued.                                                          *)

SchedInit ==
  /\ mlq = [i \in Prios |-> <<>>]
  /\ slot_usage = Slot

SchedNext ==
  \/ GetMlqProc
  \/ \E p \in Procs \ Queued : PutMlqProc(p)

SchedSpec == SchedInit /\ [][SchedNext]_sched_vars

SchedTypeOK ==
  /\ mlq \in [Prios -> Seq(Procs)]
  /\ \A i \in Prios : Len(mlq[i]) <= MaxQueueSize
  /\ slot_usage \in [Prios -> 0..MaxPrio]
=============================================================================
