------------------------------ MODULE ProcLife ------------------------------
(***************************************************************************)
(* What the simulator promises about a process, independently of how the  *)
(* ready queues are organised: it is loaded in configuration order, runs   *)
(* only while one CPU holds it, goes back to the ready set when preempted  *)
(* before its end, and is retired only after its last instruction.         *)
(*                                                                         *)
(* A CPU's switch may release its process and take a ready one in one      *)
(* step, as cpu_routine does with free(proc); proc = get_proc().           *)
(***************************************************************************)
EXTENDS Naturals

CONSTANTS Procs, Cpus, CodeSize, NULL

VARIABLES
  status,   \* status[p]: "new", "ready", "running" or "done"
  onCpu,    \* onCpu[c]: the process CPU c holds, or NULL
  pc        \* pc[p]: instructions p has executed

life_vars == <<status, onCpu, pc>>

LInit ==
  /\ status = [p \in Procs |-> "new"]
  /\ onCpu = [c \in Cpus |-> NULL]
  /\ pc = [p \in Procs |-> 0]

\* The next process of the configuration becomes ready.
Load(p) ==
  /\ status[p] = "new"
  /\ \A q \in Procs : q < p => status[q] # "new"
  /\ status' = [status EXCEPT ![p] = "ready"]
  /\ UNCHANGED <<onCpu, pc>>

\* CPU c gives up its process, if any (retired when it has run to its end,
\* ready again otherwise), and takes a ready process or none.
Switch(c) ==
  LET cur == onCpu[c] IN
  \E nxt \in {q \in Procs : status[q] = "ready"} \cup {NULL} :
    /\ cur # NULL \/ nxt # NULL
    /\ status' = [q \in Procs |->
                    IF q = cur THEN IF pc[q] = CodeSize[q] THEN "done" ELSE "ready"
                    ELSE IF q = nxt THEN "running"
                    ELSE status[q]]
    /\ onCpu' = [onCpu EXCEPT ![c] = nxt]
    /\ UNCHANGED pc

\* The process held by CPU c executes its next instruction.
Exec(c) ==
  /\ onCpu[c] # NULL
  /\ pc[onCpu[c]] < CodeSize[onCpu[c]]
  /\ pc' = [pc EXCEPT ![onCpu[c]] = @ + 1]
  /\ UNCHANGED <<status, onCpu>>

LNext ==
  \/ \E p \in Procs : Load(p)
  \/ \E c \in Cpus : Switch(c) \/ Exec(c)

LSpec == LInit /\ [][LNext]_life_vars
=============================================================================
