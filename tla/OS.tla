--------------------------------- MODULE OS ---------------------------------
(***************************************************************************)
(* The simulator's harness (os.c) composed with the scheduler (Sched):     *)
(* main, the loader thread ld_routine, the CPU threads cpu_routine and the *)
(* timer's slot barrier next_slot.                                          *)
(*                                                                         *)
(* Processes are 1..N in the order of the configuration file.  A process's *)
(* code is abstracted to its length: every instruction is one step of      *)
(* run() that advances proc->pc (the memory opcodes are modelled in Mem).  *)
(***************************************************************************)
EXTENDS Sched, FiniteSets

CONSTANTS
  Cpus,      \* the CPU worker threads (num_cpus)
  TimeSlot,  \* time_slot: instructions per dispatch
  Start,     \* Start[p]: ld_processes.start_time[p]
  CodeSize   \* CodeSize[p]: proc->code->size

ASSUME /\ Procs = 1..Cardinality(Procs)
       /\ TimeSlot \in Nat \ {0}
       /\ Start \in [Procs -> Nat]
       /\ CodeSize \in [Procs -> Nat \ {0}]

VARIABLES
  mainPc,     \* main(): "start" before init_scheduler, "join", "exit"
  cpuPc,      \* where each cpu_routine is in its loop
  cpuProc,    \* the local proc of each cpu_routine
  timeLeft,   \* the local time_left of each cpu_routine
  pcount,     \* proc->pc of each process
  freed,      \* processes retired by free(proc)
  ldPc,       \* where ld_routine is: "run", "wait" (in next_slot), "detached"
  ldI,        \* ld_routine's index i (1-based)
  done,       \* the global done flag
  time,       \* current_time() of the timer
  ranInSlice  \* history: instructions run since the CPU last got its proc

os_vars == <<mainPc, cpuPc, cpuProc, timeLeft, pcount, freed, ldPc, ldI,
             done, time, ranInSlice>>
vars == <<sched_vars, os_vars>>

N == Cardinality(Procs)

\* Time is only compared with start times, so it is kept saturated at the
\* latest start time: every comparison the loader makes is unchanged.
TimeBound == Max(Range(Start))

CpuLocs == {"init", "top", "get", "exec", "wait", "stopped"}

\* Mutant: the end test one instruction early.
FinishedEarly(p) == pcount[p] = CodeSize[p] - 1

\* proc->pc == proc->code->size
Finished(p) == pcount[p] = CodeSize[p]

SetCpu(c, pcv, proc) ==
  /\ cpuPc' = [cpuPc EXCEPT ![c] = pcv]
  /\ cpuProc' = [cpuProc EXCEPT ![c] = proc]

Init ==
  /\ SchedZero
  /\ mainPc = "start"
  /\ cpuPc = [c \in Cpus |-> "init"]
  /\ cpuProc = [c \in Cpus |-> NULL]
  /\ timeLeft = [c \in Cpus |-> 0]
  /\ pcount = [p \in Procs |-> 0]
  /\ freed = {}
  /\ ldPc = "run"
  /\ ldI = 1
  /\ done = FALSE
  /\ time = 0
  /\ ranInSlice = [c \in Cpus |-> 0]

-----------------------------------------------------------------------------
(* main: the loader thread is created first, then init_scheduler runs and  *)
(* the CPU threads are created; main then joins every thread.              *)

MainInit ==
  /\ mainPc = "start"
  /\ InitScheduler
  /\ mainPc' = "join"
  /\ cpuPc' = [c \in Cpus |-> "top"]
  /\ UNCHANGED <<cpuProc, timeLeft, pcount, freed, ldPc, ldI, done, time, ranInSlice>>

MainExit ==
  /\ mainPc = "join"
  /\ \A c \in Cpus : cpuPc[c] = "stopped"
  /\ ldPc = "detached"
  /\ mainPc' = "exit"
  /\ UNCHANGED <<sched_vars, cpuPc, cpuProc, timeLeft, pcount, freed, ldPc, ldI,
                 done, time, ranInSlice>>

-----------------------------------------------------------------------------
(* ld_routine: one iteration per slot; it either waits for the start time  *)
(* of process i or adds it, and sets done once every process is added.     *)

LdWait ==
  /\ ldPc = "run"
  /\ ldI <= N
  /\ time < Start[ldI]
  /\ ldPc' = "wait"
  /\ UNCHANGED <<sched_vars, mainPc, cpuPc, cpuProc, timeLeft, pcount, freed, ldI,
                 done, time, ranInSlice>>

LdAdd ==
  /\ ldPc = "run"
  /\ ldI <= N
  /\ time >= Start[ldI]
  /\ PutMlqProc(ldI)
  /\ ldI' = ldI + 1
  /\ ldPc' = "wait"
  /\ UNCHANGED <<mainPc, cpuPc, cpuProc, timeLeft, pcount, freed, done, time, ranInSlice>>

LdFinish ==
  /\ ldPc = "run"
  /\ ldI > N
  /\ done' = TRUE
  /\ ldPc' = "detached"
  /\ UNCHANGED <<sched_vars, mainPc, cpuPc, cpuProc, timeLeft, pcount, freed, ldI,
                 time, ranInSlice>>

-----------------------------------------------------------------------------
(* cpu_routine, split at its calls into the scheduler.                     *)

\* The caller's side of proc = get_proc(): the CPU holds r and goes on at loc.
Took(c, r, loc) ==
  /\ SetCpu(c, loc, r)
  /\ ranInSlice' = [ranInSlice EXCEPT ![c] = 0]

\* proc == NULL: get_proc(); on NULL next_slot and continue, else recheck.
CpuFetch(c) ==
  /\ cpuPc[c] = "top"
  /\ cpuProc[c] = NULL
  /\ GetMlqProc
  /\ Took(c, GetMlqPick, IF GetMlqPick = NULL THEN "wait" ELSE "exec")
  /\ UNCHANGED <<mainPc, timeLeft, pcount, freed, ldPc, ldI, done, time>>

\* Mutant: retiring without resetting time_left, so the next process
\* inherits the rest of the slice.
CpuRetireKeepSlice(c) ==
  LET p == cpuProc[c] IN
  /\ cpuPc[c] = "top"
  /\ p # NULL
  /\ Finished(p)
  /\ freed' = freed \cup {p}
  /\ GetMlqProc
  /\ Took(c, GetMlqPick, "exec")
  /\ UNCHANGED <<mainPc, timeLeft, pcount, ldPc, ldI, done, time>>

\* proc->pc == proc->code->size: free(proc); proc = get_proc(); time_left = 0.
CpuRetire(c) ==
  LET p == cpuProc[c] IN
  /\ cpuPc[c] = "top"
  /\ p # NULL
  /\ Finished(p)
  /\ freed' = freed \cup {p}
  /\ GetMlqProc
  /\ Took(c, GetMlqPick, "exec")
  /\ timeLeft' = [timeLeft EXCEPT ![c] = 0]
  /\ UNCHANGED <<mainPc, pcount, ldPc, ldI, done, time>>

\* time_left == 0: put_proc(proc).  The local proc is dead until the
\* get_proc() that follows overwrites it, so it is cleared here.
CpuPreempt(c) ==
  LET p == cpuProc[c] IN
  /\ cpuPc[c] = "top"
  /\ p # NULL
  /\ ~Finished(p)
  /\ timeLeft[c] = 0
  /\ PutMlqProc(p)
  /\ SetCpu(c, "get", NULL)
  /\ UNCHANGED <<mainPc, timeLeft, pcount, freed, ldPc, ldI, done, time, ranInSlice>>

\* The proc = get_proc() that follows put_proc().
CpuGet(c) ==
  /\ cpuPc[c] = "get"
  /\ GetMlqProc
  /\ Took(c, GetMlqPick, "exec")
  /\ UNCHANGED <<mainPc, timeLeft, pcount, freed, ldPc, ldI, done, time>>

\* Recheck with proc == NULL && done: print "stopped", detach, exit.
CpuStop(c) ==
  /\ cpuPc[c] = "exec"
  /\ cpuProc[c] = NULL
  /\ done
  /\ cpuPc' = [cpuPc EXCEPT ![c] = "stopped"]
  /\ UNCHANGED <<sched_vars, mainPc, cpuProc, timeLeft, pcount, freed, ldPc, ldI,
                 done, time, ranInSlice>>

\* Recheck with proc == NULL && !done: next_slot and continue.
CpuIdle(c) ==
  /\ cpuPc[c] = "exec"
  /\ cpuProc[c] = NULL
  /\ ~done
  /\ cpuPc' = [cpuPc EXCEPT ![c] = "wait"]
  /\ UNCHANGED <<sched_vars, mainPc, cpuProc, timeLeft, pcount, freed, ldPc, ldI,
                 done, time, ranInSlice>>

\* run(proc) executes code[pc] and increments pc (a pc already at the end is
\* rejected); a fresh dispatch first refills time_left; then time_left--.
Run(p) == pcount' = [pcount EXCEPT ![p] = IF @ < CodeSize[p] THEN @ + 1 ELSE @]

\* Reached from the recheck with a process, or straight from the top of the
\* loop when the process neither finished nor used up its slice.
CpuRun(c) ==
  LET p == cpuProc[c] IN
  /\ p # NULL
  /\ \/ cpuPc[c] = "exec"
     \/ cpuPc[c] = "top" /\ ~Finished(p) /\ timeLeft[c] # 0
  /\ Run(p)
  /\ timeLeft' = [timeLeft EXCEPT ![c] = (IF @ = 0 THEN TimeSlot ELSE @) - 1]
  /\ ranInSlice' = [ranInSlice EXCEPT ![c] = @ + 1]
  /\ cpuPc' = [cpuPc EXCEPT ![c] = "wait"]
  /\ UNCHANGED <<sched_vars, mainPc, cpuProc, freed, ldPc, ldI, done, time>>

-----------------------------------------------------------------------------
(* The timer: a slot ends when every attached thread waits in next_slot;    *)
(* detach_event removes a stopped CPU and the finished loader.              *)

Tick ==
  /\ \A c \in Cpus : cpuPc[c] \in {"wait", "stopped"}
  /\ ldPc \in {"wait", "detached"}
  /\ (\E c \in Cpus : cpuPc[c] = "wait") \/ ldPc = "wait"
  /\ time' = IF time < TimeBound THEN time + 1 ELSE time
  /\ cpuPc' = [c \in Cpus |-> IF cpuPc[c] = "wait" THEN "top" ELSE cpuPc[c]]
  /\ ldPc' = IF ldPc = "wait" THEN "run" ELSE ldPc
  /\ UNCHANGED <<sched_vars, mainPc, cpuProc, timeLeft, pcount, freed, ldI, done,
                 ranInSlice>>

\* main has returned: the program is over.
Terminated == mainPc = "exit" /\ UNCHANGED vars

CpuStep(c) ==
  \/ CpuFetch(c) \/ CpuRetire(c) \/ CpuPreempt(c) \/ CpuGet(c)
  \/ CpuStop(c) \/ CpuIdle(c) \/ CpuRun(c)

LdStep == LdWait \/ LdAdd \/ LdFinish

Next ==
  \/ MainInit \/ MainExit
  \/ LdStep
  \/ \E c \in Cpus : CpuStep(c)
  \/ Tick
  \/ Terminated

\* Every thread, the timer included, is an OS thread that keeps being
\* scheduled while it can run.
Fairness ==
  /\ WF_vars(MainInit) /\ WF_vars(MainExit)
  /\ WF_vars(LdStep)
  /\ \A c \in Cpus : WF_vars(CpuStep(c))
  /\ WF_vars(Tick)

Spec == Init /\ [][Next]_vars /\ Fairness


-----------------------------------------------------------------------------
(* Properties.                                                              *)

TypeOK ==
  /\ SchedTypeOK
  /\ mainPc \in {"start", "join", "exit"}
  /\ cpuPc \in [Cpus -> CpuLocs]
  /\ cpuProc \in [Cpus -> Procs \cup {NULL}]
  /\ timeLeft \in [Cpus -> 0..TimeSlot]
  /\ pcount \in [Procs -> Nat]
  /\ \A p \in Procs : pcount[p] <= CodeSize[p]
  /\ freed \subseteq Procs
  /\ ldPc \in {"run", "wait", "detached"}
  /\ ldI \in 1..N+1
  /\ done \in BOOLEAN
  /\ time \in 0..TimeBound
  /\ ranInSlice \in [Cpus -> 0..TimeSlot]

\* How many places (ready-queue slots and CPU locals) hold process p.
Copies(p) ==
  Cardinality({<<i, k>> \in Prios \X (1..MaxQueueSize) :
                 k <= Len(mlq[i]) /\ mlq[i][k] = p})
  + Cardinality({c \in Cpus : cpuProc[c] = p})

\* A process the loader has added and no CPU has retired sits in exactly one
\* ready-queue slot or on exactly one CPU: add_proc, put_proc, get_proc and
\* the CPU loop never lose, duplicate or share a pcb between two CPUs; a
\* retired or not yet loaded process is nowhere.
ExactlyOnePlace ==
  \A p \in Procs :
    Copies(p) = IF p < ldI /\ p \notin freed THEN 1 ELSE 0

\* cpu_routine gives a process whole slices: when it puts a process back
\* (time_left == 0) the process has run exactly time_slot instructions since
\* this CPU got it from get_proc, whatever it held before.
SliceExact ==
  [][\A c \in Cpus :
       (cpuPc[c] = "top" /\ cpuPc'[c] = "get") => ranInSlice[c] = TimeSlot]_vars

\* The simulator terminates: main returns after every CPU thread and the
\* loader have exited (spec section 8, "Termination").
Termination == <>(mainPc = "exit")

\* Every process of the configuration is eventually retired: the loader
\* adds it, get_mlq_proc's credit refill (sched.c:87-91) lets its level be
\* served again, and the CPUs run it slice by slice until free(proc)
\* (os.c:64).  It relies on the fairness of the threads and the timer.
EveryProcessRuns == \A p \in Procs : <>(p \in freed)

\* A CPU thread exits only when no process is left in a ready queue (spec
\* 4.7, "workers exit when done_flag is set and the scheduler returns none").
StopsOnlyWhenDrained ==
  [][\A c \in Cpus :
       (cpuPc[c] # "stopped" /\ cpuPc'[c] = "stopped") => Queued = {}]_vars

-----------------------------------------------------------------------------
(* Refinement of the process life cycle (ProcLife).  A process is new until *)
(* the loader has passed it, done once freed, running while a CPU's local  *)
(* proc holds it, and ready otherwise (in a queue, or lost from one).       *)

LifeStatus ==
  [p \in Procs |->
     IF p >= ldI THEN "new"
     ELSE IF p \in freed THEN "done"
     ELSE IF \E c \in Cpus : cpuProc[c] = p THEN "running"
     ELSE "ready"]

Life == INSTANCE ProcLife WITH status <- LifeStatus, onCpu <- cpuProc, pc <- pcount

\* The harness implements the life cycle: the loader adds processes in
\* configuration order, cpu_routine runs a process only while it holds it,
\* no two CPUs get the same pcb from get_proc, and free(proc) retires only a
\* process whose pc has reached its code size.
ImplementsProcLife == Life!LSpec
=============================================================================
