\* A process that starts at slot 0: the loader may add it before main runs
\* init_scheduler.
CONSTANTS
  NULL = NULL
  Cpus = {c1}
  Procs <- MCProcs
  Prio <- MCPrio
  Start <- ZeroStart
  CodeSize <- MCCodeSize
  MaxPrio = 2
  MaxQueueSize = 3
  TimeSlot = 2
SPECIFICATION Spec
INVARIANT ExactlyOnePlace
