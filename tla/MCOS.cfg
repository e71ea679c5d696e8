\* Harness safety and progress: processes start after slot 0, so the loader
\* never runs before init_scheduler.
CONSTANTS
  NULL = NULL
  Cpus = {c1, c2}
  Procs <- MCProcs
  Prio <- MCPrio
  Start <- MCStart
  CodeSize <- MCCodeSize
  MaxPrio = 2
  MaxQueueSize = 3
  TimeSlot = 2
SPECIFICATION Spec
INVARIANT TypeOK
INVARIANT ExactlyOnePlace
PROPERTY SliceExact
PROPERTY ImplementsProcLife
PROPERTY EveryProcessRuns
