\* Scenario 1 of the spec: one process on two CPUs.  Does main return?
CONSTANTS
  NULL = NULL
  Cpus = {c1, c2}
  Procs <- OneProc
  Prio <- OnePrio
  Start <- OneStart
  CodeSize <- OneCodeSize
  MaxPrio = 1
  MaxQueueSize = 2
  TimeSlot = 2
SPECIFICATION Spec
PROPERTY Termination
