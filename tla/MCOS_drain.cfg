\* One process of priority 0, two priority levels, one CPU: can the CPU
\* thread exit while the process still waits in its ready queue?
CONSTANTS
  NULL = NULL
  Cpus = {c1}
  Procs <- OneProc
  Prio <- OnePrio
  Start <- OneStart
  CodeSize <- OneCodeSize
  MaxPrio = 2
  MaxQueueSize = 2
  TimeSlot = 1
SPECIFICATION Spec
PROPERTY StopsOnlyWhenDrained
