\* A SYSCALL on one CPU, killall or another number, while two other CPUs
\* take and return processes.
CONSTANTS
  p1 = p1  p2 = p2  p3 = p3  nA = nA  nB = nB  c1 = c1  c2 = c2  kNr = kNr  oNr = oNr
  NULL = NULL
  Procs <- MCProcs
  Prio <- MCPrio
  Name <- MCName
  Target = nA
  Cpus = {c1, c2}
  MaxPrio = 2
  MaxQueueSize = 3
  KillallNr = kNr
  Nrs = {kNr, oNr}
SPECIFICATION Spec
INVARIANT TypeOK
INVARIANT KillResult
INVARIANT SizeFloor
PROPERTY KillReturnsAlone
