\* killall while one other CPU takes and returns processes: NoLostPcb.
CONSTANTS
  p1 = p1  p2 = p2  p3 = p3  nA = nA  nB = nB  c1 = c1  c2 = c2  kNr = kNr  oNr = oNr
  NULL = NULL
  Procs <- MCProcs
  Prio <- MCPrio
  Name <- MCName
  Target = nA
  Cpus = {c1}
  MaxPrio = 2
  MaxQueueSize = 3
  KillallNr = kNr
  Nrs = {kNr}
SPECIFICATION Spec
INVARIANT NoLostPcb
