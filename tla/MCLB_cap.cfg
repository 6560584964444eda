CONSTANTS
  Guests = {g1, g2}
  Nodes = {n1, n2}
  Tasks = {k1, k2, k3}
  Ticks = {t1}
  NoNode = NoNode
  NoTask = NoTask
  NoTick = NoTick
  MaxConcurrent = 1
  MaxPlans = 1
  Faults = {"cancel"}
  MaxFaults = 1
SYMMETRY Symmetry
SPECIFICATION Spec
INVARIANT Cap
