CONSTANTS
  Guests = {g1, g2}
  Nodes = {n1, n2}
  Tasks = {k1, k2, k3}
  Ticks = {t1}
  NoNode = NoNode
  NoTask = NoTask
  NoTick = NoTick
  MaxConcurrent = 1
  MaxPlans = 1
  Faults = {}
  MaxFaults = 0
SYMMETRY Symmetry
SPECIFICATION Spec
INVARIANTS Cap NoneForgotten PlanTruthful
PROPERTIES OutcomeFinal PlanRefines
