CONSTANTS
  Guests = {g1}
  Nodes = {n1, n2}
  Tasks = {k1, k2}
  Ticks = {t1, t2}
  NoNode = NoNode
  NoTask = NoTask
  NoTick = NoTick
  MaxConcurrent = 1
  MaxPlans = 2
  Faults = {"timeout", "restart", "disable", "cancel", "tabs", "lostReply", "long", "warnings", "drift", "write"}
  MaxFaults = 1
SYMMETRY Symmetry
SPECIFICATION Spec
INVARIANTS TypeOK MovesHaveTasks OnlyApplied
PROPERTIES PlanNeverRevives
