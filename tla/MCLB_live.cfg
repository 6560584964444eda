CONSTANTS
  Guests = {g1}
  Nodes = {n1, n2}
  Tasks = {k1}
  Ticks = {t1, t2}
  NoNode = NoNode
  NoTask = NoTask
  NoTick = NoTick
  MaxConcurrent = 1
  MaxPlans = 1
  Faults = {"timeout", "restart", "lostReply"}
  MaxFaults = 1
SPECIFICATION FairSpec
PROPERTIES ActivePlanSettles TicksGoOn
