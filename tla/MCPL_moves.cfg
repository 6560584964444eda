\* Three nodes, three guests, two migrations at a time.
SPECIFICATION Spec
CONSTANTS
  g1 = g1
  g2 = g2
  g3 = g3
  Guests = {g1, g2, g3}
  Nodes = {n1, n2, n3}
  NoNode = NoNode
  Anti = {{g1, g2}}
  Affine = {{g1, g3}}
  Rank <- MCRank
  Manual = {g3}
  Exempt = {}
  Stuck = {}
  MaxConcurrent = 2
  Polls = 2
  Cooldown = 2
  Spacing = 1
  Threshold = 50
  Serviced = {n1}
  Crowded = {n3}
  Faults = {"maintenance", "auto", "full", "silent", "forecast", "fails", "restart"}
  MaxFaults = 1
INVARIANTS
  TypeOK
  DecisionsBounded
PROPERTIES
  AntiAffinityKept
  Paced
  DrainEnds
