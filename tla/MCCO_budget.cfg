\* One user, two chat tabs and an approval dialog, a budget two calls wide.
SPECIFICATION Spec
CONSTANTS
  Turns = {t1, t2}
  Approvals = {a1}
  Cards = {k1}
  CallBudget = 2
  TokenBudget = 2
  MaxCalls = 2
  MaxRounds = 2
  RoundTokens = 2
  MaxTurns = 1
  Window = 1
  Ttl = 1
  Faults = {"midnight", "settings", "disconnect", "restart"}
  MaxFaults = 1
SYMMETRY Symmetry
INVARIANTS
  TypeOK
  ApprovedOnce
  BudgetBounded
PROPERTIES
  Counted
