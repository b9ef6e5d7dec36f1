SPECIFICATION Spec
CONSTANTS
  c1 = c1
  c2 = c2
  r1 = r1
  r2 = r2
  r3 = r3
  r4 = r4
  None = None
  Campaigns = {c1, c2}
  Old = {c2}
  Calls = {r1, r2, r3}
  InitialBalance = 3
  Deposits = {1}
  Budgets = {2}
  Edits <- RaiseOrMove
  Cost = 2
  MaxBilled = 2
  Regimes = {{"refusal"}, {"overlap", "click", "refusal", "fault", "crash"}}
SYMMETRY CreditSymmetry
INVARIANTS
  CreditConserved
  BalanceFollowsHistory
CHECK_DEADLOCK FALSE
