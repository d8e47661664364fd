SPECIFICATION Spec
CONSTANTS
  a1 = a1
  k1 = k1
  k2 = k2
  r1 = r1
  r2 = r2
  r3 = r3
  g1 = g1
  Accounts = {a1}
  Keys = {k1, k2}
  Reservations = {r1, r2, r3}
  Grants = {g1}
  Cycles = {}
  AccountOf <- OneOwner
  KeyOf <- TwoKeys
  Policies <- BudgetPolicies
  Holds = {1, 2}
  TokenCounts = {1}
  Charges = {0, 3}
  GrantAmounts = {5}
  MinuteLen = 2
  DayLen = 2
  WeekDays = 2
  RateRetention = 2
  PruneLimit = 1
  MaxTime = 6
  NoLimit = NoLimit
  NoPolicy = NoPolicy
INVARIANTS BudgetWindowsExact NeverOverdrawn
PROPERTIES WindowBudgetsRespected
CHECK_DEADLOCK FALSE
SYMMETRY SecondKeySymmetry
