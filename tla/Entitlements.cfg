SPECIFICATION EntitlementSpec
CONSTANTS
  a1 = a1
  k1 = k1
  r1 = r1
  r2 = r2
  g1 = g1
  s1 = s1
  s2 = s2
  n1 = n1
  n2 = n2
  Accounts = {a1}
  Keys = {k1}
  AccountOf <- OneOwner
  KeyOf <- OneKey
  Policies <- OnePolicy
  SubAccount <- OneHolder
  TokenCounts = {1}
  MinuteLen = 4
  DayLen = 4
  WeekDays = 2
  RateRetention = 4
  PruneLimit = 1
  NoLimit = NoLimit
  NoPolicy = NoPolicy
  Reservations = {r1, r2}
  Grants = {}
  GrantAmounts = {}
  Holds = {1}
  Charges = {2}
  MaxTime = 1
  Subscriptions = {s1, s2}
  Cycles = {1, 2, 3}
  CycleSub <- ThreeCycles
  Period <- Months
  Desired = {1, 3}
  Namespaces = {n1, n2}
  Rebates = {1}
  MaxVersion = 2
INVARIANTS FundingCoversConsumption ConsumptionIsAllocated CreditConserved
PROPERTIES OnlyRebatesOverdraw LapsedRightsStayLapsed
CHECK_DEADLOCK FALSE
SYMMETRY RebateSymmetry
