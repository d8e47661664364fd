SPECIFICATION Spec
CONSTANTS
  a1 = a1
  k1 = k1
  k2 = k2
  r1 = r1
  r2 = r2
  r3 = r3
  g1 = g1
  Accounts = {a1}
  Keys = {k1}
  Reservations = {r1, r2, r3}
  Grants = {g1}
  Cycles = {}
  AccountOf <- OneOwner
  KeyOf <- OneKey
  Policies <- ModePolicies
  Holds = {1}
  TokenCounts = {1, 2}
  Charges = {3}
  GrantAmounts = {2, 4}
  MinuteLen = 1
  DayLen = 2
  WeekDays = 2
  RateRetention = 0
  PruneLimit = 1
  MaxTime = 1
  NoLimit = NoLimit
  NoPolicy = NoPolicy
INVARIANTS TypeOK CountersMatchReservations BalanceMatchesLedger UsageBookedOnce
PROPERTIES ReversalsUnused LifetimeBudgetRespected
CHECK_DEADLOCK FALSE
SYMMETRY ReservationSymmetry
