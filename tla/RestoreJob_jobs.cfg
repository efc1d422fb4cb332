SPECIFICATION Spec
CONSTANTS
  j1 = j1
  j2 = j2
  j3 = j3
  e1 = e1
  alice = alice
  bob = bob
  Nobody = Nobody
  Other = Other
  Job = {j1, j2, j3}
  Export = {e1}
  Account = {alice, bob}
  AccountOf <- Accounts
  Sessions <- Selected
  MaxSessions = 1
  ProgressCap = 1
  Faulty = {j3}
  ConcurrentStarts = FALSE
SYMMETRY Twins
INVARIANTS
  DurableOutcome
  RestoredItsOwn
PROPERTIES
  LedgerSpec
