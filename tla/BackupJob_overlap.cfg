SPECIFICATION Spec
CONSTANTS
  j1 = j1
  j2 = j2
  j3 = j3
  alice = alice
  bob = bob
  Job = {j1, j2}
  Account = {alice}
  AccountOf <- OneAccount
  MaxChunks = 1
  ProgressCap = 1
  Faulty = {}
  ConcurrentStarts = TRUE
INVARIANT OneActivePerAccount
