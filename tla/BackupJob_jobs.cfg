SPECIFICATION Spec
CONSTANTS
  j1 = j1
  j2 = j2
  j3 = j3
  alice = alice
  bob = bob
  Job = {j1, j2}
  Account = {alice}
  AccountOf <- OneAccount
  MaxChunks = 2
  ProgressCap = 1
  Faulty = {j1}
  ConcurrentStarts = FALSE
INVARIANTS
  TypeOK
  DurableOutcome
  NoOrphanRow
  OneActivePerAccount
PROPERTIES
  ProgressNeverRegresses
  LedgerSpec
  CancelCompletes
  EveryJobSettles
