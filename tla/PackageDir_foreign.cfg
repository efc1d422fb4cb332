SPECIFICATION Spec
CONSTANTS
  p1 = p1
  p2 = p2
  b1 = b1
  b2 = b2
  alice = alice
  bob = bob
  OwnerOf <- Owners
  AccountOf <- Accounts
  Package = {p1, p2}
  Backup = {b1, b2}
  None = None
  Blank = Blank
  Partial = Partial
  Mixed = Mixed
  StableFor = 2
  MaxWrites = 1
CHECK_DEADLOCK FALSE
INVARIANT OwnHistoryOnly
