SPECIFICATION Spec
CONSTANTS
  s1 = s1
  p1 = p1
  d1 = d1
  d2 = d2
  q1 = q1
  b1 = b1
  home = home
  secret = secret
  Settings = {s1}
  Passwording = {p1}
  Deletion = {d1, d2}
  Search = {q1}
  Backup = {b1}
  Root = {home}
  Password = {secret}
  NoPassword = NoPassword
  Gone = Gone
  None = None
  MaxHandles = 2
SYMMETRY Deletions
INVARIANTS
  OneOpenHandle
  NothingLeftBehind
  AcknowledgedKept
PROPERTY DeletionAuthorised
