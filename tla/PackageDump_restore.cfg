SPECIFICATION DumpSpec
CONSTANTS
  dump = dump
  client = client
  photo = photo
  film = film
  clip = clip
  Nil = Nil
  Talker = {1, 2}
  Message = {1, 2, 3, 4}
  TalkerOf <- Talkers
  PlacesOf <- When
  Dumper = {dump}
  Client = {client}
  Limit <- Limits
  MaxPage = 2
  Size <- Sizes
  Media = {photo, film, clip}
  Magic = 1
  MaxShard = 6
  MaxSegment = 6
  Dump = dump
CHECK_DEADLOCK FALSE
INVARIANTS
  DumpTypeOK
  PagesComplete
  RoundTrip
  Restored
