CONSTANTS
  i1 = i1
  i2 = i2
  c1 = c1
  c2 = c2
  c3 = c3
  ann = ann
  r1 = r1
  Instances = {i1, i2}
  Conns = {c1, c2, c3}
  Users = {ann}
  Rooms = {r1}
  Home <- MCHome
  UserOf <- MCUserOf
  JwtRooms <- MCJwtRooms
  Active = {c1}
  Fragile = {i1}
  MaxChanges = 1
  MaxFaults = 1
SPECIFICATION FairSpec
CHECK_DEADLOCK FALSE
INVARIANTS
  RedisTypeOK
  OnlineAccounted
  MemberAccounted
  QuietExact
PROPERTIES
  DepartedForgotten
