CONSTANTS
  i1 = i1
  i2 = i2
  c1 = c1
  c2 = c2
  Instances = {i1, i2}
  Conns = {c1, c2}
  Home <- MCHome
  UserOf <- MCUserOf
  JwtRooms <- MCJwtRooms
  Rooms <- MCRooms
  Targets <- MCTargets
  HttpInstances = {i1}
  Active = {c2}
  MaxWaiting = 2
  MaxMessages = 2
  FragileLinks <- MCFragileLinks
  MaxLost = 1
SPECIFICATION Spec
CHECK_DEADLOCK FALSE
INVARIANTS
  RelayTypeOK
  CopiesBounded
  RemoteOrder
  Covered
  OnItsWay
PROPERTIES
  AddresseesOnly
