CONSTANTS
  i1 = i1
  i2 = i2
  c1 = c1
  c2 = c2
  Instances = {i1, i2}
  Conns = {c1, c2}
  Home <- MCHome
  UserOf <- MCUserOf
  JwtRooms <- MCJwtRooms
  Rooms <- MCRooms
  Targets <- MCTargets
  HttpInstances = {i1}
  Active = {c2}
  MaxWaiting = 2
  MaxMessages = 1
  FragileLinks <- MCFragileLinks
  MaxLost = 2
SPECIFICATION FairSpec
CHECK_DEADLOCK FALSE
PROPERTIES
  OwedArrives
