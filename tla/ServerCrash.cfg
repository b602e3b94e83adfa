CONSTANTS
  u1 = u1
  u2 = u2
  c1 = c1
  c2 = c2
  c3 = c3
  r1 = r1
  r2 = r2
  Users = {u1, u2}
  Rooms = {r1, r2}
  Conns = {c1, c2, c3}
  UserOf <- MCUserOf
  JwtRooms <- MCJwtRooms
  MaxRoomsPerUser = 1
  MaxConnections = 2
  MaxPending = 2
SPECIFICATION Spec
INVARIANTS
  NeverCrashes
