CONSTANTS
  i1 = i1
  i2 = i2
  p1 = p1
  p2 = p2
  p3 = p3
  h1 = h1
  g1 = g1
  ip = ip
  Identifiers = {ip}
  Window = 2
  MaxRequests = 1
  MaxTime = 3
  Instances = {i1, i2}
  Posts = {p1, p2, p3}
  Healths = {h1}
  Gets = {g1}
  Home <- MCHome
  Ip <- MCIp
  WithKey <- MCWithKey
  GoodBody = {p1, p3}
  Unroutable = {p3}
  MaxFailures = 1
  MaxAborts = 1
SPECIFICATION Spec
CHECK_DEADLOCK FALSE
INVARIANTS
  HttpNeverCrashes
