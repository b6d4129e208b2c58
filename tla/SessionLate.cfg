SPECIFICATION Spec
CONSTANTS
  a = a
  b = b
  p1 = p1
  p2 = p2
  w1 = w1
  w2 = w2
  Account = {a, b}
  Password = {w1, w2}
  Profile = {p1, p2}
  FirstPassword = w1
  FirstProfile = p1
  Null = Null
  MaxTaps = 4
  MaxCalls = 1
  MaxKills = 0
CHECK_DEADLOCK FALSE
PROPERTIES
  LogOutLasts
