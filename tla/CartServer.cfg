SPECIFICATION Spec
CONSTANTS
  a1 = a1
  a2 = a2
  b1 = b1
  g = g
  A = A
  B = B
  Product = {a1, b1}
  Gift = {}
  VendorOf <- MCVendorOf
  UnitPrice <- MCUnitPrice
  UnitPoints <- MCUnitPoints
  NoShip = NoShip
  MultiVendor = FALSE
  LoggedIn = TRUE
  Unsure = {b1}
  Patient = FALSE
  ServerFails = TRUE
  ServerDrops = TRUE
  MaxQty = 1
  MaxSheets = 2
  MaxQueue = 2
  MaxCalls = 1
  MaxKills = 1
CHECK_DEADLOCK FALSE
INVARIANTS
  TypeOK
  LoadComesFirst
  NoGhostRows
PROPERTIES
  ShownOnceWritten
