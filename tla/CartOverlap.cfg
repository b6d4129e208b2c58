SPECIFICATION Spec
CONSTANTS
  a1 = a1
  a2 = a2
  b1 = b1
  g = g
  A = A
  B = B
  Product = {a1, b1}
  Gift = {}
  VendorOf <- MCVendorOf
  UnitPrice <- MCUnitPrice
  UnitPoints <- MCUnitPoints
  NoShip = NoShip
  MultiVendor = FALSE
  LoggedIn = FALSE
  Unsure = {}
  Patient = FALSE
  ServerFails = TRUE
  ServerDrops = TRUE
  MaxQty = 1
  MaxSheets = 2
  MaxQueue = 2
  MaxCalls = 0
  MaxKills = 0
CHECK_DEADLOCK FALSE
INVARIANTS
  OneVendor
