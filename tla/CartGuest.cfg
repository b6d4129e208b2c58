SPECIFICATION Spec
CONSTANTS
  a1 = a1
  a2 = a2
  b1 = b1
  g = g
  A = A
  B = B
  Product = {a1, a2, b1}
  Gift = {}
  VendorOf <- MCVendorOf
  UnitPrice <- MCUnitPrice
  UnitPoints <- MCUnitPoints
  NoShip = NoShip
  MultiVendor = TRUE
  LoggedIn = FALSE
  Unsure = {a2, b1}
  Patient = TRUE
  ServerFails = TRUE
  ServerDrops = TRUE
  MaxQty = 2
  MaxSheets = 3
  MaxQueue = 2
  MaxCalls = 0
  MaxKills = 1
CHECK_DEADLOCK FALSE
INVARIANTS
  OneVendor
  NoDuplicates
  SumsMatchItems
  ShippingOfTheVendor
PROPERTIES
  IsWriteBehind
