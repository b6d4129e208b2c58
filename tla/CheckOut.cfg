SPECIFICATION COFairSpec
CONSTANTS
  a1 = a1
  b1 = b1
  g = g
  A = A
  B = B
  Product = {a1, b1}
  Gift = {g}
  VendorOf <- MCVendorOf
  UnitPrice <- MCUnitPrice
  UnitPoints <- MCUnitPoints
  NoShip = NoShip
  MultiVendor = FALSE
  LoggedIn = TRUE
  Unsure = {b1}
  Patient = TRUE
  Careful = TRUE
  ServerFails = TRUE
  ServerDrops = FALSE
  MaxQty = 2
  MaxSheets = 2
  MaxQueue = 2
  MaxCalls = 1
  MaxKills = 1
CHECK_DEADLOCK FALSE
INVARIANTS
  BillOfTheCart
  OrderedIsGone
PROPERTIES
  OnlyOrdersEmpty
  AddLands
  ConfirmEnds
