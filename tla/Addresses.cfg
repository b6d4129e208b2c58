SPECIFICATION FairSpec
CONSTANTS
  t = t
  x = x
  y = y
  a = a
  b = b
  Text = {t}
  Refused = Refused
  Place = {x, y}
  Here = x
  Area = {a, b}
  AreasOf <- ListedAreas
  Covers <- Polygons
  Null = Null
  FirstStored <- TwoStored
  MaxId = 3
  MaxTaps = 4
  MaxCalls = 2
CHECK_DEADLOCK FALSE
INVARIANTS
  TypeOK
  SelectedIsListed
  CheckOutHasAddress
  RowsCanBeSelected
  QuietListIsStored
PROPERTIES
  PatientSaves
  OrderIsCurrent
  LoadingEnds
