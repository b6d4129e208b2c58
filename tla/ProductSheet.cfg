SPECIFICATION Spec
CONSTANTS
  Packs <- MCPacks
  Stock <- MCStock
  MinOrder = 2
  MaxOrder = 4
INVARIANTS
  TypeOK
  SentIsSellable
  ShownIsSellable
  SelectedShowsQuantity
