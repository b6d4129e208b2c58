SPECIFICATION Spec
CONSTANTS
  order = order
  company = company
  az = az
  c1 = c1
  c2 = c2
  None = None
  Kind = {order, company}
  Fixed = {order}
  Entry <- MCEntry
  PagesOf <- MCPagesOf
  Fails = TRUE
  MaxDepth = 2
  MaxCalls = 3
  MaxHaste = 2
INVARIANTS
  NoFalseMark
  ListOfOneQuery
  ShownAsMarked
