SPECIFICATION Spec
CONSTANTS
  v = v
  w = w
  Unset = Unset
  None = None
  Values = {v, w}
  Items = {1, 2}
  ProviderRequests <- MCProviderRequests
  ApplicationRequests <- MCApplicationRequests
  MaxEdits = 1
  MaxOutside = 0
PROPERTY EmptiedListsSettle
CHECK_DEADLOCK FALSE
