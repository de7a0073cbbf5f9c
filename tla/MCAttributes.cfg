SPECIFICATION Spec
CONSTANTS
  v = v
  w = w
  Unset = Unset
  None = None
  Values = {v, w}
  Items = {1, 2}
  ProviderRequests <- MCProviderRequests
  ApplicationRequests <- MCApplicationRequests
  MaxEdits = 1
  MaxOutside = 1
INVARIANTS
  TypeOK
  DriftSeen
PROPERTY UpdatesSettle
CHECK_DEADLOCK FALSE
