SPECIFICATION FairSpec
CONSTANTS
  a = a
  b = b
  envoy = envoy
  client = client
  other = other
  None = None
  Names = {a, b, envoy}
  EnvoyName = envoy
  Keys = {client, other}
  ClientKey = client
  AppSpecs <- RenameSpecs
  Taken = {b}
  MaxEdits = 3
  MaxOutside = 1
  MaxChanges = 3
  MaxFaults = 1
INVARIANTS
  SyncInv
  EntryFound
PROPERTIES
  ForeignKept
  EntryKept
  Settles
CHECK_DEADLOCK FALSE
