SPECIFICATION FairSpec
CONSTANTS
  None = None
  p1 = p1
  p2 = p2
  h1 = h1
  h2 = h2
  s1 = s1
  s2 = s2
  auth = auth
  inval = inval
  Providers <- MCProviders
  Initial <- MCInitial
  TokenValues = {"absent", "empty", "refused", "valid"}
  InitialTokens = {"absent", "valid"}
  Hosts <- MCHosts
  Slugs <- MCSlugs
  Secrets <- MCSecrets
  ProviderSpecs <- MCProviderSpecs
  MaxChanges = 2
  MaxFaults = 1
INVARIANTS
  TypeOK
  StatusInv
PROPERTIES
  KeepsPromise
  StatusSettles
CHECK_DEADLOCK FALSE
