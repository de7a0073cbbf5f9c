SPECIFICATION Spec
CONSTANTS
  None = None
  p1 = p1
  p2 = p2
  h1 = h1
  h2 = h2
  s1 = s1
  consent = consent
  Providers <- MCProviders
  Initial <- MCInitial
  TokenValues = {"absent", "refused", "valid"}
  InitialTokens = {"valid"}
  Hosts <- MCHosts
  Secrets <- MCSecrets
  Slugs <- MCSlugs
  ProviderSpecs <- MCProviderSpecs
  Foreign <- MCForeign
  MaxChanges = 2
  MaxFaults = 0
PROPERTY
  NothingOrphaned
CHECK_DEADLOCK FALSE
