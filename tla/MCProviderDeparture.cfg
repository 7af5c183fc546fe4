SPECIFICATION Spec
CONSTANTS
  None = None
  radar = radar
  fifty = fifty
  home = home
  other = other
  Providers <- MCProviders
  Roots <- MCRoots
  MaxOps = 2
PROPERTIES
  RestoredAfterSettings
