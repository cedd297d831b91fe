\* Two unlocked installs of the same id.
CONSTANTS
  i1 = i1
  i2 = i2
  Installers <- MCInstallers
  Ids = {0}
  DevCount = 2
  DescBits = 1
  MaxInstalls = 2
  AllocMayFail = FALSE
  RegionMayFail = FALSE
  ErrGarbage = FALSE
  Attempts = 2
SPECIFICATION Spec
INVARIANT RegistryInvariant
