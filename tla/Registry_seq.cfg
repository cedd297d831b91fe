\* One installer, every allocation and registration may fail: the registry stays consistent and unload is clean.
CONSTANTS
  i1 = i1
  i2 = i2
  Installers <- MCOneInstaller
  Ids = {0, 1, 2, 3, 5}
  DevCount = 3
  DescBits = 2
  MaxInstalls = 6
  AllocMayFail = TRUE
  RegionMayFail = TRUE
  ErrGarbage = TRUE
  Attempts = 2
SPECIFICATION Spec
INVARIANT RegistryInvariant
INVARIANT CleanUnload
