SPECIFICATION Spec
CONSTANTS
  U8Size = 4
  MaxCpus = 4
  Packages <- TwoPackages
  CoreIds <- TwoCoreIds
INVARIANTS
  OwnCpus
  CoresAreCores
CHECK_DEADLOCK FALSE
