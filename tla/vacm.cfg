SPECIFICATION Spec
CONSTANTS
  IntMax = 255
  MibFile <- Files
  Initial = {"SMI"}
  Oids <- Begins
  NMAX_SUBID = 11
  None = None
  VacmOid <- Columns3
  SecToGroups <- SomeMappings
  Views <- SomeViews
  Accesses <- SomeAccesses
  Retries = 1
  MaxLate = 1
  Careful = {"plain_names", "mask_in_pairs"}
INVARIANT NamesDenote
PROPERTY KeepsAdministration
CONSTRAINT OneAfterTheOther
