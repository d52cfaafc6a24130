CONSTANTS
  library = library  shop = shop
  Apps = {library, shop}
  Names = {"add"}
  Tools = {t1, t2, t3}
  NoTool = NoTool
  MaxSecond = 1
  MaxFaults = 1
SPECIFICATION Spec
SYMMETRY Symmetry
INVARIANTS FailureLeavesNothing RegistryMatchesApps CatalogueUsable
PROPERTY OthersFilesKept
