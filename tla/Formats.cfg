SPECIFICATION FormatsSpec
CONSTANTS
  Programs = {"dolphin", "xbox"}
  Sources <- MCSources
  Images <- MCImages
  Replacements <- MCReplacements
  Cuts = {2, 5, 6}
  Requests <- MCRequests
  Unreadable = "?"
  MaxDirectorySize = 3
  MaxDepth = 3
  MaxFileSize = 1
  IsoImages <- MCIsoImages
  IsoCuts = {8, 12, 16}
  IsoPaths <- MCIsoPaths
  SectorSize = 4
  MaxIsoDirectory = 8
  MaxIsoFile = 3
  Packages <- MCPackages
  OtherPackages <- MCOtherPackages
  HeaderSize = 2
  PfsEntrySize = 1
  HfsEntrySize = 2
  CardHeaderSize = 2
  MaxFiles = 3
  MaxRootFiles = 2
  MaxStrings = 1
  MaxDocument = 1
  Cartridges <- MCCartridges
INVARIANTS
  FormatsTypeOK DolphinNeverContradicts IdentityIsComplete ListingIsComplete DataIsWhole
  IsoListingIsComplete ApplicationIsUnique ReportedExactlyIfSound NesAgrees HashIsExact
PROPERTIES ReadersFailForCause EveryReadEnds
CHECK_DEADLOCK FALSE
