SPECIFICATION RoutingSpec
CONSTANTS
  nes = nes
  dolphin = dolphin
  xbox = xbox
  other = other
  switch = switch
  gc = gc
  wii = wii
  v1 = v1
  v2 = v2
  v3 = v3
  None = None
  Platforms = {nes, gc, wii, xbox, switch}
  Normalizers = {nes, dolphin, xbox, other}
  Owned <- MCOwned
  Inspectors = {dolphin, xbox, other, switch}
  OwnedByInspector <- MCOwnedByInspector
  DetectorOrder <- MCDetectors
  OwnedByDetector <- MCOwnedByDetector
  Reports <- MCReports
  VerifierOrder <- MCVerifiers
CHECK_DEADLOCK FALSE
INVARIANTS RoutingTypeOK RestrictionHoldsEverywhere PreferenceFallsBack HintsAreHarmless
PROPERTIES RouterSpec OthersAreRouters
