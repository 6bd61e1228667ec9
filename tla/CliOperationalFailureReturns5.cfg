SPECIFICATION Spec
CONSTANTS
  xbox = xbox
  wii = wii
  one = one
  two = two
  idA = idA
  idB = idB
  image = image
  None = None
  Platforms = {xbox, wii}
  Releases = {one, two}
  Authorities = {"no-intro"}
  Redump = "redump"
  Statuses = {"verified", "bad"}
  BadStatuses = {"bad"}
  Trusted = {"no-intro"}
  Accepted = {"verified"}
  RequireCurrent = TRUE
  Identifiers = {idA, idB}
  Representations = {image}
  Detections <- MCDetections
  Inspections <- MCInspections
  Extractions <- MCExtractions
  Matches <- MCMatches
CHECK_DEADLOCK FALSE
INVARIANTS OperationalFailureReturns5
