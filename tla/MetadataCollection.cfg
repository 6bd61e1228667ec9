SPECIFICATION Spec
CONSTANTS
  None = None
  Platforms = {p}
  Releases = {r}
  Authorities = {"no-intro", "redump"}
  Redump = "redump"
  Statuses = {"verified", "bad"}
  BadStatuses = {"bad"}
  Trusted = {"no-intro", "redump"}
  Accepted = {"verified"}
  RequireCurrent = TRUE
  track = track
  twin = twin
  Contents = {track, twin}
  Target = track
  CrcTwins = {twin}
  FileRecords <- MCFileRecords
  SentHashes <- MCSentHashes
  MaxRecords = 2
  ProviderOrder <- MCProviderOrder
  Fields = {"titles", "identifiers"}
  Texts = {"zelda", "Zelda", "link", " "}
  NormalForm <- MCNormalForm
  Observations <- MCObservations
INVARIANTS MetadataTypeOK VerdictRestsOnThisFile
PROPERTIES MissingMatchIsAnAnswer NeverRedeemed EvidenceAccumulates
CHECK_DEADLOCK FALSE
