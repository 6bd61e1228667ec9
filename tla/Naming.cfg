SPECIFICATION Spec
CONSTANTS
  Results <- MCResults
  Names <- MCNames
  MaxRenames = 2
  None = None
INVARIANTS StaysInDirectory Settles ForeignMetadataNamesNothing
CHECK_DEADLOCK FALSE
