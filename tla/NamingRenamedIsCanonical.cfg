SPECIFICATION Spec
CONSTANTS
  Results <- MCResults
  Names <- MCNames
  MaxRenames = 2
  None = None
INVARIANT RenamedIsCanonical
CHECK_DEADLOCK FALSE
