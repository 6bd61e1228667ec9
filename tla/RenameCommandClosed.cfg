SPECIFICATION Spec
CONSTANTS
  a = a
  b = b
  c = c
  x = x
  f = f
  g = g
  h = h
  Names = {a, b, c, x}
  Files = {f, g, h}
  Links = {l}
  Instances = {p, q}
  NoEntry = NoEntry
  NoName = NoName
  NoFile = NoFile
  Canonical <- MCCanonical
  Verdict <- MCVerdict
SYMMETRY Symmetry
INVARIANT NoFileLost
PROPERTIES RenamedIsVerified CanonicalStays AtomicSpec
