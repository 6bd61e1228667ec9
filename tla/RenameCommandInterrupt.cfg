SPECIFICATION InterruptSpec
CONSTANTS
  a = a
  b = b
  c = c
  x = x
  f = f
  g = g
  h = h
  Names = {a, b, c, x}
  Files = {f, g, h}
  Links = {l}
  Instances = {p}
  NoEntry = NoEntry
  NoName = NoName
  NoFile = NoFile
  Canonical <- MCCanonical
  Verdict <- MCVerdict
SYMMETRY Symmetry
INVARIANT NoFileLost
