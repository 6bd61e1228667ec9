SPECIFICATION OpenSpec
CONSTANTS
  a = a
  b = b
  c = c
  x = x
  f = f
  g = g
  h = h
  Names = {a, b, c}
  Files = {f, g, h}
  Links = {l}
  Instances = {p}
  NoEntry = NoEntry
  NoName = NoName
  NoFile = NoFile
  Canonical <- MCCanonical
  Verdict <- MCMixedVerdict
SYMMETRY Symmetry
PROPERTY NeverReplaces
