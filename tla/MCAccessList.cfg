CONSTANTS
  Addrs = {a1, a2}
  Hashes = {h1, h2}
  MaxItems = 2
  MaxKeys = 2

SPECIFICATION Spec
INVARIANT TypeOK
INVARIANT ConvertedMatchesList
