CONSTANTS
  Channels = {c1, c2, c3}
  Versions = {"v1", "v2"}
  Heights = {0, 1, 2}
  Nil = Nil
  Panic = Panic

SPECIFICATION Spec
INVARIANT TypeOK
INVARIANT PanicsOnlyWithoutVariant
INVARIANT MatchesEnum
INVARIANT ZeroIsLeastHeight
