SPECIFICATION Spec
SYMMETRY Symmetry
CONSTANTS
  Scopes = {a, b}
  Generations = {g1, g2, g3}
  None = None
  LateRefusals = FALSE
  Overlaps = FALSE
INVARIANTS
  TypeOK
  RenderersAreTracked
  Agreement
PROPERTIES
  OnlyItsOwnClosing
