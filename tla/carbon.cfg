SPECIFICATION Spec
CONSTANTS
  x = x
  xx = xx
  y = y
  z = z
  w = w
  A = A
  B = B
  C = C
  None = None
  Broken = Broken
  Ident = {x, xx, y, z, w}
  IdTypes <- MCIdTypes
  Similar <- MCSimilar
  Mapping <- MCMapping
  Inputs <- MCInputs
  Default = 3
INVARIANTS TypeOK TotalIsTheSumOfItsLines BreakdownAddsUp FootprintsAreTheMaterials MissingHasAReason RefusedForAReason
CHECK_DEADLOCK FALSE
