CONSTANTS
  lifespan = lifespan
  r1 = r1
  r2 = r2
  Unset = Unset
  NoRow = NoRow
  Lifespan <- lifespan
  Requests <- MCRequests
  Columns <- MCColumns
  Values <- MCValues
  MaxStarts = 1

SPECIFICATION Spec

SYMMETRY MCSymmetry

INVARIANTS
  TypeOK
  SeedBeforeRequests

PROPERTIES
  OnlyEditsChange
  EditTakesEffect
