SPECIFICATION Spec
CONSTANTS
  d1 = d1
  d2 = d2
  a1 = a1
  a2 = a2
  i1 = i1
  i2 = i2
  i3 = i3
  x = x
  y = y
  Daemon = {d1}
  Agent = {a1, a2}
  Id = {i1, i2, i3}
  Entity = {x, y}
  Wants <- WantsRace
  Near <- NearXY
  Late <- MCLate
  MaxTime = 0
  MaxOps <- Three
INVARIANTS
  NoOverlap
