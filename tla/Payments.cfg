SPECIFICATION Spec
CONSTANTS
  a1 = a1
  a2 = a2
  r1 = r1
  r2 = r2
  p1 = p1
  p2 = p2
  i1 = i1
  i2 = i2
  i3 = i3
  d1 = d1
  Agents = {a1, a2}
  Retriers = {r1, r2}
  Payers = {p1, p2}
  IntentsOf <- ThreeIntents
  Directs = {d1}
  Casts <- ThreeCasts
  MaxSends = 2
CHECK_DEADLOCK FALSE
INVARIANTS TypeOK AnchoredOnce BooksMatchChain LoneAgentForgetsNothing
