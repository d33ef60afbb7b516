SPECIFICATION Spec
CONSTANTS
  u1 = u1
  u2 = u2
  u3 = u3
  low = low
  Callers <- Four
  Prio <- TwoClasses
  Permits = 2
  Parallel = FALSE
PROPERTY ImplementsPool
