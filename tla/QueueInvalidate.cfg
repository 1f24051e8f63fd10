SPECIFICATION FairSpec
CONSTANTS
  Enqueuers = {e1}
  Dequeuers = {d1}
  Invalidators = {v1}
  Items = {i1, i2}
  Nodes = {n1, n2}
  e1 = e1
  d1 = d1
  v1 = v1
  i1 = i1
  i2 = i2
  n1 = n1
  n2 = n2
  NULL = NULL
CHECK_DEADLOCK FALSE
PROPERTY InvalidateReturns
