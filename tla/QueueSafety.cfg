SPECIFICATION FairSpec
CONSTANTS
  Enqueuers = {e1, e2}
  Dequeuers = {d1, d2, d3}
  Invalidators = {v1}
  Items = {i1, i2, i3}
  Nodes = {n1, n2, n3}
  e1 = e1
  e2 = e2
  d1 = d1
  d2 = d2
  d3 = d3
  v1 = v1
  v2 = v2
  i1 = i1
  i2 = i2
  i3 = i3
  n1 = n1
  n2 = n2
  n3 = n3
  NULL = NULL
CHECK_DEADLOCK FALSE
INVARIANT Linked
INVARIANT TokenConservation
INVARIANT NoNullDeref
PROPERTY RefinesFifo
PROPERTY EnqueuedIsTaken
