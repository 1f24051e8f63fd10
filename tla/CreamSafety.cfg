SPECIFICATION CreamSpec
CONSTANTS
  Threads = {w1, w2}
  Conns = {c1, c2, c3}
  Keys = {k1}
  Objs = {o1, o2, o3}
  KeyOf <- MCKeyOf
  HashOf <- MCHashOf
  Requests <- AllRequests
  Capacity = 1
  w1 = w1
  w2 = w2
  c1 = c1
  c2 = c2
  c3 = c3
  k1 = k1
  k2 = k2
  o1 = o1
  o2 = o2
  o3 = o3
  NULL = NULL
SYMMETRY Symmetry
CHECK_DEADLOCK FALSE
INVARIANT AnsweredBeforeClose
INVARIANT PutIsAccepted
PROPERTY NotFoundIsJustified
