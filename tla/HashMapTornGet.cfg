SPECIFICATION Spec
CONSTANTS
  Threads = {t1, t2}
  Keys = {k1, k2}
  Objs = {o1, o2, o3}
  KeyOf <- MCKeyOf
  HashOf <- MCHashOf
  Capacity = 2
  t1 = t1
  t2 = t2
  k1 = k1
  k2 = k2
  o1 = o1
  o2 = o2
  o3 = o3
  o4 = o4
  NULL = NULL
SYMMETRY Symmetry
INVARIANT GetReturnsItsKey
