SPECIFICATION FairSpec
CONSTANTS
  Threads = {t1, t2, t3}
  Keys = {k1}
  Objs = {o1}
  KeyOf <- MCKeyOf
  HashOf <- MCHashOf
  Capacity = 1
  t1 = t1
  t2 = t2
  t3 = t3
  k1 = k1
  k2 = k2
  o1 = o1
  o2 = o2
  o3 = o3
  o4 = o4
  NULL = NULL
INVARIANT LockDiscipline
INVARIANT ReadStable
PROPERTY AllReturn
