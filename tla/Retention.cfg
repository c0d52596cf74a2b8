\* Task references, deadlines, the resource lease or the artifact store; see MCRetention.
CONSTANTS
    t1 = t1  t2 = t2  w1 = w1  w2 = w2  c1 = c1  c2 = c2
    k1 = k1  k2 = k2  op1 = op1  p1 = p1  p2 = p2  v1 = v1  v2 = v2  None = None
    b1 = b1  b2 = b2  b3 = b3  s1 = s1  s2 = s2
    m0 = m0  m1 = m1  m2 = m2  obj = obj  f1 = f1  f2 = f2  n1 = n1
    NoTask = NoTask
    Tasks <- Tasks2
    Workers <- Workers2
    Clients <- Clients2
    HostKeepsExecutor = TRUE
SPECIFICATION SpecAll
SYMMETRY Symm
INVARIANTS ReferencesBalance LeaseCounted PayloadsOwned
PROPERTIES HeapCorrect StoreExact
