\* Completions and groups; see MCTaskSharing.  The system may stop (a suspended task,
\* no handles left), so deadlock is no error.
CONSTANTS
    t1 = t1  t2 = t2  t3 = t3  k1 = k1  k2 = k2  k3 = k3  m1 = m1  m2 = m2  m3 = m3
    x1 = x1  x2 = x2  w1 = w1  w2 = w2  w3 = w3  Nobody = Nobody
SPECIFICATION Spec
CHECK_DEADLOCK FALSE
SYMMETRY Symm
INVARIANTS SharingSafe DrainExact
