\* The byte channel or a task group; see MCWaiters.  No symmetry, some of the properties are
\* temporal.
CONSTANTS
    c1 = c1  c2 = c2  c3 = c3  t1 = t1  w1 = w1  x1 = x1  x2 = x2  k1 = k1  m1 = m1
    Nobody = Nobody
    Callers <- Callers3
    Capacity = 2
    Numbers = 3
    Exclusive = TRUE
SPECIFICATION SpecAll
INVARIANTS BytesSafety
PROPERTIES CloseTerminates ImplementsStream WaiterIsWoken GroupDrains
