\* The load executor, the package pool or the language server; see MCCompilerServices.
CONSTANTS
    c1 = c1  c2 = c2  c3 = c3  w1 = w1  w2 = w2  k1 = k1  NoKey = NoKey
    d1 = d1  d2 = d2  q0 = q0  q1 = q1  q2 = q2  None = None
SPECIFICATION SpecAll
INVARIANTS LoadSafety DependenciesReady RequestSound QueriesKept AnswersCurrent
PROPERTIES Finishes RequestReturns QueryAnswered EditDiagnosed ExitEnds
