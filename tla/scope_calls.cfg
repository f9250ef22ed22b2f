\* Two coroutines whose bodies make up to three decorated calls, one more than a
\* detachment makes, on a pool they exhaust, under fair scheduling.
CONSTANTS
  Coroutine = {c1, c2}
  Write = {w1, w2}
  MaxDepth = 2
  MaxNested = 3
  PoolSize = 2
SPECIFICATION FairSpec
INVARIANT ScopeInv
INVARIANT PoolConserved
PROPERTY CallsAreAtomic
PROPERTY CallsEnd
