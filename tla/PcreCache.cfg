SPECIFICATION Spec
CONSTANTS
  r1 = r1  r2 = r2  r3 = r3  r4 = r4  e1 = e1  e2 = e2  e3 = e3  e4 = e4  e5 = e5
  i1 = i1  l1 = l1  l2 = l2  none = none
  Regex = {r1, r2, r3}
  Locale = {l1, l2}
  C = l1
  Entry = {e1, e2, e3}
  NoEntry = none
  Iterator = {i1}
  PCRE_CACHE_SIZE = 2
  NumClean = 1
  MaxUses = 2
  MaxBailouts = 1
  MaxRestarts = 1
SYMMETRY Symmetric
INVARIANTS InUseIsKept RefcountsBalance CacheIsBounded
