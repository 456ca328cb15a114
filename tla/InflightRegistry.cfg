SPECIFICATION Spec
CONSTANTS
  k1 = k1
  k2 = k2
  k3 = k3
  f1 = f1
  f2 = f2
  a1 = a1
  a2 = a2
  NoEntry = NoEntry
  NoToken = NoToken
  Keys = {k1, k2, k3}
  Fetchers = {f1, f2}
  Ackers = {a1, a2}
  Nonces = {1, 2}
  RetryAfter <- RetryMixed
  BatchSize = 1
  GuardTTL = 2
  MaxGuards = 2
  MaxDraws = 2
  MaxClock = 3
SYMMETRY Symmetry
INVARIANTS
  TypeOK
  ClaimOwnership
  GuardsConsistent
  GuardsRemember
PROPERTIES
  NoEarlyRedelivery
  LedgerSpec
  StaleFetchSuppressed
