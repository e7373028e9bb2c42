\* The guard over ordinary messages, a slash command and stale claims.
SPECIFICATION Spec
CONSTANTS
  m1 = m1
  m2 = m2
  m3 = m3
  other = other
  slash = slash
  A = A
  B = B
  Msgs = {m1, m2, m3, other, slash}
  Sessions = {A, B}
  SessionOf <- MCSessionOf
  Plain <- MCPlain
  BusyTTL = 2
  NoClaim = NoClaim
INVARIANTS
  ClaimHasHolder
  ExclusionUnlessBreached
