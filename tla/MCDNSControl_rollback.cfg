SPECIFICATION Spec
CONSTANTS
  t = t
  u = u
  h = h
  d = d
  p = p
  t1 = t1
  t2 = t2
  u1 = u1
  h1 = h1
  d1 = d1
  p1 = p1
  Entry = {t1, t2, u1, d1}
  Id = {t, u, d}
  IdOf <- MCIdOf
  ProtoOf <- MCProtoOf
  SlotLimit = 2
  Scenarios <- Unreliable
INVARIANT TypeOK
INVARIANT Undisturbed
PROPERTY OkIsInstalled
PROPERTY RolledBackIsBefore
PROPERTY ImplementsCatalog
