SPECIFICATION Spec
CONSTANTS
  t = t
  u = u
  h = h
  d = d
  p = p
  t1 = t1
  t2 = t2
  u1 = u1
  h1 = h1
  d1 = d1
  p1 = p1
  Entry = {t1, u1}
  Id = {t, u}
  IdOf <- MCIdOf
  ProtoOf <- MCProtoOf
  SlotLimit = 2
  Scenarios <- Overwrite
PROPERTY SecureAdminKept
