SPECIFICATION FairSpec
CONSTANTS
  t = t
  u = u
  h = h
  d = d
  p = p
  t1 = t1
  t2 = t2
  u1 = u1
  h1 = h1
  d1 = d1
  p1 = p1
  Entry = {t1, t2, h1, d1, p1}
  Id = {t, h, d, p}
  IdOf <- MCIdOf
  ProtoOf <- MCProtoOf
  SlotLimit = 2
  Scenarios <- Outside
PROPERTY SavesWholeSections
PROPERTY EnableNeverLoses
PROPERTY OnlyChangedSections
PROPERTY PlainAdminKept
PROPERTY RequestsEnd
