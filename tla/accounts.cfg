SPECIFICATION Spec
CONSTANTS
  Users = {u1, u2}
  Emails = {e1, e2}
  g1 = g1
  Subs = {g1}
  Tokens = {t1, t2, t3}
  ApiKeys = {k1}
  Requests = {r1, r2, r3}
  GoogleId <- MCGoogleId
  NoAccount = NoAccount
  NoUser = NoUser
  NoSub = NoSub
  Idle = Idle
  MaxUses = 3
SYMMETRY MCSymmetry
CONSTRAINT KeyOrTokens
CHECK_DEADLOCK FALSE
INVARIANTS TypeOK OneAccountEach RotationBounded CountSound
PROPERTIES SessionOverForGood MarksKept
