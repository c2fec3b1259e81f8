SPECIFICATION Spec
CONSTANTS
  u1 = u1  u2 = u2  r1 = r1  r2 = r2  r3 = r3
  Users = {u1, u2}
  Requests = {r1, r2, r3}
  Owner <- Owners
  Limit = 2
  MaxPaid = 1
INVARIANTS TypeOK OverrunBounded
