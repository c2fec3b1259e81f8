SPECIFICATION Spec
CONSTANTS
  u1 = u1  s1 = s1  s2 = s2  c1 = c1  c2 = c2  h1 = h1  h2 = h2
  Users = {u1}
  Subs = {s1, s2}
  Buyer <- OneBuyer
  Customers = {c1, c2}
  NoCustomer = NoCustomer
  Handlers = {h1, h2}
  NoEvent = NoEvent
  MaxChanges = 2
  MaxRepeats = 1
  MaxDisorder = 1
  MaxFailures = 1
SYMMETRY BillingSymmetry
CHECK_DEADLOCK FALSE
INVARIANTS TypeOK PaidIsPro LapsedIsFree RecordMirrorsStripe
