SPECIFICATION Spec
CONSTANTS
  u1 = u1  s1 = s1  s2 = s2  c1 = c1  c2 = c2  h1 = h1  h2 = h2
  Users = {u1}
  Subs = {s1, s2}
  Buyer <- OneBuyer
  Customers = {c1, c2}
  NoCustomer = NoCustomer
  Handlers = {h1, h2}
  NoEvent = NoEvent
  MaxChanges = 1
  MaxRepeats = 0
  MaxDisorder = 0
  MaxFailures = 0
CHECK_DEADLOCK FALSE
INVARIANT NoOtherActiveIsFree
