CONSTANTS
  e1 = e1
  e2 = e2
  r1 = r1
  l1 = l1
  Encoders = {e1, e2}
  Lockers = {l1}
  Readers = {r1}
  Main = Main
  Nobody = Nobody
  MaxAge = 2
SPECIFICATION Spec
CHECK_DEADLOCK FALSE
INVARIANT OutputExclusive
