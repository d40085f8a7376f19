CONSTANTS
  e1 = e1
  e2 = e2
  l1 = l1
  l2 = l2
  r1 = r1
  Encoders = {e1, e2}
  Lockers = {l1, l2}
  Readers = {r1}
  Main = Main
  Nobody = Nobody
  MaxAge = 3
SPECIFICATION Spec
CHECK_DEADLOCK FALSE
INVARIANTS ExclusiveUntilHanded WorkerNotLockedOut
