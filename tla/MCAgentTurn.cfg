\* Two concurrent turns with a budget of two calls, and two presses of ctrl+c.
SPECIFICATION Spec
CONSTANTS
  t1 = t1
  t2 = t2
  p1 = p1
  p2 = p2
  Turns = {t1, t2}
  Presses = {p1, p2}
  MaxIterations = 2
  MaxEmpties = 1
SYMMETRY Symmetry
INVARIANTS
  BudgetHolds
  InterruptStopsSoon
