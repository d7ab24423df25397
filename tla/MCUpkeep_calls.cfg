SPECIFICATION Spec
CONSTANTS
  Pumps = {u1}
  Tasks = {t1}
  Elsewhere = pond
  None = None
  Callers = {c1, c2}
  Hours = {0, 2, 5, 9}
  RunMax = 5
  HoursMax = 8
  Budget <- MCBudget
SYMMETRY Alike
INVARIANTS TypeOK HoursSinceService DoneWasServiced
