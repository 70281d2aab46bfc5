SPECIFICATION Spec
CONSTANTS
  Transfers = {t1}
  Files = {large}
  Threshold = 2
  MaxBacklog = 0
  MaxLocal = 5
  Content <- MCContent
  Hole = Hole
  Absent = Absent
  one = one
  two = two
  small = small
  large = large
  a = a
  b = b
  c = c
INVARIANTS
  InterruptedResumes
