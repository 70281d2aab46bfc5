SPECIFICATION FairSpec
CONSTANTS
  Transfers = {t1}
  Files = {small, large}
  Threshold = 2
  MaxBacklog = 1
  MaxLocal = 5
  Content <- MCContent
  Hole = Hole
  Absent = Absent
  one = one
  two = two
  small = small
  large = large
  a = a
  b = b
  c = c
INVARIANTS
  TypeOK
  SmallResumes
PROPERTIES
  AnsweredIsVerified
