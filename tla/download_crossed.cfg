SPECIFICATION FairSpec
CONSTANTS
  Transfers = {t1, t2}
  Files = {one, two}
  Threshold = 2
  MaxBacklog = 1
  MaxLocal = 2
  Content <- MCContent
  Hole = Hole
  Absent = Absent
  one = one
  two = two
  small = small
  large = large
  a = a
  b = b
  c = c
PROPERTIES
  ExistsMatchesServer
