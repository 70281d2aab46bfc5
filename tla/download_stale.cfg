SPECIFICATION UploadSpec
CONSTANTS
  Transfers = {t1}
  Files = {one, two}
  Sources = {doc, photo}
  Threshold = 1
  MaxBacklog = 3
  MaxLocal = 2
  MaxUnread = 5
  MaxUnseen = 0
  MaxAhead = 2
  MaxAfterCut = 1
  Content <- MCContent
  Versions <- MCVersions
  Hole = Hole
  Absent = Absent
  one = one
  two = two
  doc = doc
  photo = photo
  a = a
  b = b
  c = c
INVARIANTS
  RecordedIsSent
  UploadsStayInStep
PROPERTIES
  VerifiedMatchesServer
VIEW View
