SPECIFICATION ServicesSpec
CONSTANTS
  Rows = 3
  Columns = 3
  Source <- OneCorner
  Place <- FourPlaces
  MaxBlocked = 3
  MaxEnds = 2
  Nowhere = Nowhere
  Width = 8
  Group = 3
  Session = {s1, s2}
  MaxFile = 3
  MaxJobs = 2
  MaxOut = 2
  IntRange = 3
  DiskFails = TRUE
  Crowd = {1, 3}
  None = None
  Byte = {0, 1}
  Raw = Raw
  m_baseSize = 2
  MaxBytes = 3
  MaxNodes = 2
  User = {u1, u2}
  Busy = {u1}
  Password = {p1, p2}
  Worker = {w1, w2}
INVARIANTS NothingOfTheClosed NoShorterWay BestIsShortest CalmUploadsExact DownloadExact  PointerFits IntsComeBack
PROPERTIES JudgedByAccount DataSetNotInherited FlatSpec EveryUploadStored
CHECK_DEADLOCK FALSE
