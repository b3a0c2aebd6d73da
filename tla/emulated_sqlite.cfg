SPECIFICATION Spec
CONSTANTS
  Keys = {k1}
  Values = {v1}
  NoRow = NoRow
  Backend = "sqlite"
  Cursors = {c1}
  NoCursor = NoCursor
  NoSavePoint = NoSavePoint
  NoBuffer = NoBuffer
  Events = {"crash","unchecked","stale"}
  MaxLevel = 3
  MaxOps = 1
  MaxSavePoints = 2
  MaxOpened = 3
INVARIANT TypeOK SavePointPerLevel QueueUnderOpenLevels
PROPERTY CallsReturn
