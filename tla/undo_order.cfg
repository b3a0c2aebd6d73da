SPECIFICATION HSpec
CONSTANTS
  Keys = {k1}
  Values = {v1}
  NoRow = NoRow
  Backend = "sqlite"
  Cursors = {c1}
  NoCursor = NoCursor
  NoSavePoint = NoSavePoint
  NoBuffer = NoBuffer
  Events = {}
  MaxLevel = 3
  MaxOps = 2
  MaxSavePoints = 3
  MaxOpened = 3
PROPERTY RollbackRestores
