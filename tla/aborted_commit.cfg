SPECIFICATION Spec
CONSTANTS
  Keys = {k1}
  Values = {v1}
  NoRow = NoRow
  Backend = "psql"
  Cursors = {c1}
  NoCursor = NoCursor
  NoSavePoint = NoSavePoint
  NoBuffer = NoBuffer
  Events = {"unchecked"}
  MaxLevel = 2
  MaxOps = 1
  MaxSavePoints = 2
  MaxOpened = 2
PROPERTY CommitIsEffective
