SPECIFICATION Spec
CONSTANTS
  Keys = {k1}
  Values = {v1}
  NoRow = NoRow
  Backend = "psql"
  Cursors = {c1,c2}
  NoCursor = NoCursor
  NoSavePoint = NoSavePoint
  NoBuffer = NoBuffer
  Events = {"crash","fail","unchecked"}
  MaxLevel = 2
  MaxOps = 0
  MaxSavePoints = 2
  MaxOpened = 2
INVARIANT EveryLevelOnRecord NothingPending
