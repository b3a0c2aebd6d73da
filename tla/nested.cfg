SPECIFICATION Spec
CONSTANTS
    Keys = {k1}
    Values = {v1, v2}
    NoRow = NoRow
    Cursors = {c1}
    NoCursor = NoCursor
    NoSavePoint = NoSavePoint
    NoBuffer = NoBuffer
PROPERTIES Nested FlatRollback
