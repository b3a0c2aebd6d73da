----------------------------- MODULE MCDeletion -----------------------------
\* An order with two lines, a line with a lot and a note, and a mark that does not care.
EXTENDS FLSqlCursorDel

MCOwner ==
    [r \in {"line1", "line2", "lot", "note", "mark"} |->
        CASE r \in {"line1", "line2"} -> "order"
          [] r \in {"lot", "note"} -> "line1"
          [] r = "mark" -> "lot"]

MCRecords == DOMAIN MCOwner \cup {"order"}

=============================================================================
