SPECIFICATION ServiceSpec
CONSTANTS
    Recipients = 2
    MultiLine = {"banner", "HELO", "STARTTLS", "AUTH_PLAIN", "MAIL", "RCPT", "DATA", "body"}
    u1 = u1
    u2 = u2
    NoUser = NoUser
    f1 = f1
    f2 = f2
    r1 = r1
    r2 = r2
INVARIANTS ServiceTypes SentMeansTaken NothingInClear NumbersFresh
PROPERTIES UntouchedKept OverwriteAsked WaitsKnowingly WaitsForLocks SendingEnds
