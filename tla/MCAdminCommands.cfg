\* Two requests beside one change of a user or of the booking; every state of one
\* booking and two clients to begin with.  A request is made once, so the system
\* stops when both have ended.
CONSTANTS
    Users = {u1, u2}
    Clients = {u1, u2}
    Emails <- MCEmails
    Spellings <- MCSpellings
    Lower <- MCLower
    Bookings = {b1}
    Requests = {r1, r2}
    None = None
    MaxChanges = 1
SPECIFICATION Spec
SYMMETRY Symmetry
INVARIANTS
    TypeOK
    CommandsRestOnFacts
    RefusalsRestOnFacts
    RemindersNotSuppressed
CHECK_DEADLOCK FALSE
