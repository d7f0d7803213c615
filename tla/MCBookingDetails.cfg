\* One request beside three writes or clicks; every state of two bookings without
\* rows to begin with.  There is one request, so the system stops when it has ended.
CONSTANTS
    Bookings = {b1, b2}
    Users = {u1, u2}
    Urls <- MCUrls
    Idents <- MCIdents
    Ident <- MCIdent
    None = None
    MaxChanges = 3
SPECIFICATION Spec
SYMMETRY Symmetry
INVARIANTS
    TypeOK
    DetailsComplete
    LastStatusInHistory
    OrganizerInHistory
    ReminderLinkIsRight
    CountsAreOwn
CHECK_DEADLOCK FALSE
