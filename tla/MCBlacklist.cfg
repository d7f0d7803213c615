\* Two PATCHes in progress at a time, beside creates and deletes of two entries;
\* every window of two instants.  An id is given out once, so the system stops
\* when all entries are deleted.
CONSTANTS
    Ids = {e1, e2}
    Patches = {p1, p2}
    Fields <- MCFields
    Values <- MCValues
    Strip <- MCStrip
    Lower <- MCLower
    Blank = ""
    Times <- MCTimes
    Bodies <- MCBodies
SPECIFICATION Spec
SYMMETRY Symmetry
INVARIANTS
    TypeOK
    EmailsLowercased
    WindowsCanOpen
PROPERTIES
    OmittedUntouched
    OnlySentWritten
CHECK_DEADLOCK FALSE
