\* Two PATCHes of one entry: what they leave of each other's changes.
CONSTANTS
    Ids = {e1}
    Patches = {p1, p2}
    Fields <- MCFields
    Values <- MCValues
    Strip <- MCStrip
    Lower <- MCLower
    Blank = ""
    Times <- MCTimes
    Bodies <- MCBodies
SPECIFICATION Spec
PROPERTY EveryOmittedUntouched
CHECK_DEADLOCK FALSE
