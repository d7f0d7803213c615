\* Three rows in pages of two: a walk has two pages, the second of which may be empty.
\* Two changes and a tick or two can take a row away from under the second page, push
\* one onto it, and fall between a total and its page; keys of three instants tie.
CONSTANTS
    Ids = {1, 2, 3}
    Limit = 2
    MaxClock = 2
    MaxChanges = 2
SPECIFICATION Spec
INVARIANTS
    TypeOK
    WalkShowsWhatStays
    TotalFits
