\* Two users and one list, two calls in progress, a TTL of one second and
\* fetches of up to one second.
CONSTANTS
    Users = {u1, u2}
    Lists = {list}
    Calls = {c1, c2}
    Ttl = 1
    FetchSeconds = 1
    MaxVersion = 1
    MaxNow = 4
SPECIFICATION Spec
SYMMETRY Symmetry
INVARIANTS
    TypeOK
    EntryStalenessBounded
    InvalidationRespected
PROPERTY ReturnStalenessBounded
