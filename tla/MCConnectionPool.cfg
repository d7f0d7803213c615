\* Three requests for two connections, of which one is kept while idle: a request can
\* wait and be refused, a connection can be one too many. Two outages, so that a
\* connection can be older than the one before the last.
CONSTANTS
    Requests = {r1, r2, r3}
    PoolSize = 1
    MaxOverflow = 1
    MaxOutages = 2
    None = None
SPECIFICATION Spec
INVARIANTS
    TypeOK
    OutagesPass
PROPERTIES
    RefusedOnlyByOthers
    OnlyPostgresHoldsUp
