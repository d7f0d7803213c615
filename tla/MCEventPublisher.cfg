\* Two publishes of up to three attempts; event-receiver answers 2xx, 3xx or an error.
\* The publishes are finitely many, so the system stops when all have ended.
CONSTANTS
    Publishes = {p1, p2}
    Attempts = 3
    Statuses = {"accepted", "redirect", "refused"}
SPECIFICATION Spec
INVARIANTS
    TypeOK
    RefusedAttemptNotApplied
    PublishedWasAnswered
PROPERTIES
    EndedIsFinal
    KeepsPromise
CHECK_DEADLOCK FALSE
