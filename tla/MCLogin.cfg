\* Two requests in flight, two failures to a lockout of two seconds; three
\* TOTP steps of three seconds fit below the clock's bound, and the replay
\* memory (four seconds) expires within it.
CONSTANTS
    Requests = {r1, r2}
    Ips = {ip1}
    Emails <- MCEmails
    Accounts <- MCAccounts
    Lower <- MCLower
    Codes <- MCCodes
    NoCode = NoCode
    StepsOf <- MCStepsOf
    MaxFailures = 2
    LockoutSeconds = 2
    ReplaySeconds = 4
    StepSeconds = 3
    MaxNow = 6
SPECIFICATION Spec
INVARIANTS
    TypeOK
    OvershootBounded
    AcceptedCodeRemembered
PROPERTIES
    ReuseNeedsRespelling
    LockoutIsFixedWindow
    LockoutHolds
