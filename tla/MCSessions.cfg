\* One login at a time (run login has two), a lockout of one second after a
\* failure, codes of two seconds; tokens of two seconds, minted from a row that
\* was read at most a second before, so that a token can outlive its account by
\* three seconds and be refused below the clock's bound.
CONSTANTS
    Requests = {r1}
    Ips = {ip1}
    Emails <- MCEmails
    Accounts <- MCAccounts
    Lower <- MCLower
    Codes <- MCCodes
    NoCode = NoCode
    StepsOf <- MCStepsOf
    MaxFailures = 1
    LockoutSeconds = 1
    ReplaySeconds = 2
    StepSeconds = 2
    MaxNow = 4
    ExpireSeconds = 2
    AnswerSeconds = 1
    Claims <- MCClaims
    Configurations <- MCConfigurations
    None = None
    MaxChanges = 1
SPECIFICATION SessionSpec
INVARIANTS
    SessionTypeOK
    AccessEndsInTime
    SessionsSurvive
