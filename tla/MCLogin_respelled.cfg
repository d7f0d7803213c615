\* One request at a time is enough: the same code, spelled twice.
CONSTANTS
    Requests = {r1}
    Ips = {ip1}
    Emails <- MCEmails
    Accounts <- MCAccounts
    Lower <- MCLower
    Codes <- MCCodes
    NoCode = NoCode
    StepsOf <- MCStepsOf
    MaxFailures = 2
    LockoutSeconds = 2
    ReplaySeconds = 4
    StepSeconds = 3
    MaxNow = 6
SPECIFICATION Spec
PROPERTY TotpSingleUse
