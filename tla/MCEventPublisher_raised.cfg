\* What a 502 says about the command.
CONSTANTS
    Publishes = {p1}
    Attempts = 2
    Statuses = {"accepted", "refused"}
SPECIFICATION Spec
INVARIANT RaisedWasNotApplied
CHECK_DEADLOCK FALSE
