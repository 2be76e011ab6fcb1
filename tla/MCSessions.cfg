SPECIFICATION Spec
CONSTANTS
    r1 = r1
    r2 = r2
    Requests = {r1, r2}
    Lifetimes = {0, 2}
    MinLifetime = 1
    DefaultLifetime = 1
    ChallengeTime = 1
    MaxLogins = 2
    MaxTime = 4
CHECK_DEADLOCK FALSE
INVARIANTS SessionsHold
PROPERTIES EndedAdmitsNothing
