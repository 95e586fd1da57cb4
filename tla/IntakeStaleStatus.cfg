SPECIFICATION SeededSpec
CONSTANTS
    user = user
    admin = admin
    c1 = c1
    c2 = c2
    open = open
    accepted = accepted
    n1 = n1
    Nobody = Nobody
    Personas = {user, admin}
    Role <- MCRole
    Names = {n1}
    Contents = {c1, c2}
    Continues <- MCContinues
    Loop = Loop
    MaxInFlight = 2
    Crashes = FALSE
    IOErrors = FALSE
    Intakes = {open, accepted}
    BlockIds = {}
    Pool = {t1, t2}
SYMMETRY WorkerSymmetry
PROPERTY AcceptedEvidenceFrozen
\* Ids run out and records close: nothing is left to ask for.
CHECK_DEADLOCK FALSE
