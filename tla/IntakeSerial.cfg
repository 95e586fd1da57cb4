SPECIFICATION Spec
CONSTANTS
    user = user
    admin = admin
    c1 = c1
    c2 = c2
    open = open
    accepted = accepted
    n1 = n1
    Nobody = Nobody
    Personas = {admin}
    Role <- MCRole
    Names = {n1}
    Contents = {c1, c2}
    Continues <- MCContinues
    Loop = Loop
    MaxInFlight = 1
    Crashes = TRUE
    IOErrors = FALSE
    Intakes = {i1, i2}
    BlockIds = {b1}
    Pool = {t1}
SYMMETRY IdSymmetry
INVARIANT TypeOK
PROPERTY CommitsAreHandlers
\* Ids run out and records close: nothing is left to ask for.
CHECK_DEADLOCK FALSE
