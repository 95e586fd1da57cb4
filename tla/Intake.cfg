SPECIFICATION Spec
CONSTANTS
    user = user
    admin = admin
    c1 = c1
    c2 = c2
    Nobody = Nobody
    Personas = {user, admin}
    Role <- MCRole
    Intakes = {i1, i2}
    Names = {n1}
    Contents = {c1, c2}
    Continues <- MCContinues
    BlockIds = {b1, b2}
SYMMETRY IdSymmetry
INVARIANTS
    TypeOK
    AuditAgrees
    MovesWereAuthorized
    RulingIsFinal
    OneLiveRowPerName
    LinksResolve
    OneOpenBlock
PROPERTIES
    NoSilentSwap
    BlockedDoNotSubmit
\* Every id used and every record closed: nothing is left to ask for.
CHECK_DEADLOCK FALSE
