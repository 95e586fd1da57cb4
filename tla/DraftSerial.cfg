SPECIFICATION Spec
CONSTANTS
    holder = holder
    code = code
    Keys = {holder, code}
    DomainOf <- MCDomainOf
    DraftIds = {d1, d2, d3}
    MaxRows = 2
    MaxEdits = 1
    Reviewed = TRUE
    Requests = {r1}
    MaxInFlight = 1
    EditsMidRequest = FALSE
INVARIANTS
    TypeOK
    PromotedOnce
    StampIsTrue
PROPERTIES
    BehavesAsBuffer
SYMMETRY IdSymmetry
CHECK_DEADLOCK FALSE
