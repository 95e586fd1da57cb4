SPECIFICATION Spec
CONSTANTS
    holder = holder
    code = code
    Keys = {holder, code}
    DomainOf <- MCDomainOf
    DraftIds = {d1, d2}
    MaxRows = 2
    MaxEdits = 1
    Reviewed = TRUE
    Requests = {r1, r2}
    MaxInFlight = 2
    EditsMidRequest = FALSE
INVARIANTS
    ReceiptsHold
SYMMETRY IdSymmetry
CHECK_DEADLOCK FALSE
