SPECIFICATION Spec
CONSTANTS
    holder = holder
    code = code
    Keys = {holder, code}
    DomainOf <- MCDomainOf
    DraftIds = {d1, d2}
    MaxRows = 2
    MaxEdits = 1
    Reviewed = FALSE
    Requests = {r1}
    MaxInFlight = 1
    EditsMidRequest = FALSE
INVARIANTS
    ReceiptsHold
SYMMETRY IdSymmetry
CHECK_DEADLOCK FALSE
