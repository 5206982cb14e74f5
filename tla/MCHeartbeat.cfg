SPECIFICATION NetSpec
CONSTANTS
    Validator = {w1, w2, w3}
    StatusSteps = 20
    DenseLimit = 20
    MaxCycles = 21
CHECK_DEADLOCK FALSE
INVARIANTS
    ParticipantsStayActive
