CONSTANTS
    Callers = {g1, g2, g3}
    limit = 2
    MaxHelpers = 2
SPECIFICATION Spec
CHECK_DEADLOCK FALSE
INVARIANT SlotsCounted
