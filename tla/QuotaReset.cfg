SPECIFICATION Spec
CONSTANTS
    Operators = {o1, o2}
    Workers = {w1}
    Nobody = Nobody
    OperatorKeys = {k1}
    Credits = {x1}
    MaxCredits = 1
SYMMETRY Symmetry
INVARIANTS DispatchedOnce DispatcherHoldsTheSlot SubmittedHasOwner
CHECK_DEADLOCK FALSE
