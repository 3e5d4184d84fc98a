CONSTANTS
    Managers = {m1, m2}
    Requests = {q1, q2}
    Workspaces = {home, away}
    MaxInputs = 4
    ManagersOf <- Everyone
    NoRow = NoRow
    NoToken = NoToken
    Nobody = Nobody
    Nowhere = Nowhere
SPECIFICATION Spec
SYMMETRY Interchangeable
INVARIANTS OutcomesAreTrue ConfirmationsPayOnce
PROPERTIES UsageStaysHome DeletesAreConfirmed
CHECK_DEADLOCK FALSE
