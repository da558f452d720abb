SPECIFICATION LedgerSpec
CONSTANTS
    Run = {r1, r2}
    Ticket = {t1, t2}
    Count <- MCCount
    Limits <- MCLimits
    Restorable <- MCRestorable
    Outer <- MCOuter
    Metered = Metered
    NoCap = Metered
    MaxSafe = 3
    MaxQueue = 2
    NoTicket = NoTicket
INVARIANTS
    WithinBudget
    PersistedBeforeGranted
    AccountsBalance
PROPERTIES
    ReservationsAreAtomic
CHECK_DEADLOCK FALSE
