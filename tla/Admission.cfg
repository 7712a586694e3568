\* Two brokers; lineage limits and budgets that three tasks can exceed.
CONSTANTS
    Broker = {b1, b2}
    Task = {t1, t2, t3}
    NoTask = NoTask
    Offers <- MCOffers
    Worlds <- MCWorlds
    MaxConcurrency = 1
    MaxAgents = 2
    MaxChildren = 1
    MaxDepth = 1
    MaxTree = 3
    MaxPremium = 1
    MaxRetries = 1
    MaxEscalations = 1
    AllowHigher = FALSE
    Moved <- MCMoved
SPECIFICATION Spec
SYMMETRY Symmetry
INVARIANTS
    TypeOK
    LimitsHold
    BudgetHolds
CHECK_DEADLOCK FALSE
