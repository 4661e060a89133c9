SPECIFICATION Spec
CONSTANTS
    Workers = {w1}
    Threads = {t1}
    Customers = {c1, c2}
    Subs = {s1, s2}
    Prices = {"price_pro", "price_enterprise", "price_other"}
    PlanForPrice <- MCPlanForPrice
    None = None
    AsItIs = AsItIs
    MaxEvents = 4
    InOrder = TRUE
    OneLive = TRUE
SYMMETRY Symmetry
INVARIANTS
    TypeOK
    PayerIsKnown
    InSync
PROPERTIES
    ChangesAreAttributed
