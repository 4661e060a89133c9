SPECIFICATION Spec
CONSTANTS
    Workers = {w1}
    Threads = {t1}
    Customers = {c1}
    Subs = {s1}
    Prices = {"price_pro", "price_enterprise"}
    PlanForPrice <- MCPlanForPrice
    None = None
    AsItIs = AsItIs
    MaxEvents = 2
    InOrder = FALSE
    OneLive = TRUE
INVARIANT InSync
