SPECIFICATION FairSpec
CONSTANTS
    Workers = {w1, w2}
    Threads = {t1}
    Customers = {c1}
    Subs = {s1}
    Prices = {"price_pro", "price_enterprise"}
    PlanForPrice <- MCPlanForPrice
    None = None
    AsItIs = AsItIs
    MaxEvents = 2
    InOrder = FALSE
    OneLive = TRUE
PROPERTIES
    EachEventOnce
    EveryEventRecorded
