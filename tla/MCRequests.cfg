SPECIFICATION SpecAll
CONSTANTS
    u1 = u1
    u2 = u2
    a1 = a1
    a2 = a2
    t1 = t1
    t2 = t2
    t3 = t3
    Users = {u1, u2}
    Workspaces = {w1}
    Elsewhere = elsewhere
    OrgRoute = orgRoute
    Keys = {k1}
    Addresses = {a1, a2}
    Callers = {c1}
    Admins = {d1}
    None = None
    MaxChanges = 3
    Requests = {u1, u2}
    Max = 1
    Length = 2
    EndOfTime = 2
    Identities = {u1, u2}
    Emails = {a1, a2}
    Calls = {s1}
    MaxEvents = 4
    People = {u1, u2}
    Widgets = {g1}
    Posts = {a1, a2}
    MaxPosts = 3
    Versions = {v1, v2, v3}
    Quiet = {v2}
    Tables = {v3}
    Words = {q1}
    Readers = {u1, u2}
    MaxAsks = 3
    Slots = {t1, t2, t3}
    Connections = {n1}
    Threads = 2
    Tenants = {w1, w2}
    MaxColumns = 1
    MaxCharts = 3
    MaxReply = 7
    Names <- SomeNames
    Amounts <- SomeAmounts
    MaxOps = 2
    Features = {1, 2}
    Categories = {1, 2}
    Scores = {0, 1}
SYMMETRY Symmetry
INVARIANTS TypesOK AdmittedOnGrounds LimitIsPerWindow MirrorFollows DiscussionIsSound AnswersFit
    ConfinedToWorkspace EveryRequestCanMove LayoutIsSound LineageAccounts ModelIsExplained
PROPERTIES RevocationIsFinal SetterIsInside
CHECK_DEADLOCK FALSE
