SPECIFICATION Spec
CONSTANTS
    Requests = {r1}
    Connections = {c1}
    Threads = 1
    Workspaces = {w1, w2}
    None = None
INVARIANT UnscopedQueriesWork
