CONSTANTS
    r1 = r1
    r2 = r2
    x = x
    y = y
    d1 = d1
    Requests = {r1, r2}
    Names = {x, y}
    DatasetIds = {d1}
    None = None
    Generated <- MCGenerated
    MaxWidgets = 4
    MaxVersions = 3
SYMMETRY Symmetry
SPECIFICATION Spec
PROPERTY RestoreShowsReplacement
CHECK_DEADLOCK FALSE
