SPECIFICATION Spec
CONSTANTS
    People = {p1, p2, p3}
    InviteIds = {i1, i2}
    Requests = {r1}
    AskedRoles = {"owner", "admin"}
    Plans = {"free"}
    SeatLimit <- MCSeatLimit
    Unlimited = Unlimited
    None = None
SYMMETRY Symmetry
PROPERTY SeatCapNeverExceeded
