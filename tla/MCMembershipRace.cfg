SPECIFICATION Spec
CONSTANTS
    People = {p1, p2}
    InviteIds = {i1, i2}
    Requests = {r1, r2}
    AskedRoles = {"owner", "viewer"}
    Plans = {"free"}
    SeatLimit <- MCSeatLimit
    Unlimited = Unlimited
    None = None
SYMMETRY Symmetry
INVARIANTS
    TypeOK
    MembersHaveAccounts
PROPERTIES
    AcceptIsAtomic
    NoReviveByRoleChange
