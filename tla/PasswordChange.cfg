CONSTANTS
    UserIds = {"u1", "u2", "u3"}
    ProjectIds = {p1, p2}
    Names = {"ann", "demo", "Demo"}
    Folded <- MCFolded
    Changes <- MCChanges
    AccessLists <- MCAccessLists
    AccountRequests = {r1, r2}
    MaxRequests = 3
    FirstAdmins <- MCFirstAdmins
    Nothing = Nothing
SPECIFICATION AccountsSpec
INVARIANT PasswordsCanChange
CHECK_DEADLOCK FALSE
