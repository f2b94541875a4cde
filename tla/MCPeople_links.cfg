SPECIFICATION PeopleSpec
CONSTANTS
    o = o
    x = x
    y = y
    p1 = p1
    p2 = p2
    p3 = p3
    Identities <- MCIdentities
    Owners <- MCOwners
    Persons <- MCPersons
    Names = {n1}
    Codes = {c1, c2}
    MaxApps = 2
    Guest = Guest
    None = None
SYMMETRY Symmetry
INVARIANTS BannedAreOut OwnedBySomeone
PROPERTIES RoleNeedsApproval
