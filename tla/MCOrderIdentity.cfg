SPECIFICATION IdentitySpec
CONSTANTS
    NoId = none
    O1 = O1
    C1 = C1
    C2 = C2
    C3 = C3
    E1 = E1
    C9 = C9
    O9 = O9
    a = a
    b = b
    Orders = {a, b}
    Ids <- MCIds
    OwnerOf <- MCOwnerOf
    IdFeed <- MCMessages
INVARIANT OrdersApart
