SPECIFICATION Spec
CONSTANTS
    u1 = u1
    u2 = u2
    o1 = o1
    g1 = g1
    r1 = r1
    r2 = r2
    m1 = m1
    AdminRole = admin
    Users = {u1, u2}
    Roles = {o1, admin}
    Groups = {g1}
    Resources = {r1}
    Modifiers = {m1}
    NoModifier = NoModifier
    Requests = {h1}
    Inputs <- MCInputs
    Tokens <- MCTokens
    SameGroup <- SharedGroup
    Unregistered = Unregistered
    NoRequest = NoRequest
    Refused = Refused
    Order <- MCOrder
    NoIds = NoIds
    Numbers <- MCNumbers
    Unset = Unset
    Parts <- MCParts
PROPERTY OmittedRolesAreKept
