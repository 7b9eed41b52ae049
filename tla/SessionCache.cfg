SPECIFICATION AccessSpec
CONSTANTS
    r1 = r1
    r2 = r2
    s1 = s1
    m1 = m1
    citizen = citizen
    officer = officer
    manage = manage
    Unsigned = Unsigned
    Request <- MCRequest
    Session <- MCSession
    Minted <- MCMinted
    Expires <- MCExpires
    TTL = 2
    Pause = 1
    MaxTime = 5
    Window = 2
    Role <- MCRole
    Permission <- MCPermission
    MFA_ENFORCED_ROLES <- MCEnforced
    RolePermissions <- MCRolePermissions
    Routes <- MCRoutes
    SignIn <- MCSignIn
SYMMETRY RequestSymmetry
INVARIANTS
    StaleGrantBounded
    DenialsDeserved
    OfficersAdmitted
PROPERTIES
    ShutStaysShut
