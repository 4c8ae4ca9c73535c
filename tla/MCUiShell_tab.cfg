SPECIFICATION Spec
CONSTANTS
    Accounts = {a1, a2}
    RoleSets <- OneRoleOrTwo
    Scopes <- RolesOrForms
    Visited <- SomeOfEach
    None = None
INVARIANTS
    TypeOK
    NameFits
    AccessAgrees
PROPERTY ComesToRest
CHECK_DEADLOCK FALSE
