CONSTANTS
    Connections <- MCConnections
    Sends <- MCSends
    SaslRequired = {TRUE, FALSE}
    SchemaValidation = TRUE
    ChaosRules <- MCChaosRules
    MaxRules = 1
    MaxInjected = 1
    MaxBindings = 4
    Filters <- MCFilters
    UserNames <- MCUserNames
    AclEnabled = TRUE
    SuperUsers <- MCSuperUsers
    AllowEveryone = FALSE
    Passwords <- MCPasswords
    Enabled = {"PLAIN", "SCRAM-SHA-256"}
    NoUser = "none"
SPECIFICATION Spec
INVARIANTS
    ActsForProvenUser
    CallsWerePermitted
    PermittedIsServed
    FaultIsWhole
    AuthorizeMatchesRules
    DeleteMatchesDescribe
