CONSTANTS
    Subjects = {s1, s2}
    Definitions <- MCDefinitions
    TypeOf <- MCTypeOf
    Parses <- MCParses
    TopName <- MCTopName
    NoName = "none"
    References <- MCReferences
    Levels = {"None", "Backward"}
    NoLevel = "unset"
    Payloads <- MCPayloads
    MaxVersions = 2
SYMMETRY Symmetric
SPECIFICATION Spec
INVARIANTS
    IdsIdentifySchemas
    RecordsStayReadable
    CheckPredictsRegister
