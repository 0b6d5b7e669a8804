\* Every text of up to five lines; reading stops at its end.
CHECK_DEADLOCK FALSE
SPECIFICATION Spec
CONSTANTS
    boss = boss  clerk = clerk  ann = ann  NoId = NoId  NoText = NoText
    execs = execs  payers = payers  nameless = nameless
    Roles = {boss, clerk, "CFO", "CEO", "PAYROLL_ADMIN"}
    GroupNames = {execs, payers, nameless}
    Spelled <- MCSpelled
    Mentions <- MCMentions
    Snapshots <- MCSnapshots
    DeniedTwice <- MCDeniedTwice
    Groups = {"EXECUTIVE", "ENGINEERING"}
    Ids = {"employee:CEO", "employee:alice", ann}
    Actions = {"READ", "TOOL_INVOKE", "EXPORT", "A2A_SEND"}
    SchemaActions = {"READ", "TOOL_INVOKE", "EXPORT"}
    Kinds = {"TRAVEL_EXPENSE", "DB_TABLE", "SALARY", "VECTOR_COLLECTION", "EMPLOYEE_PROFILE",
             "GENERAL_CHAT", "TOOL_UNKNOWN", "AGENT_MESSAGE"}
    Names <- MCNames
    Lines <- MCLines
    Requests <- MCRequests
    MaxLines = 5
    Resources <- MCResources
    Mappings <- MCMappings
    Tools = {"sql_query", "send", "rm"}
    Tables = {"db.hr.travel_expenses", "db.hr.employees"}
    Collections = {"vec.policies", "vec.ledger"}
    People <- MCPeople
    Uttered <- MCUttered
    Used <- MCUsed
    Considered <- MCConsidered
INVARIANTS
    AcceptsTheWellFormed
    MeansWhatItSays
    NeverSkipsARule
    EvidenceAsWritten
    SchemaBounds
    UnknownToolsNeedTheirOwnRule
    WaysAgree
    EntitiesAgree
    DraftsGrantOnlySelf
