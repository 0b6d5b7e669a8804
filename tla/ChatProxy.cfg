\* Two concurrent requests on every route, with and without connectors.
\* The instance stops once every request is answered; a handler that is stuck
\* before that is what ComesToRest rules out.
CHECK_DEADLOCK FALSE
SPECIFICATION FairSpec
CONSTANTS
    r1 = r1  r2 = r2
    alice = alice  anonymous = anonymous
    look = look  pry = pry  garble = garble  ledger = ledger  vault = vault  tell = tell
    read = read  drop = drop  bad = bad
    NoIntent = NoIntent  NoCalls = NoCalls  Blocked = Blocked
    Requests = {r1, r2}
    Principals <- MCPrincipals
    Nameless <- MCNameless
    Utterances <- MCUtterances
    Retrievals <- MCRetrievals
    Messages <- MCMessages
    Tools <- MCTools
    Policy <- MCPolicy
    Roles = {"HR_HEAD", "CFO"}
    Groups = {"EXECUTIVE", "ENGINEERING"}
    Ids = {"employee:CEO", "employee:alice"}
    Actions = {"READ", "TOOL_INVOKE", "EXPORT", "A2A_SEND"}
    SchemaActions = {"READ", "TOOL_INVOKE", "EXPORT"}
    ResourceKinds <- MCKinds
    Names <- MCNames
    NoId = NoId
    NoText = NoText
    Resources <- MCResources
    Mappings <- MCMappings
    ToolNames = {"sql_query", "rm"}
    Tables = {"db.hr.travel_expenses", "db.hr.employees"}
    Collections = {"vec.hr.policies", "vec.finance.filings"}
    Deployed <- MCDeployed
    PersonOf <- MCPersonOf
    PromptOf <- MCPromptOf
    CollectionOf <- MCCollectionOf
    AgentOf <- MCAgentOf
    CallOf <- MCCallOf
    Answers <- MCAnswers
    Routes = {"chat", "retrieve", "check", "mcp", "a2a"}
    StreamFlags = {TRUE, FALSE}
    RequireSigned = TRUE
    Signed = TRUE
INVARIANTS
    TypeOK
    GatedEffects
    UnstreamedRepliesFiltered
    ExecutedOnceInOrder
    MetricsConserved
    AuditCoversEffects
    GarbledCallsEndTheReply
PROPERTY
    ComesToRest
