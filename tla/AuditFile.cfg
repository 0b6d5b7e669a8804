\* Three decisions and commands, one failing operation, one kill; then all have run.
CHECK_DEADLOCK FALSE
SPECIFICATION DirSpec
CONSTANTS
    d1 = d1  d2 = d2  d3 = d3  old = old  c1 = c1  c2 = c2  c3 = c3
    expense = expense  salary = salary
    Decisions = {d1, d2, d3}
    Legacy = {old}
    Denials = {d1, d2}
    About <- MCAbout
    Commands = {c1, c2, c3}
    Asked = {"local", "ad", "all"}
    MaxWork = 3
    None = None
    Missing = Missing
    Parts <- MCParts
    Ranks = {"HR_HEAD", ""}
    LdapPeople <- MCLdapPeople
    LdapTeams <- MCLdapTeams
    GraphPeople <- MCGraphPeople
    GraphTeams <- MCGraphTeams
    PoolPeople <- MCPoolPeople
    PoolTeams <- MCPoolTeams
    MaxFaults = 1
    MaxMishaps = 1
    MaxKills = 1
INVARIANTS
    DirTypeOK
    ReadUnlessCrowded
    SuggestionsEarned
    ReadsTheLastSync
    DraftsOfSavedDirectories
    IdentitiesMerge
PROPERTY
    SettledStays
SYMMETRY Alike
