SPECIFICATION CredentialsSpec
CONSTANTS
    t1 = t1  t2 = t2  sk = sk  here = here  there = there
    Nil = Nil  Keep = Keep  None = None  Foreign = Foreign  Torn = Torn
    Token <- Tokens
    FirstToken = t1
    p1 = p1  p2 = p2
    Password <- Passwords
    FirstPassword = p1
    Tab = {a, b}
    Lifetime = 0
    LastSecond = 1
    MaxStarts = 2
    Vault <- Vaults
    Home = here
    AnyToken <- AllTokens
    AgentKey <- AgentKeys
    Environments <- SomeEnvironments
    Process = {c1}
    MaxChanges = 4
    Clients = {"browser", "machine"}
CHECK_DEADLOCK FALSE
INVARIANTS
    CredentialsTypeOK
    SessionEndsWithToken
    
    PairsStayTogether
PROPERTIES
    SessionLasts
    LoadsSettle
