SPECIFICATION FairSpec
CONSTANTS
    ByteMod = 4
    Char <- MCChar
    Credentials <- MCCredentials
INVARIANTS
    WireIsMessagePrefix
    TunnelOnlyIfAuthenticated
    CredentialsOnlyOnRequest
    ProxyReadsCredentials
PROPERTY LoopYields
CHECK_DEADLOCK FALSE
