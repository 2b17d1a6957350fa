SPECIFICATION Spec
CONSTANTS
    a = a
    b = b
    sub = sub
    NoHost = NoHost
    NoTopFrame = NoTopFrame
    NoPartition = NoPartition
    InvalidPartition = InvalidPartition
    Host <- MCHost
    Superdomains <- MCSuperdomains
    Domain <- MCDomain
    NoDomain <- MCNoDomain
    Header <- MCHeader
    TopFrame <- MCTopFrame
    MaxEntries = 2
PROPERTIES
    OnlyOwnTopFrame
    PageIsUpgraded
    DeletedEverywhere
