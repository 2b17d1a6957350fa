SPECIFICATION Spec
CONSTANTS
    a = a
    b = b
    t1 = t1
    t2 = t2
    NoSite = NoSite
    Site <- MCSite
    Thread <- MCThread
    NoDomain <- MCNoDomain
    EntityList <- MCEntityList
    TrustedScheme <- MCTrustedScheme
    Features <- MCFeatures
    SiteRules <- MCSiteRules
    TopRules <- MCTopRules
    DefaultRules <- MCDefaultRules
    MaxOrigins = 3
SYMMETRY Symmetry
INVARIANTS
    OneUsePerOpaqueOrigin
    HandedIsTracked
    TakenOnce
PROPERTY
    IsOriginMemory
