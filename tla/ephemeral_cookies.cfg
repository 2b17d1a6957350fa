SPECIFICATION Spec
CONSTANTS
    a = a
    b = b
    NoSite = NoSite
    Site <- MCSite
    NoDomain <- MCNoDomain
    EntityList <- MCEntityList
    TrustedScheme <- MCTrustedScheme
    Features <- MCFeatures
    SiteRules <- MCSiteRules
    TopRules <- MCTopRules
    DefaultRules <- MCDefaultRules
    MaxCookies = 2
SYMMETRY Symmetry
INVARIANTS
    JarsKeptApart
    DeletedEverywhere
    NoLinkAcrossTopFrames
    PersistentNeedsFullAccess
