SPECIFICATION SettingsSpec
CONSTANTS
    wp = wp
    wordpress = wordpress
    router = router
    webui = webui
    NoSite = NoSite
    Site <- MCSite
    NoDomain <- MCNoDomain
    EntityList <- MCEntityList
    TrustedScheme <- MCTrustedScheme
    Features <- MCFeatures
    SiteRules <- MCSiteRules
    TopRules <- MCTopRules
    DefaultRules <- MCDefaultRules
SYMMETRY Symmetry
INVARIANTS
    EphemeralExcludesFull
    ThirdPartyNeedsReason
PROPERTIES
    BlockingNeverGrants
