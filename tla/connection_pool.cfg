SPECIFICATION Spec
CONSTANTS
    s1 = s1
    s2 = s2
    s3 = s3
    c1 = c1
    c2 = c2
    Source <- MCSource
    Socket <- MCSocket
    LimitSource = 2
    LimitSocket = 1
SYMMETRY Symmetry
INVARIANTS
    PlacesFollowSources
    ConnectionsAreBounded
