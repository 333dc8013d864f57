SPECIFICATION FairSpec
CONSTANTS
    Launchers = {"a", "b"}
    NCores = 6
    Nodes = {0, 1, 2}
    NodeOf <- MCNodeOf
    Dist <- MCDist
    Requests = {0, 3}
    Strides = {1, 2}
    MaxKills = 1
INVARIANTS
    TypeOK
    CoresApart
PROPERTIES
    Settles
