SPECIFICATION FairSpec
CONSTANTS
    shared = shared
    own = own
    None = None
    Envs <- FourEnvs
    Slugs <- TwoSlugs
    Slug <- SlugOf
    Harvested <- HarvestOf
    Bare = {2}
    ShortCircuits = {3}
    Concurrency = 2
    MaxRuns = 2
INVARIANTS
    TypeOK
    OwnImage
    NothingLeft
    ErrorsBesideMetrics
    DerivedStatusHonest
PROPERTIES
    PoolEnds
CHECK_DEADLOCK FALSE
