\* One bootstrap while .env is edited at will.
SPECIFICATION Spec
CONSTANTS
    k1 = k1
    Boots = {b1}
    Models <- MCModels
    Env <- MCEnv
    Raws <- MCRaws
    Unset = Unset
    Junk = Junk
INVARIANTS
    TypeOK
    OneConfiguration
    AcceptableBlock
    AsReadinessShows
PROPERTIES
    BootEnds
