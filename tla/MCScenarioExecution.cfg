\* One execution, from the catalog on disk to the evidence record.
SPECIFICATION Spec
CONSTANTS
    anna = anna
    renamed = renamed
    bob = bob
    NoId = "no id"
    NoActor = NoActor
    NoIdentity = NoIdentity
    Unset = Unset
    Catalogs <- MCCatalogs
    Actors <- MCActors
    Configurations <- MCConfigurations
    Identities <- MCIdentities
    Timeout = 3
    Lifetimes = {1, 5}
    Intervals = {1, 2}
    Latency = 1
    MaxThink = 4
INVARIANTS
    SuccessIsVerified
    FlowIsBounded
    EvidenceTellsTruth
    RegistryIsFaithful
PROPERTIES
    EverySignInEnds
CHECK_DEADLOCK FALSE
