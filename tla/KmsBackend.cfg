\* Two threads, one cached client: every request can find, race for or evict
\* the client of another request, context or environment.
CONSTANTS
    KeyIds <- MCKeyIds
    ArnRegionOf <- MCArnRegionOf
    ChinaRegions = {"cn"}
    SharedProfiles = {"ops"}
    ProfileRegion <- MCProfileRegion
    ProfileEndpoint <- MCProfileEndpoint
    SdkProfile = "default"
    SdkRegion = "us"
    Null = Null
    Empty = Empty
    Threads = {t1, t2}
    Clients = {c1, c2}
    MaxClients = 1
    NoKey = NoKey
    NoClient = NoClient
    RawUris <- MCRawUris
    ProvConfigs <- MCProvConfigs
    Environments <- MCEnvironments
    NoRequest = NoRequest

SPECIFICATION BackendSpec
SYMMETRY Symmetry

INVARIANTS
    WantedConfiguration
    RoutedWhereAllowed

PROPERTIES
    PrecedenceTable
