SPECIFICATION FairSpec
CONSTANTS
    docker = docker
    settings = settings
    ip = ip
    domain = domain
    NoVal = NoVal
    None = None
    DockerTabs = {docker}
    SettingsTabs = {settings}
    Origin <- TwoOrigins
    UIKeys = {key}
    Containers = {box}
    Cards = {notify, shape}
    Values = {a, b}
    Requests = {1, 2}
    MaxWrites = 2
    MaxFaults = 1
INVARIANT
    TypeOK
PROPERTIES
    LockHolds
    Converges
