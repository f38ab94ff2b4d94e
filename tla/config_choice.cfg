SPECIFICATION Spec
CONSTANTS
    docker = docker
    settings = settings
    ip = ip
    domain = domain
    NoVal = NoVal
    None = None
    DockerTabs = {docker}
    SettingsTabs = {}
    Origin <- OneOrigin
    UIKeys = {key}
    Containers = {}
    Cards = {}
    Values = {a, b}
    Requests = {1}
    MaxWrites = 2
    MaxFaults = 0
INVARIANT
    ChoiceSticks
