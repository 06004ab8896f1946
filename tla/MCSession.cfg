SPECIFICATION MCSpec
CONSTANTS
    Home = Home
    Other = Other
    Hosts = {Home, Other}
    NoHost = NoHost
    NoTarget = NoTarget
    NoValue = NoValue
    NoAdapter = NoAdapter
    Users = {"u1", "u2"}
    Targets <- Locations
    Statuses = {200, 301, 307}
    Requests <- SomeCalls
    Limits = {0, 2}
    Netrcs = {{Other}}
    Mountable <- Prefixes
    MaxMounts = 1
    MaxCookies = 2
CHECK_DEADLOCK FALSE
INVARIANTS PatchesHonoured FieldsAgree ReleasedBeforeNextHop ChainIsSound EachHopItsOwn LongestPrefixWins
PROPERTIES ClosedStaysClosed
