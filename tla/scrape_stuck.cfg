CONSTANTS
    DevMacs = {"sw", "pc"}
    Routers = {}
    Addrs = {"a1", "a2", "x"}
    LanAddrs = {"a1", "a2"}
    PurgeAge = 1
SPECIFICATION BindingsSpec
INVARIANTS
    ScrapeCanComplete
