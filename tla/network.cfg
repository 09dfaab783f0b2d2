CONSTANTS
    DevMacs = {sw, pc}
    Routers = {}
    Addrs = {a1, a2, x}
    LanAddrs = {a1, a2}
    PurgeAge = 1
    SwitchPorts = {s1, uplink}
    RouterPorts = {downlink}
    Uplink = uplink
    Downlink = downlink
    Hosts = {h1, h2}
    Ap = ap
    MaxTyped = 1
    Segments = {net1, net2}
    Phones = {p1, p2}
    Branded = {p1}
SPECIFICATION NetworkSpec
SYMMETRY Alike
INVARIANTS
    NetworkTypeOK
    NoLinkToGhost
    
    ConfirmedStaysBound
PROPERTIES
    AgedOutRetired
    LinkFollowsDevice
