SPECIFICATION TopologySpec
CONSTANTS
    SwitchPorts = {s1, uplink}
    RouterPorts = {downlink}
    Uplink = uplink
    Downlink = downlink
    Hosts = {h1, h2}
    Ap = ap
    MaxTyped = 1
    s1 = s1
    uplink = uplink
    downlink = downlink
    h1 = h1
    h2 = h2
    ap = ap
PROPERTIES
    BridgeKeptWhileShared
