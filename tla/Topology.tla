------------------------------- MODULE Topology -------------------------------
(* Where devices are: endpoint_locations, written from the forwarding tables of *)
(* the switch and the router (mac_table_scraper.py) and from the access point   *)
(* (wifi_scraper.py); the links of infrastructure_links that tell a leaf port   *)
(* from the backbone; and the unmanaged switches that run_dark_matter_detection *)
(* (inference_engine.py) puts where several devices share a port, until         *)
(* run_verified_switch_consolidation_pass() (unification.py) replaces one by a  *)
(* confirmed device.  One switch and one router, joined by a trunk.  Ages are left *)
(* out: any row that a pass does not refresh may have reached its limit by then. *)
EXTENDS Integers, FiniteSets

CONSTANTS
    SwitchPorts, RouterPorts,   \* ports of the switch and of the router
    Uplink, Downlink,           \* the two ends of the trunk
    Hosts,                      \* endpoints
    Ap,                         \* the access point
    MaxTyped                    \* bound: hosts that are not plain endpoints

Ports == SwitchPorts \cup RouterPorts
Chassis == {"switch", "router"}
Devices == Hosts \cup Chassis \cup {Ap}
Wlans == Hosts \cup {Ap}     \* a row at a port "WLAN" names its access point
Nobody == "nobody"
Inferred == "inferred"      \* the unmanaged switch inferred at the port itself
Nowhere == "nowhere"
NoLink == [to |-> Nobody, ambiguous |-> FALSE]

ASSUME TopologyAssumption ==
    /\ Uplink \in SwitchPorts /\ Downlink \in RouterPorts
    /\ SwitchPorts \cap RouterPorts = {} /\ Ports \cap {"air", "away", Nowhere} = {}
    /\ Wlans \cap (Ports \cup {Nowhere}) = {}
    /\ Ap \notin Hosts \cup Chassis /\ Hosts \cap Chassis = {}
    /\ (Hosts \cup {Ap}) \cap {Nobody, Inferred} = {}

VARIABLES
    plug,       \* the world: a port, "air" (a wireless client) or "away"
    type,       \* a host's device_type, which the inventory's snapshot confirms
    loc,        \* endpoint_locations
    link,       \* infrastructure_links: port -> far end
    bridge,     \* ports that have an inferred switch
    destroyed   \* ports whose inferred switch a user marked a false positive

topologyVars == <<plug, type, loc, link, bridge, destroyed>>
wiring == <<plug, type>>

Typed == {h \in Hosts : type[h] # "Endpoint"}

TopologyInit ==
    /\ plug \in [Hosts \cup {Ap} -> {"away"}]
    /\ type \in [Hosts -> {"Endpoint", "Docker Host"}] /\ Cardinality(Typed) <= MaxTyped
    /\ loc = [d \in Devices |-> Nowhere] /\ link = [p \in Ports |-> NoLink]
    /\ bridge = {} /\ destroyed = {}

At(p) == {d \in Devices : loc[d] = p}
Targets == {"Switch", "Access Point", "Smart Switch"}   \* of a promotion
AccessPoints == {Ap} \cup {h \in Hosts : type[h] = "Access Point"}

-----------------------------------------------------------------------------
(* The world *)

\* A device is plugged in elsewhere; clients need their AP.  A host that goes away
\* is one that stays silent from then on; an access point may be taken down.
Move(d, to) ==
    /\ to # plug[d] /\ to \notin {Uplink, Downlink}
    /\ to # (IF d = Ap THEN "air" ELSE "away")
    /\ plug' = [plug EXCEPT ![d] = to]
    /\ UNCHANGED <<type, loc, link, bridge, destroyed>>

-----------------------------------------------------------------------------
(* run_mac_table_scraper() *)

PortsOf(c) == IF c = "switch" THEN SwitchPorts ELSE RouterPorts
Trunk(c) == IF c = "switch" THEN Uplink ELSE Downlink
Owner(p) == IF p \in SwitchPorts THEN "switch" ELSE "router"
Place(d) == CASE d = "switch" -> Downlink [] d = "router" -> Uplink
              [] d \in Hosts /\ plug[d] = "air" -> plug[Ap]
              [] OTHER -> plug[d]

\* process_switch_fdb(): the port of chassis c at which d's frames arrive; a
\* chassis never lists itself (SELFMAC-1).
Sighted(c, d) == IF Place(d) \in PortsOf(c) THEN Place(d) ELSE Trunk(c)
MutantSightings(answered, silent) ==
    {<<cd[2], Sighted(cd[1], cd[2])>> : cd \in
        {cd \in answered \X (Devices \ silent) : Place(cd[2]) \in Ports}}
Sightings(answered, silent) ==
    {<<cd[2], Sighted(cd[1], cd[2])>> : cd \in
        {cd \in answered \X (Devices \ silent) : cd[1] # cd[2] /\ Place(cd[2]) \in Ports}}

MutantLeafBehind(p) ==
    link[p].to \in AccessPoints \/ (link[p].to \in Hosts /\ type[link[p].to] = "Smart Switch")

\* A port that leads to an access point or to an unmanaged or smart switch is a
\* leaf; one that leads to anything else is backbone (a weight of 10000 or more),
\* and so is a port of the router that has no link and several devices.
LeafBehind(p) ==
    \/ link[p].to \in AccessPoints
    \/ link[p].to = Inferred /\ p \notin destroyed
    \/ link[p].to \in Hosts /\ type[link[p].to] = "Smart Switch"
Backbone(sightings) ==
    {p \in Ports : link[p].to # Nobody /\ ~LeafBehind(p)}
    \cup {p \in RouterPorts : link[p].to = Nobody
                             /\ Cardinality({s \in sightings : s[2] = p}) > 1}

\* What a cycle writes to endpoint_locations: `answered` are the chassis whose
\* tables could be read, `silent` the hosts that have sent nothing lately.  A leaf
\* port of the switch wins over the router's view (NETLOC-1; each chassis gives
\* one sighting); a device seen on backbone ports only loses its wired location.
Located(sightings) ==
    LET backbone == Backbone(sightings)
        leaves == {s \in sightings : s[2] \notin backbone}
        direct == {s \in leaves : s[2] \in SwitchPorts}
        edges == direct \cup {s \in leaves : \A t \in direct : t[1] # s[1]}
        echoes == {s[1] : s \in sightings}
        found == {s[1] : s \in edges}
    IN  [d \in Devices |->
            CASE d \in found -> (CHOOSE s \in edges : s[1] = d)[2]
              [] d \in echoes \ found /\ loc[d] \notin Wlans -> Nowhere
              [] OTHER -> loc[d]]

\* Located infrastructure becomes the far end of its port's link (of several at
\* one port the row that is read last wins) ...
Infrastructure == Chassis \cup {Ap} \cup {h \in Hosts : type[h] \in Targets}
Promotions(where) ==
    LET found == {d \in Infrastructure : where[d] \in Ports}
    IN  {last \in [{where[d] : d \in found} -> found] :
            \A p \in DOMAIN last : where[last[p]] = p}

\* ... and a link between the chassis that is known from one side only is added
\* on the other, when that side's table shows the port.
Other(c) == CHOOSE k \in Chassis : k # c
OneSided(l) ==
    {c \in Chassis : /\ \E q \in PortsOf(Other(c)) : l[q].to = c
                     /\ \A q \in PortsOf(c) : l[q].to # Other(c)}

LinksAfter(promoted, answered) ==
    LET l == [p \in Ports |-> IF p \in DOMAIN promoted
                             THEN [link[p] EXCEPT !.to = promoted[p]] ELSE link[p]]
        back == OneSided(l) \cap answered
    IN  [p \in Ports |-> IF \E c \in back : Trunk(c) = p
                         THEN [l[p] EXCEPT !.to = Other(Owner(p))] ELSE l[p]]

\* Rows that the cycle has not refreshed are deleted past their limit: six hours
\* wired, one hour wireless.
Expiries(where, sightings) ==
    LET old == {d \in Devices : \/ where[d] \in Wlans
                                \/ where[d] # Nowhere /\ d \notin {s[1] : s \in sightings}}
    IN  {{}, {d \in old : where[d] \in Wlans}, old}

\* The whole cycle.  A host that is nowhere need not be silent as well.
FdbCycle(answered, silent) ==
    LET sightings == Sightings(answered, silent)
        where == Located(sightings)
    IN  /\ answered = {} => silent = {}
        /\ \A h \in silent : Place(h) \in Ports
        /\ \E expired \in Expiries(where, sightings) :
              loc' = [d \in Devices |-> IF d \in expired THEN Nowhere ELSE where[d]]
        /\ \E promoted \in Promotions(loc') : link' = LinksAfter(promoted, answered)
        /\ UNCHANGED <<wiring, bridge, destroyed>>

\* save_link_to_db(): the crawl finds the neighbour of a port.
LldpLink(p, d) ==
    /\ d \in Chassis \cup {Ap} /\ Place(d) = p /\ link[p].to # d
    /\ link' = [link EXCEPT ![p].to = d]
    /\ UNCHANGED <<wiring, loc, bridge, destroyed>>

-----------------------------------------------------------------------------
(* poll_wifi_clients() *)

\* The access point names clients, which a host promoted to one never does ...
WifiClients(clients) ==
    /\ clients # {} /\ \A h \in clients : plug[h] = "air"
    /\ loc' = [d \in Devices |-> IF d \in clients THEN Ap ELSE loc[d]]
    /\ UNCHANGED <<wiring, link, bridge, destroyed>>

\* ... or does not, and whatever is located at its upstream port is taken for one
\* (heuristic_upstream_inference(): the first link that leads to it).
WifiHeuristic ==
    /\ \E ap \in AccessPoints : \E p \in {q \in Ports : link[q].to = ap} :
          loc' = [d \in Devices |-> IF d # ap /\ loc[d] = p THEN ap ELSE loc[d]]
    /\ UNCHANGED <<wiring, link, bridge, destroyed>>

-----------------------------------------------------------------------------
(* run_dark_matter_detection() and the consolidation pass *)

\* More devices at an access point's port than it has clients.
Crowded == {p \in Ports : /\ link[p].to \in AccessPoints
                          /\ Cardinality(At(p)) > Cardinality(At(link[p].to)) + 1}

\* Several devices at a port, no access point among them and no unambiguous link.
\* The clause meant to leave the inferred switches' own links out compares the
\* far end, an address, with the prefix of their MACs, and leaves out nothing.
Anomalies ==
    {p \in Ports : /\ Cardinality(At(p)) > 1 /\ At(p) \cap AccessPoints = {}
                   /\ (link[p] = NoLink \/ link[p].ambiguous \/ p \in Crowded)}

MutantInferredLinks(expired) ==
    [p \in Ports |->
        CASE p \in Anomalies -> [to |-> Inferred, ambiguous |-> p \in Crowded]
          [] p \in Crowded \ Anomalies -> [link[p] EXCEPT !.ambiguous = TRUE]
          [] OTHER -> link[p]]

\* run_dark_matter_detection()'s writes to infrastructure_links: `expired` are
\* the inferred switches that no pass has refreshed for a day.
InferredLinks(expired) ==
    [p \in Ports |->
        CASE p \in Anomalies -> [to |-> Inferred, ambiguous |-> p \in Crowded]
          [] p \in expired /\ link[p].to = Inferred -> NoLink
          [] p \in Crowded \ Anomalies -> [link[p] EXCEPT !.ambiguous = TRUE]
          [] OTHER -> link[p]]

DarkMatter(expired) ==
    /\ expired \subseteq bridge \ Anomalies
    /\ link' = InferredLinks(expired)
    /\ bridge' = (bridge \cup Anomalies) \ expired
    /\ destroyed' = destroyed \ expired
    /\ UNCHANGED <<wiring, loc>>

\* The devices that may be taken for the switch behind a port: the inventory has
\* a confirmed type for every one of them, its own discovered type or a user's.
RealSwitch(p) == {d \in At(p) : d \in Hosts => type[d] # "Endpoint"}

\* run_verified_switch_consolidation_pass()
Consolidate ==
    LET ports == {p \in bridge : RealSwitch(p) # {}}
    IN  /\ \E real \in [ports -> Devices] :
              /\ \A p \in ports : real[p] \in RealSwitch(p)
              /\ link' = [p \in Ports |-> IF p \in ports /\ link[p].to = Inferred
                                          THEN [link[p] EXCEPT !.to = real[p]] ELSE link[p]]
        /\ bridge' = bridge \ ports
        /\ destroyed' = destroyed \ ports
        /\ UNCHANGED <<wiring, loc>>

-----------------------------------------------------------------------------
(* The dashboard and the inventory *)

\* /api/promote_node and the verified_devices row it writes
PromoteNode(h, t) ==
    /\ type[h] # t /\ (h \in Typed \/ Cardinality(Typed) < MaxTyped)
    /\ type' = [type EXCEPT ![h] = t]
    /\ UNCHANGED <<plug, loc, link, bridge, destroyed>>

\* /api/node/verify of an inferred switch
VerifyBridge(p) ==
    /\ p \in bridge /\ link[p].to = Inferred
    /\ link' = [link EXCEPT ![p].ambiguous = FALSE]
    /\ UNCHANGED <<wiring, loc, bridge, destroyed>>

\* /api/node/remove of an inferred switch: the node stays, as a false positive
RemoveBridge(p) ==
    /\ p \in bridge /\ destroyed' = destroyed \cup {p}
    /\ link' = IF link[p].to = Inferred THEN [link EXCEPT ![p] = NoLink] ELSE link
    /\ UNCHANGED <<wiring, loc, bridge>>

TopologyNext ==
    \/ \E d \in Hosts \cup {Ap}, to \in Ports \cup {"air", "away"} : Move(d, to)
    \/ \E h \in Hosts, t \in Targets : PromoteNode(h, t)
    \/ \E answered \in SUBSET Chassis, silent \in SUBSET Hosts : FdbCycle(answered, silent)
    \/ \E p \in Ports, d \in Devices : LldpLink(p, d)
    \/ \E expired \in SUBSET bridge : DarkMatter(expired)
    \/ \E clients \in SUBSET Hosts : WifiClients(clients)
    \/ WifiHeuristic \/ Consolidate
    \/ \E p \in Ports : VerifyBridge(p) \/ RemoveBridge(p)

TopologySpec == TopologyInit /\ [][TopologyNext]_topologyVars

-----------------------------------------------------------------------------
(* Properties *)

\* Types: the rows name known ports and devices, at every moment of every cycle.
TopologyTypeOK ==
    /\ \A d \in Devices : loc[d] \in Ports \cup Wlans \cup {Nowhere}
    /\ \A p \in Ports : /\ link[p].to \in Devices \cup {Nobody, Inferred}
                        /\ link[p].ambiguous \in BOOLEAN /\ link[p].to # Owner(p)
    /\ destroyed \subseteq bridge /\ bridge \subseteq Ports

\* No link leads to an inferred switch that no longer exists, whatever expiry,
\* consolidation, removal and promotion did to either in whatever order.
NoLinkToGhost == \A p \in Ports : link[p].to = Inferred => p \in bridge

\* A host on an access port of the switch is located there by every cycle that
\* reads the switch and hears the host: neither the router's echo of it, nor the
\* links that earlier crawls, promotions, back-fills and inferences left behind,
\* make that port backbone.  (Two cases apart: a user destroyed the inferred
\* switch of the port, or it was consolidated into a host.)
PluggedIsLocated ==
    \A answered \in {a \in SUBSET Chassis : "switch" \in a}, silent \in SUBSET Hosts :
        LET cycle == Located(Sightings(answered, silent))
        IN  \A h \in {k \in Hosts \ silent : Place(k) \in SwitchPorts \ destroyed} :
                link[Place(h)].to \notin Hosts => cycle[h] = Place(h)

\* What inference_engine.py says of an inferred switch: it is inferred "every
\* deep-scan cycle", "normal, permanent network topology"; a port that is still
\* shared does not lose it.
BridgeKeptWhileShared ==
    [][\A p \in Ports : p \in bridge /\ p \notin bridge' /\ Cardinality(At(p)) > 1
           => link'[p].to \in Devices]_topologyVars
=============================================================================
