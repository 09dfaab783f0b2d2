----------------------------- MODULE NetworkProofs -----------------------------
(* Proofs about Topology, Wireless and Bindings, for any ports, devices, segments *)
(* and addresses.                                                                *)
EXTENDS MCNetwork, FoldLemmas

(* Topology *)

\* Nobody is plugged into either end of the trunk.
Wiring ==
    plug \in [Hosts \cup {Ap} -> (Ports \ {Uplink, Downlink}) \cup {"air", "away"}]

\* A chassis is seen from the other side of the trunk only ...
LocationsIn(l) ==
    /\ l \in [Devices -> Ports \cup Wlans \cup {Nowhere}]
    /\ l["router"] \in Wlans \cup {Uplink, Nowhere}
    /\ l["switch"] \in Wlans \cup {Downlink, Nowhere}

\* ... and so no other port ever has a link to one.
LinkEnds == [to : Devices \cup {Nobody, Inferred}, ambiguous : BOOLEAN]

OnlyTrunk(p, d) == (d = "router" => p = Uplink) /\ (d = "switch" => p = Downlink)

LinksIn(l) ==
    /\ l \in [Ports -> LinkEnds]
    /\ \A p \in Ports : OnlyTrunk(p, l[p].to)

Bridges == bridge \subseteq Ports /\ destroyed \subseteq bridge /\ NoLinkToGhost

TopologyIInv == Wiring /\ LocationsIn(loc) /\ LinksIn(link) /\ Bridges

\* Names that are written differently are different.
LEMMA DistinctNames ==
  /\ Inferred \notin Devices /\ Nobody \notin Devices /\ Inferred # Nobody
  /\ Ap \notin Chassis /\ Nowhere \notin Ports /\ Wlans \cap Ports = {}
  /\ "air" \notin Ports /\ "away" \notin Ports
  /\ Uplink \in Ports /\ Downlink \in Ports /\ Uplink # Downlink
  BY TopologyAssumption DEF Devices, Chassis, Inferred, Nobody, Nowhere, Ports

\* A sighting names a device that was heard and a port of the chassis that saw
\* it, another one; of the trunk it sees the end of the other chassis.
SightingsIn(S) ==
    \A s \in S : /\ s[1] \in Devices /\ s[2] \in Ports
                 /\ s[1] = "router" => s[2] = Uplink
                 /\ s[1] = "switch" => s[2] = Downlink

\* What LLDP and the host tables report are ports of the known devices.
LEMMA SightingsKnown ==
  ASSUME NEW answered \in SUBSET Chassis, NEW silent \in SUBSET Hosts
  PROVE  SightingsIn(Sightings(answered, silent))
<1> SUFFICES ASSUME NEW c \in Chassis, NEW d \in Devices, c # d
             PROVE  /\ Sighted(c, d) \in Ports
                    /\ d = "router" => Sighted(c, d) = Uplink
                    /\ d = "switch" => Sighted(c, d) = Downlink
  BY DEF SightingsIn, Sightings
<1>1. Sighted(c, d) \in Ports
  BY TopologyAssumption DEF Sighted, PortsOf, Trunk, Ports
<1>2. d = "router" => Sighted(c, d) = Uplink
  BY TopologyAssumption DEF Sighted, PortsOf, Trunk, Place, Chassis
<1>3. d = "switch" => Sighted(c, d) = Downlink
  BY TopologyAssumption DEF Sighted, PortsOf, Trunk, Place, Chassis
<1> QED
  BY <1>1, <1>2, <1>3

\* Whatever a cycle reads, it puts devices at ports, and a chassis at its own end
\* of the trunk.
LEMMA LocatedKnown ==
  ASSUME LocationsIn(loc), NEW S, SightingsIn(S)
  PROVE  LocationsIn(Located(S))
<1> DEFINE backbone == Backbone(S)
           leaves == {s \in S : s[2] \notin backbone}
           direct == {s \in leaves : s[2] \in SwitchPorts}
           edges == direct \cup {s \in leaves : \A t \in direct : t[1] # s[1]}
           echoes == {s[1] : s \in S}
           found == {s[1] : s \in edges}
           At1(d) == CASE d \in found -> (CHOOSE s \in edges : s[1] = d)[2]
                       [] d \in echoes \ found /\ loc[d] \notin Wlans -> Nowhere
                       [] OTHER -> loc[d]
<1>1. Located(S) = [d \in Devices |-> At1(d)]
  BY DEF Located
<1>2. edges \subseteq S
  OBVIOUS
<1> HIDE DEF backbone, edges
<1>3. ASSUME NEW d \in Devices
      PROVE  /\ At1(d) \in Ports \cup Wlans \cup {Nowhere}
             /\ d = "router" => At1(d) \in Wlans \cup {Uplink, Nowhere}
             /\ d = "switch" => At1(d) \in Wlans \cup {Downlink, Nowhere}
  <2>1. CASE d \in found
    <3>1. PICK s \in edges : s[1] = d /\ s = CHOOSE t \in edges : t[1] = d
      BY <2>1
    <3>2. At1(d) = s[2]
      BY <2>1, <3>1
    <3> QED
      BY <1>2, <3>1, <3>2 DEF SightingsIn
  <2>2. CASE d \notin found
    <3>1. At1(d) \in {Nowhere, loc[d]}
      BY <2>2
    <3> QED
      BY <3>1 DEF LocationsIn
  <2> QED
    BY <2>1, <2>2
<1> HIDE DEF At1
<1>4. "router" \in Devices /\ "switch" \in Devices
  BY DEF Devices, Chassis
<1> QED
  BY <1>1, <1>3, <1>4 DEF LocationsIn

\* Promotions and back-fills of a cycle link ports to devices only, a chassis to
\* the end of the trunk it is behind, and never to an inferred switch.
LEMMA LinksAfterKnown ==
  ASSUME LinksIn(link), NEW where, LocationsIn(where),
         NEW promoted \in Promotions(where), NEW answered
  PROVE  /\ LinksIn(LinksAfter(promoted, answered))
         /\ \A p \in Ports : LinksAfter(promoted, answered)[p].to = Inferred
                               => link[p].to = Inferred
<1> DEFINE l == [p \in Ports |-> IF p \in DOMAIN promoted
                                 THEN [link[p] EXCEPT !.to = promoted[p]] ELSE link[p]]
           back == OneSided(l) \cap answered
           m == [p \in Ports |-> IF \E c \in back : Trunk(c) = p
                                 THEN [l[p] EXCEPT !.to = Other(Owner(p))] ELSE l[p]]
<1>1. LinksAfter(promoted, answered) = m
  BY DEF LinksAfter
<1>2. \A p \in DOMAIN promoted : promoted[p] \in Devices /\ where[promoted[p]] = p
  BY DEF Promotions, Infrastructure, Devices
<1>3. ASSUME NEW p \in Ports, NEW d \in Devices, NEW e \in LinkEnds, OnlyTrunk(p, d)
      PROVE  LET r == [e EXCEPT !.to = d]
             IN  r \in LinkEnds /\ OnlyTrunk(p, r.to) /\ r.to # Inferred
  BY <1>3, DistinctNames DEF LinkEnds
<1>4. ASSUME NEW p \in Ports
      PROVE  l[p] \in LinkEnds /\ OnlyTrunk(p, l[p].to)
             /\ (l[p].to = Inferred => link[p].to = Inferred)
  <2>1. CASE p \in DOMAIN promoted
    <3>1. promoted[p] \in Devices /\ where[promoted[p]] = p
      BY <1>2, <2>1
    <3>2. OnlyTrunk(p, promoted[p])
      BY <3>1, DistinctNames DEF OnlyTrunk, LocationsIn
    <3>3. l[p] = [link[p] EXCEPT !.to = promoted[p]]
      BY <2>1
    <3> HIDE DEF l
    <3> QED
      BY <1>3, <3>1, <3>2, <3>3 DEF LinksIn
  <2>2. CASE p \notin DOMAIN promoted
    BY <2>2 DEF LinksIn
  <2> QED
    BY <2>1, <2>2
<1> HIDE DEF l
<1>5. ASSUME NEW p \in Ports
      PROVE  m[p] \in LinkEnds /\ OnlyTrunk(p, m[p].to)
             /\ (m[p].to = Inferred => link[p].to = Inferred)
  <2>1. CASE \E c \in back : Trunk(c) = p
    <3>1. p = Uplink \/ p = Downlink
      BY <2>1 DEF Trunk
    <3>2. Owner(Uplink) = "switch" /\ Owner(Downlink) = "router"
      BY TopologyAssumption DEF Owner
    <3>3. Other("switch") = "router" /\ Other("router") = "switch"
      BY DEF Other, Chassis
    <3>4. Other(Owner(p)) \in Devices /\ OnlyTrunk(p, Other(Owner(p)))
      BY <3>1, <3>2, <3>3, DistinctNames DEF Devices, Chassis, OnlyTrunk
    <3>5. m[p] = [l[p] EXCEPT !.to = Other(Owner(p))]
      BY <2>1
    <3> HIDE DEF m
    <3> QED
      BY <1>3, <1>4, <3>4, <3>5
  <2>2. CASE ~\E c \in back : Trunk(c) = p
    BY <1>4, <2>2
  <2> QED
    BY <2>1, <2>2
<1>6. m = [p \in Ports |-> m[p]]
  OBVIOUS
<1> HIDE DEF m
<1> QED
  BY <1>1, <1>5, <1>6 DEF LinksIn

\* A network nothing was read of satisfies the invariant.
LEMMA TopologyInitially == TopologyInit => TopologyIInv
<1> SUFFICES ASSUME TopologyInit PROVE TopologyIInv
  OBVIOUS
<1>1. Wiring
  BY DEF TopologyInit, Wiring
<1>2. LocationsIn(loc)
  BY DEF TopologyInit, LocationsIn, Devices, Chassis
<1>3. LinksIn(link)
  BY DEF TopologyInit, LinksIn, LinkEnds, OnlyTrunk, NoLink, Nobody
<1>4. Bridges
  BY DEF TopologyInit, Bridges, NoLinkToGhost, NoLink, Nobody, Inferred
<1> QED
  BY <1>1, <1>2, <1>3, <1>4 DEF TopologyIInv

\* Every step leaves the trunk alone.
LEMMA WiringKept ==
  ASSUME Wiring, [TopologyNext]_topologyVars
  PROVE  Wiring'
<1>1. CASE \E d \in Hosts \cup {Ap}, to \in Ports \cup {"air", "away"} : Move(d, to)
  BY <1>1 DEF Wiring, Move
<1>2. CASE plug' = plug
  BY <1>2 DEF Wiring
<1>3. CASE \/ \E h \in Hosts, t \in Targets : PromoteNode(h, t)
           \/ \E answered \in SUBSET Chassis, silent \in SUBSET Hosts : FdbCycle(answered, silent)
           \/ \E p \in Ports, d \in Devices : LldpLink(p, d)
           \/ \E expired \in SUBSET bridge : DarkMatter(expired)
           \/ \E clients \in SUBSET Hosts : WifiClients(clients)
           \/ WifiHeuristic \/ Consolidate
           \/ \E p \in Ports : VerifyBridge(p) \/ RemoveBridge(p)
           \/ UNCHANGED topologyVars
  BY <1>2, <1>3, Zenon DEF PromoteNode, FdbCycle, LldpLink, DarkMatter, WifiClients,
     WifiHeuristic, Consolidate, VerifyBridge, RemoveBridge, wiring, topologyVars
<1> QED
  BY <1>1, <1>3 DEF TopologyNext

\* Every step keeps a chassis at its own end of the trunk, or nowhere.
LEMMA LocationsKept ==
  ASSUME LocationsIn(loc), [TopologyNext]_topologyVars
  PROVE  LocationsIn(loc')
<1>1. ASSUME loc' = loc PROVE LocationsIn(loc')
  BY <1>1 DEF LocationsIn
<1>2. ASSUME NEW answered \in SUBSET Chassis, NEW silent \in SUBSET Hosts,
             FdbCycle(answered, silent)
      PROVE  LocationsIn(loc')
  <2> DEFINE where == Located(Sightings(answered, silent))
  <2>1. LocationsIn(where)
    BY LocatedKnown, SightingsKnown
  <2>2. PICK expired : loc' = [d \in Devices |-> IF d \in expired THEN Nowhere ELSE where[d]]
    BY <1>2 DEF FdbCycle
  <2> HIDE DEF where
  <2> QED
    BY <2>1, <2>2 DEF LocationsIn, Devices, Chassis
<1>3. CASE \E clients \in SUBSET Hosts : WifiClients(clients)
  <2>1. PICK clients : loc' = [d \in Devices |-> IF d \in clients THEN Ap ELSE loc[d]]
    BY <1>3 DEF WifiClients
  <2>2. Ap \in Wlans
    BY DEF Wlans
  <2> QED
    BY <2>1, <2>2 DEF LocationsIn, Devices, Chassis
<1>4. CASE WifiHeuristic
  <2>1. PICK ap \in AccessPoints, p \in Ports :
           loc' = [d \in Devices |-> IF d # ap /\ loc[d] = p THEN ap ELSE loc[d]]
    BY <1>4 DEF WifiHeuristic
  <2>2. ap \in Wlans
    BY DEF AccessPoints, Wlans
  <2> QED
    BY <2>1, <2>2 DEF LocationsIn, Devices, Chassis
<1>5. CASE \/ \E d \in Hosts \cup {Ap}, to \in Ports \cup {"air", "away"} : Move(d, to)
           \/ \E h \in Hosts, t \in Targets : PromoteNode(h, t)
           \/ \E p \in Ports, d \in Devices : LldpLink(p, d)
           \/ \E expired \in SUBSET bridge : DarkMatter(expired)
           \/ Consolidate
           \/ \E p \in Ports : VerifyBridge(p) \/ RemoveBridge(p)
           \/ UNCHANGED topologyVars
  <2>1. loc' = loc
    BY <1>5, Zenon DEF Move, PromoteNode, LldpLink, DarkMatter, Consolidate, VerifyBridge,
       RemoveBridge, topologyVars
  <2> QED
    BY <1>1, <2>1
<1> QED
  BY <1>2, <1>3, <1>4, <1>5 DEF TopologyNext

\* The devices among which a consolidation chooses are located at the port.
LEMMA RealSwitchKnown ==
  ASSUME LocationsIn(loc), NEW p \in Ports, NEW d \in RealSwitch(p)
  PROVE  d \in Devices /\ OnlyTrunk(p, d) /\ d # Inferred
  BY DistinctNames DEF RealSwitch, At, LocationsIn, OnlyTrunk

\* A row of the links that is emptied, or given to an inferred switch, is one.
LEMMA NewEnds ==
  /\ NoLink \in LinkEnds /\ NoLink.to = Nobody
  /\ \A p \in Ports : OnlyTrunk(p, Nobody) /\ OnlyTrunk(p, Inferred)
  /\ \A b \in BOOLEAN : /\ [to |-> Inferred, ambiguous |-> b] \in LinkEnds
                        /\ [to |-> Inferred, ambiguous |-> b].to = Inferred
<1>1. /\ NoLink \in LinkEnds /\ NoLink.to = Nobody
      /\ \A b \in BOOLEAN : [to |-> Inferred, ambiguous |-> b] \in LinkEnds
  BY DEF NoLink, LinkEnds
<1>2. \A p \in Ports : OnlyTrunk(p, Nobody) /\ OnlyTrunk(p, Inferred)
  BY DEF OnlyTrunk, Nobody, Inferred
<1> QED
  BY <1>1, <1>2

\* One that changes its far end or its mark stays one.
LEMMA OtherEnd ==
  ASSUME NEW e \in LinkEnds, NEW d \in Devices
  PROVE  [e EXCEPT !.to = d] \in LinkEnds /\ [e EXCEPT !.to = d].to = d
  BY DEF LinkEnds

\* A link marked ambiguous, or no longer, still ends where it ended.
LEMMA OtherMark ==
  ASSUME NEW e \in LinkEnds, NEW b \in BOOLEAN
  PROVE  [e EXCEPT !.ambiguous = b] \in LinkEnds /\ [e EXCEPT !.ambiguous = b].to = e.to
  BY DEF LinkEnds

\* Every step keeps the links: what becomes of an inferred switch is done to the
\* link of its port in the same commit.
LEMMA LinksKept ==
  ASSUME LocationsIn(loc), LocationsIn(loc'), LinksIn(link), Bridges,
         [TopologyNext]_topologyVars
  PROVE  LinksIn(link') /\ Bridges'
<1>0. ASSUME UNCHANGED <<link, bridge, destroyed>> PROVE LinksIn(link') /\ Bridges'
  BY <1>0 DEF LinksIn, Bridges, NoLinkToGhost
<1>1. ASSUME NEW answered \in SUBSET Chassis, NEW silent \in SUBSET Hosts,
             FdbCycle(answered, silent)
      PROVE  LinksIn(link') /\ Bridges'
  <2>1. PICK promoted \in Promotions(loc') : link' = LinksAfter(promoted, answered)
    BY <1>1 DEF FdbCycle
  <2>3. bridge' = bridge /\ destroyed' = destroyed
    BY <1>1 DEF FdbCycle
  <2>4. /\ LinksIn(link') /\ \A p \in Ports : link'[p].to = Inferred => link[p].to = Inferred
    BY <2>1, LinksAfterKnown
  <2> QED
    BY <2>3, <2>4 DEF Bridges, NoLinkToGhost
<1>2. ASSUME NEW q \in Ports, NEW d \in Devices, LldpLink(q, d) PROVE LinksIn(link') /\ Bridges'
  <2>0. Place("router") = Uplink /\ Place("switch") = Downlink
    BY TopologyAssumption DEF Place, Chassis
  <2>1. OnlyTrunk(q, d)
    BY <1>2, <2>0, Zenon DEF LldpLink, OnlyTrunk
  <2> DEFINE r == [link[q] EXCEPT !.to = d]
  <2>2. link' = [link EXCEPT ![q] = r] /\ bridge' = bridge /\ destroyed' = destroyed
    BY <1>2 DEF LldpLink
  <2>3. r \in LinkEnds /\ r.to = d
    BY OtherEnd DEF LinksIn
  <2> HIDE DEF r
  <2> QED
    BY <2>1, <2>2, <2>3, DistinctNames DEF LinksIn, Bridges, NoLinkToGhost
<1>3. ASSUME NEW expired \in SUBSET bridge, DarkMatter(expired)
      PROVE  LinksIn(link') /\ Bridges'
  <2>1. /\ link' = [p \in Ports |-> InferredLinks(expired)[p]]
        /\ bridge' = (bridge \cup Anomalies) \ expired /\ destroyed' = destroyed \ expired
        /\ expired \cap Anomalies = {}
    BY <1>3 DEF DarkMatter, InferredLinks
  <2>2. ASSUME NEW p \in Ports
        PROVE  LET r == InferredLinks(expired)[p]
               IN  r \in LinkEnds /\ OnlyTrunk(p, r.to) /\ (r.to = Inferred => p \in bridge')
    <3>1. CASE p \in Anomalies
      <4>0. p \notin expired /\ p \notin Crowded \ Anomalies
        BY <2>1, <3>1
      <4>1. InferredLinks(expired)[p] = [to |-> Inferred, ambiguous |-> p \in Crowded]
        BY <3>1, <4>0 DEF InferredLinks
      <4>2. (p \in Crowded) \in BOOLEAN
        OBVIOUS
      <4>3. InferredLinks(expired)[p] \in LinkEnds /\ InferredLinks(expired)[p].to = Inferred
        BY <4>1, <4>2, NewEnds
      <4>4. p \in bridge'
        BY <2>1, <3>1
      <4> QED
        BY <4>3, <4>4, NewEnds
    <3>2. CASE p \notin Anomalies /\ p \in expired /\ link[p].to = Inferred
      <4>0. p \notin Crowded
        BY <3>2, DistinctNames DEF Crowded, AccessPoints, Devices
      <4>1. InferredLinks(expired)[p] = NoLink
        BY <3>2, <4>0 DEF InferredLinks
      <4> QED
        BY <4>1, NewEnds, DistinctNames
    <3>3. CASE p \notin Anomalies /\ ~(p \in expired /\ link[p].to = Inferred)
      <4>1. InferredLinks(expired)[p] \in {link[p], [link[p] EXCEPT !.ambiguous = TRUE]}
        BY <3>3 DEF InferredLinks
      <4>2. link[p] \in LinkEnds /\ OnlyTrunk(p, link[p].to)
            /\ (link[p].to = Inferred => p \in bridge)
        BY DEF LinksIn, Bridges, NoLinkToGhost
      <4>3. /\ InferredLinks(expired)[p] \in LinkEnds
            /\ InferredLinks(expired)[p].to = link[p].to
        BY <4>1, <4>2, OtherMark
      <4> QED
        BY <2>1, <3>3, <4>2, <4>3
    <3> QED
      BY <3>1, <3>2, <3>3
  <2>3. LinksIn(link') /\ NoLinkToGhost'
    BY <2>1, <2>2 DEF LinksIn, NoLinkToGhost
  <2>4. bridge' \subseteq Ports /\ destroyed' \subseteq bridge'
    BY <2>1 DEF Bridges, Anomalies
  <2> QED
    BY <2>3, <2>4 DEF Bridges
<1>4. CASE Consolidate
  <2> DEFINE ports == {p \in bridge : RealSwitch(p) # {}}
  <2>1. PICK real \in [ports -> Devices] :
          /\ \A p \in ports : real[p] \in RealSwitch(p)
          /\ link' = [p \in Ports |-> IF p \in ports /\ link[p].to = Inferred
                                      THEN [link[p] EXCEPT !.to = real[p]] ELSE link[p]]
    BY <1>4 DEF Consolidate
  <2>2. bridge' = bridge \ ports /\ destroyed' = destroyed \ ports
    BY <1>4 DEF Consolidate
  <2> HIDE DEF ports
  <2>3. ASSUME NEW p \in Ports
        PROVE  link'[p] \in LinkEnds /\ OnlyTrunk(p, link'[p].to)
               /\ (link'[p].to = Inferred => p \in bridge')
    <3>1. link[p] \in LinkEnds /\ OnlyTrunk(p, link[p].to)
          /\ (link[p].to = Inferred => p \in bridge)
      BY DEF LinksIn, Bridges, NoLinkToGhost
    <3>2. CASE p \in ports /\ link[p].to = Inferred
      <4>1. real[p] \in Devices /\ OnlyTrunk(p, real[p]) /\ real[p] # Inferred
        BY <2>1, <3>2, RealSwitchKnown
      <4>2. link'[p] = [link[p] EXCEPT !.to = real[p]]
        BY <2>1, <3>2
      <4>3. link'[p] \in LinkEnds /\ link'[p].to = real[p]
        BY <3>1, <4>1, <4>2, OtherEnd
      <4> QED
        BY <4>1, <4>3
    <3>3. CASE ~(p \in ports /\ link[p].to = Inferred)
      BY <2>1, <2>2, <3>1, <3>3
    <3> QED
      BY <3>2, <3>3
  <2>4. LinksIn(link') /\ NoLinkToGhost'
    BY <2>1, <2>3 DEF LinksIn, NoLinkToGhost
  <2> QED
    BY <2>2, <2>4 DEF Bridges
<1>5. ASSUME NEW q \in Ports, VerifyBridge(q) PROVE LinksIn(link') /\ Bridges'
  <2> DEFINE r == [link[q] EXCEPT !.ambiguous = FALSE]
  <2>1. r \in LinkEnds /\ r.to = link[q].to
    BY OtherMark DEF LinksIn
  <2>2. link' = [link EXCEPT ![q] = r] /\ bridge' = bridge /\ destroyed' = destroyed
    BY <1>5 DEF VerifyBridge
  <2> HIDE DEF r
  <2> QED
    BY <2>1, <2>2 DEF LinksIn, Bridges, NoLinkToGhost
<1>6. ASSUME NEW q \in Ports, RemoveBridge(q) PROVE LinksIn(link') /\ Bridges'
  BY <1>6, NewEnds, DistinctNames DEF RemoveBridge, LinksIn, Bridges, NoLinkToGhost
<1>7. CASE \/ \E d \in Hosts \cup {Ap}, to \in Ports \cup {"air", "away"} : Move(d, to)
           \/ \E h \in Hosts, t \in Targets : PromoteNode(h, t)
           \/ \E clients \in SUBSET Hosts : WifiClients(clients)
           \/ WifiHeuristic
           \/ UNCHANGED topologyVars
  BY <1>0, <1>7, Zenon DEF Move, PromoteNode, WifiClients, WifiHeuristic, topologyVars
<1> QED
  BY <1>1, <1>2, <1>3, <1>4, <1>5, <1>6, <1>7 DEF TopologyNext

\* Every step preserves the invariant.
LEMMA TopologyStep == TopologyIInv /\ [TopologyNext]_topologyVars => TopologyIInv'
<1> SUFFICES ASSUME TopologyIInv, [TopologyNext]_topologyVars PROVE TopologyIInv'
  OBVIOUS
<1>1. Wiring'
  BY WiringKept DEF TopologyIInv
<1>2. LocationsIn(loc')
  BY LocationsKept DEF TopologyIInv
<1>3. LinksIn(link') /\ Bridges'
  BY <1>2, LinksKept DEF TopologyIInv
<1>4. LocationsIn(loc)' /\ LinksIn(link)'
  BY <1>2, <1>3 DEF LocationsIn, LinksIn
<1> QED
  BY <1>1, <1>3, <1>4 DEF TopologyIInv

\* The invariant holds in every reachable state of the component.
LEMMA TopologyInvariant == TopologySpec => []TopologyIInv
  BY TopologyInitially, TopologyStep, PTL DEF TopologySpec

\* What the rows name exists: ports, devices and the switches inferred at ports.
LEMMA TopologyTypesFollow == TopologyIInv => TopologyTypeOK
<1> SUFFICES ASSUME TopologyIInv PROVE TopologyTypeOK
  OBVIOUS
<1>1. \A d \in Devices : loc[d] \in Ports \cup Wlans \cup {Nowhere}
  BY DEF TopologyIInv, LocationsIn
<1>2. ASSUME NEW p \in Ports
      PROVE  /\ link[p].to \in Devices \cup {Nobody, Inferred}
             /\ link[p].ambiguous \in BOOLEAN /\ link[p].to # Owner(p)
  <2>1. link[p] \in LinkEnds /\ OnlyTrunk(p, link[p].to)
    BY DEF TopologyIInv, LinksIn
  <2>2. Owner(Uplink) = "switch" /\ Owner(Downlink) = "router" /\ Owner(p) \in Chassis
    BY TopologyAssumption DEF Owner, Chassis
  <2>3. link[p].to # Owner(p)
    BY <2>1, <2>2 DEF OnlyTrunk, Chassis
  <2> QED
    BY <2>1, <2>3 DEF LinkEnds
<1> QED
  BY <1>1, <1>2 DEF TopologyIInv, Bridges, TopologyTypeOK

\* A host plugged into an access port of the switch is located there by the next
\* cycle that reads the switch and hears it: the port can only have a link to an
\* access point, to an inferred switch or to nothing, so it is a leaf, and the
\* switch's own sighting wins over the router's.
LEMMA PluggedFollows == TopologyIInv => PluggedIsLocated
<1> SUFFICES ASSUME TopologyIInv,
                    NEW answered \in SUBSET Chassis, "switch" \in answered,
                    NEW silent \in SUBSET Hosts,
                    NEW h \in Hosts \ silent, Place(h) \in SwitchPorts \ destroyed,
                    link[Place(h)].to \notin Hosts
             PROVE  Located(Sightings(answered, silent))[h] = Place(h)
  BY DEF PluggedIsLocated
<1> DEFINE S == Sightings(answered, silent)
           p == Place(h)
           leaves == {s \in S : s[2] \notin Backbone(S)}
           direct == {s \in leaves : s[2] \in SwitchPorts}
           edges == direct \cup {s \in leaves : \A t \in direct : t[1] # s[1]}
           echoes == {s[1] : s \in S}
           found == {s[1] : s \in edges}
<1>1. p \in Ports /\ p # Uplink /\ p # Downlink
  <2>1. h # "switch" /\ h # "router" /\ h \in Hosts \cup {Ap}
    BY TopologyAssumption DEF Chassis
  <2>2. p \in {plug[h], plug[Ap]}
    BY <2>1 DEF Place
  <2>3. plug[h] \notin {Uplink, Downlink} /\ plug[Ap] \notin {Uplink, Downlink}
    BY <2>1, DistinctNames DEF TopologyIInv, Wiring
  <2> QED
    BY <2>2, <2>3 DEF Ports
<1>2. p \notin Backbone(S)
  <2>1. link[p].to \in Devices \cup {Nobody, Inferred} /\ OnlyTrunk(p, link[p].to)
    BY <1>1 DEF TopologyIInv, LinksIn, LinkEnds
  <2>2. link[p].to \in {Ap, Nobody, Inferred}
    BY <1>1, <2>1 DEF Devices, Chassis, OnlyTrunk
  <2>3. p \notin RouterPorts
    BY TopologyAssumption
  <2> QED
    BY <2>2, <2>3, DistinctNames DEF Backbone, LeafBehind, AccessPoints
<1>3. Sighted("switch", h) = p
  BY DEF Sighted, PortsOf
<1>4. <<h, p>> \in S
  <2>1. h \in Devices \ silent /\ "switch" # h
    BY TopologyAssumption DEF Devices, Chassis
  <2> DEFINE cd == <<"switch", h>>
  <2>2. cd \in answered \X (Devices \ silent) /\ cd[1] = "switch" /\ cd[2] = h
    BY <2>1
  <2> QED
    BY <1>1, <1>3, <2>1, <2>2 DEF Sightings
<1>5. <<h, p>> \in direct
  BY <1>2, <1>4
<1>6. ASSUME NEW s \in edges, s[1] = h PROVE s[2] = p
  <2>1. s \in direct
    BY <1>5, <1>6
  <2>2. PICK c \in answered : s[2] = Sighted(c, h)
    BY <1>6, <2>1 DEF Sightings
  <2>3. c = "switch" \/ c = "router"
    BY DEF Chassis
  <2>4. Sighted("router", h) \in RouterPorts
    BY TopologyAssumption DEF Sighted, PortsOf, Trunk
  <2> QED
    BY <1>3, <2>1, <2>2, <2>3, <2>4, TopologyAssumption
<1>7. h \in found /\ h \in Devices
  BY <1>5 DEF Devices
<1>8. (CHOOSE s \in edges : s[1] = h)[2] = p
  BY <1>6, <1>7
<1>9. Located(S)[h] = (CHOOSE s \in edges : s[1] = h)[2]
  BY <1>7 DEF Located
<1> QED
  BY <1>8, <1>9

\* What the rows of the topology name exists, in every state.
THEOREM TopologyTypes == TopologySpec => []TopologyTypeOK
  BY TopologyInvariant, TopologyTypesFollow, PTL

\* No order of expiries, consolidations, removals, verifications and promotions
\* leaves a link to an inferred switch that is gone.
THEOREM NoGhosts == TopologySpec => []NoLinkToGhost
<1>1. TopologyIInv => NoLinkToGhost
  BY DEF TopologyIInv, Bridges
<1> QED
  BY <1>1, TopologyInvariant, PTL

\* In every state, a cycle that reads the switch and hears a host locates it at
\* the access port it is plugged into.
THEOREM HostsAreLocated == TopologySpec => []PluggedIsLocated
  BY TopologyInvariant, PluggedFollows, PTL

-----------------------------------------------------------------------------
(* Wireless *)

\* What a made-up node may be: evidence fits its type.
GuessOf(g) ==
    /\ g \in [type : {"none", Unverified, "Access Point", "False Positive"}, conf : Int]
    /\ g.type = "none" => g.conf = 0
    /\ g.type = Unverified => g.conf \in 15..45 \cup {100}
    /\ g.type = "Access Point" => g.conf = 100
    /\ g.type = "False Positive" => g.conf \in {-1, 100}

WirelessIInv ==
    /\ carried \in [Phones -> Segments \cup {"away"}]
    /\ aps \in [Segments -> {"none", "bound", "orphaned"}]
    /\ guess = [s \in Segments |-> guess[s]]
    /\ \A s \in Segments : GuessOf(guess[s])

\* A segment that qualifies has a phone, and so evidence between 15 and 45.
LEMMA ConfidenceInRange ==
  ASSUME NEW s \in Qualifying
  PROVE  Confidence(s) \in 15..45
<1>1. IsFiniteSet(On(s)) /\ On(s) # {}
  <2>1. On(s) \subseteq Phones
    BY DEF On
  <2> QED
    BY <2>1, WirelessAssumption, FS_Subset DEF Qualifying
<1>2. Cardinality(On(s)) \in Nat /\ Cardinality(On(s)) # 0
  BY <1>1, FS_CardinalityType, FS_EmptySet
<1> QED
  BY <1>2 DEF Confidence

\* What an UPDATE of the confidence leaves of a made-up node.
LEMMA ConfidenceSet ==
  ASSUME NEW T, NEW g \in [type : T, conf : Int], NEW c \in Int
  PROVE  /\ [g EXCEPT !.conf = c] \in [type : T, conf : Int]
         /\ [g EXCEPT !.conf = c].conf = c
         /\ [g EXCEPT !.conf = c].type = g.type
  OBVIOUS

\* The engine and the operator leave what a made-up node may be.
LEMMA GuessesKnown ==
  /\ GuessOf(NoGuess)
  /\ \A n \in 15..45 : GuessOf([type |-> Unverified, conf |-> n])
  /\ GuessOf([type |-> "Access Point", conf |-> 100])
  /\ GuessOf([type |-> "False Positive", conf |-> -1])
  BY DEF GuessOf, NoGuess, Unverified

\* A guess that a human verified is still a guess.
LEMMA VerifiedKnown ==
  ASSUME NEW g, GuessOf(g), g # NoGuess
  PROVE  GuessOf([g EXCEPT !.conf = 100])
<1> DEFINE Rec == [type : {"none", Unverified, "Access Point", "False Positive"}, conf : Int]
           r == [g EXCEPT !.conf = 100]
<1>1. g \in Rec
  BY DEF GuessOf
<1>2. g.type # "none"
  <2>1. ASSUME g.type = "none" PROVE FALSE
    <3>1. g.conf = 0
      BY <2>1 DEF GuessOf
    <3>2. g = NoGuess
      BY <1>1, <2>1, <3>1 DEF NoGuess
    <3> QED
      BY <3>2
  <2> QED
    BY <2>1
<1>3. r \in Rec /\ r.conf = 100 /\ r.type = g.type
  <2>1. 100 \in Int
    OBVIOUS
  <2> QED
    BY <1>1, <2>1, ConfidenceSet, Zenon
<1> HIDE DEF r
<1>4. GuessOf(r)
  BY <1>2, <1>3 DEF GuessOf, Unverified
<1> QED
  BY <1>4 DEF r

\* Every step preserves the types.
LEMMA WirelessStep == WirelessIInv /\ [WirelessNext]_wirelessVars => WirelessIInv'
<1> SUFFICES ASSUME WirelessIInv, [WirelessNext]_wirelessVars PROVE WirelessIInv'
  OBVIOUS
<1> USE DEF WirelessIInv
<1>0. ASSUME NEW s \in Segments, NEW g, GuessOf(g), guess' = [guess EXCEPT ![s] = g],
             carried' = carried, aps' = aps
      PROVE  WirelessIInv'
  <2>1. \A t \in Segments : guess'[t] \in {g, guess[t]}
    BY <1>0
  <2>2. \A t \in Segments : GuessOf(guess'[t])
    BY <1>0, <2>1
  <2>3. guess' = [t \in Segments |-> guess'[t]]
    BY <1>0
  <2> QED
    BY <1>0, <2>2, <2>3
<1>1. CASE \/ \E p \in Phones, s \in Segments \cup {"away"} : Roam(p, s)
           \/ \E s \in Segments, seen \in {"bound", "orphaned"} : ApSeen(s, seen)
           \/ \E old \in SUBSET Segments : SweepOrphans(old)
  BY <1>1 DEF Roam, ApSeen, SweepOrphans
<1>2. ASSUME NEW retired \in SUBSET Segments, InferWaps(retired) PROVE WirelessIInv'
  <2> DEFINE New(s) ==
           CASE s \in Qualifying /\ guess[s].type \in {"none", Unverified}
                    -> [type |-> Unverified, conf |-> Confidence(s)]
             [] s \in retired /\ guess[s].type = Unverified -> NoGuess
             [] OTHER -> guess[s]
  <2>1. guess' = [s \in Segments |-> New(s)] /\ retired \cap Qualifying = {}
    BY <1>2 DEF InferWaps
  <2>2. ASSUME NEW s \in Segments PROVE GuessOf(New(s))
    <3>1. CASE s \in Qualifying /\ guess[s].type \in {"none", Unverified}
      <4>1. New(s) = [type |-> Unverified, conf |-> Confidence(s)]
        BY <2>1, <3>1
      <4> HIDE DEF New
      <4> QED
        BY <3>1, <4>1, ConfidenceInRange, GuessesKnown
    <3>2. CASE s \in retired /\ guess[s].type = Unverified
      <4>1. New(s) = NoGuess
        BY <2>1, <3>2
      <4> HIDE DEF New
      <4> QED
        BY <4>1, GuessesKnown
    <3>3. CASE /\ ~(s \in Qualifying /\ guess[s].type \in {"none", Unverified})
               /\ ~(s \in retired /\ guess[s].type = Unverified)
      <4>1. New(s) = guess[s]
        BY <3>3
      <4> HIDE DEF New
      <4> QED
        BY <4>1
    <3> QED
      BY <3>1, <3>2, <3>3
  <2> HIDE DEF New
  <2> QED
    BY <1>2, <2>1, <2>2 DEF InferWaps
<1>3. ASSUME NEW s \in Segments, VerifyWap(s) PROVE WirelessIInv'
  <2> DEFINE g == [guess[s] EXCEPT !.conf = 100]
  <2>1. GuessOf(g)
    BY <1>3, VerifiedKnown DEF VerifyWap
  <2>2. guess' = [guess EXCEPT ![s] = g] /\ carried' = carried /\ aps' = aps
    BY <1>3 DEF VerifyWap
  <2> HIDE DEF g
  <2> QED
    BY <1>0, <2>1, <2>2
<1>4. ASSUME NEW s \in Segments, PromoteWap(s) \/ RemoveWap(s) PROVE WirelessIInv'
  BY <1>0, <1>4, GuessesKnown DEF PromoteWap, RemoveWap
<1>5. CASE UNCHANGED wirelessVars
  BY <1>5 DEF wirelessVars
<1> QED
  BY <1>1, <1>2, <1>3, <1>4, <1>5 DEF WirelessNext

\* The evidence for a made-up node fits its type: between 15 and 45 from the
\* engine, 100 from the operator, none for a false positive.
THEOREM WirelessTypes == WirelessSpec => []WirelessTypeOK
<1>1. WirelessInit => WirelessIInv
  BY GuessesKnown DEF WirelessInit, WirelessIInv
<1>2. WirelessIInv => WirelessTypeOK
  <2> SUFFICES ASSUME WirelessIInv, NEW s \in Segments
               PROVE  guess[s].conf \in
                        CASE guess[s].type = "none" -> {0}
                          [] guess[s].type = Unverified -> 15..45 \cup {100}
                          [] guess[s].type = "Access Point" -> {100}
                          [] guess[s].type = "False Positive" -> {-1, 100}
    BY DEF WirelessIInv, WirelessTypeOK
  <2>1. GuessOf(guess[s])
    BY DEF WirelessIInv
  <2> HIDE DEF WirelessIInv
  <2> QED
    BY <2>1 DEF GuessOf, Unverified
<1> QED
  BY <1>1, <1>2, WirelessStep, PTL DEF WirelessSpec

-----------------------------------------------------------------------------
(* Bindings *)

Rows == [mac : DevMacs, src : {ArpCache, "SNMP_IP_TABLE"}, age : 0..PurgeAge]

\* The part of BindingsTypeOK that does not go through the fold over the links,
\* and what the tick still holds of the cycle's confirmations.
BindingsIInv ==
    /\ holder \in [Addrs -> DevMacs \cup {NoOne}]
    /\ bind \in [Addrs -> Rows \cup {Unbound}]
    /\ known \in BOOLEAN /\ confirmed \subseteq Addrs
    /\ stage \in {"arp", "crawl", "noise"}
    /\ stage = "crawl" => \A a \in confirmed : bind[a] \in Rows /\ bind[a].age = 0

\* A row of l3_bindings, column by column, and the row that is not there.
LEMMA RowColumns ==
  /\ \A r \in Rows : /\ r.mac \in DevMacs /\ r.src \in {ArpCache, "SNMP_IP_TABLE"}
                     /\ r.age \in 0..PurgeAge /\ r # Unbound
  /\ \A m \in DevMacs : /\ [mac |-> m, src |-> ArpCache, age |-> 0] \in Rows
                        /\ [mac |-> m, src |-> "SNMP_IP_TABLE", age |-> 0] \in Rows
  /\ Unbound.src = "" /\ ArpCache # ""
<1>1. ASSUME NEW r \in Rows
      PROVE  /\ r.mac \in DevMacs /\ r.src \in {ArpCache, "SNMP_IP_TABLE"}
             /\ r.age \in 0..PurgeAge /\ r # Unbound
  <2>1. /\ r.mac \in DevMacs /\ r.src \in {ArpCache, "SNMP_IP_TABLE"}
        /\ r.age \in 0..PurgeAge
    BY DEF Rows
  <2>2. r # Unbound
    <3>1. Unbound.src = ""
      BY DEF Unbound
    <3> QED
      BY <2>1, <3>1 DEF ArpCache
  <2> QED
    BY <2>1, <2>2
<1>2. ASSUME NEW m \in DevMacs, NEW s \in {ArpCache, "SNMP_IP_TABLE"}
      PROVE  [mac |-> m, src |-> s, age |-> 0] \in Rows
  <2>1. 0 \in 0..PurgeAge
    BY BindingsAssumption
  <2> QED
    BY <2>1 DEF Rows
<1> QED
  BY <1>1, <1>2 DEF Unbound, ArpCache

\* Taking rows away leaves rows.
LEMMA WithoutKeepsRows ==
  ASSUME NEW b \in [Addrs -> Rows \cup {Unbound}], NEW S
  PROVE  /\ Without(b, S) \in [Addrs -> Rows \cup {Unbound}]
         /\ \A a \in Addrs \ S : Without(b, S)[a] = b[a]
         /\ \A a \in S \cap Addrs : b[a].src = ArpCache => Without(b, S)[a] = Unbound
         /\ \A a \in Addrs : Without(b, S)[a] \in {b[a], Unbound}
  BY DEF Without

\* The two rounds of a scrape: S1, what a router flagged, and S2, what grew too old,
\* are retired from c1 and c2, and their links moved.
ScrapeRounds(c1, c2, S1, S2) ==
    LET r1 == RepointAll(c1, [links |-> links, raised |-> FALSE], S1)
        r2 == RepointAll(c2, r1, S2)
    IN  /\ links' = r2.links /\ ~r1.raised /\ ~r2.raised
        /\ c2 = Without(c1, S1) /\ bind' = Without(c2, S2)
        /\ \A x \in Addrs : c1[x] = bind[x] \/ c1[x] \in Rows
        /\ \A x \in S1 : c1[x] = bind[x] /\ c1[x].src = ArpCache
        /\ \A x \in S2 : c1[x] = bind[x] /\ c2[x] = c1[x] /\ c2[x].src = ArpCache

\* What a completed scrape writes: it is the outcome for some walks and flags; an
\* address it saw has a new row, no router row is as old as PurgeAge, and the links
\* are what two rounds of retiring addresses leave of them.
LEMMA ScrapeWrites ==
  ASSUME BindingsIInv, ArpScrape
  PROVE  /\ bind' \in [Addrs -> Rows \cup {Unbound}]
         /\ confirmed' \subseteq Addrs
         /\ \A a \in confirmed' : bind'[a] \in Rows /\ bind'[a].age = 0
         /\ \A a \in Addrs : bind'[a].src = ArpCache => bind'[a].age < PurgeAge
         /\ stage' = "crawl" /\ holder' = holder /\ known' = known
         /\ \E c1, c2 \in [Addrs -> Rows \cup {Unbound}], S1, S2 \in SUBSET Addrs :
               ScrapeRounds(c1, c2, S1, S2)
<1>1. PICK valid \in Walks, flagged \in SUBSET {a \in Addrs : bind[a].src = ArpCache} :
         LET out == ArpOutcome(valid, flagged)
         IN  /\ bind' = out.bind /\ confirmed' = out.seen /\ links' = out.links
             /\ ~out.raised
             /\ stage' = "crawl" /\ holder' = holder /\ known' = known
  BY DEF ArpScrape
<1> DEFINE seen == {a \in {valid[m] : m \in DOMAIN valid} : a \in Judged}
           b1 == [a \in Addrs |-> IF a \in seen
                    THEN [mac |-> holder[a], src |-> ArpCache, age |-> 0] ELSE bind[a]]
           stale == FlaggedStale(flagged, seen)
           b2 == Without(b1, stale)
           aged == AgedOut(b2, seen)
<1>2. /\ bind' = Without(b2, aged) /\ confirmed' = seen
      /\ LET r1 == RepointAll(b1, [links |-> links, raised |-> FALSE], stale)
             r2 == RepointAll(b2, r1, aged)
         IN  links' = r2.links /\ ~r1.raised /\ ~r2.raised
  BY <1>1 DEF ArpOutcome
<1>2a. stale \in SUBSET Addrs /\ aged \in SUBSET Addrs
  BY BindingsAssumption DEF FlaggedStale, AgedOut
<1>3. \A a \in seen : a \in Addrs /\ holder[a] \in DevMacs
  <2> SUFFICES ASSUME NEW m \in DOMAIN valid PROVE valid[m] \in Addrs /\ holder[valid[m]] \in DevMacs
    OBVIOUS
  <2>1. PICK ms \in SUBSET DevMacs : valid \in {v \in [ms -> Addrs] : \A k \in ms : holder[v[k]] = k}
    BY DEF Walks
  <2> QED
    BY <2>1
<1>4. b1 \in [Addrs -> Rows \cup {Unbound}]
  <2> SUFFICES ASSUME NEW a \in Addrs PROVE b1[a] \in Rows \cup {Unbound}
    OBVIOUS
  <2>1. CASE a \in seen
    <3>1. b1[a] = [mac |-> holder[a], src |-> ArpCache, age |-> 0]
      BY <2>1
    <3> HIDE DEF b1, seen
    <3> QED
      BY <2>1, <3>1, <1>3, RowColumns
  <2>2. CASE a \notin seen
    <3>1. b1[a] = bind[a]
      BY <2>2
    <3> HIDE DEF b1, seen
    <3> QED
      BY <3>1 DEF BindingsIInv
  <2> QED
    BY <2>1, <2>2
<1>5. \A a \in seen : b1[a] \in Rows /\ b1[a].age = 0 /\ a \notin stale
  <2> SUFFICES ASSUME NEW a \in seen PROVE b1[a] \in Rows /\ b1[a].age = 0 /\ a \notin stale
    OBVIOUS
  <2>1. b1[a] = [mac |-> holder[a], src |-> ArpCache, age |-> 0]
    BY <1>3
  <2>2. a \notin stale
    BY DEF FlaggedStale
  <2>3. holder[a] \in DevMacs
    BY <1>3
  <2> HIDE DEF b1, seen, stale
  <2>4. b1[a] \in Rows
    BY <2>1, <2>3, RowColumns
  <2>5. b1[a].age = 0
    BY <2>1
  <2> QED
    BY <2>2, <2>4, <2>5
<1>5a. \A a \in Addrs \ seen : b1[a] = bind[a]
  OBVIOUS
<1>5b. \A a \in stale : a \notin seen /\ bind[a].src = ArpCache
  BY BindingsAssumption DEF FlaggedStale
<1> HIDE DEF b1, stale
<1>6. /\ b2 \in [Addrs -> Rows \cup {Unbound}]
      /\ \A a \in seen : b2[a] = b1[a]
  BY <1>3, <1>4, <1>5, WithoutKeepsRows
<1> HIDE DEF b2
<1>7. \A a \in seen : a \notin aged
  <2> SUFFICES ASSUME NEW a \in seen PROVE ~(b2[a].age >= PurgeAge)
    BY DEF AgedOut
  <2>1. b2[a].age = 0
    BY <1>5, <1>6
  <2> QED
    BY <2>1, BindingsAssumption
<1>8. /\ bind' \in [Addrs -> Rows \cup {Unbound}]
      /\ \A a \in seen : bind'[a] = b1[a]
  BY <1>2, <1>3, <1>6, <1>7, WithoutKeepsRows
<1>9. ASSUME NEW a \in Addrs, bind'[a].src = ArpCache PROVE bind'[a].age < PurgeAge
  <2>1. bind'[a] \in Rows
    BY <1>8, <1>9, RowColumns
  <2>2. bind'[a] = b2[a]
    <3>1. bind'[a] \in {b2[a], Unbound}
      BY <1>2, <1>6, WithoutKeepsRows
    <3> QED
      BY <3>1, <2>1, RowColumns
  <2>3. a \notin aged
    <3> SUFFICES ASSUME a \in aged PROVE FALSE
      OBVIOUS
    <3>1. bind'[a] = Unbound
      BY <1>2, <1>6, <1>9, <2>2, WithoutKeepsRows
    <3> QED
      BY <3>1, <2>1, RowColumns
  <2>4. ~(b2[a].age >= PurgeAge)
    BY <1>9, <2>2, <2>3 DEF AgedOut
  <2>5. b2[a].age \in 0..PurgeAge
    BY <2>1, <2>2, RowColumns
  <2> QED
    BY <2>2, <2>4, <2>5, BindingsAssumption
<1>10. \E c1, c2 \in [Addrs -> Rows \cup {Unbound}], S1, S2 \in SUBSET Addrs :
         ScrapeRounds(c1, c2, S1, S2)
  <2>1. \A a \in aged : /\ b2[a].src = ArpCache /\ a \in Addrs
    BY DEF AgedOut
  <2>2. ASSUME NEW a \in aged PROVE b2[a] = b1[a] /\ b1[a] = bind[a]
    <3>1. b2[a] \in {b1[a], Unbound}
      BY <1>4, <2>1, WithoutKeepsRows DEF b2
    <3>2. a \notin seen
      BY <1>7
    <3> QED
      BY <1>5a, <2>1, <3>1, <3>2, RowColumns
  <2>3. \A a \in stale : b1[a] = bind[a] /\ b1[a].src = ArpCache
    BY <1>2a, <1>5a, <1>5b
  <2>4. \A a \in Addrs : b1[a] = bind[a] \/ b1[a] \in Rows
    BY <1>5, <1>5a
  <2>5. b2 = Without(b1, stale)
    BY DEF b2
  <2> HIDE DEF aged
  <2>6. ScrapeRounds(b1, b2, stale, aged)
    BY <1>2, <2>1, <2>2, <2>3, <2>4, <2>5 DEF ScrapeRounds
  <2> HIDE DEF seen
  <2> QED
    BY <1>2a, <1>4, <1>6, <2>6
<1> HIDE DEF seen
<1> QED
  BY <1>1, <1>2, <1>3, <1>5, <1>8, <1>9, <1>10

\* Every step preserves the invariant.
LEMMA BindingsStep == BindingsIInv /\ [BindingsNext]_bindingVars => BindingsIInv'
<1> SUFFICES ASSUME BindingsIInv, [BindingsNext]_bindingVars PROVE BindingsIInv'
  OBVIOUS
<1>1. CASE ArpScrape
  <2>1. /\ bind' \in [Addrs -> Rows \cup {Unbound}] /\ confirmed' \subseteq Addrs
        /\ \A a \in confirmed' : bind'[a] \in Rows /\ bind'[a].age = 0
        /\ stage' = "crawl" /\ holder' = holder /\ known' = known
    BY <1>1, ScrapeWrites
  <2> QED
    BY <2>1 DEF BindingsIInv
<1>2. ASSUME NEW a \in Addrs, NEW k \in Addrs, Readdress(a, k) PROVE BindingsIInv'
  BY <1>2 DEF BindingsIInv, Readdress
<1>3. ASSUME NEW a \in Addrs, SelfReport(a) PROVE BindingsIInv'
  <2> DEFINE row == [mac |-> holder[a], src |-> "SNMP_IP_TABLE", age |-> 0]
  <2>1. row \in Rows /\ row.age = 0
    <3>1. holder[a] \in DevMacs
      BY <1>3 DEF BindingsIInv, SelfReport
    <3> QED
      BY <3>1, RowColumns
  <2>2. /\ bind' = [bind EXCEPT ![a] = row]
        /\ holder' = holder /\ known' = known /\ confirmed' = confirmed /\ stage' = stage
    BY <1>3 DEF SelfReport
  <2> HIDE DEF row
  <2> QED
    BY <2>1, <2>2 DEF BindingsIInv
<1>4. CASE VlanRegistry
  BY <1>4 DEF BindingsIInv, VlanRegistry
<1>5. CASE NoisePurge
  <2> DEFINE left == [a \in Addrs |->
                        IF known /\ bind[a].mac \in Noise THEN Unbound ELSE bind[a]]
  <2>1. PICK elapsed \in {0, 1} :
          bind' = [a \in Addrs |-> IF left[a].src = ArpCache /\ left[a].age < PurgeAge
                     THEN [left[a] EXCEPT !.age = @ + elapsed] ELSE left[a]]
    BY <1>5 DEF NoisePurge
  <2>2. /\ stage' = "arp" /\ holder' = holder /\ known' = known /\ confirmed' = confirmed
    BY <1>5 DEF NoisePurge
  <2>3. \A a \in Addrs : left[a] \in Rows \cup {Unbound}
    BY DEF BindingsIInv
  <2> HIDE DEF left
  <2>4. ASSUME NEW a \in Addrs PROVE bind'[a] \in Rows \cup {Unbound}
    <3>1. CASE left[a].src = ArpCache /\ left[a].age < PurgeAge
      <4>1. left[a] \in Rows
        BY <3>1, <2>3, RowColumns
      <4>2. bind'[a] = [left[a] EXCEPT !.age = @ + elapsed]
        BY <2>1, <3>1
      <4>3. left[a].age + elapsed \in 0..PurgeAge
        <5>1. left[a].age \in 0..PurgeAge
          BY <4>1, RowColumns
        <5> QED
          BY <3>1, <5>1, BindingsAssumption
      <4> QED
        BY <4>1, <4>2, <4>3 DEF Rows
    <3>2. CASE ~(left[a].src = ArpCache /\ left[a].age < PurgeAge)
      BY <2>1, <2>3, <3>2
    <3> QED
      BY <3>1, <3>2
  <2>5. bind' \in [Addrs -> Rows \cup {Unbound}]
    BY <2>1, <2>4
  <2> QED
    BY <2>2, <2>5 DEF BindingsIInv
<1>6. CASE \/ \E a, k \in Addrs : SaveLink(a, k)
           \/ ArpScrapeRaises
           \/ UNCHANGED bindingVars
  <2>1. /\ bind' = bind /\ holder' = holder /\ known' = known
        /\ confirmed' = confirmed /\ stage' = stage
    BY <1>6 DEF SaveLink, ArpScrapeRaises, bindingVars
  <2> QED
    BY <2>1 DEF BindingsIInv
<1> QED
  BY <1>1, <1>2, <1>3, <1>4, <1>5, <1>6 DEF BindingsNext

\* Hence the invariant of the bindings holds in every state.
LEMMA BindingsInvariant == BindingsSpec => []BindingsIInv
<1>1. BindingsInit => BindingsIInv
  BY DEF BindingsInit, BindingsIInv
<1> QED
  BY <1>1, BindingsStep, PTL DEF BindingsSpec

\* In every state of a cycle between its scrape and the end of its crawl, an
\* address that some router confirmed is bound, and fresh: neither the flags of
\* another router (ARP-2), nor the age of its row (ARP-1), nor what a device
\* reports of itself retires it.
THEOREM ConfirmedIsBound == BindingsSpec => []ConfirmedStaysBound
<1>1. BindingsIInv => ConfirmedStaysBound
  BY RowColumns DEF BindingsIInv, ConfirmedStaysBound
<1> QED
  BY <1>1, BindingsInvariant, PTL

\* In every behaviour, no binding learned from a router outlives a completed
\* scrape once nobody has confirmed it for PurgeAge cycles (ARP-1).
THEOREM AgedOutGoes == BindingsSpec => AgedOutRetired
<1>1. ASSUME BindingsIInv, [BindingsNext]_bindingVars, stage = "arp", stage' = "crawl"
      PROVE  \A a \in Addrs : bind'[a].src = ArpCache => bind'[a].age < PurgeAge
  <2>1. ArpScrape
    BY <1>1 DEF BindingsNext, bindingVars, Readdress, SaveLink, SelfReport, ArpScrapeRaises,
                VlanRegistry, NoisePurge
  <2> QED
    BY <1>1, <2>1, ScrapeWrites
<1> QED
  BY <1>1, BindingsInvariant, PTL DEF BindingsSpec, AgedOutRetired

\* What the fold does for one retiring address.
RepointStep(b, u, a) == IF u.raised THEN u ELSE Repointed(b, u, a)

\* What the fold over the retiring addresses returns, when each of its steps keeps
\* to U and leads from what holds of the addresses taken so far to what holds of
\* them and the next.
LEMMA RepointAllReaches ==
  ASSUME NEW b, NEW S, IsFiniteSet(S), NEW U, NEW st \in U,
         \A u \in U, a \in S : RepointStep(b, u, a) \in U,
         NEW kept, st \in kept[{}],
         \A s \in SUBSET (1..Cardinality(S)), u \in U :
            s # {} /\ u \in kept[s \ {Max(s)}]
               => RepointStep(b, u, SetToSeq(S)[Max(s)]) \in kept[s]
  PROVE  RepointAll(b, st, S) \in U \cap kept[1..Cardinality(S)]
<1> DEFINE q == SetToSeq(S)
           n == Cardinality(S)
           Step(u, i) == RepointStep(b, u, q[i])
           IsFold(f) == f = [s \in SUBSET (1..n) |-> IF s = {} THEN st
                                                     ELSE Step(f[s \ {Max(s)}], Max(s))]
           fold == CHOOSE f : IsFold(f)
<1>1. n \in Nat /\ q \in [1..n -> S]
  BY Listing
<1>2. DOMAIN q = 1..n
  BY <1>1
<1>3. RepointAll(b, st, S) = fold[1..n]
  BY <1>2 DEF RepointAll, RepointStep, FoldLeft, MapThenFoldSet
<1>4. \A u \in U, i \in 1..n : Step(u, i) \in U
  BY <1>1
<1>4a. \A s \in SUBSET (1..n), u \in U :
          s # {} /\ u \in kept[s \ {Max(s)}] => Step(u, Max(s)) \in kept[s]
  OBVIOUS
<1> HIDE DEF q, n, Step
<1>5. \E f : IsFold(f)
  <2> DEFINE step == [i \in 1..n |-> [u \in U |-> Step(u, i)]]
  <2>1. step \in [1..n -> [U -> U]]
    BY <1>4
  <2>2. PICK f \in [SUBSET (1..n) -> U] : f = Unfolded(n, st, step, f)
    <3>1. n \in Nat /\ st \in U
      BY <1>1
    <3> HIDE DEF step
    <3>2. \A V : \A x \in V, g \in [1..n -> [V -> V]] :
             \E f \in [SUBSET (1..n) -> V] : f = Unfolded(n, x, g, f)
      BY <3>1, FoldExists
    <3>3. \A x \in U, g \in [1..n -> [U -> U]] :
             \E f \in [SUBSET (1..n) -> U] : f = Unfolded(n, x, g, f)
      BY <3>2
    <3> QED
      BY <2>1, <3>1, <3>3
  <2>3. ASSUME NEW s \in SUBSET (1..n), s # {}
        PROVE  step[Max(s)][f[s \ {Max(s)}]] = Step(f[s \ {Max(s)}], Max(s))
    BY <1>1, <2>3, LastPosition
  <2>4. f = [s \in SUBSET (1..n) |-> IF s = {} THEN st ELSE step[Max(s)][f[s \ {Max(s)}]]]
    BY <2>2 DEF Unfolded
  <2> HIDE DEF step
  <2>5. IsFold(f)
    BY <2>3, <2>4
  <2> QED
    BY <2>5
<1>6. IsFold(fold)
  BY <1>5
<1> HIDE DEF fold
<1> DEFINE both == [s \in SUBSET (1..n) |-> U \cap kept[s]]
<1>7. fold[{}] \in both[{}]
  BY <1>6
<1>8. ASSUME NEW s \in SUBSET (1..n), s # {}, fold[s \ {Max(s)}] \in both[s \ {Max(s)}]
      PROVE  fold[s] \in both[s]
  <2>1. Max(s) \in 1..n /\ s \ {Max(s)} \in SUBSET (1..n)
    BY <1>1, <1>8, LastPosition
  <2>2. fold[s \ {Max(s)}] \in U /\ fold[s \ {Max(s)}] \in kept[s \ {Max(s)}]
    BY <1>8, <2>1
  <2>3. fold[s] = Step(fold[s \ {Max(s)}], Max(s))
    BY <1>6, <1>8
  <2>4. fold[s] \in U /\ fold[s] \in kept[s]
    BY <1>4, <1>4a, <1>8, <2>1, <2>2, <2>3
  <2> QED
    BY <2>4
<1> HIDE DEF both
<1>9. fold[1..n] \in both[1..n]
  BY <1>1, <1>7, <1>8, FoldReaches
<1>10. fold[1..n] \in U \cap kept[1..n]
  BY <1>9 DEF both
<1> QED
  BY <1>3, <1>10 DEF n

LinkStates == [links : [Addrs -> Addrs \cup {NoOne}], raised : BOOLEAN]

\* Another address of the same MAC is found whenever there is one.
LEMMA NewestOther ==
  ASSUME NEW b \in [Addrs -> Rows \cup {Unbound}], NEW others \in SUBSET Addrs, others # {}
  PROVE  (CHOOSE a \in others : \A k \in others : b[a].age <= b[k].age) \in others
<1>1. \A a \in Addrs : b[a].age \in Nat
  <2>1. Unbound.age \in Nat
    BY DEF Unbound
  <2>2. ASSUME NEW r \in Rows PROVE r.age \in Nat
    <3>1. r.age \in 0..PurgeAge
      BY RowColumns
    <3> QED
      BY <3>1, BindingsAssumption
  <2> QED
    BY <2>1, <2>2
<1> DEFINE Ages == {b[a].age : a \in others}
<1>2. Ages \subseteq Nat /\ Ages # {}
  BY <1>1
<1>3. PICK age \in Ages : \A x \in Ages : ~(<<x, age>> \in OpToRel(<, Nat))
  BY <1>2, NatLessThanWellFounded, WFMin
<1>4. PICK a \in others : age = b[a].age
  OBVIOUS
<1>5. ASSUME NEW k \in others PROVE b[a].age <= b[k].age
  <2>1. b[a].age \in Nat /\ b[k].age \in Nat /\ b[k].age \in Ages
    BY <1>1
  <2>2. ~(b[k].age < b[a].age)
    BY <1>3, <1>4, <2>1 DEF OpToRel
  <2> QED
    BY <2>1, <2>2
<1> QED
  BY <1>5

\* Every link that named old names new instead.
Moved(ls, old, new, moved) ==
    LET far == [a \in Addrs |-> IF ls[a] = old THEN new ELSE ls[a]]
    IN  \/ far[old] = NoOne /\ moved = far
        \/ far[new] = NoOne /\ moved = [far EXCEPT ![new] = far[old], ![old] = NoOne]

\* Moving them, no link is lost and none takes the place of another.
LEMMA MovedCount ==
  ASSUME NEW ls \in [Addrs -> Addrs \cup {NoOne}], NEW old \in Addrs, NEW new \in Addrs, new # old,
         NEW moved, Moved(ls, old, new, moved)
  PROVE  Cardinality(Linked(moved)) = Cardinality(Linked(ls))
<1> DEFINE far == [a \in Addrs |-> IF ls[a] = old THEN new ELSE ls[a]]
<1>1. NoOne \notin Addrs /\ IsFiniteSet(Linked(ls))
  <2>1. Linked(ls) \subseteq Addrs
    BY DEF Linked
  <2> QED
    BY <2>1, BindingsAssumption, FS_Subset
<1>2. DOMAIN far = Addrs /\ Linked(far) = Linked(ls) /\ far \in [Addrs -> Addrs \cup {NoOne}]
  BY <1>1 DEF Linked
<1> HIDE DEF far
<1>3. \/ moved = far
      \/ /\ far[new] = NoOne /\ far[old] # NoOne
         /\ moved = [far EXCEPT ![new] = far[old], ![old] = NoOne]
  <2>1. \/ moved = far
        \/ far[new] = NoOne /\ moved = [far EXCEPT ![new] = far[old], ![old] = NoOne]
    BY DEF Moved, far
  <2>2. far[new] = NoOne /\ far[old] = NoOne => [far EXCEPT ![new] = far[old], ![old] = NoOne] = far
    <3> SUFFICES ASSUME far[new] = NoOne, far[old] = NoOne
                 PROVE  [far EXCEPT ![new] = far[old], ![old] = NoOne] = far
      OBVIOUS
    <3> DEFINE same == [far EXCEPT ![new] = far[old], ![old] = NoOne]
    <3>1. same \in [Addrs -> Addrs \cup {NoOne}] /\ \A k \in Addrs : same[k] = far[k]
      BY <1>2
    <3> HIDE DEF same
    <3>2. same = far
      BY <1>2, <3>1
    <3> QED
      BY <3>2 DEF same
  <2> QED
    BY <2>1, <2>2
<1>4. CASE moved = far
  BY <1>2, <1>4
<1>5. CASE /\ far[new] = NoOne /\ far[old] # NoOne
           /\ moved = [far EXCEPT ![new] = far[old], ![old] = NoOne]
  <2>1. old \in Linked(ls) /\ new \notin Linked(ls)
    BY <1>2, <1>5 DEF Linked
  <2>2. Linked(moved) = (Linked(ls) \ {old}) \cup {new}
    <3>1. Linked(moved) = (Linked(far) \ {old}) \cup {new}
      BY <1>2, <1>5 DEF Linked
    <3> QED
      BY <1>2, <3>1
  <2>3. /\ IsFiniteSet(Linked(ls) \ {old}) /\ new \notin Linked(ls) \ {old}
        /\ Cardinality(Linked(ls) \ {old}) = Cardinality(Linked(ls)) - 1
    BY <1>1, <2>1, FS_RemoveElement
  <2>4. Cardinality((Linked(ls) \ {old}) \cup {new}) = Cardinality(Linked(ls) \ {old}) + 1
    BY <2>3, FS_AddElement
  <2>5. Cardinality(Linked(ls)) \in Nat
    BY <1>1, FS_CardinalityType
  <2> QED
    BY <2>2, <2>3, <2>4, <2>5
<1> QED
  BY <1>3, <1>4, <1>5

\* Moving the links of one address: nothing, or every link that named it names
\* another address of its MAC instead, or the UNIQUE constraint raises.
LEMMA RepointedCases ==
  ASSUME NEW b \in [Addrs -> Rows \cup {Unbound}], NEW st \in LinkStates, NEW old \in Addrs
  PROVE  \/ Repointed(b, st, old) = st /\ (b[old] = Unbound \/ OfMac(b, b[old].mac) \ {old} = {})
         \/ /\ Repointed(b, st, old) \in LinkStates
            /\ Repointed(b, st, old).raised = TRUE /\ Repointed(b, st, old).links = st.links
         \/ /\ Repointed(b, st, old) \in LinkStates
            /\ b[old] # Unbound
            /\ \E new \in OfMac(b, b[old].mac) \ {old} :
                  Moved(st.links, old, new, Repointed(b, st, old).links)
<1> DEFINE others == OfMac(b, b[old].mac) \ {old}
           new == CHOOSE a \in others : \A k \in others : b[a].age <= b[k].age
           far == [a \in Addrs |-> IF st.links[a] = old THEN new ELSE st.links[a]]
<1>1. CASE b[old] = Unbound \/ others = {}
  BY <1>1 DEF Repointed
<1>2. CASE b[old] # Unbound /\ others # {}
  <2>1. new \in others /\ new \in Addrs
    <3>1. others \in SUBSET Addrs
      BY DEF OfMac
    <3> HIDE DEF others
    <3>2. new \in others
      BY <1>2, <3>1, NewestOther
    <3> QED
      BY <3>1, <3>2
  <2> DEFINE moved == [far EXCEPT ![new] = far[old], ![old] = NoOne]
  <2>2. Repointed(b, st, old) =
          IF far[old] = NoOne THEN [st EXCEPT !.links = far]
          ELSE IF far[new] # NoOne THEN [st EXCEPT !.raised = TRUE]
          ELSE [st EXCEPT !.links = moved]
    BY <1>2 DEF Repointed
  <2> HIDE DEF new, others
  <2>3. far \in [Addrs -> Addrs \cup {NoOne}]
    BY <2>1 DEF LinkStates
  <2>4. moved \in [Addrs -> Addrs \cup {NoOne}]
    BY <2>1, <2>3
  <2> HIDE DEF moved, far
  <2>5. /\ [st EXCEPT !.links = far] \in LinkStates /\ [st EXCEPT !.links = far].links = far
        /\ [st EXCEPT !.links = moved] \in LinkStates /\ [st EXCEPT !.links = moved].links = moved
        /\ [st EXCEPT !.raised = TRUE] \in LinkStates
        /\ [st EXCEPT !.raised = TRUE].links = st.links /\ [st EXCEPT !.raised = TRUE].raised = TRUE
    BY <2>3, <2>4 DEF LinkStates
  <2>6. CASE far[old] = NoOne
    <3>1. Repointed(b, st, old) \in LinkStates /\ Repointed(b, st, old).links = far
      BY <2>2, <2>5, <2>6
    <3> QED
      BY <1>2, <2>1, <2>6, <3>1 DEF far, others, Moved
  <2>7. CASE far[old] # NoOne /\ far[new] # NoOne
    BY <2>2, <2>5, <2>7
  <2>8. CASE far[old] # NoOne /\ ~(far[new] # NoOne)
    <3>1. Repointed(b, st, old) \in LinkStates /\ Repointed(b, st, old).links = moved
      BY <2>2, <2>5, <2>8
    <3> QED
      BY <1>2, <2>1, <2>8, <3>1 DEF far, others, moved, Moved
  <2> QED
    BY <2>6, <2>7, <2>8
<1> QED
  BY <1>1, <1>2

\* Moving the links of one address leaves links between addresses.
LEMMA RepointedLinks ==
  ASSUME NEW b \in [Addrs -> Rows \cup {Unbound}], NEW st \in LinkStates, NEW old \in Addrs
  PROVE  Repointed(b, st, old) \in LinkStates
  BY RepointedCases

\* And so does moving the links of every retiring address in turn.
LEMMA RepointAllLinks ==
  ASSUME NEW b \in [Addrs -> Rows \cup {Unbound}], NEW st \in LinkStates, NEW S \in SUBSET Addrs
  PROVE  RepointAll(b, st, S) \in LinkStates
<1>1. \A u \in LinkStates, a \in S : RepointStep(b, u, a) \in LinkStates
  BY RepointedLinks DEF RepointStep
<1>2. IsFiniteSet(S)
  BY BindingsAssumption, FS_Subset
<1> DEFINE kept == [s \in SUBSET (1..Cardinality(S)) |-> LinkStates]
<1>3. Cardinality(S) \in Nat /\ SetToSeq(S) \in [1..Cardinality(S) -> S]
  BY <1>2, Listing
<1>4. ASSUME NEW s \in SUBSET (1..Cardinality(S)), NEW u \in LinkStates, s # {}
      PROVE  RepointStep(b, u, SetToSeq(S)[Max(s)]) \in kept[s]
  BY <1>1, <1>3, <1>4, LastPosition
<1>5. st \in kept[{}]
  OBVIOUS
<1> HIDE DEF kept
<1> QED
  BY <1>1, <1>2, <1>4, <1>5, RepointAllReaches

\* So the links after a whole scrape are between addresses too.
LEMMA ScrapeLinks ==
  ASSUME BindingsIInv, links \in [Addrs -> Addrs \cup {NoOne}], ArpScrape
  PROVE  links' \in [Addrs -> Addrs \cup {NoOne}]
<1> DEFINE st == [links |-> links, raised |-> FALSE]
<1>2. PICK c1, c2 \in [Addrs -> Rows \cup {Unbound}], S1, S2 \in SUBSET Addrs :
         links' = RepointAll(c2, RepointAll(c1, st, S1), S2).links
  BY ScrapeWrites DEF ScrapeRounds
<1>3. st \in LinkStates
  BY DEF LinkStates
<1> HIDE DEF st
<1>4. RepointAll(c1, st, S1) \in LinkStates
  BY <1>3, RepointAllLinks
<1>5. RepointAll(c2, RepointAll(c1, st, S1), S2) \in LinkStates
  BY <1>4, RepointAllLinks
<1> QED
  BY <1>2, <1>5 DEF LinkStates

\* A round of retired addresses leaves as many links as there were.
LEMMA RoundLosesNone ==
  ASSUME NEW b \in [Addrs -> Rows \cup {Unbound}], NEW st \in LinkStates, NEW S \in SUBSET Addrs
  PROVE  \/ RepointAll(b, st, S).raised = TRUE
         \/ Cardinality(Linked(RepointAll(b, st, S).links)) = Cardinality(Linked(st.links))
<1> DEFINE count == Cardinality(Linked(st.links))
           All == {u \in LinkStates : u.raised = TRUE \/ Cardinality(Linked(u.links)) = count}
           kept == [s \in SUBSET (1..Cardinality(S)) |-> All]
<1>1. IsFiniteSet(S)
  BY BindingsAssumption, FS_Subset
<1>2. Cardinality(S) \in Nat /\ SetToSeq(S) \in [1..Cardinality(S) -> S]
  BY <1>1, Listing
<1>3. ASSUME NEW u \in LinkStates, NEW a \in S PROVE RepointStep(b, u, a) \in LinkStates
  BY RepointedLinks DEF RepointStep
<1>4. ASSUME NEW u \in All, NEW a \in S PROVE RepointStep(b, u, a) \in All
  <2> DEFINE r == Repointed(b, u, a)
  <2>1. CASE u.raised
    BY <2>1 DEF RepointStep
  <2>2. CASE ~u.raised
    <3>1. RepointStep(b, u, a) = r /\ r \in LinkStates
      BY <1>3, <2>2 DEF RepointStep
    <3>2. Cardinality(Linked(u.links)) = count
      BY <2>2
    <3>3. \/ r = u \/ r.raised = TRUE
          \/ \E new \in OfMac(b, b[a].mac) \ {a} : Moved(u.links, a, new, r.links)
      BY RepointedCases
    <3> HIDE DEF r, count
    <3>4. ASSUME NEW new \in OfMac(b, b[a].mac) \ {a}, Moved(u.links, a, new, r.links)
          PROVE  Cardinality(Linked(r.links)) = count
      <4>1. new \in Addrs /\ new # a /\ u.links \in [Addrs -> Addrs \cup {NoOne}]
        BY DEF OfMac, LinkStates
      <4> QED
        BY <3>2, <3>4, <4>1, MovedCount
    <3> QED
      BY <3>1, <3>2, <3>3, <3>4
  <2> QED
    BY <2>1, <2>2
<1>5. ASSUME NEW s \in SUBSET (1..Cardinality(S)), NEW u \in LinkStates, s # {},
             u \in kept[s \ {Max(s)}]
      PROVE  RepointStep(b, u, SetToSeq(S)[Max(s)]) \in kept[s]
  <2>1. s \ {Max(s)} \in SUBSET (1..Cardinality(S)) /\ SetToSeq(S)[Max(s)] \in S
    BY <1>2, <1>5, LastPosition
  <2>2. u \in All
    BY <1>5, <2>1
  <2> HIDE DEF All
  <2> QED
    BY <1>4, <2>1, <2>2
<1>6. st \in kept[{}]
  OBVIOUS
<1>7. kept[1..Cardinality(S)] = All
  OBVIOUS
<1> HIDE DEF kept, All
<1>8. RepointAll(b, st, S) \in kept[1..Cardinality(S)]
  BY <1>1, <1>3, <1>5, <1>6, RepointAllReaches
<1> QED
  BY <1>7, <1>8 DEF All

\* Retiring an address whose MAC keeps another leaves no link that names it, unless
\* the UNIQUE constraint raises.
LEMMA StepForgets ==
  ASSUME NEW b \in [Addrs -> Rows \cup {Unbound}], NEW st \in LinkStates, NEW a \in Addrs,
         b[a] # Unbound, OfMac(b, b[a].mac) \ {a} # {}
  PROVE  RepointStep(b, st, a).raised = TRUE \/ ~Named(RepointStep(b, st, a).links, a)
<1> DEFINE r == Repointed(b, st, a)
<1>1. CASE st.raised
  BY <1>1 DEF RepointStep, LinkStates
<1>2. CASE ~st.raised
  <2>1. RepointStep(b, st, a) = r
    BY <1>2 DEF RepointStep
  <2>2. ASSUME NEW new \in OfMac(b, b[a].mac) \ {a},
               Moved(st.links, a, new, r.links)
        PROVE  ~Named(r.links, a)
    <3> DEFINE far == [k \in Addrs |-> IF st.links[k] = a THEN new ELSE st.links[k]]
    <3>1. new \in Addrs /\ new # a /\ NoOne # a
      BY BindingsAssumption DEF OfMac
    <3>2. DOMAIN far = Addrs /\ \A k \in Addrs : far[k] # a
      BY <3>1
    <3> HIDE DEF far
    <3>3. \/ far[a] = NoOne /\ r.links = far
          \/ r.links = [far EXCEPT ![new] = far[a], ![a] = NoOne]
      BY <2>2 DEF far, Moved
    <3> HIDE DEF r
    <3> QED
      BY <3>1, <3>2, <3>3 DEF Named
  <2> HIDE DEF r
  <2>3. r.raised = TRUE \/ \E new \in OfMac(b, b[a].mac) \ {a} :
                        Moved(st.links, a, new, r.links)
    BY RepointedCases DEF r
  <2> QED
    BY <2>1, <2>2, <2>3
<1> QED
  BY <1>1, <1>2

\* An address no link names stays so while the links of another MAC's are moved.
LEMMA StepStaysForgotten ==
  ASSUME NEW b \in [Addrs -> Rows \cup {Unbound}], NEW st \in LinkStates,
         NEW a \in Addrs, NEW x \in Addrs, x # a, ~Named(st.links, a),
         b[x] = Unbound \/ a \notin OfMac(b, b[x].mac)
  PROVE  RepointStep(b, st, x).raised = TRUE \/ ~Named(RepointStep(b, st, x).links, a)
<1> DEFINE r == Repointed(b, st, x)
<1>1. CASE st.raised
  BY <1>1 DEF RepointStep, LinkStates
<1>2. CASE ~st.raised
  <2>1. RepointStep(b, st, x) = r
    BY <1>2 DEF RepointStep
  <2>2. ASSUME NEW new \in OfMac(b, b[x].mac) \ {x}, b[x] # Unbound,
               Moved(st.links, x, new, r.links)
        PROVE  ~Named(r.links, a)
    <3> DEFINE far == [k \in Addrs |-> IF st.links[k] = x THEN new ELSE st.links[k]]
    <3>1. new \in Addrs /\ new # a /\ NoOne # a /\ NoOne # x
      BY <2>2, BindingsAssumption DEF OfMac
    <3>2. st.links[a] = NoOne /\ \A k \in Addrs : st.links[k] # a
      BY DEF Named
    <3>3. DOMAIN far = Addrs /\ far[a] = NoOne /\ \A k \in Addrs : far[k] # a
      BY <3>1, <3>2
    <3> HIDE DEF far
    <3>4. \/ far[x] = NoOne /\ r.links = far
          \/ r.links = [far EXCEPT ![new] = far[x], ![x] = NoOne]
      BY <2>2 DEF far, Moved
    <3> HIDE DEF r
    <3> QED
      BY <3>1, <3>3, <3>4 DEF Named
  <2> HIDE DEF r
  <2>3. \/ r = st
        \/ r.raised = TRUE
        \/ b[x] # Unbound /\ \E new \in OfMac(b, b[x].mac) \ {x} :
                        Moved(st.links, x, new, r.links)
    BY RepointedCases DEF r
  <2> QED
    BY <2>1, <2>2, <2>3
<1> QED
  BY <1>1, <1>2

\* A round of retired addresses in which a's MAC keeps another and loses no other:
\* afterwards no link names a, when a is one of them or no link did before.
LEMMA RoundForgets ==
  ASSUME NEW b \in [Addrs -> Rows \cup {Unbound}], NEW st \in LinkStates,
         NEW S \in SUBSET Addrs, NEW a \in Addrs,
         a \in S => b[a] # Unbound /\ OfMac(b, b[a].mac) \ {a} # {},
         \A x \in S \ {a} : b[x] = Unbound \/ a \notin OfMac(b, b[x].mac),
         a \in S \/ ~Named(st.links, a)
  PROVE  \/ RepointAll(b, st, S).raised = TRUE
         \/ ~Named(RepointAll(b, st, S).links, a)
<1> DEFINE n == Cardinality(S)
           q == SetToSeq(S)
           Taken(s) == \E i \in s : q[i] = a
           kept == [s \in SUBSET (1..n) |->
                      {u \in LinkStates : \/ u.raised = TRUE
                                          \/ Taken(s) \/ ~Named(st.links, a) => ~Named(u.links, a)}]
<1>1. IsFiniteSet(S)
  BY BindingsAssumption, FS_Subset
<1>2. n \in Nat /\ q \in [1..n -> S] /\ \A x \in S : \E i \in 1..n : q[i] = x
  BY <1>1, Listing
<1> HIDE DEF q
<1>3. \A u \in LinkStates, x \in S : RepointStep(b, u, x) \in LinkStates
  BY RepointedLinks DEF RepointStep
<1>4. ASSUME NEW s \in SUBSET (1..n), NEW u \in LinkStates, s # {}, u \in kept[s \ {Max(s)}]
      PROVE  RepointStep(b, u, q[Max(s)]) \in kept[s]
  <2>1. Max(s) \in s /\ s \ {Max(s)} \in SUBSET (1..n)
    BY <1>2, <1>4, LastPosition
  <2> DEFINE x == q[Max(s)]
             v == RepointStep(b, u, x)
  <2>2. x \in S /\ v \in LinkStates
    BY <1>2, <1>3, <2>1
  <2>3. u.raised = TRUE \/ (Taken(s \ {Max(s)}) \/ ~Named(st.links, a) => ~Named(u.links, a))
    BY <1>4, <2>1
  <2>4. SUFFICES ASSUME v.raised # TRUE, Taken(s) \/ ~Named(st.links, a)
                 PROVE  ~Named(v.links, a)
    <3> HIDE DEF v, x, Taken
    <3> QED
      BY <2>2, <2>4 DEF v, x
  <2>5. u.raised # TRUE
    BY <2>4 DEF RepointStep
  <2>6. CASE x = a
    BY <2>2, <2>4, <2>6, StepForgets
  <2>7. CASE x # a
    <3>1. Taken(s \ {Max(s)}) \/ ~Named(st.links, a)
      BY <2>4, <2>7
    <3>2. ~Named(u.links, a)
      BY <2>3, <2>5, <3>1
    <3> HIDE DEF x
    <3> QED
      BY <2>2, <2>4, <2>7, <3>2, StepStaysForgotten
  <2> QED
    BY <2>6, <2>7
<1>5. st \in kept[{}]
  <2>1. st.raised = TRUE \/ (Taken({}) \/ ~Named(st.links, a) => ~Named(st.links, a))
    OBVIOUS
  <2> QED
    BY <2>1
<1> HIDE DEF kept
<1>6. RepointAll(b, st, S) \in kept[1..n]
  <2> HIDE DEF Taken
  <2> QED
    BY <1>1, <1>3, <1>4, <1>5, RepointAllReaches DEF q
<1> DEFINE r == RepointAll(b, st, S)
<1> HIDE DEF r
<1>7. r.raised = TRUE \/ (Taken(1..n) \/ ~Named(st.links, a) => ~Named(r.links, a))
  BY <1>6 DEF kept, r
<1>8. Taken(1..n) \/ ~Named(st.links, a)
  BY <1>2
<1> QED
  BY <1>7, <1>8 DEF r

\* Links are between addresses.
LinksKnown == links \in [Addrs -> Addrs \cup {NoOne}]

\* Every repoint of a cycle moves a link to an address, or away from one.
LEMMA LinksInvariant == BindingsSpec => []LinksKnown
<1>1. BindingsInit => LinksKnown
  BY DEF BindingsInit, LinksKnown
<1>2. BindingsIInv /\ LinksKnown /\ [BindingsNext]_bindingVars => LinksKnown'
  <2> SUFFICES ASSUME BindingsIInv, LinksKnown, [BindingsNext]_bindingVars PROVE LinksKnown'
    OBVIOUS
  <2>1. CASE ArpScrape
    BY <2>1, ScrapeLinks DEF LinksKnown
  <2>2. CASE \E a, k \in Addrs : SaveLink(a, k)
    BY <2>2 DEF SaveLink, LinksKnown
  <2>3. CASE UNCHANGED links
    BY <2>3 DEF LinksKnown
  <2> QED
    BY <2>1, <2>2, <2>3 DEF BindingsNext, bindingVars, Readdress, SelfReport, ArpScrapeRaises,
                            VlanRegistry, NoisePurge
<1> QED
  BY <1>1, <1>2, BindingsInvariant, PTL DEF BindingsSpec

\* Rows of l3_bindings and of infrastructure_links name known addresses, after any
\* number of retired addresses and moved links.
THEOREM BindingsTypes == BindingsSpec => []BindingsTypeOK
<1>1. BindingsIInv /\ LinksKnown => BindingsTypeOK
  BY DEF BindingsIInv, BindingsTypeOK, Rows, LinksKnown
<1> QED
  BY <1>1, BindingsInvariant, LinksInvariant, PTL

\* A scrape that retires one address of a device and keeps another takes the
\* address out of every link.
LEMMA ScrapeForgets ==
  ASSUME BindingsIInv, LinksKnown, ArpScrape, NEW a \in Addrs, Retired(a),
         OfMac(bind', bind[a].mac) # {},
         \A k \in OfMac(bind, bind[a].mac) \ {a} : ~Retired(k) /\ bind'[k].mac = bind[a].mac
  PROVE  ~Named(links', a)
<1> DEFINE m == bind[a].mac
           st == [links |-> links, raised |-> FALSE]
<1>1. PICK c1, c2 \in [Addrs -> Rows \cup {Unbound}], S1, S2 \in SUBSET Addrs :
         ScrapeRounds(c1, c2, S1, S2)
  BY ScrapeWrites
<1> DEFINE r1 == RepointAll(c1, st, S1)
           r2 == RepointAll(c2, r1, S2)
<1>2. /\ links' = r2.links /\ ~r1.raised /\ ~r2.raised
      /\ c2 = Without(c1, S1) /\ bind' = Without(c2, S2)
      /\ \A x \in Addrs : c1[x] = bind[x] \/ c1[x] \in Rows
      /\ \A x \in S1 : c1[x] = bind[x] /\ c1[x].src = ArpCache
      /\ \A x \in S2 : c1[x] = bind[x] /\ c2[x] = c1[x] /\ c2[x].src = ArpCache
  BY <1>1 DEF ScrapeRounds
<1>3. st \in LinkStates /\ r1 \in LinkStates /\ r2 \in LinkStates
  <2>1. st \in LinkStates
    BY DEF LinkStates, LinksKnown
  <2> HIDE DEF st
  <2>2. r1 \in LinkStates
    BY <2>1, RepointAllLinks
  <2> HIDE DEF r1
  <2> QED
    BY <2>1, <2>2, RepointAllLinks
<1> HIDE DEF r2, r1, st
<1>4. /\ \A x \in S1 : c2[x] = Unbound /\ x \notin S2
      /\ \A x \in Addrs \ S1 : c2[x] = c1[x]
      /\ \A x \in S2 : bind'[x] = Unbound
      /\ \A x \in Addrs \ S2 : bind'[x] = c2[x]
  <2>1. \A x \in S1 : c2[x] = Unbound
    BY <1>2, WithoutKeepsRows
  <2>2. \A x \in S2 : c2[x] # Unbound
    BY <1>2, RowColumns
  <2> QED
    BY <1>2, <2>1, <2>2, WithoutKeepsRows
<1>5. \A x \in S1 \cup S2 : c1[x] = bind[x] /\ c1[x] \in Rows /\ bind'[x] = Unbound
  <2>1. \A x \in S1 \cup S2 : c1[x] = bind[x] /\ c1[x].src = ArpCache
    BY <1>2
  <2>2. \A x \in S1 \cup S2 : c1[x] \in Rows \cup {Unbound}
    OBVIOUS
  <2>3. \A x \in S1 \cup S2 : c1[x] \in Rows
    BY <2>1, <2>2, RowColumns
  <2>4. \A x \in S1 \cup S2 : bind'[x] = Unbound
    BY <1>4
  <2> QED
    BY <2>1, <2>3, <2>4
<1>6. a \in S1 \cup S2 /\ bind[a] \in Rows /\ m \in DevMacs /\ m # NoOne
  <2>1. bind[a] # Unbound /\ bind'[a] = Unbound
    BY DEF Retired
  <2>2. a \in S1 \cup S2
    BY <1>2, <1>4, <2>1, RowColumns
  <2>3. bind[a] \in Rows
    BY <1>5, <2>2
  <2> QED
    BY <2>2, <2>3, RowColumns, BindingsAssumption
<1>7. \A x \in (S1 \cup S2) \ {a} : bind[x].mac # m
  <2> SUFFICES ASSUME NEW x \in (S1 \cup S2) \ {a}, bind[x].mac = m PROVE FALSE
    OBVIOUS
  <2>1. x \in OfMac(bind, m) \ {a}
    BY DEF OfMac
  <2>2. Retired(x)
    BY <1>5, RowColumns DEF Retired
  <2> QED
    BY <2>1, <2>2
<1>8. PICK k \in Addrs : k # a /\ k \notin S1 \cup S2 /\ c1[k].mac = m /\ c2[k].mac = m
  <2>1. PICK k \in Addrs : bind'[k].mac = m
    BY DEF OfMac
  <2>2. bind'[k] # Unbound
    <3>1. Unbound.mac = NoOne
      BY DEF Unbound
    <3> QED
      BY <1>6, <2>1, <3>1
  <2>3. k \notin S1 \cup S2
    BY <1>5, <2>2
  <2> QED
    BY <1>4, <1>6, <2>1, <2>3
<1>9. /\ a \in S1 => c1[a] # Unbound /\ OfMac(c1, c1[a].mac) \ {a} # {}
      /\ \A x \in S1 \ {a} : c1[x] = Unbound \/ (a \in S1 => a \notin OfMac(c1, c1[x].mac))
  <2>1. a \in S1 => c1[a] = bind[a]
    BY <1>5
  <2> QED
    BY <1>5, <1>6, <1>7, <1>8, <2>1, RowColumns DEF OfMac
<1>10. a \in S1 => ~Named(r1.links, a)
  <2>1. a \in S1 => r1.raised = TRUE \/ ~Named(r1.links, a)
    BY <1>3, <1>9, RoundForgets DEF r1
  <2> QED
    BY <1>2, <2>1
<1>11. /\ a \in S2 => c2[a] # Unbound /\ OfMac(c2, c2[a].mac) \ {a} # {}
       /\ \A x \in S2 \ {a} : c2[x] = Unbound \/ a \notin OfMac(c2, c2[x].mac)
  <2>1. a \in S2 => c2[a] = bind[a]
    BY <1>2, <1>5
  <2>2. c2[a] = Unbound \/ c2[a] = bind[a]
    BY <1>4, <1>6, <2>1
  <2>3. \A x \in S2 : c2[x] = bind[x] /\ bind[x].mac \in DevMacs
    BY <1>2, <1>5, RowColumns
  <2>4. Unbound.mac = NoOne /\ NoOne \notin DevMacs
    BY BindingsAssumption DEF Unbound
  <2> QED
    BY <1>6, <1>7, <1>8, <2>1, <2>2, <2>3, <2>4, RowColumns DEF OfMac
<1>12. a \in S2 \/ ~Named(r1.links, a)
  BY <1>6, <1>10
<1>13. r2.raised = TRUE \/ ~Named(r2.links, a)
  BY <1>3, <1>11, <1>12, RoundForgets DEF r2
<1> QED
  BY <1>2, <1>13

\* A scrape that completes has moved links, and lost none.
LEMMA ScrapeLosesNone ==
  ASSUME BindingsIInv, LinksKnown, ArpScrape
  PROVE  Cardinality(Linked(links')) = Cardinality(Linked(links))
<1> DEFINE st == [links |-> links, raised |-> FALSE]
<1>1. PICK c1, c2 \in [Addrs -> Rows \cup {Unbound}], S1, S2 \in SUBSET Addrs :
         ScrapeRounds(c1, c2, S1, S2)
  BY ScrapeWrites
<1> DEFINE r1 == RepointAll(c1, st, S1)
           r2 == RepointAll(c2, r1, S2)
<1>2. links' = r2.links /\ ~r1.raised /\ ~r2.raised
  BY <1>1 DEF ScrapeRounds
<1>3. st \in LinkStates /\ st.links = links
  BY DEF LinkStates, LinksKnown
<1> HIDE DEF st
<1>4. r1 \in LinkStates
  BY <1>3, RepointAllLinks
<1>5. r1.raised = TRUE \/ Cardinality(Linked(r1.links)) = Cardinality(Linked(links))
  BY <1>3, RoundLosesNone
<1> HIDE DEF r1
<1>6. r2.raised = TRUE \/ Cardinality(Linked(r2.links)) = Cardinality(Linked(r1.links))
  BY <1>4, RoundLosesNone
<1> HIDE DEF r2
<1> QED
  BY <1>2, <1>5, <1>6

\* In every behaviour, when a completed scrape retires one address of a device and
\* keeps another, no link names the retired address afterwards, at either end
\* (TOPO-2), and there are as many links as before, however many addresses the two rounds of the scrape retire and in
\* whatever order their links are moved.
THEOREM LinksFollow == BindingsSpec => LinkFollowsDevice
<1> DEFINE Follows ==
      stage = "arp" /\ stage' = "crawl" =>
          /\ Cardinality(Linked(links')) = Cardinality(Linked(links))
          /\ \A a \in Addrs :
              LET m == bind[a].mac
              IN  /\ Retired(a) /\ OfMac(bind', m) # {}
                  /\ \A k \in OfMac(bind, m) \ {a} : ~Retired(k) /\ bind'[k].mac = m
                  => ~Named(links', a)
<1>1. BindingsIInv /\ LinksKnown /\ [BindingsNext]_bindingVars => Follows
  <2> SUFFICES ASSUME BindingsIInv, LinksKnown, [BindingsNext]_bindingVars,
                      stage = "arp", stage' = "crawl"
               PROVE  Follows
    OBVIOUS
  <2>1. ArpScrape
    BY DEF BindingsNext, bindingVars, Readdress, SaveLink, SelfReport, ArpScrapeRaises,
           VlanRegistry, NoisePurge
  <2> QED
    BY <2>1, ScrapeForgets, ScrapeLosesNone
<1>2. BindingsIInv /\ LinksKnown /\ [BindingsNext]_bindingVars => [Follows]_bindingVars
  BY <1>1
<1> QED
  BY <1>2, BindingsInvariant, LinksInvariant, PTL DEF BindingsSpec, LinkFollowsDevice

-----------------------------------------------------------------------------
(* The three together *)

\* Every behaviour of the network model is one of each component, so that what is
\* proved of a component holds of the model the run checks.
LEMMA NetworkParts == NetworkSpec => BindingsSpec /\ TopologySpec /\ WirelessSpec
<1>1. NetworkInit => BindingsInit /\ TopologyInit /\ WirelessInit
  BY DEF NetworkInit
<1>2. [NetworkNext]_networkVars => /\ [BindingsNext]_bindingVars
                                   /\ [TopologyNext]_topologyVars
                                   /\ [WirelessNext]_wirelessVars
  BY DEF NetworkNext, networkVars
<1> QED
  BY <1>1, <1>2, PTL DEF NetworkSpec, BindingsSpec, TopologySpec, WirelessSpec

\* In every state of the network model, the rows of l3_bindings, infrastructure_links
\* and endpoint_locations and the inferred nodes have their types.
THEOREM NetworkTypes == NetworkSpec => []NetworkTypeOK
<1>1. BindingsTypeOK /\ TopologyTypeOK /\ WirelessTypeOK <=> NetworkTypeOK
  BY DEF NetworkTypeOK
<1> QED
  BY <1>1, NetworkParts, BindingsTypes, TopologyTypes, WirelessTypes, PTL
================================================================================
