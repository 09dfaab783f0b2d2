------------------------------- MODULE MCNetwork -------------------------------
(* Addresses (Bindings), locations (Topology) and access points (Wireless) share  *)
(* no variable: one run checks the three, each from its own initial states.       *)
EXTENDS Bindings, Topology, Wireless, TLC

VARIABLE part

networkVars == <<bindingVars, topologyVars, wirelessVars, part>>

NetworkInit ==
    /\ BindingsInit /\ TopologyInit /\ WirelessInit
    /\ part \in {"bindings", "topology", "wireless"}
    /\ part # "topology" => type = [h \in Hosts |-> "Endpoint"]
    /\ part # "bindings" => holder = [a \in Addrs |-> NoOne]

NetworkNext ==
    \/ /\ part = "bindings" /\ BindingsNext
       /\ UNCHANGED <<topologyVars, wirelessVars, part>>
    \/ /\ part = "topology" /\ TopologyNext
       /\ UNCHANGED <<bindingVars, wirelessVars, part>>
    \/ /\ part = "wireless" /\ WirelessNext
       /\ UNCHANGED <<bindingVars, topologyVars, part>>

NetworkSpec == NetworkInit /\ [][NetworkNext]_networkVars

\* Types: the rows of l3_bindings, infrastructure_links and endpoint_locations and
\* the inferred nodes.
NetworkTypeOK == BindingsTypeOK /\ TopologyTypeOK /\ WirelessTypeOK

\* The hosts are alike, and so are the devices with addresses.
Alike == Permutations(Hosts) \cup Permutations(DevMacs)
=============================================================================
