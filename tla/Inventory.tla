------------------------------ MODULE Inventory ------------------------------
(* The identity of a device: the live node of network.db that unification.py  *)
(* builds from the MAC addresses the scrapers report, and the row of           *)
(* inventory.db (verified_devices) that outlives it.  A deep scan runs the     *)
(* passes of run_unification_engine() and then the re-overlay and the snapshot *)
(* of main.py one after the other, each in a transaction of its own, while the *)
(* API of another process takes the operator's corrections: every request      *)
(* writes the two databases in two commits.                                    *)
EXTENDS Integers, Sequences, FiniteSets, SequencesExt

CONSTANTS
    Macs,       \* MAC addresses as numbers: their order and distance matter
    Proto,      \* the smart-switch protocol a MAC answers ("none" if it does not)
    LinkedMacs, \* MACs whose address is a local switch of infrastructure_links
    Responders, \* MACs whose host answers a name sweep
    Banner,     \* what the sysDescr or the address of a MAC may give it away as
    MaxEdits    \* bound: requests of the operator in one behaviour

None == "none"              \* NULL, or the empty text, of a column
NoRow == [name |-> "norow", type |-> "norow"]
SelfIdentifying == {"SSDP", "SNMP"}
InfraTypes == {"Switch", "Router", "Access Point", "Switch / WAP"}
ProtectedTypes == InfraTypes \cup
    {"Docker Host", "Hypervisor", "Smart Switch", "Server", "Printer"}

\* hostname_registry.py: the names a poller may report and their priority
Sources == {[host |-> "mdns", prio |-> 30]}

\* What the operator may send for a device: "keep" is an omitted field, None a
\* field sent blank.
Requests == {[name |-> "alice", type |-> "keep"], [name |-> None, type |-> "keep"],
             [name |-> None, type |-> "Docker Host"]}

Names == {None, "device", "mdns", "label", "alice"}
Types == {None, "Endpoint", "Switch", "Smart Switch", "Smart Switch (Unverified)",
          "Access Point", "Docker Host"}

ASSUME InventoryAssumption ==
    /\ Macs \subseteq Nat \ {0} /\ Macs # {} /\ IsFiniteSet(Macs)   \* 0: no MAC
    /\ Proto \in [Macs -> {"none"} \cup SelfIdentifying \cup {"NSDP", "ESCP"}]
    /\ LinkedMacs \subseteq Macs /\ Responders \subseteq Macs /\ MaxEdits \in Nat
    /\ Banner \in [Macs -> {"none", "Access Point", "Docker Host"}]

VARIABLES
    rows,       \* MACs with a row in l2_interfaces
    arp,        \* MACs with an address read from a router's ARP cache
    located,    \* MACs with a row in endpoint_locations
    nodes,      \* logical_nodes by id; a node without a MAC has been deleted
    cand,       \* MACs in smart_switch_candidates
    fresh,      \* candidates found by this deep scan: too young for the purge
    inv,        \* verified_devices: NoRow, or the row's name and type
    pc,         \* the next pass of the deep scan, "idle" between deep scans
    read,       \* what the running pass has read and not yet used
    late,       \* MACs whose correction made a step since that read
    req,        \* the correction whose second commit is outstanding
    said,       \* history: what the operator last confirmed for a MAC
    edits       \* requests so far

inventoryVars == <<rows, arp, located, nodes, cand, fresh, inv, pc, read, late, req, said, edits>>
network == <<rows, arp, located, nodes, cand, fresh>>

Near(a, b) == (IF a > b THEN a - b ELSE b - a) <= 16
MinMac(S) == CHOOSE m \in S : \A k \in S : m <= k
Live == {i \in DOMAIN nodes : nodes[i].macs # {}}
HasNode(m) == \E i \in Live : m \in nodes[i].macs
NodeOf(m) == CHOOSE i \in Live : m \in nodes[i].macs
Row(m) == IF inv[m] = NoRow THEN [name |-> None, type |-> None] ELSE inv[m]
Idle == [mac |-> 0, node |-> 0, name |-> "keep", type |-> "keep"]

InventoryInit ==
    /\ rows = {} /\ arp = {} /\ located = {} /\ nodes = <<>> /\ cand = {} /\ fresh = {}
    /\ inv = [m \in Macs |-> NoRow] /\ pc = "idle" /\ read = {} /\ late = {}
    /\ req = Idle /\ said = [m \in Macs |-> [name |-> None, type |-> None]] /\ edits = 0

-----------------------------------------------------------------------------
(* The scrapers of an ordinary tick *)

\* A router's ARP cache or a fingerprint names the MAC: a row without a node.
ArpSighting(m) ==
    /\ pc = "idle" /\ m \notin arp
    /\ rows' = rows \cup {m} /\ arp' = arp \cup {m}
    /\ UNCHANGED <<located, nodes, cand, fresh, inv, pc, read, late, req, said, edits>>

\* A forwarding table names the MAC: a location, and no row of l2_interfaces.  The
\* location of a MAC that has its row already changes nothing here.
FdbSighting(m) ==
    /\ pc = "idle" /\ m \notin located \cup rows
    /\ located' = located \cup {m}
    /\ UNCHANGED <<rows, arp, nodes, cand, fresh, inv, pc, read, late, req, said, edits>>

\* set_hostname_by_node_id(): a weaker source than the present one is ignored.
Renamed(node, host, prio) ==
    IF prio < node.prio THEN node ELSE [node EXCEPT !.host = host, !.prio = prio]

\* A name sweep (mDNS here) writes through the registry, by MAC or IP.
SweepName(m, s) ==
    /\ pc = "idle" /\ m \in rows /\ HasNode(m)
    /\ nodes' = [nodes EXCEPT ![NodeOf(m)] = Renamed(@, s.host, s.prio)]
    /\ nodes' # nodes
    /\ UNCHANGED <<rows, arp, located, cand, fresh, inv, pc, read, late, req, said, edits>>

\* rotate_database(): network.db starts again from nothing, inventory.db stays.
CleanSlate ==
    /\ pc = "idle" /\ nodes # <<>>
    /\ rows' = {} /\ arp' = {} /\ located' = {} /\ nodes' = <<>> /\ cand' = {} /\ fresh' = {}
    /\ UNCHANGED <<inv, pc, read, late, req, said, edits>>

-----------------------------------------------------------------------------
(* The deep scan: one action per pass, each pass one transaction *)

\* stage_smart_switch_discovery(): upserts what answered this time.
SmartSwitchDiscovery ==
    /\ pc = "idle" /\ pc' = "weld"
    /\ \E found \in SUBSET {m \in Macs : Proto[m] # "none"} :
           /\ cand' = cand \cup found /\ fresh' = found
    /\ UNCHANGED <<rows, arp, located, nodes, inv, read, late, req, said, edits>>

\* The welded MACs get a row in l2_interfaces when they have none yet.
MutantWithRows(welded) == rows
WithRows(welded) == rows \cup welded

\* run_hardware_weld_pass(): a located MAC without a node joins an
\* infrastructure node that has a MAC at most 16 away.
HardwareWeld ==
    LET ghosts == {g \in located : ~HasNode(g)}
        infra(g) == {i \in Live : /\ nodes[i].type \in InfraTypes
                                  /\ \E b \in nodes[i].macs : Near(g, b)}
        welded == {g \in ghosts : infra(g) # {}}
    IN  /\ pc = "weld" /\ pc' = "arpweld"
        /\ \E to \in [welded -> DOMAIN nodes] :
               /\ \A g \in welded : to[g] \in infra(g)
               /\ nodes' = [i \in DOMAIN nodes |->
                      [nodes[i] EXCEPT !.macs = @ \cup {g \in welded : to[g] = i}]]
        /\ rows' = WithRows(welded)
        /\ UNCHANGED <<arp, located, cand, fresh, inv, read, late, req, said, edits>>

\* One merge of run_arp_confirmed_weld_pass(): the younger node's MACs go to the
\* older one, and the younger is deleted with its name and type.
MergeOnce(ns) ==
    LET pairs == {p \in (DOMAIN ns) \X (DOMAIN ns) :
                    /\ p[1] < p[2]
                    /\ \E a \in ns[p[1]].macs \cap arp, b \in ns[p[2]].macs \cap arp : Near(a, b)}
    IN  IF pairs = {} THEN ns
        ELSE LET p == CHOOSE p \in pairs : TRUE
             IN  [ns EXCEPT ![p[1]].macs = @ \cup ns[p[2]].macs, ![p[2]].macs = {}]

\* The pass runs until a merge changes nothing, five times at the most.
MergeAll(ns) == FoldLeft(LAMBDA merged, k : MergeOnce(merged), ns, <<1, 2, 3, 4, 5>>)

ArpConfirmedWeld ==
    /\ pc = "arpweld" /\ pc' = "singleton"
    /\ nodes' = MergeAll(nodes)
    /\ UNCHANGED <<rows, arp, located, cand, fresh, inv, read, late, req, said, edits>>

\* run_singleton_pass(): every row without a node gets a node of its own.
Singleton ==
    /\ pc = "singleton" /\ pc' = "classify"
    /\ nodes' = nodes \o [k \in 1..Cardinality({m \in rows : ~HasNode(m)}) |->
                  [macs |-> {SetToSeq({m \in rows : ~HasNode(m)})[k]},
                   host |-> "device", prio |-> 0, type |-> "Endpoint"]]
    /\ UNCHANGED <<rows, arp, located, cand, fresh, inv, read, late, req, said, edits>>

\* run_classification_pass(): a banner makes an access point; the near end of a
\* link is a Switch, unless it already has a type of the infrastructure; a bridge
\* address makes a Docker host of whatever the node was before.
Classified(node, told) ==
    LET tells(t) == \E m \in node.macs \cap told : Banner[m] = t
        ap == IF tells("Access Point") THEN "Access Point" ELSE node.type
        switch == IF /\ node.macs \cap LinkedMacs # {}
                     /\ ap \notin ProtectedTypes \cup {"Smart Switch (Unverified)"}
                  THEN "Switch" ELSE ap
    IN  [node EXCEPT !.type = IF tells("Docker Host") THEN "Docker Host" ELSE switch]

Classification ==
    /\ pc = "classify" /\ pc' = "candread"
    /\ \E told \in SUBSET {m \in rows : Banner[m] # "none"} :
           nodes' = [i \in DOMAIN nodes |-> Classified(nodes[i], told)]
    /\ UNCHANGED <<rows, arp, located, cand, fresh, inv, read, late, req, said, edits>>

\* run_smart_switch_candidate_pass(), first part: the purge of candidates not
\* seen for three hours, and the MACs that pass for confirmed by a human.
CandidateRead ==
    /\ pc = "candread" /\ pc' = "candapply"
    /\ \E stale \in SUBSET (cand \ fresh) : cand' = cand \ stale
    /\ fresh' = {}
    /\ read' = {[mac |-> m] : m \in {k \in Macs : Row(k).name # None \/ Row(k).type # None}}
    /\ late' = {}
    /\ UNCHANGED <<rows, arp, located, nodes, inv, req, said, edits>>

\* Second part: a candidate that is not confirmed and whose node has no protected
\* type is suggested, or, when it identified itself, confirmed at once.
Promoted(st, m) ==
    LET self == Proto[m] \in SelfIdentifying
        i == CHOOSE i \in DOMAIN st.nodes : m \in st.nodes[i].macs
        named == Renamed(st.nodes[i], "label", IF self THEN 40 ELSE 10)
        type == IF self THEN "Smart Switch" ELSE "Smart Switch (Unverified)"
    IN  IF m \notin cand \/ [mac |-> m] \in read \/ ~HasNode(m) \/ st.nodes[i].type \in ProtectedTypes THEN st
        ELSE [nodes |-> [st.nodes EXCEPT ![i] = [named EXCEPT !.type = type]],
              inv |-> IF self THEN [st.inv EXCEPT ![m] = [name |-> "label", type |-> type]]
                      ELSE st.inv]

PromoteAll(st, order) == FoldLeft(LAMBDA s, m : Promoted(s, m), st, order)

CandidateApply ==
    /\ pc = "candapply" /\ pc' = "overread"
    /\ \E order \in SetToSeqs(Macs) :
          LET st == PromoteAll([nodes |-> nodes, inv |-> inv], order)
          IN  nodes' = st.nodes /\ inv' = st.inv
    /\ read' = {} /\ late' = {}
    /\ UNCHANGED <<rows, arp, located, cand, fresh, req, said, edits>>

\* run_inventory_overlay_pass() reads every row of the inventory ...
OverlayRead ==
    /\ pc \in {"overread", "reoverread"}
    /\ pc' = IF pc = "overread" THEN "overapply" ELSE "reoverapply"
    /\ read' = {[mac |-> m, row |-> inv[m]] : m \in {k \in Macs : inv[k] # NoRow}}
    /\ late' = {}
    /\ UNCHANGED <<network, inv, req, said, edits>>

MutantOverlaid(ns, r) ==
    IF ~HasNode(r.mac) THEN ns
    ELSE [ns EXCEPT ![NodeOf(r.mac)] = [@ EXCEPT
            !.host = IF r.row.name # None THEN r.row.name ELSE @,
            !.type = IF r.row.type # None /\ r.row.name = None THEN r.row.type ELSE @]]

\* ... and writes its name and its type onto the node of its MAC.  The priority
\* of the name's source is left as it is.
Labelled(node, row) ==
    [node EXCEPT !.host = IF row.name # None THEN row.name ELSE node.host,
                 !.type = IF row.type # None THEN row.type ELSE node.type]

Overlaid(ns, r) ==
    IF ~HasNode(r.mac) THEN ns
    ELSE [ns EXCEPT ![NodeOf(r.mac)] = Labelled(@, r.row)]

OverlayAll(ns, order) == FoldLeft(LAMBDA new, r : Overlaid(new, r), ns, order)

OverlayApply ==
    /\ pc \in {"overapply", "reoverapply"}
    /\ pc' = IF pc = "overapply" THEN "reoverread" ELSE "snapread"
    /\ \E order \in SetToSeqs(read) : nodes' = OverlayAll(nodes, order)
    /\ read' = {}
    /\ UNCHANGED <<rows, arp, located, cand, fresh, inv, late, req, said, edits>>

\* run_inventory_snapshot_sync() reads the interfaces and their nodes ...
SnapshotRead ==
    /\ pc = "snapread" /\ pc' = "snapwrite"
    /\ read' = {nodes[i] : i \in Live} /\ late' = {}
    /\ UNCHANGED <<network, inv, req, said, edits>>

\* ... folds the rows of a node's other MACs into the row of its lowest MAC,
\* filling only what is empty there, deletes them, and fills a name or a type
\* that is still empty with the discovered one.
MutantFilled(a, b) == IF b # None THEN b ELSE a
Filled(a, b) == IF a # None THEN a ELSE b
MutantStrayRow(m) == inv[m]
StrayRow(m) == NoRow

MutantFoldedRow(node) == Row(MinMac(node.macs))

FoldedRow(node) ==
    LET canon == MinMac(node.macs)
        strays == {m \in node.macs \ {canon} : inv[m] # NoRow}
        stray(f) == IF \E m \in strays : inv[m][f] # None
                    THEN inv[CHOOSE m \in strays : inv[m][f] # None][f] ELSE None
    IN  [name |-> Filled(Row(canon).name, stray("name")),
         type |-> Filled(Row(canon).type, stray("type"))]

Backfilled(node) ==
    [name |-> Filled(FoldedRow(node).name, node.host),
     type |-> Filled(FoldedRow(node).type, node.type)]

SnapshotWrite ==
    LET owner(m) == CHOOSE n \in read : m \in n.macs
    IN  /\ pc = "snapwrite" /\ pc' = "idle"
        /\ inv' = [m \in Macs |->
              IF \A n \in read : m \notin n.macs THEN inv[m]
              ELSE IF m = MinMac(owner(m).macs) THEN Backfilled(owner(m)) ELSE StrayRow(m)]
        /\ read' = {} /\ late' = {}
        /\ UNCHANGED <<network, req, said, edits>>

-----------------------------------------------------------------------------
(* The operator's corrections (API process) *)

\* A correction is late for the pass that has read and not yet written, and for
\* the snapshot behind the last overlay.
Late(m) == IF pc \in {"candapply", "overapply", "reoverapply", "snapread", "snapwrite"}
           THEN late \cup {m} ELSE late

Given(old, new) == IF new = "keep" THEN old ELSE new
Coalesce(old, new) == IF new \in {"keep", None} THEN old ELSE new

\* api_inventory_update(): the row first; a blank field clears the column.
InventoryUpdate(m, r) ==
    /\ req = Idle /\ edits < MaxEdits /\ edits' = edits + 1
    /\ inv' = [inv EXCEPT ![m] = [name |-> Given(Row(m).name, r.name),
                                  type |-> Given(Row(m).type, r.type)]]
    /\ said' = [said EXCEPT ![m] = [name |-> Given(@.name, r.name), type |-> Given(@.type, r.type)]]
    /\ late' = Late(m)
    /\ req' = [mac |-> m, node |-> 0, name |-> r.name, type |-> r.type]
    /\ UNCHANGED <<network, pc, read>>

\* Then the live node of the MAC, if it has one: only values, never a blank.
Corrected(node, r) == [node EXCEPT !.host = Coalesce(node.host, r.name),
                                   !.type = Coalesce(node.type, r.type)]

MirrorToNode ==
    /\ req.mac # 0 /\ req' = Idle /\ late' = Late(req.mac)
    /\ nodes' = IF ~HasNode(req.mac) THEN nodes
                ELSE [nodes EXCEPT ![NodeOf(req.mac)] = Corrected(@, req)]
    /\ UNCHANGED <<rows, arp, located, cand, fresh, inv, pc, read, said, edits>>

\* update_node_details(), api_promote_node(): the node first, and here a name sent
\* blank does blank the live node ...
Rewritten(node, r) == [node EXCEPT !.host = Given(node.host, r.name),
                                   !.type = Given(node.type, r.type)]

NodeUpdate(i, r) ==
    /\ req = Idle /\ edits < MaxEdits /\ edits' = edits + 1
    /\ nodes' = [nodes EXCEPT ![i] = Rewritten(@, r)]
    /\ req' = [mac |-> 0, node |-> i, name |-> r.name, type |-> r.type]
    /\ late' = Late(MinMac(nodes[i].macs))
    /\ UNCHANGED <<rows, arp, located, cand, fresh, inv, pc, read, said>>

\* ... then _persist_inventory_override(): the row of the node's lowest MAC, where
\* COALESCE lets the empty text pass for a value; and nothing when no field has a
\* value, or when the node has been merged away or purged since.
PersistOverride ==
    /\ req.node # 0 /\ req' = Idle
    /\ IF req.node \in Live /\ {req.name, req.type} \ {"keep", None} # {}
       THEN LET m == MinMac(nodes[req.node].macs)
                row(old) == [name |-> Given(old.name, req.name),
                             type |-> Given(old.type, req.type)]
            IN  /\ inv' = [inv EXCEPT ![m] = row(Row(m))]
                /\ said' = [said EXCEPT ![m] = row(@)]
                /\ late' = Late(m)
       ELSE UNCHANGED <<inv, said, late>>
    /\ UNCHANGED <<network, pc, read, edits>>

\* api_inventory_delete(): the row goes, the live node keeps what it shows.
InventoryDelete(m) ==
    /\ req = Idle /\ edits < MaxEdits /\ edits' = edits + 1
    /\ inv[m] # NoRow
    /\ inv' = [inv EXCEPT ![m] = NoRow]
    /\ said' = [said EXCEPT ![m] = [name |-> None, type |-> None]]
    /\ late' = Late(m)
    /\ UNCHANGED <<network, pc, read, req>>

Scrapers == \/ \E m \in Macs : ArpSighting(m) \/ FdbSighting(m)
            \/ \E m \in Responders, s \in Sources : SweepName(m, s)
            \/ CleanSlate
DeepScan == \/ SmartSwitchDiscovery \/ HardwareWeld \/ ArpConfirmedWeld \/ Singleton
            \/ Classification \/ CandidateRead \/ CandidateApply
            \/ OverlayRead \/ OverlayApply \/ SnapshotRead \/ SnapshotWrite
Operator == \/ \E m \in Macs, r \in Requests : InventoryUpdate(m, r)
            \/ \E i \in Live, r \in Requests : NodeUpdate(i, r)
            \/ \E m \in Macs : InventoryDelete(m)
            \/ MirrorToNode \/ PersistOverride

InventoryNext == Scrapers \/ DeepScan \/ Operator
InventorySpec == InventoryInit /\ [][InventoryNext]_inventoryVars

-----------------------------------------------------------------------------
(* Properties *)

Ids == 1..Cardinality(Macs)

\* Types: nodes hold known MACs, rows of inventory.db known names and types.
InventoryTypeOK ==
    /\ rows \subseteq Macs /\ arp \subseteq rows /\ located \subseteq Macs
    /\ nodes \in Seq([macs : SUBSET rows, host : Names,
                       prio : {0, 10, 30, 40}, type : Types \ {None}])
    /\ DOMAIN nodes \subseteq Ids
    /\ fresh \subseteq cand /\ cand \subseteq Macs /\ late \subseteq Macs
    /\ inv \in [Macs -> [name : Names, type : Types] \cup {NoRow}]
    /\ said \in [Macs -> [name : Names, type : Types]]
    /\ pc \in {"idle", "weld", "arpweld", "singleton", "classify", "candread", "candapply",
               "overread", "overapply", "reoverread", "reoverapply", "snapread", "snapwrite"}
    /\ req \in [mac : Macs \cup {0}, node : Ids \cup {0}, name : Names \cup {"keep"},
                type : Types \cup {"keep"}]
    /\ edits \in 0..MaxEdits

\* The value a human confirmed for a MAC outlives every pass of the engine, the
\* automatic confirmation and the backfill included, as long as the MAC names its
\* node and the correction did not arrive between a pass's read and its write.
HumanValueKept ==
    [][\A m \in Macs, f \in {"name", "type"} :
          /\ said[m][f] # None /\ inv[m][f] = said[m][f] /\ m \notin late
          /\ HasNode(m) => m = MinMac(nodes[NodeOf(m)].macs)
          /\ said' = said
          => inv'[m][f] = said[m][f]]_inventoryVars

\* After the snapshot a device has one row in the inventory, under its lowest
\* MAC, however its interfaces were welded together and whoever wrote rows for
\* them before (INVENTORY-6), unless the operator has just added another.
OneRowPerDevice ==
    [][pc = "snapwrite" /\ pc' = "idle" =>
          \A i \in Live : {m \in nodes[i].macs : inv'[m] # NoRow} = {MinMac(nodes[i].macs)}]_inventoryVars

\* Folding the rows of one device never loses a value only one of them holds, and
\* a discovered value never takes the place of a value some row holds.
FoldKeepsValues ==
    [][pc = "snapwrite" /\ pc' = "idle" =>
          \A i \in Live, f \in {"name", "type"} :
             LET held == {Row(m)[f] : m \in nodes[i].macs} \ {None}
             IN  held # {} => inv'[MinMac(nodes[i].macs)][f] \in held]_inventoryVars

\* A node that the inventory names shows that name, and that type, to the snapshot
\* that follows the re-overlay: the backfill never copies back a stale value.
SnapshotSeesOverlay ==
    pc = "snapread" =>
        \A i \in Live : \A m \in nodes[i].macs :
            /\ m \notin late
            /\ \A k \in nodes[i].macs \ {m} : inv[k] = NoRow /\ k \notin late
            => /\ Row(m).name # None => nodes[i].host = Row(m).name
               /\ Row(m).type # None => nodes[i].type = Row(m).type
==============================================================================
