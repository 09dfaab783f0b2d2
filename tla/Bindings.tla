------------------------------- MODULE Bindings -------------------------------
(* Addresses and links: the rows of l3_bindings that stage_arp_scrape() of      *)
(* main.py writes, ages and retires, and the rows of infrastructure_links that  *)
(* name their two ends by address only.  When an address is retired the links   *)
(* that name it are moved to another address of the same MAC; links are unique  *)
(* in (local_switch_ip, local_port), and a stage that raises is tried again at  *)
(* the same tick, before anything that follows it.                              *)
EXTENDS Integers, FiniteSets, SequencesExt

CONSTANTS
    DevMacs,    \* MAC addresses
    Routers,    \* those whose node is classified Router
    Addrs,      \* addresses
    LanAddrs,   \* those inside a subnet the router confirms (router_subnets)
    PurgeAge    \* cycles without confirmation after which a binding is retired

NoOne == "noone"

ASSUME BindingsAssumption ==
    /\ Routers \subseteq DevMacs /\ LanAddrs \subseteq Addrs /\ IsFiniteSet(Addrs)
    /\ NoOne \notin Addrs \cup DevMacs /\ PurgeAge \in Nat \ {0}

ArpCache == "ROUTER_ARP_CACHE"
Unbound == [mac |-> NoOne, src |-> "", age |-> 0]

VARIABLES
    holder,     \* the world: who answers at an address
    bind,       \* l3_bindings
    links,      \* infrastructure_links: near end (its one port) -> far end
    known,      \* router_subnets has been read (first deep scan)
    confirmed,  \* addresses the cycle's ARP caches confirmed, until the crawl ends
    stage       \* the stage the tick has reached: "arp", "crawl", "noise"

bindingVars == <<holder, bind, links, known, confirmed, stage>>

BindingsInit ==
    /\ holder \in [Addrs -> DevMacs \cup {NoOne}]
    /\ bind = [a \in Addrs |-> Unbound] /\ links = [a \in Addrs |-> NoOne]
    /\ known = FALSE /\ confirmed = {} /\ stage = "arp"

Judged == IF known THEN LanAddrs ELSE Addrs
OfMac(b, m) == {a \in Addrs : b[a].mac = m}

(* The world: a device takes another address, in the course of a cycle *)
Readdress(from, to) ==
    /\ stage = "crawl" /\ holder[from] # NoOne /\ holder[to] = NoOne
    /\ holder' = [holder EXCEPT ![to] = holder[from], ![from] = NoOne]
    /\ UNCHANGED <<bind, links, known, confirmed, stage>>

-----------------------------------------------------------------------------
(* stage_arp_scrape() *)

\* _repoint_infrastructure_links_before_purge() for one retiring address: the
\* links that name it, as far end and as near end, go to the most recently seen
\* other address of its MAC.  A near end that already has a link at that port
\* violates the UNIQUE constraint.
MutantRepointed(b, st, old) == st
Repointed(b, st, old) ==
    LET others == OfMac(b, b[old].mac) \ {old}
        new == CHOOSE a \in others : \A k \in others : b[a].age <= b[k].age
        far == [a \in Addrs |-> IF st.links[a] = old THEN new ELSE st.links[a]]
    IN  IF b[old] = Unbound \/ others = {} THEN st
        ELSE IF far[old] = NoOne THEN [st EXCEPT !.links = far]
        ELSE IF far[new] # NoOne THEN [st EXCEPT !.raised = TRUE]
        ELSE [st EXCEPT !.links = [far EXCEPT ![new] = far[old], ![old] = NoOne]]

RepointAll(b, st, retiring) ==
    FoldLeft(LAMBDA s, a : IF s.raised THEN s ELSE Repointed(b, s, a), st, SetToSeq(retiring))

Without(b, retiring) ==
    [a \in Addrs |-> IF a \in retiring /\ b[a].src = ArpCache THEN Unbound ELSE b[a]]

MutantFlaggedStale(flagged, seen) == IF known THEN flagged \cap LanAddrs ELSE {}
FlaggedStale(flagged, seen) == (IF known THEN flagged \cap LanAddrs ELSE {}) \ seen

MutantAgedOut(b, seen) ==
    IF seen = {} THEN {} ELSE {a \in Addrs : b[a].src = ArpCache /\ b[a].age >= PurgeAge}
AgedOut(b, seen) == {a \in Addrs : b[a].src = ArpCache /\ b[a].age >= PurgeAge}

\* One transaction: what the caches confirm inside the known subnets is written
\* (one address per MAC: the walks are merged into a dictionary by MAC), what a
\* router flags invalid is retired at once unless another confirms it (ARP-2),
\* and what nobody confirmed for PurgeAge cycles is retired (ARP-1).
ArpOutcome(valid, flagged) ==
    LET seen == {a \in {valid[m] : m \in DOMAIN valid} : a \in Judged}
        b1 == [a \in Addrs |-> IF a \in seen
                 THEN [mac |-> holder[a], src |-> ArpCache, age |-> 0] ELSE bind[a]]
        stale == FlaggedStale(flagged, seen)
        st1 == RepointAll(b1, [links |-> links, raised |-> FALSE], stale)
        b2 == Without(b1, stale)
        aged == AgedOut(b2, seen)
        st2 == RepointAll(b2, st1, aged)
    IN  [seen |-> seen, bind |-> Without(b2, aged), links |-> st2.links,
         raised |-> st1.raised \/ st2.raised]

\* The walks that answered: some of the devices that hold an address.
Walks == UNION {{v \in [ms -> Addrs] : \A m \in ms : holder[v[m]] = m} : ms \in SUBSET DevMacs}

ArpScrape ==
    /\ stage = "arp"
    /\ \E valid \in Walks, flagged \in SUBSET {a \in Addrs : bind[a].src = ArpCache} :
          LET out == ArpOutcome(valid, flagged)
          IN  /\ ~out.raised /\ stage' = "crawl"
              /\ bind' = out.bind /\ links' = out.links /\ confirmed' = out.seen
    /\ UNCHANGED <<holder, known>>

\* The UNIQUE constraint raises: the transaction is lost with its connection, and
\* the loop comes back to the same stage of the same tick ten seconds later.
ArpScrapeRaises ==
    /\ stage = "arp"
    /\ \E valid \in Walks, flagged \in SUBSET {a \in Addrs : bind[a].src = ArpCache} :
          ArpOutcome(valid, flagged).raised
    /\ UNCHANGED bindingVars

-----------------------------------------------------------------------------
(* The rest of the tick *)

\* update_device_fingerprint() writes the addresses a device reports for itself.
SelfReport(a) ==
    /\ stage = "crawl" /\ holder[a] # NoOne /\ bind[a].src # "SNMP_IP_TABLE"
    /\ OfMac(bind, holder[a]) # {}
    /\ bind' = [bind EXCEPT ![a] = [mac |-> holder[a], src |-> "SNMP_IP_TABLE", age |-> 0]]
    /\ UNCHANGED <<holder, links, known, confirmed, stage>>

\* save_link_to_db(): a crawled switch has a neighbour at its port; the row of
\* that port is replaced.
SaveLink(near, far) ==
    /\ stage = "crawl" /\ near # far /\ bind[near] # Unbound /\ bind[far] # Unbound
    /\ holder[near] = bind[near].mac /\ bind[near].mac # bind[far].mac
    /\ links[near] # far
    /\ links' = [links EXCEPT ![near] = far]
    /\ UNCHANGED <<holder, bind, known, confirmed, stage>>

\* run_vlan_registry_scan() confirms the router's subnets.
VlanRegistry ==
    /\ stage = "crawl" /\ stage' = "noise"
    /\ known' \in {known, TRUE} /\ confirmed' = {}
    /\ UNCHANGED <<holder, bind, links>>

\* stage_purge_router_arp_cache_noise(): every MAC that has an ARP-cache binding
\* outside the known subnets and is no router is removed, with all its bindings.
Noise == {bind[a].mac : a \in {k \in Addrs \ LanAddrs : bind[k].src = ArpCache}} \ Routers

NoisePurge ==
    /\ stage = "noise" /\ stage' = "arp"
    /\ LET left == [a \in Addrs |->
               IF known /\ bind[a].mac \in Noise THEN Unbound ELSE bind[a]]
       IN  \E elapsed \in {0, 1} :       \* time passes until the next cycle
              bind' = [a \in Addrs |-> IF left[a].src = ArpCache /\ left[a].age < PurgeAge
                         THEN [left[a] EXCEPT !.age = @ + elapsed] ELSE left[a]]
    /\ UNCHANGED <<holder, links, known, confirmed>>

BindingsNext ==
    \/ \E a, k \in Addrs : Readdress(a, k) \/ SaveLink(a, k)
    \/ \E a \in Addrs : SelfReport(a)
    \/ ArpScrape \/ ArpScrapeRaises \/ VlanRegistry \/ NoisePurge

BindingsSpec == BindingsInit /\ [][BindingsNext]_bindingVars

-----------------------------------------------------------------------------
(* Properties *)

\* Types: rows of l3_bindings and infrastructure_links name known addresses.
BindingsTypeOK ==
    /\ holder \in [Addrs -> DevMacs \cup {NoOne}]
    /\ bind \in [Addrs -> [mac : DevMacs, src : {ArpCache, "SNMP_IP_TABLE"}, age : 0..PurgeAge]
                          \cup {Unbound}]
    /\ links \in [Addrs -> Addrs \cup {NoOne}]
    /\ known \in BOOLEAN /\ confirmed \subseteq Addrs
    /\ stage \in {"arp", "crawl", "noise"}

\* An address that some router confirmed in this cycle is bound when the scrape
\* ends, whatever the other routers flagged and however old its row was.
ConfirmedStaysBound ==
    \A a \in confirmed : stage = "crawl" => bind[a] # Unbound /\ bind[a].age = 0

\* A binding nobody confirms any more does not outlive a completed scrape, even
\* one that found nothing (ARP-1).
AgedOutRetired ==
    [][stage = "arp" /\ stage' = "crawl" =>
          \A a \in Addrs : bind'[a].src = ArpCache => bind'[a].age < PurgeAge]_bindingVars

Retired(a) == bind[a] # Unbound /\ bind'[a] = Unbound
Named(ls, a) == ls[a] # NoOne \/ \E k \in Addrs : ls[k] = a
Linked(ls) == {k \in Addrs : ls[k] # NoOne}

\* TOPO-2: when one address of a device is retired and the device keeps another,
\* no link names the retired address any more, and no link is lost.
LinkFollowsDevice ==
    [][stage = "arp" /\ stage' = "crawl" =>
          /\ Cardinality(Linked(links')) = Cardinality(Linked(links))
          /\ \A a \in Addrs :
              LET m == bind[a].mac
              IN  /\ Retired(a) /\ OfMac(bind', m) # {}
                  /\ \A k \in OfMac(bind, m) \ {a} : ~Retired(k) /\ bind'[k].mac = m
                  => ~Named(links', a)]_bindingVars

\* What ARP-1 says of the purge: it runs every cycle, regardless of what this
\* cycle's walk returned.  In every state some walk lets the stage complete.
ScrapeCanComplete ==
    stage = "arp" =>
        \E valid \in Walks, flagged \in SUBSET {a \in Addrs : bind[a].src = ArpCache} :
            ~ArpOutcome(valid, flagged).raised
===============================================================================
