------------------------------- MODULE Findings -------------------------------
(* The three detectors of weak SNMP settings and the findings they keep          *)
(* (snmp_default_community_detector.py, snmp_v3_available_detector.py): the      *)
(* passive check of the credentials in use, the active scan with "public", and   *)
(* the check for unused SNMPv3.  The loop runs one of them at a time; the        *)
(* credential cache changes under them.                                          *)
EXTENDS FiniteSets, Integers

CONSTANTS
    FindingIps,     \* addresses
    DeviceOf,       \* _canonical_mac(): the device that stands for an address
    MaxChanges      \* bound: changes of credentials, agents and reachability

ASSUME FindingsAssumption == IsFiniteSet(FindingIps) /\ MaxChanges \in Nat

FindingTypes == {"default", "secondary", "v3_unused"}
CacheValues == {"absent", "dead", "public", "custom", "v3"}
Devices == {DeviceOf[ip] : ip \in FindingIps}
NoPass == [type |-> "none", todo |-> {}]

VARIABLES
    cached,     \* CREDENTIAL_CACHE; "dead" is the ("UNRESPONSIVE", tick) mark
    capable,    \* V3_CAPABLE_IPS
    public,     \* agents that accept the community "public"
    reachable,  \* addresses that answer at all
    finding,    \* device_findings: never, active or resolved
    pass,       \* the detector under way and the addresses it has left
    news,       \* history: what a finding rests on changed since its last alert
    changes

findingVars == <<cached, capable, public, reachable, finding, pass, news, changes>>
observed == <<cached, capable, public, reachable>>

FindingsInit ==
    /\ cached = [ip \in FindingIps |-> "absent"] /\ capable = {}
    /\ public \in SUBSET FindingIps /\ reachable = FindingIps
    /\ finding = [t \in FindingTypes |-> [d \in Devices |-> "never"]]
    /\ pass = NoPass /\ news = [t \in FindingTypes |-> [d \in Devices |-> TRUE]] /\ changes = 0

-----------------------------------------------------------------------------
(* What the detectors see change *)

Changed(ip) ==
    /\ changes < MaxChanges /\ changes' = changes + 1
    /\ news' = [t \in FindingTypes |-> [news[t] EXCEPT ![DeviceOf[ip]] = TRUE]]
    /\ UNCHANGED <<finding, pass>>

\* A query or an upgrade of the adapter puts its result into the cache; the
\* engine of an agent that answers v3 has been seen before.
CredentialChanges(ip, value) ==
    /\ cached[ip] # value /\ value # "absent" /\ (value # "dead" => ip \in reachable)
    /\ (value = "public" => ip \in public)
    /\ cached' = [cached EXCEPT ![ip] = value]
    /\ capable' = IF value = "v3" THEN capable \cup {ip} ELSE capable
    /\ Changed(ip) /\ UNCHANGED <<public, reachable>>

\* An engine-ID probe of PLAN-1 is answered.
EngineSeen(ip) ==
    /\ ip \notin capable /\ capable' = capable \cup {ip}
    /\ Changed(ip) /\ UNCHANGED <<cached, public, reachable>>

\* The owner changes the communities of an agent.
AgentReconfigured(ip) ==
    /\ public' = IF ip \in public THEN public \ {ip} ELSE public \cup {ip}
    /\ Changed(ip) /\ UNCHANGED <<cached, capable, reachable>>

\* An address goes silent, is marked in the cache or not yet, or is back.
ReachabilityChanges(ip, marked) ==
    /\ reachable' = IF ip \in reachable THEN reachable \ {ip} ELSE reachable \cup {ip}
    /\ cached' = IF marked /\ ip \in reachable THEN [cached EXCEPT ![ip] = "dead"] ELSE cached
    /\ Changed(ip) /\ UNCHANGED <<capable, public>>

-----------------------------------------------------------------------------
(* The passes *)

\* What a detector goes through: the cache as it is, the addresses with a v3
\* engine, or every address whose credential is not a default one.  The mark of a
\* dead address is a tuple, which is not the string the scan leaves out.
Listed(t) ==
    CASE t = "default"   -> {ip \in FindingIps : cached[ip] # "absent"}
      [] t = "v3_unused" -> capable
      [] t = "secondary" -> {ip \in FindingIps : cached[ip] \in {"dead", "custom", "v3"}}

BeginDetector(t) ==
    /\ pass = NoPass
    /\ pass' = IF Listed(t) = {} THEN NoPass ELSE [type |-> t, todo |-> Listed(t)]
    /\ UNCHANGED <<observed, finding, news, changes>>

\* Whether a detector has anything to say of an address, and what: an address
\* without a community is passed over by the first, a dead one by the third.
Speaks(t, ip) ==
    CASE t = "default"   -> cached[ip] \in {"public", "custom"}
      [] t = "v3_unused" -> cached[ip] \in {"public", "custom", "v3"}
      [] t = "secondary" -> TRUE

Weak(t, ip) ==
    CASE t = "default"   -> cached[ip] = "public"
      [] t = "v3_unused" -> cached[ip] # "v3"
      [] t = "secondary" -> ip \in public \cap reachable

MutantFindingType(t) == IF t = "secondary" THEN "default" ELSE t
FindingType(t) == t

\* The row and its alert, in one commit; a finding that is confirmed again only
\* has its date renewed, and one that never was is not resolved.
MutantFindingRow(was, weak) == IF weak THEN "active" ELSE "resolved"
FindingRow(was, weak) ==
    IF weak THEN "active" ELSE IF was = "active" THEN "resolved" ELSE was

Inspect(ip) ==
    LET t == pass.type
        d == DeviceOf[ip]
        type == FindingType(t)
        now == FindingRow(finding[type][d], Weak(t, ip))
    IN /\ ip \in pass.todo
       /\ pass' = IF pass.todo = {ip} THEN NoPass ELSE [pass EXCEPT !.todo = @ \ {ip}]
       /\ IF Speaks(t, ip) /\ now # finding[type][d]
          THEN /\ finding' = [finding EXCEPT ![type][d] = now]
               /\ news' = [news EXCEPT ![type][d] = FALSE]
          ELSE UNCHANGED <<finding, news>>
       /\ UNCHANGED <<observed, changes>>

\* "database is locked", or the cache changed its size under the iteration: what
\* is not committed is rolled back, the rest waits for the next cycle.
DetectorRaises ==
    /\ pass # NoPass /\ pass' = NoPass
    /\ UNCHANGED <<observed, finding, news, changes>>

\* prune_alerting_history(): resolved findings go after a year, active ones never.
PruneFindings ==
    /\ finding' = [t \in FindingTypes |-> [d \in Devices |->
                     IF finding[t][d] = "resolved" THEN "never" ELSE finding[t][d]]]
    /\ finding' # finding
    /\ UNCHANGED <<observed, pass, news, changes>>

FindingsNext ==
    \/ \E ip \in FindingIps, v \in CacheValues : CredentialChanges(ip, v)
    \/ \E ip \in FindingIps : EngineSeen(ip) \/ AgentReconfigured(ip) \/ Inspect(ip)
    \/ \E ip \in FindingIps, marked \in BOOLEAN : ReachabilityChanges(ip, marked)
    \/ \E t \in FindingTypes : BeginDetector(t)
    \/ DetectorRaises \/ PruneFindings

FindingsSpec == FindingsInit /\ [][FindingsNext]_findingVars

-----------------------------------------------------------------------------
(* Properties *)

\* Types: the credential cache, the findings and the detector under way.
FindingsTypeOK ==
    /\ cached \in [FindingIps -> CacheValues]
    /\ capable \subseteq FindingIps /\ public \subseteq FindingIps /\ reachable \subseteq FindingIps
    /\ finding \in [FindingTypes -> [Devices -> {"never", "active", "resolved"}]]
    /\ pass.type \in FindingTypes \cup {"none"} /\ pass.todo \subseteq FindingIps
    /\ news \in [FindingTypes -> [Devices -> BOOLEAN]] /\ changes \in 0..MaxChanges

AddressesOf(d) == {ip \in FindingIps : DeviceOf[ip] = d}
Alerted(t, d) == finding'[t][d] # finding[t][d] /\ finding'[t][d] # "never"

\* A device with one address raises no second alert of a kind before something
\* about it has changed: the detectors do not resolve each other's findings, and
\* the inbox reads as events, not as a heartbeat.
AlertsNeedNews ==
    [][\A t \in FindingTypes, d \in Devices :
          Alerted(t, d) /\ Cardinality(AddressesOf(d)) = 1 => news[t][d]]_findingVars
===============================================================================
