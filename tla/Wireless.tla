------------------------------- MODULE Wireless -------------------------------
(* Access points: those a fingerprint confirms, and the one per segment that    *)
(* run_wap_inference() (inference_engine.py) makes up from phones that name     *)
(* themselves, until the segment stops qualifying for a day.  The operator may   *)
(* verify, promote or remove the made-up node; run_orphan_node_sweep() deletes   *)
(* a confirmed one of which nothing has been left for half a day.  Ages are left *)
(* out: what a cycle does not refresh may have reached its limit by then.        *)
EXTENDS Integers, FiniteSets

CONSTANTS
    Segments,       \* VLANs or subnets
    Phones,         \* devices with a mobile host name
    Branded         \* those whose OUI gives the vendor away

ASSUME WirelessAssumption == Branded \subseteq Phones /\ IsFiniteSet(Phones)

VARIABLES
    carried,        \* the segment a phone has an address in, or "away"
    aps,            \* the segment's confirmed access point: none, bound, orphaned
    guess           \* the node inferred for a segment: device_type, weld_confidence

wirelessVars == <<carried, aps, guess>>

NoGuess == [type |-> "none", conf |-> 0]
Unverified == "Access Point (Unverified)"

WirelessInit ==
    /\ carried = [p \in Phones |-> "away"]
    /\ aps = [s \in Segments |-> "none"]
    /\ guess = [s \in Segments |-> NoGuess]

\* A phone comes, goes or roams.
Roam(p, s) ==
    /\ carried' = [carried EXCEPT ![p] = s] /\ carried' # carried
    /\ UNCHANGED <<aps, guess>>

\* A fingerprint confirms an access point; its last address and its last
\* location age out; it comes back.
ApSeen(s, seen) ==
    /\ aps' = [aps EXCEPT ![s] = seen] /\ aps' # aps
    /\ seen = "orphaned" => aps[s] = "bound"
    /\ UNCHANGED <<carried, guess>>

On(s) == {p \in Phones : carried[p] = s}
Qualifying == {s \in Segments : On(s) # {} /\ aps[s] # "bound"}

\* 15, 10 for each further phone, 10 for a vendor that fits, 45 at most.
Confidence(s) ==
    LET sum == 15 + 10 * (Cardinality(On(s)) - 1)
                  + (IF On(s) \cap Branded # {} THEN 10 ELSE 0)
    IN  IF sum > 45 THEN 45 ELSE sum

\* run_wap_inference(): only a node that is still of the unverified type is
\* refreshed or retired.
InferWaps(retired) ==
    /\ retired \cap Qualifying = {}
    /\ guess' = [s \in Segments |->
           CASE s \in Qualifying /\ guess[s].type \in {"none", Unverified}
                    -> [type |-> Unverified, conf |-> Confidence(s)]
             [] s \in retired /\ guess[s].type = Unverified -> NoGuess
             [] OTHER -> guess[s]]
    /\ UNCHANGED <<carried, aps>>

\* run_orphan_node_sweep(): inferred nodes are virtual and not its concern.
SweepOrphans(old) ==
    /\ old # {} /\ old \subseteq {s \in Segments : aps[s] = "orphaned"}
    /\ aps' = [s \in Segments |-> IF s \in old THEN "none" ELSE aps[s]]
    /\ UNCHANGED <<carried, guess>>

\* /api/node/verify, /api/promote_node and /api/node/remove
VerifyWap(s) ==
    /\ guess[s] # NoGuess
    /\ guess' = [guess EXCEPT ![s].conf = 100]
    /\ UNCHANGED <<carried, aps>>
PromoteWap(s) ==
    /\ guess[s] # NoGuess
    /\ guess' = [guess EXCEPT ![s] = [type |-> "Access Point", conf |-> 100]]
    /\ UNCHANGED <<carried, aps>>
RemoveWap(s) ==
    /\ guess[s] # NoGuess
    /\ guess' = [guess EXCEPT ![s] = [type |-> "False Positive", conf |-> -1]]
    /\ UNCHANGED <<carried, aps>>

WirelessNext ==
    \/ \E p \in Phones, s \in Segments \cup {"away"} : Roam(p, s)
    \/ \E s \in Segments, seen \in {"bound", "orphaned"} : ApSeen(s, seen)
    \/ \E retired \in SUBSET Segments : InferWaps(retired)
    \/ \E old \in SUBSET Segments : SweepOrphans(old)
    \/ \E s \in Segments : VerifyWap(s) \/ PromoteWap(s) \/ RemoveWap(s)

WirelessSpec == WirelessInit /\ [][WirelessNext]_wirelessVars

-----------------------------------------------------------------------------
\* Types: an inference gives weak evidence, the operator full or none.
WirelessTypeOK ==
    /\ carried \in [Phones -> Segments \cup {"away"}]
    /\ aps \in [Segments -> {"none", "bound", "orphaned"}]
    /\ \A s \in Segments :
         guess[s].conf \in CASE guess[s].type = "none" -> {0}
                             [] guess[s].type = Unverified -> 15..45 \cup {100}
                             [] guess[s].type = "Access Point" -> {100}
                             [] guess[s].type = "False Positive" -> {-1, 100}

\* What inference_engine.py says of a node the operator verified: the inference
\* "never matches it again".  Only the operator takes the confidence of 100 away.
VerifiedIsLeftAlone ==
    [][\A s \in Segments : guess[s].conf = 100 /\ guess'[s].conf # 100
           => guess'[s].type = "False Positive"]_wirelessVars
=============================================================================
