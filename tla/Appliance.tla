----------------------------- MODULE Appliance ---------------------------------
(* Boot, restart and what must survive them: the TLS pair, the device identity  *)
(* key and the interface the server binds. One process serves in both installs: *)
(* the native service, which RESTART rebuilds in place, and netlanvas_api, which *)
(* waits for the address netlanvas_core publishes.                               *)
EXTENDS Naturals

CONSTANTS
    HostAddrs,      \* addresses a browser may be pointed at
    OwnAddrs,       \* addresses of the container's own bridge network
    MaxIssued,      \* bound on TLS pairs and on identity keys
    MaxFalls,       \* bound on crashes
    MaxMoves        \* bound on changes of address, of age and of the toggle

ASSUME ApplianceBounds ==
    /\ HostAddrs # {} /\ OwnAddrs # {} /\ HostAddrs \cap OwnAddrs = {}
    /\ MaxIssued \in Nat \ (0..2) /\ MaxFalls \in Nat /\ MaxMoves \in Nat

VARIABLES
    native,         \* NETLANVAS_MODE
    stage,          \* how far the serving process is
    tlsKey,         \* the key file of the TLS pair, 0 when there is none
    cert,           \* the certificate file: the pair it is of, its SANs, near expiry
    seen,           \* the external addresses this boot was given
    lan,            \* the host's address now
    own,            \* the container's own address now
    published,      \* HOST_TLS_SANS
    device,         \* identity key: in its file, and in config.db's device_identity
    choice,         \* NATIVE_REMOTE_ACCESS_ENABLED
    bound,          \* the server listens on every interface
    fellBack,       \* this boot could not read the setting: localhost only
    restart,        \* ENGINE_COMMAND is RESTART (native: in the process's own store)
    falls, moves

applianceVars ==
    <<native, stage, tlsKey, cert, seen, lan, own, published, device, choice,
      bound, fellBack, restart, falls, moves>>

Stages ==
    {"down", "booting", "certifying", "issuing", "identifying", "serving", "stopping"}

NoCert == [pair |-> 0, sans |-> {}, due |-> FALSE]
Torn == MaxIssued + 1       \* a key file whose write was cut: it does not load

ApplianceInit ==
    /\ native \in BOOLEAN
    /\ stage = "down" /\ tlsKey = 0 /\ cert = NoCert /\ seen = {}
    /\ lan \in HostAddrs /\ own \in OwnAddrs /\ published = {}
    /\ device = [file |-> 0, row |-> 0]
    /\ choice = FALSE /\ bound = FALSE /\ fellBack = FALSE /\ restart = FALSE
    /\ falls = 0 /\ moves = 0

Env == <<native, lan, published, falls, moves>>
Files == <<tlsKey, cert, device>>
Bind == <<bound, fellBack>>

\* The process starts; a container recreated gets any address of its network.
Start ==
    /\ stage = "down"
    /\ stage' = "booting"
    /\ own' \in OwnAddrs
    /\ UNCHANGED <<Env, Files, seen, choice, Bind, restart>>

\* The native boot asks the routing table, the container waits up to 15 s for
\* the published address; either may come back with nothing.
AddressesGiven == IF native THEN {lan} ELSE published

ReadAddresses ==
    /\ stage = "booting"
    /\ seen' \in {{}, AddressesGiven}
    /\ fellBack' \in {FALSE, native}
    /\ bound' = (native => choice /\ ~fellBack')
    /\ stage' = "certifying"
    /\ UNCHANGED <<Env, Files, own, choice, restart>>

\* CERT-1: only what came from outside counts, and a superset is good enough.
Self == IF native THEN lan ELSE own
MutantDrifted == ~(seen \cup {Self} \subseteq cert.sans)
Drifted == ~(seen \subseteq cert.sans)

\* ensure_certificate(): either file missing, near expiry, or addresses not covered.
MustIssue == tlsKey = 0 \/ cert = NoCert \/ cert.due \/ Drifted

KeepCertificate ==
    /\ stage = "certifying" /\ ~MustIssue
    /\ stage' = "identifying"
    /\ UNCHANGED <<Env, Files, seen, own, choice, Bind, restart>>

\* _generate_new_cert() writes the key, then the certificate.
IssueKey ==
    /\ stage = "certifying" /\ MustIssue /\ tlsKey < MaxIssued
    /\ tlsKey' = tlsKey + 1
    /\ stage' = "issuing"
    /\ UNCHANGED <<Env, cert, device, seen, own, choice, Bind, restart>>

DesiredSans == seen \cup {Self}

IssueCert ==
    /\ stage = "issuing"
    /\ cert' = [pair |-> tlsKey, sans |-> DesiredSans, due |-> FALSE]
    /\ stage' = "identifying"
    /\ UNCHANGED <<Env, tlsKey, device, seen, own, choice, Bind, restart>>

\* ensure_device_identity(): a key that loads is kept, and recorded again; the
\* boot goes on when config.db refuses. uvicorn takes only a pair that matches:
\* the native server task then raises and the process ends.
Readable == device.file \in 1..MaxIssued
NewKeypair == CHOOSE n \in 1..MaxIssued : n \notin {device.file, device.row}

Identify ==
    /\ stage = "identifying"
    /\ LET k == IF Readable THEN device.file ELSE NewKeypair
       IN \E r \in {device.row, k} : device' = [file |-> k, row |-> r]
    /\ IF native /\ cert.pair # tlsKey
       THEN stage' = "down" /\ restart' = FALSE
       ELSE stage' = "serving" /\ UNCHANGED restart
    /\ UNCHANGED <<Env, tlsKey, cert, seen, own, choice, Bind>>

\* Settings: the toggle is written, then RESTART is asked for; the Restart
\* button only asks. Requests are answered until the server task has ended.
SetRemoteAccess ==
    /\ native /\ stage \in {"serving", "stopping"} /\ moves < MaxMoves
    /\ moves' = moves + 1
    /\ choice' \in BOOLEAN
    /\ restart' = TRUE
    /\ UNCHANGED <<native, lan, published, falls, Files, stage, seen, own, Bind>>

RestartEngine ==
    /\ native /\ stage \in {"serving", "stopping"}
    /\ restart' = TRUE
    /\ UNCHANGED <<Env, Files, stage, seen, own, choice, Bind>>

\* The top of a tick takes the command and ends the loop: the wait returns and
\* the server task is cancelled.
MutantTakeRestart ==
    /\ native /\ stage = "serving" /\ restart
    /\ restart' = FALSE
    /\ UNCHANGED <<Env, Files, stage, seen, own, choice, Bind>>

TakeRestart ==
    /\ native /\ stage = "serving" /\ restart
    /\ restart' = FALSE
    /\ stage' = "stopping"
    /\ UNCHANGED <<Env, Files, seen, own, choice, Bind>>

\* Both tasks have ended: the boot block runs again in the same process.
Rebuild ==
    /\ stage = "stopping"
    /\ stage' = "booting"
    /\ UNCHANGED <<Env, Files, seen, own, choice, Bind, restart>>

\* A crash, or the five seconds of a wedged shutdown: the in-process store goes.
\* One in the middle of the identity write leaves a file that does not load.
Fall ==
    /\ stage # "down" /\ falls < MaxFalls
    /\ falls' = falls + 1
    /\ stage' = "down" /\ restart' = FALSE
    /\ device' \in {device} \cup
         (IF stage = "identifying" /\ ~Readable
          THEN {[device EXCEPT !.file = Torn]} ELSE {})
    /\ UNCHANGED <<native, lan, published, moves, tlsKey, cert, seen, own, choice, Bind>>

\* netlanvas_core publishes the host's address when its engine starts.
PublishHostIdentity ==
    /\ ~native
    /\ published' = {lan}
    /\ UNCHANGED <<native, lan, falls, moves, Files, stage, seen, own, choice, Bind, restart>>

\* The outside world: the host is renumbered, the certificate nears its expiry.
WorldMoves ==
    /\ moves < MaxMoves
    /\ moves' = moves + 1
    /\ \/ lan' \in HostAddrs \ {lan} /\ UNCHANGED cert
       \/ /\ cert # NoCert /\ ~cert.due
          /\ cert' = [cert EXCEPT !.due = TRUE]
          /\ UNCHANGED lan
    /\ UNCHANGED <<native, published, falls, tlsKey, device, stage, seen, own,
                   choice, Bind, restart>>

ApplianceNext ==
    \/ Start \/ ReadAddresses \/ KeepCertificate \/ IssueKey \/ IssueCert
    \/ Identify \/ SetRemoteAccess \/ RestartEngine \/ TakeRestart \/ Rebuild \/ Fall
    \/ PublishHostIdentity \/ WorldMoves

ApplianceSpec == ApplianceInit /\ [][ApplianceNext]_applianceVars

--------------------------------------------------------------------------------
\* Types: pairs and identity keys are numbered as they are generated.
ApplianceTypeOK ==
    /\ native \in BOOLEAN /\ stage \in Stages
    /\ tlsKey \in 0..MaxIssued
    /\ cert \in [pair : 0..MaxIssued, sans : SUBSET (HostAddrs \cup OwnAddrs),
                 due : BOOLEAN]
    /\ seen \subseteq HostAddrs /\ published \subseteq HostAddrs
    /\ lan \in HostAddrs /\ own \in OwnAddrs
    /\ device \in [file : 0..Torn, row : 0..MaxIssued]
    /\ choice \in BOOLEAN /\ bound \in BOOLEAN /\ fellBack \in BOOLEAN /\ restart \in BOOLEAN
    /\ falls \in 0..MaxFalls /\ moves \in 0..MaxMoves

\* What others have come to trust survives every restart, crash and missed
\* publication. A certificate that is not near its expiry gives way only to one
\* that covers an address of the host the old one lacked, never because the
\* container's own address changed or because no address was published in time;
\* and an identity key that loads is never replaced.
TrustKept ==
    [][/\ (cert'.pair # cert.pair /\ cert # NoCert /\ ~cert.due)
            => (cert'.sans \ cert.sans) \cap HostAddrs # {}
       /\ Readable => device'.file = device.file]_applianceVars

\* A native server that is up listens where the toggle says, or a RESTART is
\* still pending that will make it so: no order of toggles, restarts and crashes
\* leaves it on the old interface with nothing to move it. A boot that could not
\* read the toggle errs on the side of localhost.
BoundAsChosen ==
    native /\ stage = "serving" => bound = choice \/ restart \/ (fellBack /\ ~bound)
================================================================================
