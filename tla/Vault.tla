------------------------------- MODULE Vault ----------------------------------
(* The credential vault: netlanvas_core and netlanvas_api share the key file and *)
(* config.db; each finds or creates the key on first use and keeps it in memory. *)
(* A password at rest is the sequence of keys it was encrypted under, the last   *)
(* one outermost: << >> is the plaintext row of an install older than the vault. *)
EXTENDS Naturals, Sequences

CONSTANT MaxVaultKeys, MaxVaultCrashes
ASSUME VaultBounds == MaxVaultKeys \in Nat /\ MaxVaultCrashes \in Nat

VARIABLES
    keyFile,        \* the key in secret.key, 0 when there is none
    fernet,         \* _fernet of each process, 0 before its first use
    made,           \* the key a process has just generated and not installed
    cleared,        \* processes that looked again and still found no file
    passwords,      \* config.db: the passwords at rest, at most one here
    vaultKeys,      \* keys generated so far, bounded by MaxVaultKeys
    vaultCrashes,   \* crashes so far, bounded by MaxVaultCrashes
    overtaken       \* two processes had both looked before either installed

vaultVars ==
    <<keyFile, fernet, made, cleared, passwords, vaultKeys, vaultCrashes, overtaken>>

VaultUsers == {"core", "api"}

VaultInit ==
    /\ keyFile = 0
    /\ fernet = [p \in VaultUsers |-> 0]
    /\ made = [p \in VaultUsers |-> 0]
    /\ cleared = {}
    /\ passwords \in {{}, {<<>>}}
    /\ vaultKeys = 0 /\ vaultCrashes = 0 /\ overtaken = FALSE

KeyUnknown(p) == fernet[p] = 0 /\ made[p] = 0

Adopt(p) == fernet' = [fernet EXCEPT ![p] = keyFile]

FindKey(p) ==
    /\ KeyUnknown(p) /\ keyFile # 0
    /\ Adopt(p)
    /\ UNCHANGED <<keyFile, made, cleared, passwords, vaultKeys, vaultCrashes, overtaken>>

GenerateKey(p) ==
    /\ KeyUnknown(p) /\ keyFile = 0 /\ vaultKeys < MaxVaultKeys
    /\ vaultKeys' = vaultKeys + 1
    /\ made' = [made EXCEPT ![p] = vaultKeys']
    /\ UNCHANGED <<keyFile, fernet, cleared, passwords, vaultCrashes, overtaken>>

\* The second look: the file of a process that was faster wins.
MutantLookAgain(p) ==
    /\ made[p] # 0 /\ p \notin cleared
    /\ cleared' = cleared \cup {p}
    /\ UNCHANGED <<keyFile, fernet, made, passwords, vaultKeys, vaultCrashes, overtaken>>

LookAgain(p) ==
    /\ made[p] # 0 /\ p \notin cleared
    /\ \/ /\ keyFile # 0
          /\ Adopt(p)
          /\ made' = [made EXCEPT ![p] = 0]
          /\ UNCHANGED cleared
       \/ /\ keyFile = 0
          /\ cleared' = cleared \cup {p}
          /\ UNCHANGED <<fernet, made>>
    /\ UNCHANGED <<keyFile, passwords, vaultKeys, vaultCrashes, overtaken>>

\* os.replace() takes the place of whatever file is there by now.
InstallKey(p) ==
    /\ p \in cleared
    /\ keyFile' = made[p]
    /\ fernet' = [fernet EXCEPT ![p] = made[p]]
    /\ made' = [made EXCEPT ![p] = 0]
    /\ cleared' = cleared \ {p}
    /\ overtaken' = (overtaken \/ cleared # {p})
    /\ UNCHANGED <<passwords, vaultKeys, vaultCrashes>>

\* add_snmp_v3_identity(): encrypted before the INSERT, so no row is older than
\* the key it is under.
AddIdentity ==
    /\ fernet["api"] # 0 /\ passwords = {}
    /\ passwords' = {<<fernet["api"]>>}
    /\ UNCHANGED <<keyFile, fernet, made, cleared, vaultKeys, vaultCrashes, overtaken>>

DeleteIdentity ==
    /\ passwords # {}
    /\ passwords' = {}
    /\ UNCHANGED <<keyFile, fernet, made, cleared, vaultKeys, vaultCrashes, overtaken>>

\* is_encrypted(): a token of another key looks like a plaintext.
IsEncrypted(w, k) == w # <<>> /\ w[Len(w)] = k

\* get_configured_credentials(): what does not decrypt is taken for a legacy
\* plaintext, and encrypted in place.
SelfHeal ==
    /\ fernet["core"] # 0
    /\ \E w \in passwords :
         /\ ~IsEncrypted(w, fernet["core"])
         /\ passwords' = {Append(w, fernet["core"])}
    /\ UNCHANGED <<keyFile, fernet, made, cleared, vaultKeys, vaultCrashes, overtaken>>

\* A process ends at any step; its temporary file is nobody's key.
VaultCrash(p) ==
    /\ vaultCrashes < MaxVaultCrashes
    /\ fernet[p] # 0 \/ made[p] # 0
    /\ vaultCrashes' = vaultCrashes + 1
    /\ fernet' = [fernet EXCEPT ![p] = 0]
    /\ made' = [made EXCEPT ![p] = 0]
    /\ cleared' = cleared \ {p}
    /\ UNCHANGED <<keyFile, passwords, vaultKeys, overtaken>>

VaultNext ==
    \/ AddIdentity \/ DeleteIdentity \/ SelfHeal
    \/ \E p \in VaultUsers :
         \/ FindKey(p) \/ GenerateKey(p) \/ LookAgain(p)
         \/ InstallKey(p) \/ VaultCrash(p)

VaultSpec == VaultInit /\ [][VaultNext]_vaultVars

--------------------------------------------------------------------------------
\* Types: keys are numbered as they are generated.
VaultTypeOK ==
    /\ keyFile \in 0..MaxVaultKeys
    /\ fernet \in [VaultUsers -> 0..MaxVaultKeys]
    /\ made \in [VaultUsers -> 0..MaxVaultKeys]
    /\ cleared \subseteq {p \in VaultUsers : made[p] # 0}
    /\ \A w \in passwords : w \in Seq(1..MaxVaultKeys)
    /\ vaultKeys \in 0..MaxVaultKeys /\ vaultCrashes \in 0..MaxVaultCrashes
    /\ overtaken \in BOOLEAN

\* Whatever the order in which the processes start, crash and first need the
\* key, every password at rest is the plaintext of an old install or under the
\* one key in the file, exactly once: a restart of either process reads it back.
\* The one exception is named: the second look and os.replace() are two steps,
\* and two processes between them install one key each.
SecretsReadable ==
    overtaken \/ \A w \in passwords : w \in {<<>>, <<keyFile>>}
================================================================================
