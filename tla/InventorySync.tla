---------------------------- MODULE InventorySync ----------------------------
(* Multi-Site Inventory Sync between two appliances of one account              *)
(* (security/sync_client.py and the sync routes and loops of server.py): the     *)
(* shared key and its canary, debounced pushes, pulls with a cursor, and the     *)
(* field-level merge into verified_devices.  The inventory is one device with    *)
(* one human field.  The API process of a site is an event loop: what happens    *)
(* between two awaits is one step; pushes, downloads and merges run in threads.  *)
EXTENDS Integers, FiniteSets

CONSTANTS
    Passes,      \* passphrases an owner may enter
    Writers,     \* bound: the sites whose edits and pushes are followed
    Readers,     \* bound: the sites whose pulls are followed
    MaxEdits,    \* bound: human edits and deletions in a behaviour
    MaxVersion,  \* bound: where the time stamps of a site's blobs saturate
    MaxFaults    \* bound: failed requests, damaged blobs, interrupted activations

Sites == {1, 2}

ASSUME SyncAssumption ==
    /\ Writers \subseteq Sites /\ Readers \subseteq Sites
    /\ MaxEdits \in Nat /\ MaxVersion \in Nat \ {0} /\ MaxFaults \in Nat

Peer(i) == 3 - i
NoKey == "none"
NoRow == -1                 \* the device is not in verified_devices
Empty == 0                  \* its field is NULL or empty; a site writes its number
Rows == {NoRow, Empty} \cup Sites
Pullers == {"enable", "periodic"}
NoBlob == [version |-> 0, row |-> NoRow]

VARIABLES
    canary,     \* account_sync_keys.key_check: the passphrase that made it
    key,        \* SYNC_KEY_WRAPPED, per site: the passphrase it was derived from
    enabling,   \* the activation under way, per site
    row,        \* verified_devices, per site
    blobs,      \* the blob each site has on the server
    cursor,     \* SYNC_PULL_CURSOR, per site: the stamp of the peer's blob
    pending,    \* SYNC_PENDING_PUSH
    debounce,   \* a push waits for SYNC_PUSH_DEBOUNCE_SECONDS of quiet
    pushing,    \* snapshots the push threads of a site have under way
    pull,       \* the two pulls that can be under way at a site
    merged,     \* history: the newest blob of the peer merged into verified_devices
    edits, faults

shared == <<canary, blobs>>
pushes == <<pending, debounce, pushing>>
pulls == <<cursor, pull, merged>>
syncVars == <<canary, key, enabling, row, blobs, pushes, pulls, edits, faults>>

Idle == [at |-> "idle"]
Running(i) == enabling[i] = Idle        \* the derivation blocks the event loop

SyncInit ==
    /\ canary = NoKey /\ key = [i \in Sites |-> NoKey] /\ enabling = [i \in Sites |-> Idle]
    /\ row = [i \in Sites |-> IF i = 1 THEN 1 ELSE NoRow]
    /\ blobs = [i \in Sites |-> NoBlob] /\ cursor = [i \in Sites |-> 0]
    /\ pending = [i \in Sites |-> FALSE] /\ debounce = [i \in Sites |-> FALSE]
    /\ pushing = [i \in Sites |-> {}] /\ pull = [i \in Sites |-> [p \in Pullers |-> Idle]]
    /\ merged = [i \in Sites |-> 0]
    /\ edits = 0 /\ faults = 0

-----------------------------------------------------------------------------
(* The key *)

\* POST /api/sync/enable on a site without a key: the salt and the canary.
EnableAsks(i, pass) ==
    /\ Running(i) /\ key[i] = NoKey
    /\ enabling' = [enabling EXCEPT ![i] = [at |-> "verify", pass |-> pass, seen |-> canary]]
    /\ UNCHANGED <<shared, key, row, pushes, pulls, edits, faults>>

\* There is no canary yet: offer one; the server keeps the first it is offered.
EnableClaims(i) ==
    /\ enabling[i] # Idle /\ enabling[i].seen = NoKey
    /\ canary' = IF canary = NoKey THEN enabling[i].pass ELSE canary
    /\ enabling' = [enabling EXCEPT ![i].seen = canary']
    /\ UNCHANGED <<key, row, blobs, pushes, pulls, edits, faults>>

MutantVerified(activation) == activation.seen # NoKey
Verified(activation) == activation.seen = activation.pass

\* The canary decrypts: the key is cached, and the first pull is awaited.  The
\* other tasks of the loop run from here on.
PullBegins(i, p) ==
    pull' = IF i \in Readers
            THEN [pull EXCEPT ![i][p] = [at |-> "asked", cursor |-> cursor[i]]] ELSE pull

EnableCaches(i) ==
    /\ enabling[i] # Idle /\ Verified(enabling[i])
    /\ pull[i]["enable"] = Idle
    /\ key' = [key EXCEPT ![i] = enabling[i].pass]
    /\ enabling' = [enabling EXCEPT ![i] = Idle]
    /\ PullBegins(i, "enable")
    /\ UNCHANGED <<shared, row, pushes, cursor, merged, edits, faults>>

\* A wrong passphrase, or a request that fails: nothing is cached.
EnableRefused(i) ==
    /\ enabling[i] # Idle /\ enabling[i].seen # NoKey /\ ~Verified(enabling[i])
    /\ enabling' = [enabling EXCEPT ![i] = Idle]
    /\ UNCHANGED <<shared, key, row, pushes, pulls, edits, faults>>

EnableFails(i) ==
    /\ enabling[i] # Idle /\ faults < MaxFaults
    /\ faults' = faults + 1
    /\ enabling' = [enabling EXCEPT ![i] = Idle]
    /\ UNCHANGED <<shared, key, row, pushes, pulls, edits>>

-----------------------------------------------------------------------------
(* Pushes *)

\* trigger_sync_push_debounced(): the task that waits is replaced; one whose push
\* is under way is cancelled too, but its thread runs on.
Trigger(i) == debounce' = [debounce EXCEPT ![i] = TRUE]

\* A human names the device through the API.
Edit(i) ==
    /\ Running(i) /\ edits < MaxEdits /\ edits' = edits + 1
    /\ row' = [row EXCEPT ![i] = i]
    /\ Trigger(i)
    /\ UNCHANGED <<shared, key, enabling, pending, pushing, pulls, faults>>

\* ... or removes it from the inventory, which triggers no push.
Delete(i) ==
    /\ Running(i) /\ row[i] # NoRow /\ edits < MaxEdits /\ edits' = edits + 1
    /\ row' = [row EXCEPT ![i] = NoRow]
    /\ UNCHANGED <<shared, key, enabling, pushes, pulls, faults>>

MutantMarked(i) == row[i] = NoRow
Marked(i) == TRUE

\* A deep scan of the poller, another process: the device is (back) in the
\* inventory and a push is asked for through config.db.
SnapshotSync(i) ==
    /\ row' = [row EXCEPT ![i] = IF @ = NoRow THEN Empty ELSE @]
    /\ pending' = [pending EXCEPT ![i] = @ \/ Marked(i)]
    /\ UNCHANGED <<shared, key, enabling, debounce, pushing, pulls, edits, faults>>

\* _sync_pending_push_loop(): the flag is cleared before the push is tried.
PendingPush(i) ==
    /\ Running(i) /\ pending[i]
    /\ pending' = [pending EXCEPT ![i] = FALSE]
    /\ Trigger(i)
    /\ UNCHANGED <<shared, key, enabling, row, pushing, pulls, edits, faults>>

\* _do_sync_push(): nothing without a key; else what the inventory holds now.
PushBegins(i) ==
    /\ Running(i) /\ debounce[i]
    /\ debounce' = [debounce EXCEPT ![i] = FALSE]
    /\ pushing' = IF key[i] = NoKey THEN pushing
                  ELSE [pushing EXCEPT ![i] = @ \cup {row[i]}]
    /\ UNCHANGED <<shared, key, enabling, row, pending, pulls, edits, faults>>

PushArrives(i, r) ==
    /\ r \in pushing[i]
    /\ pushing' = [pushing EXCEPT ![i] = @ \ {r}]
    /\ blobs' = [blobs EXCEPT ![i] =
           [version |-> IF @.version < MaxVersion THEN @.version + 1 ELSE @.version, row |-> r]]
    /\ UNCHANGED <<canary, key, enabling, row, pending, debounce, pulls, edits, faults>>

\* No answer: nothing tries again before the next trigger.
PushFails(i, r) ==
    /\ r \in pushing[i] /\ faults < MaxFaults /\ faults' = faults + 1
    /\ pushing' = [pushing EXCEPT ![i] = @ \ {r}]
    /\ UNCHANGED <<shared, key, enabling, row, pending, debounce, pulls, edits>>

-----------------------------------------------------------------------------
(* Pulls *)

\* _do_sync_pull() of the periodic loop, or of an activation with a cached key.
PullAsks(i, p) ==
    /\ Running(i) /\ key[i] # NoKey /\ pull[i][p] = Idle
    /\ PullBegins(i, p)
    /\ UNCHANGED <<shared, key, enabling, row, pushes, cursor, merged, edits, faults>>

\* pull.php returns the peer's blob when it is newer than the cursor that was
\* sent; pull_and_decrypt() skips one that does not decrypt.
PullAnswered(i, p) ==
    /\ pull[i][p].at = "asked"
    /\ LET b == blobs[Peer(i)]
           newer == b.version > pull[i][p].cursor
       IN pull' = [pull EXCEPT ![i][p] = [at |-> "got", cursor |-> @.cursor,
                       blob |-> IF newer /\ key[Peer(i)] = key[i] THEN b ELSE NoBlob]]
    /\ UNCHANGED <<shared, key, enabling, row, pushes, cursor, merged, edits, faults>>

PullDamaged(i, p) ==
    /\ pull[i][p].at = "got" /\ pull[i][p].blob # NoBlob /\ faults < MaxFaults
    /\ faults' = faults + 1
    /\ pull' = [pull EXCEPT ![i][p].blob = NoBlob]
    /\ UNCHANGED <<shared, key, enabling, row, pushes, cursor, merged, edits>>

PullFails(i, p) ==
    /\ pull[i][p].at = "asked" /\ faults < MaxFaults
    /\ faults' = faults + 1
    /\ pull' = [pull EXCEPT ![i][p] = Idle]
    /\ UNCHANGED <<shared, key, enabling, row, pushes, cursor, merged, edits>>

\* _merge_pulled_devices() reads the local row ...
MergeReads(i, p) ==
    /\ pull[i][p].at = "got"
    /\ pull' = [pull EXCEPT ![i][p] =
           [at |-> "read", cursor |-> @.cursor, blob |-> @.blob, saw |-> row[i]]]
    /\ UNCHANGED <<shared, key, enabling, row, pushes, cursor, merged, edits, faults>>

\* ... and writes what it lacks: the row, or a field that was empty when read.
Merge(saw, remote, now) ==
    IF remote # NoRow /\ saw = NoRow THEN remote
    ELSE IF remote \in Sites /\ saw = Empty /\ now # NoRow THEN remote ELSE now

MergeWrites(i, p) ==
    LET b == pull[i][p].blob IN
    /\ pull[i][p].at = "read" /\ ~(pull[i][p].saw = NoRow /\ row[i] # NoRow /\ b.row # NoRow)
    /\ row' = [row EXCEPT ![i] = Merge(pull[i][p].saw, b.row, @)]
    /\ pull' = [pull EXCEPT ![i][p] = [at |-> "merged", cursor |-> @.cursor, blob |-> b]]
    /\ merged' = [merged EXCEPT ![i] = IF b.version > @ THEN b.version ELSE @]
    /\ UNCHANGED <<shared, key, enabling, pushes, cursor, edits, faults>>

\* The row appeared since it was read: the INSERT fails and the pull ends.
MergeRaises(i, p) ==
    /\ pull[i][p].at = "read" /\ pull[i][p].saw = NoRow
    /\ row[i] # NoRow /\ pull[i][p].blob.row # NoRow
    /\ pull' = [pull EXCEPT ![i][p] = Idle]
    /\ UNCHANGED <<shared, key, enabling, row, pushes, cursor, merged, edits, faults>>

\* The cursor as it was read at the start, with the stamp of what was merged.
MutantAdvanced(pulled) == pulled.cursor + 1
Advanced(pulled) == IF pulled.blob = NoBlob THEN pulled.cursor ELSE pulled.blob.version

PullEnds(i, p) ==
    /\ Running(i) /\ pull[i][p].at = "merged"
    /\ cursor' = [cursor EXCEPT ![i] = Advanced(pull[i][p])]
    /\ pull' = [pull EXCEPT ![i][p] = Idle]
    /\ UNCHANGED <<shared, key, enabling, row, pushes, merged, edits, faults>>

-----------------------------------------------------------------------------
Activation(i) ==
    \/ \E pass \in Passes : EnableAsks(i, pass)
    \/ EnableClaims(i) \/ EnableCaches(i) \/ EnableRefused(i) \/ EnableFails(i)

Pulling(i, p) ==
    \/ PullAsks(i, p) \/ PullAnswered(i, p) \/ PullDamaged(i, p) \/ PullFails(i, p)
    \/ MergeReads(i, p) \/ MergeWrites(i, p) \/ MergeRaises(i, p) \/ PullEnds(i, p)

Pushing(i) ==
    \/ Edit(i) \/ Delete(i) \/ SnapshotSync(i) \/ PendingPush(i) \/ PushBegins(i)
    \/ \E r \in Rows : PushArrives(i, r) \/ PushFails(i, r)

SyncNext ==
    \/ \E i \in Sites : Activation(i)
    \/ \E i \in Writers : Pushing(i)
    \/ \E i \in Readers, p \in Pullers : Pulling(i, p)

\* Deep scans recur, the loops of the API go on, requests end (they have a time
\* limit), and a derivation that blocks the loop comes to an end.
SyncFairness ==
    \A i \in Sites :
        /\ WF_syncVars(EnableClaims(i) \/ EnableCaches(i) \/ EnableRefused(i))
        /\ i \in Writers =>
             /\ WF_syncVars(SnapshotSync(i)) /\ SF_syncVars(PendingPush(i)) /\ SF_syncVars(PushBegins(i))
             /\ \A r \in Rows : WF_syncVars(PushArrives(i, r))

SyncSpec == SyncInit /\ [][SyncNext]_syncVars /\ SyncFairness

-----------------------------------------------------------------------------
(* Properties *)

\* Types: keys, rows, blobs and cursors of both sites, and what is under way.
SyncTypeOK ==
    /\ canary \in Passes \cup {NoKey} /\ key \in [Sites -> Passes \cup {NoKey}]
    /\ \A i \in Sites :
        /\ enabling[i] = Idle \/ enabling[i] \in
               [at : {"verify"}, pass : Passes, seen : Passes \cup {NoKey}]
        /\ row[i] \in Rows /\ pushing[i] \subseteq Rows
        /\ blobs[i].version \in 0..MaxVersion /\ blobs[i].row \in Rows
        /\ cursor[i] \in 0..MaxVersion /\ merged[i] \in 0..MaxVersion
        /\ \A p \in Pullers : pull[i][p].at \in {"idle", "asked", "got", "read", "merged"}
    /\ pending \in [Sites -> BOOLEAN] /\ debounce \in [Sites -> BOOLEAN]
    /\ edits \in 0..MaxEdits /\ faults \in 0..MaxFaults

\* Two owners who activate sync at the same moment with different passphrases
\* never end up with two keys on one account: whoever loses the race for the
\* canary is refused (get_or_derive_sync_key(), KEY-CHECK-1).
OneKeyPerAccount == \A i, j \in Sites : NoKey \in {key[i], key[j]} \/ key[i] = key[j]

\* The cursor never passes a blob that was not merged, whatever order two pulls
\* end in and however many blobs did not decrypt (_do_sync_pull()): what a peer
\* has uploaded is never skipped for good.
CursorNeverAhead == \A i \in Sites : cursor[i] <= merged[i]

\* Once edits stop, the server ends up with what a site's inventory holds, across
\* lost pushes, cancelled tasks and snapshots that arrive in the wrong order.
UploadCatchesUp ==
    \A i \in Writers : <>[](key[i] # NoKey => blobs[i].row = row[i])

\* "an existing non-empty local field is NEVER overwritten by a pull" (the
\* docstring of _merge_pulled_devices(), server.py:3146-3148).
PullNeverOverwrites ==
    [][\A i \in Sites, p \in Pullers :
          MergeWrites(i, p) /\ row[i] \in Sites => row'[i] = row[i]]_syncVars
==============================================================================
