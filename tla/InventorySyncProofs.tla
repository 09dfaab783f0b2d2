-------------------------- MODULE InventorySyncProofs --------------------------
(* Proofs about the inventory sync: one key per account and a cursor that never  *)
(* runs ahead of what was merged, for any passphrases, bounds and followed sites.*)
EXTENDS InventorySync, TLAPS

BlobSet == [version : 0..MaxVersion, row : Rows]
ActivationSet == [at : {"verify"}, pass : Passes, seen : Passes \cup {NoKey}]

\* The canary is claimed once: an activation has seen none or the one there is,
\* and a key that is cached is the one the canary was made with.
Keys ==
    /\ canary \in Passes \cup {NoKey}
    /\ key \in [Sites -> Passes \cup {NoKey}]
    /\ enabling \in [Sites -> ActivationSet \cup {Idle}]
    /\ \A i \in Sites : key[i] \in {NoKey, canary}
    /\ \A i \in Sites : enabling[i] # Idle => enabling[i].seen \in {NoKey, canary}

Stores ==
    /\ row \in [Sites -> Rows] /\ blobs \in [Sites -> BlobSet]
    /\ pushing \in [Sites -> SUBSET Rows]

Flags == pending \in [Sites -> BOOLEAN] /\ debounce \in [Sites -> BOOLEAN]

Limits == edits \in 0..MaxEdits /\ faults \in 0..MaxFaults

\* What a pull under way carries: a cursor not ahead of what was merged when it
\* was read (merged only grows), and from its merge on a blob that was merged.
PullSet ==
    {Idle} \cup [at : {"asked"}, cursor : 0..MaxVersion]
           \cup [at : {"got", "merged"}, cursor : 0..MaxVersion, blob : BlobSet]
           \cup [at : {"read"}, cursor : 0..MaxVersion, blob : BlobSet, saw : Rows]

Behind(r, n) ==
    /\ r # Idle => r.cursor <= n
    /\ r.at = "merged" => r.blob.version <= n

Pulls ==
    /\ cursor \in [Sites -> 0..MaxVersion] /\ merged \in [Sites -> 0..MaxVersion]
    /\ pull \in [Sites -> [Pullers -> PullSet]]
    /\ \A i \in Sites : cursor[i] <= merged[i] /\ \A p \in Pullers : Behind(pull[i][p], merged[i])

SyncIInv == Keys /\ Stores /\ Flags /\ Limits /\ Pulls

\* The parts make up the type invariant and the two safety invariants.
LEMMA SyncParts ==
  ASSUME SyncIInv
  PROVE  SyncTypeOK /\ OneKeyPerAccount /\ CursorNeverAhead
<1>1. SyncTypeOK
  <2>1. ASSUME NEW i \in Sites
        PROVE  /\ enabling[i] = Idle \/ enabling[i] \in
                    [at : {"verify"}, pass : Passes, seen : Passes \cup {NoKey}]
               /\ row[i] \in Rows /\ pushing[i] \subseteq Rows
               /\ blobs[i].version \in 0..MaxVersion /\ blobs[i].row \in Rows
               /\ cursor[i] \in 0..MaxVersion /\ merged[i] \in 0..MaxVersion
    BY DEF SyncIInv, Keys, Stores, Pulls, ActivationSet, BlobSet
  <2>2. ASSUME NEW r \in PullSet PROVE r.at \in {"idle", "asked", "got", "read", "merged"}
    BY DEF PullSet, Idle
  <2>3. ASSUME NEW i \in Sites, NEW p \in Pullers PROVE pull[i][p] \in PullSet
    BY DEF SyncIInv, Pulls
  <2> QED
    BY <2>1, <2>2, <2>3 DEF SyncIInv, Keys, Flags, Limits, SyncTypeOK
<1>2. OneKeyPerAccount
  BY DEF SyncIInv, Keys, OneKeyPerAccount
<1>3. CursorNeverAhead
  BY DEF SyncIInv, Pulls, CursorNeverAhead
<1> QED
  BY <1>1, <1>2, <1>3

\* Two sites that never heard of each other satisfy the invariant.
LEMMA SyncInitially == SyncInit => SyncIInv
<1> SUFFICES ASSUME SyncInit PROVE SyncIInv
  OBVIOUS
<1>1. Keys
  BY DEF SyncInit, Keys
<1>2. Stores /\ Flags /\ Limits
  BY SyncAssumption DEF SyncInit, Stores, Flags, Limits, BlobSet, Rows, Sites, NoBlob, NoRow, Empty
<1>3. Pulls
  BY SyncAssumption DEF SyncInit, Pulls, PullSet, Behind, Idle
<1> QED
  BY <1>1, <1>2, <1>3 DEF SyncIInv

-----------------------------------------------------------------------------
(* The key *)

\* Only an activation touches the canary, a cached key or an activation.
LEMMA KeysUntouched ==
  ASSUME NEW i, NEW p, Pushing(i) \/ Pulling(i, p)
  PROVE  UNCHANGED <<canary, key, enabling>>
<1>1. CASE Pushing(i)
  BY <1>1, Zenon DEF Pushing, Edit, Delete, SnapshotSync, PendingPush, PushBegins, PushArrives,
     PushFails, shared
<1>2. CASE Pulling(i, p)
  BY <1>2, Zenon DEF Pulling, PullAsks, PullAnswered, PullDamaged, PullFails, MergeReads,
     MergeWrites, MergeRaises, PullEnds, shared
<1> QED
  BY <1>1, <1>2

\* Every step keeps the one key: the canary is never replaced, and a key is only
\* cached when it is the canary's.
LEMMA KeysKept ==
  ASSUME Keys, [SyncNext]_syncVars
  PROVE  Keys'
<1>1. CASE \E i \in Sites : Activation(i)
  <2>1. PICK i \in Sites : Activation(i)
    BY <1>1
  <2>2. CASE \E pass \in Passes : EnableAsks(i, pass)
    BY <2>2 DEF EnableAsks, Keys, ActivationSet, Idle, shared
  <2>3. CASE EnableClaims(i)
    BY <2>3 DEF EnableClaims, Keys, ActivationSet, Idle, NoKey
  <2>4. CASE EnableCaches(i)
    BY <2>4 DEF EnableCaches, Verified, Keys, ActivationSet, Idle, shared
  <2>5. CASE EnableRefused(i) \/ EnableFails(i)
    BY <2>5 DEF EnableRefused, EnableFails, Keys, ActivationSet, Idle, shared
  <2> QED
    BY <2>1, <2>2, <2>3, <2>4, <2>5 DEF Activation
<1>2. CASE \/ \E i \in Writers : Pushing(i)
           \/ \E i \in Readers, p \in Pullers : Pulling(i, p)
           \/ UNCHANGED syncVars
  <2>1. UNCHANGED <<canary, key, enabling>>
    BY <1>2, KeysUntouched, Zenon DEF syncVars, shared
  <2> QED
    BY <2>1 DEF Keys
<1> QED
  BY <1>1, <1>2 DEF SyncNext

-----------------------------------------------------------------------------
(* Rows, blobs and pushes *)

\* What a merge leaves is what the row held or what the blob carries.
LEMMA MergeStays ==
  ASSUME NEW saw \in Rows, NEW remote \in Rows, NEW now \in Rows
  PROVE  Merge(saw, remote, now) \in Rows
  BY DEF Merge

\* Every step keeps rows, blobs and snapshots known.
LEMMA StoresKept ==
  ASSUME Stores, Pulls, [SyncNext]_syncVars
  PROVE  Stores'
<1> USE SyncAssumption
<1>0. ASSUME UNCHANGED <<row, blobs, pushing>> PROVE Stores'
  BY <1>0 DEF Stores
<1>1. CASE \E i \in Sites : Activation(i)
  <2>1. UNCHANGED <<row, blobs, pushing>>
    BY <1>1, Zenon DEF Activation, EnableAsks, EnableClaims, EnableCaches, EnableRefused,
       EnableFails, shared, pushes
  <2> QED
    BY <1>0, <2>1
<1>2. ASSUME NEW i \in Writers, Pushing(i) PROVE Stores'
  <2>1. i \in Sites
    OBVIOUS
  <2>2. CASE Edit(i) \/ Delete(i) \/ SnapshotSync(i)
    BY <2>1, <2>2 DEF Edit, Delete, SnapshotSync, Stores, Rows, Empty, shared, pushes
  <2>3. CASE PendingPush(i)
    BY <1>0, <2>3, Zenon DEF PendingPush, shared
  <2>4. CASE PushBegins(i)
    BY <2>1, <2>4 DEF PushBegins, Stores, shared
  <2>5. CASE \E r \in Rows : PushArrives(i, r)
    <3>1. PICK r \in Rows : PushArrives(i, r)
      BY <2>5
    <3> DEFINE new == [version |-> IF blobs[i].version < MaxVersion
                                   THEN blobs[i].version + 1 ELSE blobs[i].version, row |-> r]
    <3>2. new \in BlobSet
      BY <2>1 DEF Stores, BlobSet
    <3>3. blobs' = [blobs EXCEPT ![i] = new] /\ row' = row
          /\ pushing' = [pushing EXCEPT ![i] = @ \ {r}]
      BY <3>1 DEF PushArrives
    <3> HIDE DEF new
    <3> QED
      BY <3>2, <3>3 DEF Stores
  <2>6. CASE \E r \in Rows : PushFails(i, r)
    BY <2>1, <2>6 DEF PushFails, Stores, shared
  <2> QED
    BY <1>2, <2>2, <2>3, <2>4, <2>5, <2>6 DEF Pushing
<1>3. ASSUME NEW i \in Readers, NEW p \in Pullers, Pulling(i, p) PROVE Stores'
  <2>1. CASE MergeWrites(i, p)
    <3>1. pull[i][p] \in PullSet /\ pull[i][p].at = "read"
      BY <2>1 DEF MergeWrites, Pulls
    <3>2. pull[i][p].saw \in Rows /\ pull[i][p].blob.row \in Rows
      BY <3>1 DEF PullSet, BlobSet, Idle
    <3>3. Merge(pull[i][p].saw, pull[i][p].blob.row, row[i]) \in Rows
      BY <3>2, MergeStays DEF Stores
    <3>4. row' = [row EXCEPT ![i] = Merge(pull[i][p].saw, pull[i][p].blob.row, row[i])]
          /\ UNCHANGED <<blobs, pushing>>
      BY <2>1 DEF MergeWrites, shared, pushes
    <3> QED
      BY <3>3, <3>4 DEF Stores
  <2>2. CASE \/ PullAsks(i, p) \/ PullAnswered(i, p) \/ PullDamaged(i, p) \/ PullFails(i, p)
             \/ MergeReads(i, p) \/ MergeRaises(i, p) \/ PullEnds(i, p)
    BY <1>0, <2>2, Zenon DEF PullAsks, PullAnswered, PullDamaged, PullFails, MergeReads,
       MergeRaises, PullEnds, shared, pushes
  <2> QED
    BY <1>3, <2>1, <2>2 DEF Pulling
<1>4. CASE UNCHANGED syncVars
  BY <1>0, <1>4, Zenon DEF syncVars, shared, pushes
<1> QED
  BY <1>1, <1>2, <1>3, <1>4 DEF SyncNext

\* Every step keeps the flags Boolean and the bounded counters in their bounds.
LEMMA FlagsKept ==
  ASSUME Flags, Limits, [SyncNext]_syncVars
  PROVE  Flags' /\ Limits'
<1>0. ASSUME edits' = edits \/ (edits < MaxEdits /\ edits' = edits + 1),
             faults' = faults \/ (faults < MaxFaults /\ faults' = faults + 1)
      PROVE  Limits'
  BY <1>0, SyncAssumption DEF Limits
<1>1. CASE \E i \in Sites : Activation(i)
  <2>1. /\ UNCHANGED <<pending, debounce, edits>>
        /\ faults' = faults \/ (faults < MaxFaults /\ faults' = faults + 1)
    BY <1>1, Zenon DEF Activation, EnableAsks, EnableClaims, EnableCaches, EnableRefused,
       EnableFails, pushes
  <2> QED
    BY <1>0, <2>1 DEF Flags
<1>2. ASSUME NEW i \in Writers, Pushing(i) PROVE Flags' /\ Limits'
  <2>1. /\ edits' = edits \/ (edits < MaxEdits /\ edits' = edits + 1)
        /\ faults' = faults \/ (faults < MaxFaults /\ faults' = faults + 1)
    BY <1>2, Zenon DEF Pushing, Edit, Delete, SnapshotSync, PendingPush, PushBegins,
       PushArrives, PushFails
  <2>2. /\ \/ pending' = pending
           \/ pending' = [pending EXCEPT ![i] = FALSE]
           \/ pending' = [pending EXCEPT ![i] = pending[i] \/ Marked(i)]
        /\ \/ debounce' = debounce
           \/ debounce' = [debounce EXCEPT ![i] = FALSE]
           \/ debounce' = [debounce EXCEPT ![i] = TRUE]
    BY <1>2, Zenon DEF Pushing, Edit, Delete, SnapshotSync, PendingPush, PushBegins,
       PushArrives, PushFails, Trigger, pushes
  <2>3. Flags'
    BY <2>2 DEF Flags, Marked
  <2> QED
    BY <1>0, <2>1, <2>3
<1>3. ASSUME NEW i \in Readers, NEW p \in Pullers, Pulling(i, p) PROVE Flags' /\ Limits'
  <2>1. /\ UNCHANGED <<pending, debounce, edits>>
        /\ faults' = faults \/ (faults < MaxFaults /\ faults' = faults + 1)
    BY <1>3, Zenon DEF Pulling, PullAsks, PullAnswered, PullDamaged, PullFails, MergeReads,
       MergeWrites, MergeRaises, PullEnds, pushes
  <2> QED
    BY <1>0, <2>1 DEF Flags
<1>4. CASE UNCHANGED syncVars
  <2>1. UNCHANGED <<pending, debounce, edits, faults>>
    BY <1>4, Zenon DEF syncVars, pushes
  <2> QED
    BY <1>0, <2>1 DEF Flags
<1> QED
  BY <1>1, <1>2, <1>3, <1>4 DEF SyncNext

-----------------------------------------------------------------------------
(* Pulls *)

\* A pull takes a step that neither moves the cursor nor merges: it is enough to
\* look at what it then carries.
LEMMA PullReplaced ==
  ASSUME Pulls, NEW i \in Sites, NEW p \in Pullers, NEW r \in PullSet, Behind(r, merged[i]),
         pull' = [pull EXCEPT ![i][p] = r], cursor' = cursor, merged' = merged
  PROVE  Pulls'
<1>1. pull' \in [Sites -> [Pullers -> PullSet]]
  BY DEF Pulls
<1>2. ASSUME NEW j \in Sites, NEW q \in Pullers PROVE Behind(pull'[j][q], merged'[j])
  <2>1. CASE j = i /\ q = p
    BY <2>1 DEF Pulls
  <2>2. CASE j # i \/ q # p
    <3>1. pull'[j][q] = pull[j][q]
      BY <2>2 DEF Pulls
    <3> QED
      BY <3>1 DEF Pulls
  <2> QED
    BY <2>1, <2>2
<1> QED
  BY <1>1, <1>2 DEF Pulls

\* A pull that begins reads the cursor, which is not ahead.
LEMMA PullBeginsKept ==
  ASSUME Pulls, NEW i \in Sites, NEW p \in Pullers, PullBegins(i, p), cursor' = cursor,
         merged' = merged
  PROVE  Pulls'
<1> DEFINE r == [at |-> "asked", cursor |-> cursor[i]]
<1>1. r \in PullSet /\ Behind(r, merged[i])
  BY DEF Pulls, PullSet, Behind
<1>2. CASE i \in Readers
  <2>1. pull' = [pull EXCEPT ![i][p] = r]
    BY <1>2 DEF PullBegins
  <2> HIDE DEF r
  <2> QED
    BY <1>1, <2>1, PullReplaced
<1>3. CASE i \notin Readers
  BY <1>3 DEF PullBegins, Pulls
<1> QED
  BY <1>2, <1>3

\* What is known of a pull that is not idle.
LEMMA PullKnown ==
  ASSUME Pulls, NEW i \in Sites, NEW p \in Pullers, pull[i][p].at # "idle"
  PROVE  /\ pull[i][p].cursor \in 0..MaxVersion /\ pull[i][p].cursor <= merged[i]
         /\ pull[i][p].at \in {"got", "read", "merged"} => pull[i][p].blob \in BlobSet
         /\ pull[i][p].at = "got" =>
              pull[i][p] \in [at : {"got", "merged"}, cursor : 0..MaxVersion, blob : BlobSet]
<1>1. pull[i][p] \in PullSet /\ Behind(pull[i][p], merged[i])
  BY DEF Pulls
<1> QED
  BY <1>1 DEF PullSet, Behind, Idle

\* Every step of a pull keeps the cursor, its own and the stored one, behind what
\* was merged: the blob counts as merged before the cursor is written.
LEMMA PullingKept ==
  ASSUME Pulls, Stores, NEW i \in Readers, NEW p \in Pullers, Pulling(i, p)
  PROVE  Pulls'
<1>0. i \in Sites
  BY SyncAssumption
<1>1. Idle \in PullSet /\ Behind(Idle, merged[i])
  BY DEF PullSet, Behind, Idle
<1>2. CASE PullAsks(i, p)
  BY <1>0, <1>2, PullBeginsKept, Zenon DEF PullAsks
<1>3. CASE PullAnswered(i, p)
  <2>1. PICK b \in {blobs[Peer(i)], NoBlob} :
          pull' = [pull EXCEPT ![i][p] = [at |-> "got", cursor |-> pull[i][p].cursor, blob |-> b]]
    BY <1>3 DEF PullAnswered
  <2>2. b \in BlobSet
    BY <1>0, SyncAssumption DEF Stores, Peer, Sites, BlobSet, NoBlob, Rows, NoRow
  <2> DEFINE r == [at |-> "got", cursor |-> pull[i][p].cursor, blob |-> b]
  <2>3. r \in PullSet /\ Behind(r, merged[i])
    BY <1>0, <1>3, <2>2, PullKnown DEF PullAnswered, PullSet, Behind
  <2>4. pull' = [pull EXCEPT ![i][p] = r] /\ cursor' = cursor /\ merged' = merged
    BY <1>3, <2>1 DEF PullAnswered
  <2> HIDE DEF r
  <2> QED
    BY <1>0, <2>3, <2>4, PullReplaced
<1>4. CASE PullDamaged(i, p)
  <2> DEFINE r == [pull[i][p] EXCEPT !.blob = NoBlob]
  <2>1. NoBlob \in BlobSet
    BY SyncAssumption DEF BlobSet, NoBlob, Rows
  <2>2. /\ r \in [at : {"got", "merged"}, cursor : 0..MaxVersion, blob : BlobSet]
        /\ r.cursor = pull[i][p].cursor /\ r.at = "got"
    BY <1>0, <1>4, <2>1, PullKnown DEF PullDamaged
  <2>3. r \in PullSet /\ Behind(r, merged[i])
    BY <1>0, <1>4, <2>2, PullKnown DEF PullDamaged, PullSet, Behind
  <2>4. pull' = [pull EXCEPT ![i][p] = r] /\ cursor' = cursor /\ merged' = merged
    BY <1>4 DEF PullDamaged
  <2> HIDE DEF r
  <2> QED
    BY <1>0, <2>3, <2>4, PullReplaced
<1>5. CASE PullFails(i, p) \/ MergeRaises(i, p)
  <2>1. pull' = [pull EXCEPT ![i][p] = Idle] /\ cursor' = cursor /\ merged' = merged
    BY <1>5, Zenon DEF PullFails, MergeRaises
  <2> QED
    BY <1>0, <1>1, <2>1, PullReplaced
<1>6. CASE MergeReads(i, p)
  <2> DEFINE r == [at |-> "read", cursor |-> pull[i][p].cursor, blob |-> pull[i][p].blob,
                   saw |-> row[i]]
  <2>1. r \in PullSet /\ Behind(r, merged[i])
    BY <1>0, <1>6, PullKnown DEF MergeReads, Stores, PullSet, Behind
  <2>2. pull' = [pull EXCEPT ![i][p] = r] /\ cursor' = cursor /\ merged' = merged
    BY <1>6 DEF MergeReads
  <2> HIDE DEF r
  <2> QED
    BY <1>0, <2>1, <2>2, PullReplaced
<1>7. CASE MergeWrites(i, p)
  <2> DEFINE b == pull[i][p].blob
             n == IF b.version > merged[i] THEN b.version ELSE merged[i]
             r == [at |-> "merged", cursor |-> pull[i][p].cursor, blob |-> b]
  <2>1. b \in BlobSet /\ pull[i][p].cursor \in 0..MaxVersion /\ pull[i][p].cursor <= merged[i]
    BY <1>0, <1>7, PullKnown DEF MergeWrites
  <2>2. n \in 0..MaxVersion /\ n >= merged[i] /\ n >= b.version
    BY <1>0, <2>1, SyncAssumption DEF Pulls, BlobSet
  <2>3. r \in PullSet /\ Behind(r, n)
    BY <1>0, <2>1, <2>2, SyncAssumption DEF Pulls, PullSet, Behind
  <2>4. /\ pull' = [pull EXCEPT ![i][p] = r] /\ cursor' = cursor
        /\ merged' = [merged EXCEPT ![i] = n]
    BY <1>7 DEF MergeWrites
  <2> HIDE DEF r, n
  <2>5. /\ pull' \in [Sites -> [Pullers -> PullSet]]
        /\ merged' \in [Sites -> 0..MaxVersion]
    BY <1>0, <2>2, <2>3, <2>4 DEF Pulls
  <2>6. ASSUME NEW j \in Sites, NEW q \in Pullers PROVE Behind(pull'[j][q], merged'[j])
    <3>1. CASE j = i /\ q = p
      BY <1>0, <2>3, <2>4, <3>1 DEF Pulls
    <3>2. CASE j # i
      BY <1>0, <2>4, <3>2 DEF Pulls
    <3>3. CASE j = i /\ q # p
      <4>1. pull'[j][q] = pull[j][q] /\ merged'[j] = n
        BY <1>0, <2>4, <3>3 DEF Pulls
      <4>2. pull[j][q] \in PullSet /\ Behind(pull[j][q], merged[j]) /\ merged[i] \in Nat
        BY <1>0 DEF Pulls
      <4> QED
        BY <2>2, <3>3, <4>1, <4>2 DEF Behind, PullSet, BlobSet, Idle
    <3> QED
      BY <3>1, <3>2, <3>3
  <2>7. ASSUME NEW j \in Sites PROVE cursor'[j] <= merged'[j]
    BY <1>0, <2>2, <2>4, SyncAssumption DEF Pulls
  <2> QED
    BY <2>4, <2>5, <2>6, <2>7 DEF Pulls
<1>8. CASE PullEnds(i, p)
  <2>1. Advanced(pull[i][p]) \in 0..MaxVersion /\ Advanced(pull[i][p]) <= merged[i]
    <3>1. Behind(pull[i][p], merged[i]) /\ pull[i][p].at = "merged"
      BY <1>0, <1>8 DEF PullEnds, Pulls
    <3>2. pull[i][p].blob \in BlobSet /\ pull[i][p].cursor \in 0..MaxVersion
          /\ pull[i][p].cursor <= merged[i]
      BY <1>0, <3>1, PullKnown
    <3> QED
      BY <3>1, <3>2 DEF Advanced, Behind, BlobSet
  <2>2. /\ pull' = [pull EXCEPT ![i][p] = Idle]
        /\ cursor' = [cursor EXCEPT ![i] = Advanced(pull[i][p])] /\ merged' = merged
    BY <1>8 DEF PullEnds
  <2>3. pull' \in [Sites -> [Pullers -> PullSet]] /\ cursor' \in [Sites -> 0..MaxVersion]
    BY <1>0, <1>1, <2>1, <2>2 DEF Pulls
  <2>4. ASSUME NEW j \in Sites, NEW q \in Pullers PROVE Behind(pull'[j][q], merged'[j])
    <3>1. pull'[j][q] \in {pull[j][q], Idle}
      BY <1>0, <2>2 DEF Pulls
    <3>2. Behind(Idle, merged[j])
      BY DEF Behind, Idle
    <3> QED
      BY <2>2, <3>1, <3>2 DEF Pulls
  <2>5. ASSUME NEW j \in Sites PROVE cursor'[j] <= merged'[j]
    BY <1>0, <2>1, <2>2 DEF Pulls
  <2> QED
    BY <2>2, <2>3, <2>4, <2>5 DEF Pulls
<1> QED
  BY <1>2, <1>3, <1>4, <1>5, <1>6, <1>7, <1>8 DEF Pulling

\* Every step of either site keeps what pulls rest on.
LEMMA PullsKept ==
  ASSUME Pulls, Stores, [SyncNext]_syncVars
  PROVE  Pulls'
<1>0. ASSUME UNCHANGED <<cursor, pull, merged>> PROVE Pulls'
  BY <1>0 DEF Pulls
<1>1. ASSUME NEW i \in Sites, Activation(i) PROVE Pulls'
  <2>1. CASE EnableCaches(i)
    <3>1. PullBegins(i, "enable") /\ cursor' = cursor /\ merged' = merged
      BY <2>1 DEF EnableCaches
    <3> QED
      BY <3>1, PullBeginsKept DEF Pullers
  <2>2. CASE (\E pass \in Passes : EnableAsks(i, pass)) \/ EnableClaims(i) \/ EnableRefused(i)
             \/ EnableFails(i)
    <3>1. UNCHANGED <<cursor, pull, merged>>
      BY <2>2, Zenon DEF EnableAsks, EnableClaims, EnableRefused, EnableFails, pulls
    <3> QED
      BY <1>0, <3>1
  <2> QED
    BY <1>1, <2>1, <2>2 DEF Activation
<1>2. CASE (\E i \in Writers : Pushing(i)) \/ UNCHANGED syncVars
  <2>1. UNCHANGED <<cursor, pull, merged>>
    BY <1>2, Zenon DEF Pushing, Edit, Delete, SnapshotSync, PendingPush, PushBegins,
       PushArrives, PushFails, syncVars, pulls
  <2> QED
    BY <1>0, <2>1
<1>3. CASE \E i \in Readers, p \in Pullers : Pulling(i, p)
  BY <1>3, PullingKept
<1> QED
  BY <1>1, <1>2, <1>3 DEF SyncNext

-----------------------------------------------------------------------------
(* The theorems *)

\* The invariant holds in every reachable state.
LEMMA SyncInvariant == SyncSpec => []SyncIInv
<1>1. SyncIInv /\ [SyncNext]_syncVars => SyncIInv'
  BY KeysKept, StoresKept, FlagsKept, PullsKept DEF SyncIInv
<1> QED
  BY SyncInitially, <1>1, PTL DEF SyncSpec

\* Keys, rows, blobs, cursors and pulls keep their types on both sites.
THEOREM SyncTypes == SyncSpec => []SyncTypeOK
<1>1. SyncIInv => SyncTypeOK
  BY SyncParts
<1> QED
  BY <1>1, SyncInvariant, PTL

\* However two owners who activate sync interleave, with whatever passphrases,
\* one account never has two keys in use: the canary decides, and it is made once.
THEOREM OneKey == SyncSpec => []OneKeyPerAccount
<1>1. SyncIInv => OneKeyPerAccount
  BY SyncParts
<1> QED
  BY <1>1, SyncInvariant, PTL

\* However the pulls of a site overlap, fail or meet damaged blobs, the cursor
\* never passes a blob that was not merged.
THEOREM NoBlobIsSkipped == SyncSpec => []CursorNeverAhead
<1>1. SyncIInv => CursorNeverAhead
  BY SyncParts
<1> QED
  BY <1>1, SyncInvariant, PTL
================================================================================
