---------------------------- MODULE ShardSnapshots ----------------------------
(***************************************************************************)
(* tools/sqlite_snapshot_manifest.py: `backup` copies the replica of a     *)
(* host through SQLite's online backup while collectors write it, and      *)
(* publishes the copy and its manifest; `merge-owned` makes one database   *)
(* of the snapshots of all hosts, taking each row from its owner's.        *)
(*                                                                         *)
(* A row is its identity columns (`word`) and all the others (`content`).  *)
(* A digest stands for what it is the digest of.  The tools open a file    *)
(* anew for every phase, and an operator who repeats a backup removes what *)
(* an earlier one has left.                                                *)
(***************************************************************************)
EXTENDS Integers, FiniteSets, FiniteSetsExt

CONSTANTS Corpora,        \* what a replica may hold at first or be replaced by
          Revisions,      \* the contents enrichment may give a row
          ShardCount, Unwritten,
          MaxCommits, MaxReplaced, MaxBackups     \* bounds

ASSUME SnapshotConstants ==
    /\ ShardCount \in Nat \ {0}
    /\ MaxCommits \in Nat /\ MaxReplaced \in Nat /\ MaxBackups \in Nat
    /\ \A rows \in Corpora : rows = [id \in DOMAIN rows |-> rows[id]]

VARIABLES live,       \* the replica of each host
          past,       \* all that each replica has been
          snapshot,   \* the file at --snapshot of each host
          manifest,   \* and at --manifest
          backup,     \* the backup process of each host
          merging,    \* the merge
          merged,     \* the file at --output of the merge
          used        \* commits, replacements and backups so far

snapshotVars == <<live, past, snapshot, manifest, backup, merging, merged, used>>

ShardOf == 0 .. ShardCount - 1
OwnedIds(rows, k) == {id \in DOMAIN rows : id % ShardCount = k}

\* _owner_content_digest and the identity of database_manifest.
OwnedRows(rows, k) == [id \in OwnedIds(rows, k) |-> rows[id]]
IdentityOf(rows) == [id \in DOMAIN rows |-> rows[id].word]

NoBackup == [pc |-> "off"]
NoMerge == [pc |-> "off"]
FirstUse == [commits |-> 0, replaced |-> 0, backups |-> 0]

-----------------------------------------------------------------------------
(* Others.                                                                 *)

Becomes(k, rows) ==
    /\ live' = [live EXCEPT ![k] = rows]
    /\ past' = [past EXCEPT ![k] = @ \cup {rows}]
    /\ UNCHANGED <<snapshot, manifest, backup, merging, merged>>

CommitRow ==
    /\ used.commits < MaxCommits
    /\ \E k \in ShardOf : \E id \in DOMAIN live[k] : \E r \in Revisions :
          Becomes(k, [live[k] EXCEPT ![id].content = r])
    /\ used' = [used EXCEPT !.commits = @ + 1]

\* A host is given another dataset.
ReplaceDataset ==
    /\ used.replaced < MaxReplaced
    /\ \E k \in ShardOf : \E rows \in Corpora : Becomes(k, rows)
    /\ used' = [used EXCEPT !.replaced = @ + 1]

RemoveSnapshot(k) ==
    /\ backup[k] = NoBackup /\ (snapshot[k] # Unwritten \/ manifest[k] # Unwritten)
    /\ snapshot' = [snapshot EXCEPT ![k] = Unwritten]
    /\ manifest' = [manifest EXCEPT ![k] = Unwritten]
    /\ UNCHANGED <<live, past, backup, merging, merged, used>>

-----------------------------------------------------------------------------
(* backup_with_manifest.                                                   *)

Backs(k, state) ==
    backup' = [backup EXCEPT ![k] = state]

StartBackup(k) ==
    /\ backup[k] = NoBackup /\ used.backups < MaxBackups
    /\ snapshot[k] = Unwritten /\ manifest[k] = Unwritten
    /\ Backs(k, [pc |-> "copy", of |-> live[k], copy |-> <<>>])
    /\ used' = [used EXCEPT !.backups = @ + 1]
    /\ UNCHANGED <<live, past, snapshot, manifest, merging, merged>>

\* SQLite copies some pages, and begins again if another process has written.
CopyPages(k) ==
    /\ backup[k].pc = "copy"
    /\ LET b == backup[k]
       IN IF b.of # live[k]
          THEN Backs(k, [b EXCEPT !.of = live[k], !.copy = <<>>])
          ELSE IF DOMAIN b.copy = DOMAIN live[k]
          THEN Backs(k, [b EXCEPT !.pc = "snapshot", !.of = Unwritten])
          ELSE LET next == Min(DOMAIN live[k] \ DOMAIN b.copy)
               IN Backs(k, [b EXCEPT !.copy = [i \in DOMAIN @ \cup {next} |-> live[k][i]]])
    /\ UNCHANGED <<live, past, snapshot, manifest, merging, merged, used>>

\* _publish_new links, and fails if the path exists.
PublishSnapshot(k) ==
    /\ backup[k].pc = "snapshot"
    /\ IF snapshot[k] # Unwritten
       THEN Backs(k, NoBackup) /\ UNCHANGED snapshot
       ELSE /\ snapshot' = [snapshot EXCEPT ![k] = backup[k].copy]
            /\ Backs(k, [backup[k] EXCEPT !.pc = "manifest"])
    /\ UNCHANGED <<live, past, manifest, merging, merged, used>>

PublishManifest(k) ==
    /\ backup[k].pc = "manifest"
    /\ manifest' = [manifest EXCEPT ![k] = IF @ = Unwritten THEN backup[k].copy ELSE @]
    /\ Backs(k, NoBackup)
    /\ UNCHANGED <<live, past, snapshot, merging, merged, used>>

\* A snapshot whose manifest could not be published is kept.
AbortBackup(k) ==
    /\ backup[k] # NoBackup
    /\ Backs(k, NoBackup)
    /\ UNCHANGED <<live, past, snapshot, manifest, merging, merged, used>>

-----------------------------------------------------------------------------
(* merge_owned_snapshots.                                                  *)

Merging(state) == merging' = state /\ UNCHANGED <<live, past, snapshot, manifest, backup, used>>
AtPhase(phase) == merging.pc = phase

\* The next shard, or the next phase when all shards are through.
Advance(state, phase) ==
    IF state.shard + 1 = ShardCount THEN [state EXCEPT !.pc = phase, !.shard = 0]
    ELSE [state EXCEPT !.shard = @ + 1]

StartMerge ==
    /\ AtPhase("off") /\ merged = Unwritten
    /\ Merging([pc |-> "identify", shard |-> 0, identity |-> <<>>, rows |-> <<>>])
    /\ UNCHANGED merged

\* database_manifest of every snapshot, compared with the first.
IdentifySnapshot ==
    /\ AtPhase("identify")
    /\ LET file == snapshot[merging.shard]
       IN Merging(IF \/ file = Unwritten
                     \/ merging.shard # 0 /\ IdentityOf(file) # merging.identity
                  THEN NoMerge
                  ELSE Advance([merging EXCEPT !.identity = IdentityOf(file)], "base"))
    /\ UNCHANGED merged

CopyBase ==
    /\ AtPhase("base")
    /\ Merging(IF snapshot[0] = Unwritten THEN NoMerge
               ELSE [merging EXCEPT !.rows = snapshot[0], !.pc = "rows"])
    /\ UNCHANGED merged

\* UPDATE of all columns but those of the identity, for the rows there are.
CopyOwned ==
    /\ AtPhase("rows")
    /\ LET file == snapshot[merging.shard]
           updated == [id \in DOMAIN merging.rows |->
                          IF id \in OwnedIds(file, merging.shard)
                          THEN [merging.rows[id] EXCEPT !.content = file[id].content]
                          ELSE merging.rows[id]]
       IN Merging(IF file = Unwritten THEN NoMerge
                  ELSE Advance([merging EXCEPT !.rows = updated], "check"))
    /\ UNCHANGED merged

\* Faulty: the rows of an owner are counted instead of compared.
SameCount(file, rows, k) == Cardinality(OwnedIds(file, k)) = Cardinality(OwnedIds(rows, k))

SameOwned(file, rows, k) == OwnedRows(file, k) = OwnedRows(rows, k)

CheckOwned ==
    /\ AtPhase("check")
    /\ LET file == snapshot[merging.shard]
       IN Merging(IF file = Unwritten \/ ~SameOwned(file, merging.rows, merging.shard)
                  THEN NoMerge ELSE Advance(merging, "publish"))
    /\ UNCHANGED merged

\* The identity is compared once more; a link does not replace a file.
PublishMerged ==
    /\ AtPhase("publish")
    /\ merged' = IF merged = Unwritten /\ IdentityOf(merging.rows) = merging.identity
                 THEN merging.rows ELSE merged
    /\ Merging(NoMerge)

AbortMerge == merging # NoMerge /\ Merging(NoMerge) /\ UNCHANGED merged

-----------------------------------------------------------------------------
SnapshotInit ==
    /\ live \in [ShardOf -> Corpora] /\ past = [k \in ShardOf |-> {live[k]}]
    /\ snapshot = [k \in ShardOf |-> Unwritten] /\ manifest = snapshot
    /\ backup = [k \in ShardOf |-> NoBackup] /\ merging = NoMerge /\ merged = Unwritten
    /\ used = FirstUse

SnapshotNext ==
    \/ CommitRow \/ ReplaceDataset
    \/ \E k \in ShardOf :
          \/ RemoveSnapshot(k) \/ StartBackup(k) \/ CopyPages(k) \/ PublishSnapshot(k)
          \/ PublishManifest(k) \/ AbortBackup(k)
    \/ StartMerge \/ IdentifySnapshot \/ CopyBase \/ CopyOwned \/ CheckOwned
    \/ PublishMerged \/ AbortMerge

SnapshotSpec == SnapshotInit /\ [][SnapshotNext]_snapshotVars

-----------------------------------------------------------------------------
(* Correctness.                                                            *)

(* A manifest is that of the snapshot beside it, which is what the replica was
   at one moment although it was written while it was copied.  A merged database
   has the identity all replicas have had, and of every owner the rows, whole,
   that its replica held at one moment, although snapshots are removed and made
   anew from another dataset while they are merged ("Mutable content for id %
   shard_count == shard is then copied only from that shard's snapshot"). *)
MergedIsOwned ==
    /\ \A k \in ShardOf :
          /\ snapshot[k] # Unwritten => snapshot[k] \in past[k]
          /\ manifest[k] # Unwritten => manifest[k] = snapshot[k]
    /\ merged # Unwritten =>
          \A k \in ShardOf :
             /\ \E rows \in past[k] : OwnedRows(rows, k) = OwnedRows(merged, k)
             /\ \E rows \in past[k] : IdentityOf(rows) = IdentityOf(merged)
=============================================================================
