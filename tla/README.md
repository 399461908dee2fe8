# A verification project for Lexora Open Lexicon

Lexora collects an English-Chinese lexicon from open dictionaries on two small
hosts, ships it in sealed releases, and serves lookups and progress through an
API service and an edge Worker. This directory models the parts of it whose
correctness depends on order, failure and concurrency, checks them with TLC on
small instances, and proves the most important results with TLAPS for every
instance.

## 1. The system

| Component | State | Operations | Interacts with |
|---|---|---|---|
| Deployment transaction (`deploy/deployment_transaction.py`) | per track: `releases/`, the `current` symlink, `activation-state.json` with nested `previousState`, `last-rollback.json`, a flock | prepare-code, attach, seal, verify, activate, rollback | called by the release control and the workflows |
| Release control (`deploy/top20k_release_control.sh`) | backup of units and their states, marker files `activation-started`, `activation-complete`, `rollback-in-progress` | activate, rollback | deployment transaction, systemd, collector state |
| Activation workflow (`.github/workflows/activate-top20k-repair.yml`) | the hosts begun with, paused timers | dispatch, activate both hosts, roll back, restore timers | release control on both hosts over SSH |
| Collector state (`deploy/repair_collector_state.sh`, `run_top20k_repair.sh`) | file in `/run` with the units that were active | capture, restore | systemd units of the collectors, timers and watchdogs |
| Enrichment collector (`tools/enrich_oxford_scope.py`) | dataset (`entries.enrichment_json` markers), state database (`provider_state`), in memory: two batchers, host gates, the rows of a group | run (pages, groups, rows), batch request and flush, retry, preflight and queue mode | edge Worker, systemd restarts, watchdog |
| Watchdogs (`tools/watch_enrichment.py`) | heartbeat age | restart of a stale collector | systemd |
| Edge Worker (`worker/dictionary-edge.js`) | Durable Object of the Datamuse limiter (day counter, token bucket, leases), caches, fail-over order | dictionary batch, translation batch, quota lease, progress | collectors, both API hosts, Datamuse |
| Quality reports and progress page (`tools/write_top20k_quality_snapshot.py`, `service/progress_validation.py`) | a snapshot of counts per shard, with the identity of the dataset and the candidate | hourly scan, validation when the API is asked, combination of both shards | dataset, active release, API, Worker |
| API service (`service/server.py`) | quota table `daily_usage`, semaphore of the document generation | lookup, suggest, progress, document and PDF generation, each paid first | Worker, dataset |
| Repair queue and delta (`tools/fast20k_repair_delta.py`, `fast20k_contract.py`) | candidate, queue, two shard deltas, digests and owners | preflight, export, union, apply, publish | collector, pipeline |
| Candidate pipeline (`tools/fast20k_pipeline.py`) | candidate files: selected rows with rank, kind and evidence, the queue of the incomplete ones | select, refresh, refresh-owner, quality report | canonical replicas, repair, packaging |
| Packaging (`tools/package_offline_lexicons.py`) | staging directory, release directory | stage, gate, publish without replacement | candidate, canonical dataset |
| Shard snapshots (`tools/sqlite_snapshot_manifest.py`) | snapshot and manifest of a host, merged database | backup, merge-owned, verify | replicas of both hosts |
| Shard export and merge (`tools/export_enrichment_shard.py`, `merge_enrichment_shards.py`) | shard files | export, merge | dataset |
| Kaikki relation delta (`tools/build_kaikki_relation_delta.py`, `apply_kaikki_relation_delta.py`) | temporary database of staged rows, published delta with its digests, rows of a shard | scan, flush a term, publish, preflight, apply in batches | canonical dataset, shards whose collector is stopped |
| OEWN prefill (`tools/prefill_oewn.py`) | candidate file, output path | stage, copy, fill in batches, validate, publish | canonical dataset |
| First builds (`tools/build_dataset.py` and others) | source dumps | sequential conversions | offline |

What is hard in it:

- *Crashes and durability.* A release changes by two renames that must agree;
  the collector commits to two databases one after the other.
- *Interleaving.* The row coroutines of the collector share a batcher, two
  SQLite connections and a quota; two collectors share a rate limiter.
- *Failure and retry.* The edge answers late, partly, with 429 or 5xx, or not
  at all; what was tried must be neither lost nor recorded as done.
- *Protocols over several programs.* Candidate, queue, deltas and releases are
  made at different times on different hosts and must still fit together.

What makes each component correct: the deployment transaction leaves a track
the next command can resolve and keeps a success durable; the release control
undoes what it did; the collector-state job restarts exactly what ran; the
batcher answers every call once and with the data it was asked for; a pass
skips, repeats or starves no row; the limiter never grants more than the quota
and fails closed; the API charges once; the delta protocol applies each row
once, of the candidate it was made for; a relation delta is the merge of the
dump it names and is applied whole or not at all; what is filled in only adds;
a selection, a refreshed candidate, a package and a merged snapshot each agree
with a dataset as it was at one moment; publication never replaces anything it
was not told to.

## 2. Modules

| Module | What it is |
|---|---|
| `ReleaseHistory` | what a track promises: a history of releases that a command pushes or pops, in doubt while it is unsettled |
| `ReleaseTransaction` | `activate_release`, `rollback_release`, `_reconcile_prepared_activation`, one action per directory operation and fsync |
| `ReleaseStaging` | `prepare_code`, `seal_release`, `verify_release`: how a release gets into `releases/` |
| `LookupService` | what the batcher promises its callers |
| `EdgeDictionaryBatcher` | `request` and `_flush`, one action from one `await` to the next |
| `EdgeTranslationBatcher` | the batcher of translations against the Worker's translation batch: chunks, slices, positions |
| `CollectorPass` | `run`, `flush_pending`, `process_row` over the batcher, with the two commits, crashes and restarts |
| `DatamuseLimiter` | the Durable Object that leases Datamuse requests within a daily limit and a token bucket |
| `EnrichmentBatch` | the Worker's dictionary batch over the limiter: cache, coordinated lease, provider requests |
| `ProgressPage` | what the public page says of the selected entries: hourly scans, validated snapshots, the answers of both hosts, the Worker's page |
| `WebQuota` | the daily quota of the API: threads, the write lock, generation slots |
| `RepairCollectorState` | the repair service takes the database over from the collectors and gives it back: capture and restore among timers, watchdogs and reboots |
| `ReleaseControl` | activation and rollback on one host: transaction, markers, saved state, unit files, timer, service, collectors |
| `ActivationCoordinator` | the workflow that activates a release on both hosts and rolls back |
| `RepairProtocol` | the repair of a fixed selection over both hosts: candidate, queue, preflight, repair, deltas, merge |
| `RelationDelta` | the relations of a Kaikki dump on their way to a shard: builder, published delta, applier |
| `OewnPrefill` | the prefill from OEWN and its repetition |
| `CandidateSelection` | the jobs of the pipeline and of the packager over replicas that enrichment goes on writing: select, refresh, refresh-owner, gate, publication |
| `ShardSnapshots` | the online backup of a replica, its manifest, and the merge of the snapshots of all hosts by owner |
| `ReleaseTransactionProofs` | theorems about `ReleaseTransaction` with its refinement, `ReleaseStaging` and `CandidateSelection` |
| `ActivationProofs` | about `ActivationCoordinator` and `ReleaseControl` |
| `CollectorProofs` | about `EdgeDictionaryBatcher` with its refinement, `CollectorPass`, `EdgeTranslationBatcher`, `ShardSnapshots` and `OewnPrefill` |
| `EdgeWorkerProofs` | about `DatamuseLimiter`, `WebQuota`, `ProgressPage` and `EnrichmentBatch` |
| `RepairProofs` | about `RepairProtocol` and `RepairCollectorState` |
| `DatasetProofs` | about `RelationDelta` |
| `FoldTheorems`, `LeftFolds` | what the folds of the community modules compute, which those proofs rest on |
| `MCReleases`, `MCEdgeBatchers`, `MCEdgeWorker`, `MCDatasets`, `MCRepair`, `MCActivation` | the instances TLC checks |

Operators named `...Skipped`, `...Replaces` and the like, commented `Faulty`,
are deliberate bugs in the code next to them: each property of a run is shown to
fail when one of them replaces the definition it sits before.

### ReleaseTransaction

One track. `disk` is what programs see of the directory: the symlink
(`current`), the journal as the sequence of its nested levels, the report of
the last rollback. The flock serializes commands, so `proc` is the one command
that runs, with its program counter and the locals it read (`saved`). Every
rename or unlink is visible at once and durable after the next directory fsync;
`survivors` is the set of directories a power loss may leave, which the file
system keeps in the order of the operations. A file is written to a temporary
name, fsynced and renamed, so its contents are whole whenever its name is
there. `Raise` is an exception at any operation (the handler of
`activate_release` runs, and can fail itself), `Kill` a SIGKILL, `PowerLoss`
both of it and of what was not synced. That a release was verified is taken
from `verify_release`, which changes nothing.

### ReleaseStaging

The same track before a release exists. `staged` holds `preparations/` and
`releases/`, `kept` what a power loss may leave of them, `upload` the candidate
file, which belongs to whoever uploads it, and `command` the command that has
the lock. A tree is a function from its files to their contents, a manifest the
tree it was written for, so that `Matches` is the comparison of hashes.
`Validate` looks at the upload; `Copy`, `Attach`, `Compare`, `WriteEnv`,
`WriteManifest`, `PublishRelease` and `SyncRelease` are one change of the
directories each, so that the upload may be replaced, the command killed or
fail, or the power be lost between any two. A command that is cut leaves its
preparation behind: the next seal sees what it may begin with. `promised` is a
history variable: which candidate the last seal of an id was asked for, and what
was reported as done.

### EdgeDictionaryBatcher

asyncio switches tasks at an `await` only. `Request` is `request` up to `await
future`; `Take` the slice of the queue up to the POST; `Respond` everything
from the reply to the next sleep, delivery or failure; `Retry` the end of the
sleep. Statuses are the classes the code distinguishes: 200, 429, retryable
5xx, other refusals, and no usable reply. A 200 reply may omit terms (the code
turns it into a 502) and gives each term a status of its own, as the Worker's
`enrichmentDictionaryBatch` does.

### EdgeTranslationBatcher

The same granularity: `RequestTranslation` is `request` up to its future,
`TakeTexts` the slice of the queue up to the first POST, `PostAnswers` from one
reply to the next POST or to the results. A chunk is the pair of its text and
its number, its translation the chunk itself, so that `AnswersOwnText` can tell
whose words a caller received; the reply has only positions, as in the code.
There are no retries. `Wide` are the chunks the Worker measures as longer than
the collector does, and leaves out (section 4).

### CollectorPass

Extends the batcher: the rows are its callers. A pass selects a group of
`Workers` eligible rows, runs one coroutine per row and ends the group when all
have ended. A row looks up, possibly translates, and then without an `await`
updates, commits the dataset and commits the provider state. `dirty` and
`upserts` are what is written but not committed on the two shared connections,
since a commit by one row also commits what others wrote. `Die` may come at any
await and inside `Write` between the commits; an SQLite error there ends the row
before or after its UPDATE, or with its marker committed and its provider state
not. Core is followed by deep, as `main` does for `--profile auto`.

A full group is flushed in the loop over the rows, and `--limit` is then compared
with the rows processed, so that a further row makes up for one that failed. A
partial group is flushed after the loop, which ended because the rows did or
because `processed` and the group had reached the limit. `last` remembers this:
the pass selects nothing after it, even if a row of it fails.

### DatamuseLimiter and EnrichmentBatch

The limiter's row is `quota`; each handler reads and writes it without an
`await` between, so each request is one action: `Grant` and `Refuse` for POST
/lease, `ReadStatus` for GET /status. All of them store the refill up to now.
`Tick` moves the clock and may begin a UTC day. Tokens are counted in ticks of
refill, so the fractions of a token the code keeps in a float are kept exactly.
The history variables `leased`, `byTick`, `byDay` count what was leased before
a tick or a day, so that the quota can be stated for any window and for days
that are over. The clock never steps back (see the hazards).

`EnrichmentBatch` runs `enrichmentDictionaryBatch` for several posts at once,
each with concurrent promises per term. `Register` is `enrichmentTerm` up to
the lease it waits for: the dictionary found some of what is needed or timed
out, which fixes the Datamuse requests still necessary. The last term to
register starts the lease of all; `Lease` includes answers that are lost after
the limiter granted. `Fetch` ends the requests of a term and caches any
response but a 504; `Cancel` ends an invocation at any point.

### ProgressPage

A scan (`StartScan`, `CountGaps`, `SameDataset`, `KeepCounts`) is
`write_quality_snapshot`, one action from one look at a file to the next;
`ReadCounts` to `CheckAgain` are `collection_progress` and
`validate_top20k_quality_snapshot`, in the same way. `Ask` and `Combine` are
`combinedProgressResponse`. Between any two of them a release is activated or
rolled back (`Relink`), the dataset replaced, or a row completed. Files are
told apart by number, where the code compares device and inode: a replaced
dataset's inode is taken not to come back within the three hours that counts
are good for. Writers are taken to open no gap. Rows are abstracted to whether
any row of a candidate in a shard has a gap; `open` of a snapshot is
`incomplete > 0`. `true` in an answer is a history variable: whether the
candidate was complete when the dataset was compared.

### WebQuota

One server process with its threads. `Arrive` reads the date; `Count` is `BEGIN
IMMEDIATE` with the SELECT, which one thread can be in; `Commit` the UPSERT and
the commit, `RollBack` a refusal or an error, `GiveUp` the busy timeout of five
seconds. `AnswerLookup` serves `/v1/web/lookup` and `/v1/web/suggest`,
`Generate`, `Busy` and `Release` the document endpoint around its semaphore.
Lookups themselves only read. `Restart` loses the threads and the semaphore and
keeps the committed rows; `Midnight` may come anywhere, since the date is read
before the lock is waited for.

### RepairCollectorState

One shard. `unit` holds the state of every collector, watchdog, timer and
recovery; each `systemctl` call of `repair_collector_state.sh` is one action,
so that timers elapse, watchdogs find a collector stale, recoveries restart it,
collectors exit and the repair ends or is stopped between any two of them. The
marker and the snapshot in `/run` are lost at a reboot. systemd is modelled by
what the unit files ask of it: `Conflicts=`, `Before=`, `Restart=`, `OnFailure=`.

### ReleaseControl

One host. `track` is what `deployment_transaction.py` makes of the journal and
the link: `TxActivate` and `TxRollback` list all outcomes of the two commands,
those of a failed exception handler included (`ReleaseTransaction` has them step
by step). `files` says of which release each unit file is, `backup` what the
directory of a release holds (`saved` is `state.env` with the copies of the
units), `sys` the repair service with its runtime marker, the timer and the
collectors. Every command of the script that changes one of these is an action;
`Kill` and `Reboot` may follow any of them. In the rollback, which runs with
errexit off, every step may fail and the next is tried. `Overlap` says whether a
release may be activated or rolled back while another has a marker left: the
script does not forbid it (see the findings).

### ActivationCoordinator

Both hosts and the runs of the workflow, which its concurrency group
serializes. A host runs one command of the release control at a time, under its
lock; what a command can do is taken from `ReleaseControl`. `attached` says
whether the coordinator still hears from it. `Failures` chooses what may go
wrong: lost connections, cancelled runs, failing rollbacks; `Repeats` whether a
release is dispatched a second time. `adrift` records the hosts where a command
went on unheard, a rollback failed or the release had been tried before: there
the code does not restore what was (section 4), everywhere else it must. The last
step ignores an SSH that fails and goes on; `unreached` records the hosts whose
timer it could not start. The check at the end compares the candidate a host
serves, which releases share (`CandidateOf`), and a connection that it loses
trips the trap, which rolls both hosts back.

### RepairProtocol

All hosts. `data` are the selected entries, each as its owner has it: other
copies play no part after `select`, whose own are the constant `Replica`.
What ties the programs together are digests, and a digest is modelled by what it
covers: a candidate by its rows, the content of a row by its columns and its
enrichment marker, the marker's payload digest by the payload. `made` and
`sealed` are the candidates, `draft` the one of which some owners have been
read, `run` the repair of a host with the rows its preflight has read and it has
not reached, `delta` what hosts have exported, `central` the canonical snapshot
that unions are merged into. `Collect`, `Prefill` and `Enrich` are the programs
that write the same rows outside the protocol. `Seal` has all hosts verify a
candidate in one step, since what one host does cannot make it valid or
invalid on another, and a row that has left its baseline does not return to it
(its marker holds a time). Definition and translation stand for the columns
that gaps concern: they are the pair that depends on each other. `repaired`
records who wrote what, so that deltas and merges can be compared with it.
Identity beyond `source`, the lexical checks of a refresh, the rows outside the
selection and the publication of files are left out.

### RelationDelta

Builder and applier of the relation delta, and the files between them.
`ReadRecord` reads a line of the dump and flushes the term before it
(`Flushed`, with `delta_for_entry` and `merge_delta_record`); `Publish` flushes
the last term, compares the dump with the one that was hashed and links the
output. `Preflight` is the full one of `--apply`, a dry merge of all selected
rows; `ApplyBatch` one transaction. Between any two of them a process may die,
the dump be downloaded again, or somebody else take the output path
(`MaxMishaps`). Merging is written as operators that follow the code's: sense
matching and its order, the room that is left in a list, pairs of a flat word
and its rich entry. Words stand for their keys, a gloss for a part of speech
with its definitions, a fingerprint for gloss and id, which it is taken to tell
apart. The words of a run of records of one term are ordered by field
(`aggregate_patches`), so `DeltaReproducesDump` takes the candidates run by run
(`CandidatesOf`); two of the fields of `MCDatasets` feed the flat columns. Taken
from the documentation of the deployment: the collector of the
shard is stopped while a delta is applied. Canonical senses are those the
importer writes (`CanonicalAsImported`): a sense with an id does not precede one
of the same gloss without, since a merge would have put the second into the
first. Of a row made otherwise the delta is not the merge of the dump: the
builder binds a patch to the later sense by its index, and
`expand_sense_patches` with `merge_relation_senses` finds the earlier one again
by its gloss. Without the assumption and with such a row in `Canonical` of
`MCDatasets`, TLC reports `DeltaReproducesDump`.

### OewnPrefill

One process with its candidate; `FillBatch` is one transaction of terms,
`PublishCandidate` the validation and the link, `AdoptOutput` the published file
becoming the dataset of the next prefill. `ProcessTerm` merges what OEWN says of
a term into its entry, with the columns that a later step reads: `Resolve` looks
up definitions in the rows as they are at that moment, earlier terms filled. The
definition stands for the part of speech and the phonetics, which are filled
like it, antonyms for examples. The staging of the WordNet release is data
conversion and is the constant `Lexicons`.

### CandidateSelection

`replica` are the canonical rows of each host, `file` the candidates by path,
`job` the processes, `package` the output directory of the packager. A row is
what the jobs tell apart of it: term, rank, source and scope (`origin`), its kind
(a word, a phrase or unfit, which stands for every lexical rejection), its
evidence, the fields it lacks. A job reads one SQLite transaction: `StartSelect`
takes the replica as its `snapshot`, `ScanPage` is one page of
`_fetch_source_page` through the loop of `build_candidate`, `Choose20k`
`_choose_counts` and `_insert_selection`, `CopyRows` `_copy_selected_rows` with
the queue. `StartRefresh` reads the template and `OpenReplica` the replica, in
this order and with commits in between. `Gate` is the structural part of
`candidate_quality_report`; it reads the replica once more, as it is by then.
The packager stages both databases (`StartPackage`, `GateStaged`) and publishes
its directory by an exclusive rename (`RenameRelease`) or by `mkdir` and one link
after another (`ReserveRelease`, `LinkPart`, `SyncPackage`), which an error undoes from
the last link back (`UndoRelease`). `Enrich` commits a row between any two of these, `KillJob`
ends a job, and jobs may share paths. `moments` is a history variable: all that
a replica has been.

### ShardSnapshots

`CopyPages` is one round of SQLite's online backup, which copies some pages and
begins again when another connection has written the source. The snapshot is
linked before its manifest (`PublishSnapshot`, `PublishManifest`), and
`AbortBackup` may fall between them. The merge opens every file anew in each of
its phases: `IdentifySnapshot` for the identity, `CopyBase`, `CopyOwned` for the
rows of an owner, `CheckOwned` for their digests, `PublishMerged`. Meanwhile
an operator may remove a snapshot and back up again, also from a host that has
been given another dataset (`ReplaceDataset`). A digest stands for what it is the
digest of. `past` is all that a replica has been.

## 3. Checks

| Run | Instance | What it shows |
|---|---|---|
| `release` | 3 releases, at most 3 nested activations (`MaxHistory`), symmetric; 2 ids, 2 acceptable candidates and a torn one, 2 replacements of the upload (`MaxUploads`); 2 replicas of up to 5 rows, candidates of 3 with 1 phrase, pages of 2, 2 jobs at a time (`Slots`) and 3 in all (`MaxJobs`), 2 commits (`MaxEdits`) | `Resolvable`: whatever is cut, link and journal can be resolved; `AcknowledgedIsDurable`; `FailedActivationRestores`; `RefinesHistory`; `SealedIsWhole`: what is under `releases/` verifies and holds the candidate that was asked for; `StagedIsDurable`; `SelectionIsBest`, `RefreshKeepsSelection`: a candidate is the best of, or a refresh from, its replica at one moment; `PackageIsReady`: a directory with a manifest is whole and complete |
| `batcher` | 4 lookups, 3 terms, batches of 2, 2 attempts; 4 texts of 2, 1, 0 and 2 chunks, batches of 3, posts of 3 chunks | `EveryCallReturns`, `ImplementsService`; `AnswersOwnText`: a text is answered with its own translation, whole, or none; `EveryTextReturns` |
| `worker` | 2 batches of 2 terms with different needs, 2 posts (`MaxPosts`), bucket and daily limit of 8, 2 ticks a second, days of 3 ticks, 4 ticks; 2 hosts and 2 candidates, 3 events on one host and 1 scan on the other (`MaxEvents`); 1 visitor, 2 threads, 1 lookup and 2 documents a day, 1 slot, 2 days | `WithinQuota`: no day and no window is leased more than its limit; `HonestRefusals`: nothing that could be granted is refused, and a refusal names a time that is enough; `NothingUnleased`, `EveryPostAnswered`; `ReadyIsTrue`: what the progress page declares ready is complete; `EveryAnswerIsPaid`: no answer or document beyond what was charged, no charge beyond the limit |
| `datasets` | 3 rows, groups of 2, each pass with no limit, `--limit 1` or `--limit 2`, at most 2 faults (`MaxFaults`); 2 entries, dumps of 3 records, lists of 2, batches of 1, 1 mishap (`MaxMishaps`), 2 applications (`MaxApplies`); 3 OEWN terms, 5 synsets, lists of 2, batches of 2, 1 death (`MaxDeaths`), 1 adoption (`MaxPrefills`); 2 hosts with replicas of 2 or 3 rows, 1 commit, 1 replaced dataset, 3 backups (`MaxCommits`, `MaxReplaced`, `MaxBackups`) | `SuccessCoversShard`: a pass that succeeds passed over no row and ends early only at its limit; `ProcessedIsDurable`, `ThrottledRowsUntouched`, `EveryRowMarked`; `DeltaReproducesDump`, `FlatHasDefinition`, `ApplyEndsWhole`; `PrefillExtends`; `MergedIsOwned`: of every owner a merged database has the rows its replica held at one moment |
| `activation` | 2 releases and both collectors on one host, any state of them at first; 3 releases over two hosts, 2 of one candidate, all `Failures`, repeated dispatches; symmetric in 2 releases | `ChangeTogether`: whatever is cut, link, journal and unit files agree or a rollback can go on; `RollbackRestores`; `ActivatedServes`; `SettledRunRestores`: no host the run kept in touch with stays on a failed release, or unscheduled where the last step got through; `SuccessServesBoth` |
| `repair` | 2 hosts, 3 rows of which 2 have gaps, 2 candidates, 2 repairs of rows, 1 write by others (`MaxOutside`); both collectors with their watchdogs, all enabled at boot | `RepairCanRestart`, `NoGapEscapes`, `DeltaIsRepaired`; `UnmovedTakesUnion`: a valid union can be merged if nothing moved; `MergeIsExact`; `OneWriter`; `CapturedResume`: what was captured runs again, and no stale capture is replayed |

Runs that find a property of the documentation violated (section 4):
`conflicts`, `overlap`, `lost`, `baseline`, `wide`, `second`.

An MC module puts two to four components that the code never lets touch the
same state into one run. They share no variable, so that their interleavings add
nothing: a behaviour is about one of them, which the variable `subject` names or
the guards of `MCNext` see. The type invariants are no properties of the
runs: most are proved (section 5) and the others were checked when the modules
were written. Each safety invariant of a run is proved as well; the run shows
that its cases happen and that a plausible bug would violate it.

*Bounds.* Three releases and three levels give a journal that nests a
predecessor that nests another, and a third release to activate between them;
the lemmas of the proofs show that no deeper level behaves differently. Four
callers with batches of two leave a queue behind a batch, put callers of one
term in one batch or in two, and drain several callers on a 429. Three rows in
groups of two make a full and a partial group, a boundary between them, and limits
at the end of a group and inside one: with a limit of one the group is the last,
its row may fail, and rows are left that the pass never tries; two faults let a retry fail, a restart fail
again, and a SQLite error precede a crash. Four texts in batches of
three leave a queue too, a text without a chunk takes a place and no slice, and
posts of three chunks cut a text in the middle of a batch. Two uploads allow a
candidate that is exchanged and exchanged back around a copy. The daily limit of the
limiter is its bucket, so that the refill between two leases of a day lets both
limits bind, before a midnight and after it; the quota is proved for all other
sizes (section 5). Two batches that together ask for more than the day allows
meet refusals, and the second post may find what the first cached.
Three events on a host of the page put two changes into a scan, such as a release
that is activated and rolled back while rows are counted, or a change before and
one after; more are covered by the proof.
Two threads of one visitor race for the last request of a day and for one slot,
before and after midnight; the proof covers every number of them.
Three records of a dump let a term return after another one, in the
order that decides which sense an id'd patch meets, and with more values than a
list takes; with batches of one a death falls between two committed rows, and a
second application repeats them. The starts of a shard differ from the canonical
dataset in each way the applier distinguishes: fuller and emptier lists, an entry
without definition, a missing entry, a missing sense. Three OEWN terms in batches
of two have a term whose link is defined by a later batch, a term the dataset
lacks, and more senses than a list of two takes.
Five rows have a term that occurs twice, a rank that is taken twice, a single
phrase, which may become unfit, a word that may become a phrase, and in one start too few
fit rows; pages of two make a selection of three read two or three pages, with
commits between them. Two jobs at a time let a template or an input of the packager be replaced
while it is in use; a third begins from what they left. Ranks and terms are
never changed by enrichment and do not change in the instance. `MinWords` stands
for the floor of 15,000 words. Three backups for two hosts make both snapshots
and one of them again in the middle of the merge.
`ReleaseControl` with two releases has an activation
over no release, one over another, and the rollback of each; a third would be a
second predecessor, and the script looks one release back. Three releases over
two hosts give the coordinator a failed run between two others, and the check a
host on another release of the same candidate. Two candidates let a host be repaired for one while deltas of the other are about; the write by
others may fall before, between or after any two steps of the protocol, on a
queued row, a complete one or the canonical snapshot.

*Fairness.* The flusher of either batcher is weakly fair: the event loop runs ready
tasks, and httpx ends each POST after its timeout of 20 seconds, so every reply
or failure comes. In `CollectorPass` also each row's steps and the pass's own
are weakly fair, and so is `Start`: systemd restarts the service on failure and
at boot, and the daily repair unit starts it when it ends. Faults stop after
`MaxFaults`; `EveryRowMarked` says what happens once the edge has recovered.
In `EnrichmentBatch` the promises of a batch are weakly fair: provider requests
end by their timeout of 2.2 seconds, and a call of the limiter by its answer or
an error; the clock and new posts are not fair. The other
specifications have no fairness: requests and commands come when
somebody gives them, and nothing is claimed to happen.

*Deadlock* is checked except in `release`, where the jobs of the pipeline come to an
end when their number is used up, in `batcher`, whose callers call once each and
which stops when all are answered, in `repair`, which may end with its last
candidate merged, or refused by a host for good, and in `datasets`, where the
last application or prefill may be the end; so too in the violation runs over
the same modules.

## 4. Where the code differs from what is said of it

- `conflicts` (`RestoresWhatRan`). The repair unit has `Conflicts=` with the
  micro collector and `Before=` it, so systemd stops that collector before
  `capture` reads its state, and `restore` leaves it stopped. The drop-in's
  empty `Conflicts=` cannot reset it. README-SAFE says exactly the units that
  were active are restored.
- `overlap` (`ChangeTogether`). A marker left by an interrupted activation is
  taken up by a rollback of that release after another was activated: the unit
  files from before it are put under the newer link.
- `lost` (`EveryHostRestored`). After a lost connection the host's script holds
  the lock; the coordinator's rollback gives up after ten seconds, the failure
  is ignored, and the activation completes on that host only.
- `baseline` (`CandidateTakesUnion`). The package workflow applies the union to
  the candidate itself, as its "exact baseline". The candidate stores the rank
  within the selection where the canonical identity has the global rank, so the
  merge refuses every queued row whose two ranks differ. Applied to a canonical
  snapshot, as the top-level README has it, the union is accepted
  (`UnmovedTakesUnion`).

- `wide` (`AnswersOwnText`). `translation_chunks` cuts a definition into chunks
  of at most 480 code points; the Worker drops a text of more than 480 UTF-16
  units. A full chunk with a character outside the basic plane is left out of the
  reply, and every later chunk of the slice, also those of other callers, gets
  the translation of the next one. A comment of the Worker says that the mapping
  of inputs to outputs is exact.
- `second` (`SecondChangesNothing`). `merge_senses` counts what one run adds
  against its limit of 40, not what the entry has. An entry with more OEWN senses
  gets the next ones from every prefill of an already prefilled dataset, whose
  repetition a test names idempotent. `resolve_rich_candidates` is another cause:
  it takes definitions from rows that a later batch of the first run fills.

Each is stated with the sentence it contradicts under `findings` in
`PROJECT.json`. Traces of the models show further consequences, which are listed
as hazards because no sentence of the repository speaks of them clearly: the
persistent timer may start the repair before the collectors are reset, and they
then run beside it; a second activation confirms a release while an unfinished
rollback has replaced some of its unit files (`ActivatedServes` says that this
is the only way a confirmation can be wrong); a failed second dispatch of an
active release rolls back on one host what an earlier run had completed; an
activation left behind by a lost connection that then fails stops the timer the
workflow has just started; a host that the last step of a run does not reach keeps
its release and no scheduled repair (`unreached`); a pass whose limit was reached
by its last group ends with success although a row of that group failed and
others were never tried (`SuccessCoversShard` says that only then); an ordinary
write to a selected row between the preparation of a candidate and its activation
makes its preflight fail until it is prepared again.

## 5. Proofs

Each theorem holds for every value of the constants that the named assumptions
of its module allow; TLC evaluates them all. They say what a constant is: that
its functions have their types, that bounds and limits are numbers, that model
values are distinct from what they stand beside, that sets are finite where the
code counts them (`BatchConstants`, `QuotaConstants`). Some say a little more.
`BatchConstants`: what all terms of a batch can need fits a full bucket, as eight
terms of four requests do. `CollectorConstants`: a shard has each of its rows once.
`NotSaved`: no saved state of the units is `None`. `SnapshotConstants`: a corpus
is a table of rows. `CandidateConstants`: what is asked of the pipeline names
one of its hosts. `CandidateTypes`: every host has a replica, whose rows have an
integer rank and a kind. `DeltaTypes`: the rows that a builder or an applier begins
with are lists of words, entries and senses, and a shard has the ids of its
canonical dataset, though perhaps no row there. `PatchesRelate`: a patch relates
its sense to something, since `extract_relation_senses` passes over the others.
`CanonicalAsImported`: as described under `RelationDelta`. `PrefillTypes`: a dataset comes with a
search index of what it has, as the builders write it.

Two groups of theorems have a hypothesis besides, and for each a run shows that
it is needed. Those about `ReleaseControl` take `Overlap = FALSE` (no release is
activated or rolled back while another has a marker left): without it `overlap`
refutes `ChangeTogether`. Those about `EdgeTranslationBatcher` take `Wide = {}`
(the Worker accepts every chunk that the collector makes): without it `wide`
refutes `AnswersOwnText`.

In nearly every case the property is not inductive, because it speaks of results
and not of what a process that is under way has read before. The invariants
below add just that, and their theorem is the one the others are drawn from.

**Releases** (`ReleaseTransactionProofs`).

- `JournalInvariant` (`IInv`) says for every program counter what the directory,
  the survivors of a power loss and the locals must be, e.g. after `SwapLink`
  that the journal on the disk is prepared for the release the link now names and
  that the saved journal lies below it. From it `TypeCorrect`,
  `AlwaysResolvable`, `SuccessIsDurable`, `FailureRestores` and, as an action
  property, `SettledStaysInService`. `TrackRefinesHistory` is the refinement:
  with `Outcomes` as the histories each survivor can still settle on, every step
  pushes or pops one release, rules outcomes out, or stutters.
- `StagingInvariant` (`SInv`) adds to `SealedIsWhole` and `StagedIsDurable` what a
  seal relies on after each of its steps (`CommandOK`: from the comparison on the
  tree carries the candidate that was asked for, at the publication the manifest
  is that of the tree) and that a release is never replaced, so that no power loss
  brings back a directory whose id is free (`ReleasesStay`).
- `CandidateInvariant` (`CandInv`) says of every job what its steps have read:
  before the copy a refresh carries the items of its template, after it each item
  is the row of one moment or, for another owner, that of the template
  (`Retakes`); a staged package is of one moment and without gaps
  (`OfOneMoment`); the parts of a directory are linked in their order, by one job
  alone. The replicas go on changing meanwhile, which `moments` remembers. From
  it `RefreshesKeepSelection` and `PackagesAreReady`.
- `SelectionInv`, on top of it, says what a selecting job has of its snapshot. While
  it scans, its pool is a function of the rows passed, by kind and in their order,
  as far as the limit asks (`PoolFits`), and those are the rows at or before its
  position (`Scanned`); a page brings the next `PageRows` of them or all that are
  left (`PageFacts`). The choice of the counts and the interleaving of words and
  phrases have a closed form (`InterleavedIs`: the n-th item is a phrase where the
  share of phrases rises), which says that the result is the best of the snapshot
  (`IsBestOf`), and the copy leaves it as it is, for the snapshot is the one that
  was scanned (`CopyUnchanged`). From it `SelectionsAreBest`, for every limit,
  phrase target, minimum of words and page size.

**Activation** (`ActivationProofs`).

- `CoordinatorInvariant` (`CoordinatorInv`): of a host that is not `adrift` the
  run knows everything. Its stack is the one from before or that with the release
  on top, the one from before until it has been begun with and again once undone
  (`Tracked`), its timer runs once the last step has reached it, and the
  coordinator hears the command it waits for and no other (`HearsOne`). From it `SettledRunsRestore` and `SuccessesServeBoth`.
- `ControlInvariant` (`ControlInv`): a release that has a marker lies between the
  release it found and itself (`Between`: link, journal and saved files are of
  one of the two), no two releases have one (`OneUnfinished`), the history is a
  stack each of whose releases has saved the unit files of the one below
  (`Stacked`), a release whose activation is complete serves until its rollback is
  announced (`CompleteServes`), and the step at which the script stands says what
  it has done (`Activating`, `RollingBack`). From it `ReleasesChangeTogether`,
  `RollbacksRestore` and `ActivationsServe`.

**Collector** (`CollectorProofs`).

- `BatcherInvariant` (`BInv`) adds to types that an unresolved call is in
  `flusher.batch \o pending` exactly once, and what the flusher's locals may be at
  each counter. From it `CallsKeepOnePlace`, `CallsAreServed` and the refinement
  `BatcherImplementsService`.
- `PassInvariant` (`PassInv`): what is written and not committed was written by
  this pass, every eligible row behind its position has been dealt with or is in
  the group at work (`Dealt`), and none before it has been tried (`Ahead`). After a
  partial group no row is left, or the rows processed and those of that group have
  reached the limit (`LastGroup`; `CountedRows` are those of the group at work, then
  those that failed). From it `SuccessesCoverShard` and
  `ProcessedRowsAreDurable`; `ThrottledRowsAreUntouched` is an action property.
- `TranslatorInvariant` (`TransInv`): what the flusher has got for the chunks of
  its batch is, position by position, nothing or their own translation (`Known`).
  That the slices add up to the chunks of the batch is a fact about the folds they
  are written with (below). From it `TextsGetTheirOwn`.

**Edge Worker** (`EdgeWorkerProofs`).

- `LimiterInvariant` (`LInv`). `WithinQuota` is `DailyQuota` and `BurstBound`,
  `HonestRefusals` is `NothingWithheld` and `RetryAfterIsEnough`. The handlers see
  the row and not the history: `LInv` adds that the row's count is what the
  history says of its day, that nothing was leased on the days since, and that for
  every window the leased tokens and those in the bucket together are at most a
  bucket and the refill. A lease lowers one side of that by what it adds to the
  other; a tick raises both bounds by one or fills the bucket, which then starts
  a window of its own.
- `BatchInvariant` (`WInv`): what has been sent and what the granted terms of all
  invocations will still send is at most what was leased, and the lease of an
  invocation is asked for when all its missing terms wait for it, and once
  (`InPhase`). The sums over terms and invocations are followed by `FoldTheorems`.
  From it `NothingIsSentUnleased`.
- `QuotaInvariant` (`QInv`): a thread that has counted is the one with the write
  lock and its count is that of the row (`CountIsCurrent`), the remainders
  reported for an account lie above what is left of it (`RemaindersAbove`), and
  answers, debts and slots add up, for which the cardinalities of the sets of
  threads are followed step by step. From it `AnswersArePaid`.
- `PageInvariant` (`PInv`) adds what counts vouch for on their way to the page
  (`Holds`): as long as the dataset they name is there, a candidate counted as
  complete is complete in it. It holds when the rows are counted, no later change
  breaks it since no dataset comes back and no gap opens, and it does not depend
  on which candidate is linked. Once the dataset is compared, `~open` implies
  `true` (`AnswersHold`), and `PageIsTrue` combines the answers of all shards:
  `ReadyPagesAreTrue`.

**Repair** (`RepairProofs`).

- `RepairInvariant` (`IInv`). What a repair wrote is recognised later by its
  marker only. `IInv` adds `Marked` (a marker with a candidate's digest is in the
  history of repairs), `Restartable` (what a running service has still to do is
  in the queue and as it was read, because no other program writes on that host
  meanwhile) and `KeepsDefinitions` (a repair leaves a definition that its
  candidate has). From it `RepairTypesHold`, `RepairsRestart`, `GapsAreQueued` and
  `DeltasAreRepairs`. A row of a valid union (`UnionRow`) is then a repair of the
  candidate's row, from which `MergesAreExact` follows as an action property, and
  with `KeepsDefinitions` that the columns a gap opens are enough to close it
  (`UnmovedUnions`).
- `TakeoverInvariant` (`TakeInv`): what quiescing has passed stays down
  (`StaysDown`), because everything that could start a collector (its timer, its
  watchdog, the recovery) is passed before it: the proof is about the order of the
  list. What is owed is in the snapshot, the snapshot is what this run read, and
  restoring has not passed it yet (`SnapshotIsRead`, `OwedIsRestored`). From it
  `RepairWritesAlone` and `CollectorsComeBack`, for every set of enabled and of
  conflicting units.

**The relation delta** (`DatasetProofs`).

- `DeltaInvariant` (`DInv`): what a preflight found to fit still fits when its
  turn comes, since earlier batches wrote other rows, the delta is never replaced
  and nobody else writes the shard (`StillFits`). From it `RefusalWritesNothing`.
- `RowsInvariant` (`AInv`): a row of the shard is the original one, or that one
  merged once with its row of the delta (`AppliedOnce`), however often and
  wherever an application is cut and repeated. This rests on a fact about the
  merges themselves, that merging a row of the delta into its own result changes
  nothing: proved for `AddUnique`, `TakePair` and `MergeSense` each, since every
  value, pair and sense is by then present or refused for a reason that lasts (a
  list that is full stays full). From it `ApplicationsEndWhole` and, with the fact
  that a pair puts both of its sides in or finds them there, `FlatWordsAreDefined`.
- `BuildsInvariant` (`CInv`) says of a builder whose dump is still the one it
  hashed that its open chunk has what the records of the run it is in say of their
  term, and that its staged rows represent what all records before that run say
  (`ScannedTo`, `Represents`); of a published delta, that it has the whole dump.
  Two facts about the merges carry it. A list of compact rows *stands for* the
  senses that patches give when it has one row for each sense they change or add,
  the new ones in order, with what that sense gained, and no earlier sense of the
  list would be found for it (`Stands`): one more patch keeps that, so do the rows
  of a chunk merged into the staged ones, and merging them into the canonical
  senses gives those senses but for the attribution (`StandsUnique`). This is the commutation
  of `merge_compact_sense_patches` with `merge_relation_senses`, and where
  `CanonicalAsImported` is needed. And whether a word is taken depends on the words
  taken before it and the room alone (`Admits`, `Sound`): taking from a list what
  was already taken from its beginning, followed by new candidates, is taking from
  all (`PairedTwice`), so that chunks share one capacity, and what was taken fits
  the row it was taken for (`PairedMerged`). From it `DeltasReproduceDumps`, for
  every dump, however its terms return, every capacity and range.

**Snapshots and the prefill** (`CollectorProofs`).

- `SnapshotInvariant` (`NInv`): a finished copy has all pages of one moment, a
  snapshot with its manifest is what a replica was (`FilesOK`), and the shards
  that a phase of the merge has passed have had the identity, or the owned rows,
  that the merge goes on with (`MergeOK`), whatever was removed or made again
  since. From it `MergesAreOwned`.
- `PrefillInvariant` (`PrefillGrows`): the candidate has every entry of its
  dataset, grown (`Grown`: each list begins with the one it was, and a word new in
  a flat column has a rich entry that can be shown), and the terms before the next
  batch have been treated. A fold over words, links or entries only ever appends,
  growing is transitive, and what a term has got the later terms of the batch, and
  the later batches, leave to it (`FoldReaches`). That a dataset searches what it
  has is part of the invariant, since a published candidate becomes the next
  dataset. From it `PrefillsExtend`.

**Folds** (`FoldTheorems`, `LeftFolds`). The models use the folds of the community
modules, which are recursive functions inside a LET. An induction theorem with an
operator for a parameter cannot be used by the installed provers, but a least
counterexample can: `FoldTheorems` first shows that such a function exists (by
a least number without one), then what it gives for one element more, and
from these what sums over a set and concatenations of a sequence are.
`LeftFolds` has `FoldLeft` for an operator that is its CONSTANT: that it stays
within a set its steps keep (`FoldWithin`), that it has what one step brings about
and the later ones keep (`FoldReaches`), that a prefix is absorbed
(`FoldAbsorbs`), that folding again from the result changes nothing
(`FoldAgain`, `FoldOfNothingNew`), that it goes from one set of states to the next
with every element (`FoldAdvances`), what the last element does (`FoldLast`) and
that a concatenation is folded part by part (`FoldConcat`). It writes
the fold out itself, with the text it has in the community modules, so that its
instances bring nothing else into the modules that make them; each client shows
that the two are the same. `DatasetProofs` instantiates it once for each operator
that a delta is merged with, `CollectorProofs` for those of the prefill,
`ReleaseTransactionProofs` for the pool and the interleaving of a selection.

`CallsKeepOnePlace` and `SettledStaysInService` are proved and no longer
properties of a run: the first says what the refinement already implies of the
calls, the second what `RefinesHistory` says of settled releases.

Only model-checked: the liveness properties `EveryCallReturns`,
`EveryTextReturns`, `EveryRowMarked` and `EveryPostAnswered`, since liveness under
fairness is beyond the prover. Every safety property that a passing run checks is
the statement of a theorem.

## 6. Not modelled

Not modelled for good: HTML and dictionary parsing, phonetics, PDF rendering,
report wording, the builders of the base dataset (sequential data conversion
without state), SQLite and the file system themselves.

Components without a module, and why:

- Shard export and merge. Sequential copies between database files, run by hand
  after the collection has ended; the merge as a writer of the canonical dataset
  is part of `Enrich` in `RepairProtocol`. Two exports to one output at a time,
  which no document foresees, would share a temporary file.
- The fail-over of the Worker between API hosts, its translation batch and the
  relay's cache. They keep no state of their own between requests but what the
  cache service holds, of which nothing is promised.
- `validate_collection_writer_state.py`, `preflight_repair_queue.py`,
  `inspect_coverage.py`, `verify`, `compare` and `identity` of the snapshots: they only read.
- `finalize_oxford_scope.py` and the first builds: one process, one conversion.

Not modelled in what is there: a power loss that takes back unit files or the
removal of markers, which the script does not sync; the age of the rows a
watchdog looks at, so that a collector started after a long repair may be found
stale at once (`tools/watch_enrichment.py:52`) is a choice of the model; clocks
that step back, which the limiter would count twice
(`worker/dictionary-edge.js:1421`); the host gates and the delay before a
batcher's first flush; what `/v1/web/quota` shows and the temporary files of a
document; the preflight queue mode of the collector; the lexical policy of the
pipeline beyond one class of unfit rows, its full-text index and the bytes of a
package. SQLite's online backup is external: that it ends in a copy of one
moment is taken from its documentation, and under steady commits it may begin
again without end, so that no liveness of a backup is stated.

Two things were met that no run states, since they contradict no sentence about a
modelled state. `package-fast20k.yml:228` asserts `report["ftsConsistent"]`, a key
that `candidate_quality_report` does not return. And a repair of the part of
speech that turns a selected word into a phrase makes every later refresh of the
selection refused, as `RefreshKeepsSelection` requires, until it is selected anew.
