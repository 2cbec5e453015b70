# Verification of sync1

sync1 keeps a directory tree on several machines in step through one encrypted S3 prefix (the
*vault*). There is no server: S3 objects, the files under `.sync1/` and one conditional PUT are the
whole protocol. This directory holds TLA+ models of that protocol, of what one machine does to its
files, of the pipeline that uploads them to S3 and to a local mirror, of the mirror, of the storage
classes of the objects and of the previews; the TLC configurations that check them; and
machine-checked proofs of every safety property those runs check, for any number of machines, files,
objects and steps, with the exceptions section 4 names.

Paths below are relative to the repository root (`src/sync/commit.ts` and so on). Run, in this
directory, `tlc -config vault_race.cfg MCVault` for a model-checking run and `tlapm Vault_proofs.tla`
for a proof.

## 1. Inventory

| Component | State | Operations | Talks to |
| --- | --- | --- | --- |
| Commit protocol: `sync/commit.ts`, `commit-pointer.ts`, `mutate-state-db.ts`, `s3/retry.ts` | S3: `/current`, `/states/<stamp>`. Disk: `state.db`, `last_synced_version`, `upload_in_progress` | `sync`, every policy edit, `fetch_remote` | S3 (conditional PUT), other machines through it |
| Garbage collection: `sync/gc.ts` | objects table of the candidate, a staged set of orphans | `gc --apply` | commit protocol, object deletes |
| Conflict rules: `sync/conflict-rules.ts` | none | decide one dirty row | local changes |
| Scan: `fs/update-cache.ts`, `fs/walker.ts` | `cache.db`, a staging database, the hash pool | `update_cache`, first half of `sync` | the user's files, `state.db` (stubs) |
| Local changes: `sync/apply-local-changes.ts`, `reconcile-cache.ts` | candidate `state.db`, in-flight uploads per hash | second part of `sync` | scan's rows, S3 uploads |
| Remote changes: `sync/apply-remote-changes.ts`, `fs/stub.ts`, `fs/durable.ts` | files, stubs, `cache.db` | third part of `sync` | candidate, S3 downloads |
| Stubify, materialize: `fs/stubify.ts`, `fs/materialize.ts` | file or stub per path, `cache.db` | replace content by a stub and back | S3 (HEAD, GET), thumbnails |
| Upload pipeline: `sync/apply-local-changes.ts` (second pass), `concurrency/pools.ts`, `s3/upload-object.ts`, `fs/mirror-sink.ts`, `fs/encrypt-file.ts` | metadata pool, stream pool, error boxes; per job a source and one stream per sink | dispatch, HEAD, tee, drain, retry | S3, mirror |
| Lifecycle and lock: `commands/init_remote.ts`, `attach_remote.ts`, `vault/lock.ts`, `cli.ts` | `vault.json`, `remote.json`, `lock`, manifest in S3 | create, attach, acquire, release | everything else runs under the lock |
| Mirror: `commands/mirror.ts`, `fs/mirror-ops.ts`, `fs/mirror-sink.ts`, `sync/mirror-metadata.ts` | a second copy of objects and snapshots, a manifest and a pointer | written by every commit; catchup, verify, prune | upload pipeline, S3, clean local files |
| Storage policies: `sync/converge-storage-policies.ts`, `s3/policy-evaluation.ts`, `s3/storage-class-actions.ts` | storage class and restore state of each object | `converge`, `status` | S3 HEAD, COPY, RESTORE |
| Ignore policies, case collisions: `commands/ignore.ts`, `fs/case-collision.ts` | `ignore_policies` table | filter the scan and the pull | commit protocol (`mutateStateDb`), scan |
| Thumbnails: `fs/thumbnail.ts`, `commands/thumbnail.ts` | previews, named after source, policy, parameters and content | ensure, cleanup (and a report) | the user's files, `cache.db`, media tools |
| Thumbnail policies: `commands/thumbnail_policy.ts`, `db/repositories/thumbnail-policies-repository.ts` | the `thumbnail_policies` table | create, edit, delete | commit protocol (`mutateStateDb`) |
| Sanity check, status, diff, inspect, encryption, CLI | derived or none | reports and conversions | read-only towards the rest |

### What is hard

* **Concurrency between machines.** Nobody is locked out: machines build candidates on whatever
  version they read, and the If-Match on `/current` decides. An answer can be lost while the request is
  processed, at once or later, or never; the SDK resends by itself, `withS3Retry` has no limit.
* **Concurrency inside one machine.** The user edits while the scan hashes and while the pull renames.
  Hashing, uploading and downloading run in pools; rows are written when jobs end, in any order.
* **Crashes.** There are four files under `.sync1/` that a commit changes one after the other, after S3
  has already changed; and the tree and `cache.db` change before the CAS is even tried.
* **Streams that wait for each other.** One read and one encryption feed S3 and the mirror in lockstep.
  Each stage can give up before, during or after its bytes, and each failure shows up in the others as
  a failure of their own.
* **Two stores, one commit.** The mirror is written around a commit that only S3 decides, and its
  failures are tolerated; what it claims to hold has to stay true through gaps, kills, gc and prune.
* **State read now and used later.** The baseline of a row (`last_synced_parent_version`) decides
  commits many scans and syncs after it was recorded; gc deletes bytes some time after the CAS that
  made it legal.

### What makes it correct

* one linear history, reported commits stay in it, local baselines are points of it (Vault);
* the objects a version lists exist (Vault);
* commands end (Vault, liveness);
* `cache.db` speaks only of versions that were committed; the scan misses no edit; a finished sync
  leaves no silent difference; a commit replaces only what this machine has had; a pending edit is not
  touched (WorkingTree);
* no path is ever without both its file and its stub, neither stubify nor materialize changes what a
  path stands for, and only committed bytes are given up (StubCommands);
* repeated converge runs bring every object to its class, and none becomes colder than some state of
  the vault asked for (Converge);
* every dirty row is settled once and before the call returns; a row is only committed when S3 holds
  its bytes whole; nothing short of an object is published as one; a failure costs exactly what the
  documentation says it costs; the call ends (UploadPool, UploadUnit);
* the mirror's pointer never names a version that was not committed, a clean sync keeps a complete
  mirror complete, catchup claims only what it has seen, a restorable mirror stays so, and catchup
  makes up for everything missed (Mirror);
* a policy row is one the schema accepts, whatever edits led to it; a preview's name tells what it was
  made with; no run deletes a preview that is wanted or cannot be made again; ensure and cleanup
  settle (ThumbnailPolicies, Thumbnails);
* a root is worked on by one command at a time, and what a failed or killed attach left keeps it out
  for ever in one case only, half attached, which the code means to exclude and does not (section 6);
  a vault that can be read belongs to one init, a root that can be used to one vault (Bootstrap).

## 2. Modules

    LinearVault            abstract specification of the vault
      ^ implemented by
    Vault                  the commit protocol: S3, several machines, their disks, lost answers, crashes
      ^ MCVault            instances for TLC
      ^ VaultInv           the inductive invariant
        ^ Vault_proofs     proofs: types, the invariant, what follows from it, contents without gc
    ConflictRules          the conflict matrix
      ^ WorkingTree        one machine: tree, cache.db, scan, sync
        ^ MCWorkingTree    instances for TLC
        ^ WorkingTree_proofs       proofs
        ^ StubCommands     stubify and materialize on WorkingTree's state (uses ObjectStorage)
          ^ MCStubCommands         instances for TLC
          ^ StubCommands_proofs    proofs, on top of WorkingTree_proofs
    ObjectStorage          storage classes and restores of S3 objects, and what the code reads in them
      ^ Converge           converge and status
        ^ MCConverge       instances for TLC
        ^ Converge_proofs  proofs
    RowLedger              abstract specification of folding a batch of rows
      ^ implemented by
    UploadUnit             one object: source, tee, S3 and mirror, retries
      ^ UploadPool         the rows, the jobs per content, both pools
        ^ MCUploads        instances for TLC
        ^ UploadPool_proofs  proofs, the refinement of RowLedger among them
    Mirror                 the mirror through commits, catchup, prune and faults
      ^ MCMirror           instances for TLC
      ^ Mirror_proofs      proofs
    ThumbnailPolicies      the policy table, its merge and validation, preview names
      ^ Thumbnails         ensure and cleanup over sources that change under them
        ^ MCThumbnails     instances for TLC
        ^ Thumbnails_proofs  proofs, about the policies too
    Bootstrap              init, attach and the lock of a root: where Vault's initial state comes from
      ^ MCBootstrap        instances for TLC
      ^ Bootstrap_proofs   proofs

### Vault

State and code correspond as follows.

| Variable | Code |
| --- | --- |
| `current` | body of `/current`; the ETag is the stamp itself, because stamps are unique |
| `states[v]` | `/states/<v>`: versions table, hashes referenced by `entries`, objects table |
| `stored` | the keys under `objects/` |
| `wire` | conditional PUTs whose answer was lost and that S3 may still process |
| `stateDb`, `lastSynced`, `marker` | `.sync1/state.db`, `last_synced_version`, `upload_in_progress` of each machine |
| `run[m]` | local variables of the command a machine is running |
| `acked`, `faults` | history only |

A step is what another machine can observe or what a crash can separate: reading `/current` and its
immutable snapshot is one step (`Start`, `Refetch`), so are each upload (`Upload`, `Dedup`, `Adopt`),
the snapshot PUT, the CAS with its answer (`CasAnswered`) or without (`CasUnanswered`, `WireLands`),
the read-back, each object delete, and each of the writes that promote (`Promote`, `WriteStamp`,
`ClearMarker`). `sync`, `gc`, `mutate` (`mutateStateDb`) and `fetch` (`fetch_remote`) share the commit
steps and differ where the code does: sync reads `/current` back after a failure, gc and policy edits
send the raw conditional PUT and start over on a 412 (at most `MAX_CAS_ATTEMPTS` times), gc promotes
only after its deletes. A machine runs one command at a time, because of the vault lock; which
commands its user runs is `Commands[m]`.

Abstracted: which rows are dirty (any set of additions and deletions of content, and rows that change
no content); file contents; the effect of a policy edit, which no property here tells apart. A resend
by the SDK is `CasUnanswered` with the program counter unchanged, a `withS3Retry` attempt is `ReadBack`
going back to `cas`. A command that ends in an error it does not retry is `Crash`: what remains is what
is on disk and in S3.

### ConflictRules and WorkingTree

WorkingTree follows one machine in detail and reduces the others to `OtherCommits` (write, rewrite with
the same content, delete, a policy edit, a gc) and the commit protocol to one step that succeeds if
`/current` is still the version this sync read, which is what Vault's `NoLostUpdate` and
`BaselineMatches` say.

| Variable | Code |
| --- | --- |
| `remote` | the version `/current` names: entries and objects table |
| `tree[p]` | the real file and the `.stub` at a logical path, with modification times |
| `cache[p]` | row of `cache.db`: state, hash, mtime, `last_synced_parent_version` |
| `known` | objects table of the local `state.db`, against which stubs are believed |
| `run` | the command: `hashing` is the hash pool's jobs, `staged` the staging database, `exclude` the paths kept from the pull, `handled`/`settled` the rows to reconcile, `landing` files renamed into place whose row is not written yet |
| `history`, `seen` | history only: entries the vault ever held, entries this machine had |

`WalkPath` is one logical path of `performUpdateCache`'s merge-join; `HashPath` the end of a hash job,
which reads whatever the file holds by then and records the modification time it had at the walk;
`ApplyStagedRows` a batch of the staging database written in a transaction; `LocalRow` one dirty row
through the conflict matrix, deletions first; `PullFile`/`RecordPulled` the two halves of a pulled
change; `Reconcile` one row of `reconcileCacheAfterCommit`.

Left out here: directories and changes between file and directory, ignore policies, case collisions,
glob arguments, an edit inside the single turn of the event loop that renames a pulled file and stats
it, and files whose modification time is set back (`cp -p`, `touch -d`): the scan's shortcut is only
meant for times that move.

### ObjectStorage and Converge

ObjectStorage has one variable, `stored`: the storage class of each object and whether a readable copy
of an archived one is being restored, is there, or has expired. It holds the pure decisions of
`s3/archive-status.ts` and `s3/storage-class-actions.ts` and, marked external in the map, what S3 does:
a restore is accepted, completes, expires; a copy or a GET of an archived object that is not restored
is refused.

| Variable of Converge | Code |
| --- | --- |
| `vault`, `db[m]` | `entries` and `storage_policies` of the version `/current` names and of each machine's `state.db` |
| `run[m]` | a converge or, with `apply` false, a status: `todo` the hashes not dispatched, `stage` the jobs of the s3 pool |
| `uploads` | multipart uploads S3 keeps parts of |

A converge looks at its own `state.db`, which may be behind the vault. One job per hash goes through
the bounded pool: HEAD, then one of the five actions decided from that HEAD. A copy is one request, or a
multipart upload whose parts run in a queue of their own; each can fail, and is refused when the object
was archived or lost its restored copy since the HEAD. Which paths a glob matches is part of the table
of policies. A machine outside `Machines` also restores and copies (`Elsewhere`).

### StubCommands

StubCommands puts stubify and materialize on the tree and `cache.db` of WorkingTree, whose commands
(`OtherCommand`) bring about the states they start from; the lock keeps commands apart. `job.stage` is
the row's job: for stubify `rehash`, `confirmed`, `stubbed`, `record`; for materialize `queued` (HEAD),
`stream`, `landed`, `record`. The steps from the write of the stub to the cache row, and from the
rename to the cache row, are one turn of the event loop: they are apart because a kill separates them,
and no edit of that path comes between. `strays` are downloads that outlive their command: materialize
throws an error of its s3 pool before it waits for the stream pool, so those jobs go on without the
lock and with `cache.db` closed; one per path. `touched` is the paths somebody else changed since the
command began. The user may also place any known stub by hand (`HandStub`), which the documentation
allows.

A stray download lands (`StrayLands`), fails, or has its process killed between the rename and the
removal of the stub (`StrayKilled`). `NeverNeither` speaks of these steps too; what they do to later
scans and syncs is `SyncIsUnharmed` (section 4).

Left out: the mirror check of stubify, the thumbnail directory, the enumeration that only feeds the
progress bar, and an edit in the few instructions between two file operations of one turn.

### UploadUnit, UploadPool and RowLedger

UploadPool is the second pass of `applyLocalChangesToCandidate`; UploadUnit is the `runUnit` inside its
jobs and the streams it sets up.

| Variable | Code |
| --- | --- |
| `next`, `main` | the loop over dirty rows: the row it takes next; in `waitForRoom`, draining a pool, returned or thrown |
| `job[h]` | the entry of `inFlightByHash`: rows riding on it, sinks it still needs, and where it is in the pools |
| `verdict[r]` | `handledPaths`, the conflicts and the failed rows of the result |
| `claimed` | `inFlightByNormalizedPath`: which new rows own their case-folded path |
| `objects` | the candidate's objects table |
| `errors` | `PoolErrorBox` of each pool |
| `mode`, `verify` | mirror off, or `--on-mirror-max-retries`; `verifyRemote` |
| `bucket`, `mirrored` | the object in S3 (absent, with or without its checksum); the files in the mirror |
| `unit[h]` | the streams of an attempt: chunks the source produced (`out`) and each sink took (`got`), branches still fed (`piped`) or destroyed (`torn`), where each sink is (`at`) |

Whether a row conflicts, is a no-op or needs bytes is ConflictRules' business: here `Rows` says it of
each. A hash has one job at a time; rows that find one ride on it (`AttachRow`). A HEAD that has
answered keeps its place in the metadata pool until there is room in the stream pool (`answered`). A job
whose error is fatal is never taken out of the map (`dead`), as in the code.

In a unit the source and each sink are processes of their own. A chunk is more than a branch buffers, so
`Paused` holds the source while any branch has an untaken one. `PrimaryTorn` and `SecondaryTorn` are
`failPrimary` and `failSecondary` of `teeStream`, for an error and for a close before the end alike.
`UploadFails` and `MirrorFails` are every place a sink gives up for good: creating a multipart upload or
a directory (`open`), a part or a write (`body`), the checksum or the rename (`finish`). `Outcome`
classifies a settled attempt in the code's order: source, S3, mirror. Transient S3 errors are retried
inside a request without limit and are no step; only `withMirrorRetry` starts an attempt again.

RowLedger says what the caller relies on and nothing about how: each row gets one verdict, once, and the
call returns only when none is pending. UploadPool implements it (`LedgerSpec`).

### Mirror

| Variable | Code |
| --- | --- |
| `versions[v]`, `log` | what the `state.db` of a stamp lists and its entries use; the stamps `/current` has named |
| `s3[h]` | absent, readable, or a stage of ObjectStorage's restores |
| `local` | objects that some file with a clean cache row still has: catchup's local sources |
| `mirror` | the drive: `current`, `states/`, `vault.json`, `objects/` |
| `run` | the one command of this machine that runs: sync, a policy edit or gc (`edit`), catchup, prune |

The order of writes is the code's: a sync stores objects in both places, writes the snapshot to S3 and
to the mirror, moves `/current` and only then the mirror's pointer; gc and policy edits move `/current`
first. Metadata writes fail quietly (`WriteSnapshot`, `MovePointer`); objects fail the sync or leave a
gap, as it was told to. Catchup writes manifest and snapshot, then goes through the objects one by one
(present, recovered from a local file, downloaded, waiting for an archive, lost) and moves the pointer
last. Other machines commit and gc without knowing the mirror.

### ThumbnailPolicies and Thumbnails

ThumbnailPolicies is mostly operators: what flags `create` and `edit` accept, how an edit is merged onto
the row read back (`Merged`), what the repository validates (`Valid`), and the segment that names a
policy's previews (`Segment`). `SchemaAccepts` is the table's CHECK of migration 0012, which the
commands do not rely on. `Recipe` is what the generator is called with.

| Variable of Thumbnails | Code |
| --- | --- |
| `files[s]`, `rows[s]` | the original or its stub; the hash in `cache.db` |
| `thumbs` | the previews on disk: source, policy name, segment, hash; `made` is what they really were made with |
| `run`, `jobs[s]` | `scanThumbnails`: its mode, scope and sweep; the job of each source |
| `touched` | history only: sources the user changed under the run |

`Reach` is one entry of the main walk, `Probe` the media probe in the pool, `Visit` and `Claim` one
directory entry of a listing, `Publish` and `DropStale` the rename of a new preview and the removal of
the one it replaces, `Sweep` one preview of the final walk. The user writes and removes originals at any
time; `Scan`, `Stubify`, `Materialize` and `EditPolicies` are other commands and run between runs.
`TooLong[s]` names the policies whose preview of `s` would have a file name too long to be stubbed: those
generations fail every time (`thumbnail.ts:473`), and `PreviewsSettle` settles without them. Out of a
run's scope, a narrow `--glob` on cleanup deletes wanted previews (`docs/cli/thumbnail.md:47`); the
properties are about the sources in scope.

### Bootstrap

| Variable | Code |
| --- | --- |
| `vault[l]` | what is under a prefix in S3: `vault.json` (by its key), `states/`, `current` |
| `sealed[v]` | the `state.db` in `states/<v>`: its versions table, and the key it is encrypted with |
| `local[r]` | `.sync1/` of a root: itself, the versions table of `state.db`, `vault.json`, `last_synced_version`, `remote.json`, `lock` |
| `run[r][p]` | the command process `p` runs at root `r`, the await or write it is at, and what it has read |
| `stranger[r]` | the pid among `r`'s, if any, that the operating system gave to a program other than sync1 |

One action per request and per file: a kill or an error falls between any two. `Start` is the look at
`vault.json` (or at `.sync1/`) and the lock together; `IsProcessAlive` counts the asking process, so a
lock left under a pid that is given out again is live, and so is one whose pid an unrelated program has
(`StrangerComes`). `Throws` releases the lock, `Signal` removes it,
`Kill` leaves it. A process that was killed with a PUT on its way is one killed just after it. The other
machines' commits (`OtherCommits`) are Vault's, in one step. fetch_remote stands for the commands that
want a vault; what they do with it is the other modules' subject.

## 3. Runs

| Run | Instance | Checks |
| --- | --- | --- |
| `vault_race` | 2 machines, sync/policy edit/fetch, 4 stamps, 2 attempts, 2 faults | reported commits survive; baselines; `state.db` on the trunk; divergence reports; no lost update; `state.db` only advances; refinement of LinearVault |
| `vault_collect` | 1 machine with all commands and a rival editing policies, 1 content, 3 stamps, 2 attempts, 1 fault, fairness | what `/current` lists is in S3, through interrupted uploads resumed with the marker; every command ends |
| `tree` | 2 paths, 2 contents, 4 stamps, 1 edit, 2 foreign commits, 1 fault | WorkingTree's safety properties |
| `stubs` | 1 path, 2 contents, 3 stamps, 2 edits or moved stubs, 1 step of others, 2 faults | StubCommands' safety properties |
| `converge` | 1 machine, 3 paths, 2 objects (one multipart), 1 commit, 1 step of others, 2 faults, fairness | Converge's safety and liveness properties |
| `uploads` | 5 rows over 2 contents (one multipart; two rows fold to one path), 2 chunks, 2 mirror attempts, pools of one job, one object left by an earlier run, fairness | RowLedger; what is committed is stored and mirrored; who is blamed for a failure; no torn object; the call ends |
| `mirror` | 2 objects (one archivable), 3 versions, 2 faults, fairness | pointer, clean syncs, catchup, restorability, catching up |
| `thumbs` | 1 source, 3 contents (image, video, unreadable), 2 steps of the user, 2 policy commands, 1 upset, fairness | schema, names, what runs may delete, settling |
| `bootstrap` | 2 roots, one with 2 processes, 2 locations, 2 stamps, 2 faults, fairness | `/current` readable; a root of one vault; only half attached roots are kept out |
| `vault_gc_race`, `upload_hang`, `bootstrap_retry` | the first two as small as the behaviour allows, the third as `bootstrap` | each shows one disagreement between code and documentation (section 6) |

**Why the bounds are enough to be interesting.** The commit protocol's hazards need two machines, one
commit between another's read and its CAS, and a fault or two: with four stamps one is the initial
version and three commits can be attempted, two of one machine around one of the other; two faults are
a lost answer and a crash, or an answer lost twice. Three machines add nothing the second does not
already do to the first (and the proofs below hold for any number). In `vault_race` `Hashes` is empty,
because content is irrelevant to the order of versions. In `vault_collect` three stamps are the initial
version and two more: an upload that was interrupted and the gc, edit or sync it meets, or a rival's edit
between a command's read and its CAS. The rival uploads nothing, so the race of section 6, which needs
two machines that do, is outside this run at any bound. Run by hand with the same result: the same two
machines with four stamps (safety), and one machine with two contents, of which gc can delete one while
the other stays referenced, and four stamps (both properties). In WorkingTree a difference between machine and vault takes
one edit, one or two foreign commits (the second can restore the first's content) and a kill; four
stamps let this machine sync twice around them. A second path matters for batches, shared uploads, and
for a commit that is due to another path. Deeper one-path instances (5 stamps, 3 edits, 2 foreign
commits, 1 kill) have been run by hand with the same result. Each bound is a constant
(`MaxStamps`, `MaxAttempts`, `MaxFaults`, `MaxEdits`, `MaxOthers`) and appears as a guard;
`OutOfStamps` ends a command this instance has no stamp left for.

In StubCommands one path is enough for the interplay of scan, sync, stub, download and edit at that path;
what other rows of the same command do to it (an error that ends the command while this path's download
is running) is `HeadFails`, which may be the HEAD of another row; the second fault kills the process in which
that download is still running, or a later command. In Converge two objects suffice for one
shared by two paths with different policies and one alone, and with one pool slot the pool is full as
soon as one job runs.

In `uploads` five rows are a new file, one with the same content (riding on its job or deduplicated), a
second content small enough for a single PUT, a row whose path folds to another's, and a row without
bytes; with one slot per pool the second job has to wait for the first, and a HEAD for an upload. Two
chunks let a sink be one behind and let a failure come between two of them. Which of mirror modes and
`verifyRemote` applies, what an earlier run left in S3 and in the mirror, and which stage fails when, is
free. In `mirror` three versions are the first one, one of this machine and one of another (or a gc), two
faults a gap and a kill, or a failed snapshot and a lost file. In `thumbs` one source is enough, because
jobs share nothing but counters; two policy commands switch a policy to another branch or encoding and
back, two steps of the user edit a source under a run and stub it; the upset is a kill, a failed
generation or a run with a narrow `--glob`; generations of previews with too long a name, which one of
the policies has for the source, fail without it. In `bootstrap` the second root is the rival for a location,
so it needs one process; a fault is an error, a signal, a kill or a pid given away; two stamps are two inits, or an init and a commit that overtakes an attach; two
faults leave one attempt's files to the next and kill that as well. Three stamps with one fault have been
run by hand. Bounds: `Chunks`, `MaxMirrorAttempts`, `MaxVersions`,
`MaxFaults`, `MaxMoves`, `MaxEdits`, `MaxUpsets`.

**Deadlock** is checked in every run but `uploads` and `upload_hang`, whose subject is one call: it
returns, throws, or hangs as section 6 describes. Everywhere else an idle machine can start a command.

**Symmetry** is used over machines, contents and paths in safety runs only.

**Fairness.** `FairSpec` has weak fairness of `Step(m)`: a running command takes its next step. Node's
event loop runs whatever is ready, and a request that is answered resolves its promise. Nothing else is
fair: no command has to start (`Start` is not part of `Step`), no lost request has to arrive, no fault
has to happen. That is enough for `CommandsEnd`, because every retry of the code is caused by a fault or
by another machine's commit. It is checked under the bound on faults: with answers lost for ever
`withS3Retry` retries for ever, as it is written to.

Converge's `FairSpec` has, besides weak fairness of the steps of a running command and of the restores
S3 has accepted, strong fairness of starting a converge over all paths and of fetching: `Converges` is
about a user who goes on syncing and converging, which is how the code means an archived object to
reach its class (one run requests the restore, a later one copies). Failures are bounded by
`MaxFaults`, so it says what happens once they stop.

UploadPool's `FairSpec` has weak fairness of the loop, of each stage of a job, of the source and of each
sink: the event loop runs what is ready, and S3 and the disk answer in the end. A failure is not fair: it
can only take an answer's place. `CallEnds` excepts the one hang there is, a sink that gave up with its
branch unread (`Abandoned`), and shows that no other order of failures, full pools and drains hangs.

Mirror's has weak fairness of the commands in progress and of restores, and strong fairness of starting
catchup with `--download` and `--retrieve`: its output asks the user to run it again. Thumbnails' has
weak fairness of a run's steps and strong fairness of scanning, ensuring and cleaning up the whole tree.
Bootstrap's has weak fairness of a running command and strong fairness of attaching a root of `Keen` from
each location under each pid: a user repeats the command, and the system does not hand out the pid of
the lock left behind every time. Where it does, as for the one process of a container, the lock stays. A
program that was given that pid ends some time (`StrangerGoes` is weakly fair); while it runs, the lock
has to be deleted by hand, as the error message says.
Both `MirrorCatchesUp` and `PreviewsSettle` are about a user who goes on doing that after the bounded
faults and edits have stopped.

## 4. What is proved

Every safety property of a passing run is a theorem, for every value of the constants that the named
`ASSUME`s allow, with one exception: `ListedIsStored` where somebody runs gc. The theorem is named after
the property, with `Holds`; each module also proves `TypeCorrect`.

| Module | Theorems | For any |
| --- | --- | --- |
| `Vault_proofs` | `AckedSurvives`, `BaselineMatches`, `LocalOnTrunk`, `DivergedMeansMoved`, `NoLostUpdate`, `StateDbAdvances`; `ImplementsLinearVault` (the refinement); `ListedIsStoredWithoutGc` | machines, contents, mix of commands, stamps, attempts, faults |
| `WorkingTree_proofs` | `RowsAreHistory`, `SkippedIsUnchanged`, `SyncedMeansEqual`, `ReplacesOnlySeen`, `PendingIsKept` | paths, contents, stamps, edits, foreign commits, faults |
| `StubCommands_proofs` | `NeverNeither`, `ContentIsKept`, `OnlyCommittedIsStubbed`; `SyncIsUnharmed`: WorkingTree's four invariants hold with stubify and materialize as well | the same |
| `UploadPool_proofs` | `CommittedIsStored`, `CleanSyncIsMirrored`, `SourceFailureIsPerRow`, `IgnoredMirrorIsAGap`, `SinksPublishAll`; `ImplementsLedger` (the refinement of RowLedger) | rows, contents, chunks, pool sizes, mirror attempts |
| `Mirror_proofs` | `PointerIsCommitted`, `SyncKeepsComplete`, `CatchupIsHonest`, `RestorableStays` | objects, versions, faults |
| `Converge_proofs` | `NeverColderThanImplied` | objects, paths, tables of policies, machines, pool sizes, faults |
| `Thumbnails_proofs` | `RowsFitSchema`, `NameTellsRecipe`, `SparesWhatIsWanted`, `StubKeepsAPreview` | flags, sources, contents, edits, upsets |
| `Bootstrap_proofs` | `CurrentIsReadable`, `RootIsOfOneVault`; `OneCommand` (the lock); `VaultsOnlyGrow` | roots, processes, locations, stamps, faults |

None of the properties is inductive. Each module states the strengthening that is, TLC checked it on
the module's instance first (except where it quantifies over an unbounded value), and the proof has one
lemma per action, under lemmas that say once what a step of a certain kind leaves alone.

**Vault.** `BaselineMatches`, for instance, says nothing of
a machine that is behind, whose baseline becomes right only if nobody ever moves `/current` back to it.
`VaultInv` therefore states the shape of history: the versions that ever were `/current` form a *trunk*,
where the i-th version's own versions table is the first i rows of the newest one's (`IsTrunk`).
Everything else is said relative to it: a disk holds a version of the trunk (`DiskOK`); a command's base
is on the trunk and extends its own `state.db`, its uploaded snapshot is `BuiltOn` its base, and once
the CAS succeeded its stamp is on the trunk (`RunOK`); a request still on the wire would build on the
version it expects (`WireOK`), which is why it may land at any time, its sender dead or not; stamps not
minted name nothing (`Fresh`).

The proof separates the trunk from the machines. Lemmas about arbitrary snapshots `s` and pointers `c`
show that a step of S3 is an `Advance` (snapshots are never rewritten, the pointer stays or moves to a
version built on it), that the trunk survives one (`LandExtends`, `AdvanceKeeps`), and so does what
every machine that did not move knows (`DiskAdvance`, `RunAdvance`, `WireAdvance`); `AdvanceLeaves` and
`AdvanceMisses` are the reason a divergence, once true, stays true. One lemma per action then only has
to look at the machine that moved, through `QuietStep` (memory), `DiskStep` (memory and disk) or
`InvStep` (S3 too). What follows sorts the steps into four kinds, `Lands`, `Moves`, `Reports` and
`Quiet`, which are LinearVault's `Commit`, `CatchUp`, `Acknowledge` and stuttering; the action
properties and the refinement are read off them.

`ListedIsStoredWithoutGc` has an invariant of its own, `ContentInv`: every version written, every
`state.db` and every candidate reference only objects that exist. It holds as long as nothing is
deleted; with gc and a second machine it does not, and `vault_gc_race` is the counterexample.

**WorkingTree.** Three parts for every path. `ClockOK` is about the disk: a modification time that a
row, staged or in `cache.db`, records tells what the file holds, so a file the scan skips is unchanged;
a job that hashes while the user edits cannot break it, because it records the time of the walk.
`SeenOK` is about history: a clean or modified row's baseline is an entry this machine has had, two
entries of a path with one stamp are one entry, and the vault's own entry is in the history. `SyncOK`
follows a sync from its candidate to the rows it reconciles: what it settled and with which stamp
(`SettledOK`), which paths are dirty, still to pull, or agree (`PathsOK`), and what the commit changes
if the vault has not moved (`WriteOK`). `ReplacesOnlySeen` needs all three: that a dirty row's baseline
was seen, that the candidate was decided against the version it replaces, and that a stamp tells an
entry.

**StubCommands.** `Inv` of WorkingTree is still inductive when stubify and materialize write to the
same tree and cache: they write with times nothing records, and record a time only for a file that
holds what its row says. `JobInv` adds what is known of a path at each stage of its job unless somebody
else touched it, and that no scan or sync runs meanwhile (the lock).

**UploadPool.** Two layers. `UnitOK` says what the stages of one unit owe each other: a sink that is done
has every byte; a source failure and the echoes it leaves in its branches are told apart; S3's branch is
torn only by a cause that is recorded. `JobOK`, `RowOK` and `LoopOK` say which rows are owed a verdict
and why: a row the loop has passed has one or rides on a job that is alive, a sink a job passes by holds
the content already, and only an error in a pool leaves the loop early. The refinement maps each step
to giving verdicts to a batch of rows, or to a stutter; its hard case is the return, which has to find
no job left.

**Mirror.** What a running command may rely on while other machines commit and the drive and S3 lose
things: a sync in fail mode, of the objects it has still to store (`SyncOK`); a catchup, of those it has
not looked at or that wait for an archive, unless one was lost (`CatchupOK`); a prune, of those it is
about to delete (`PruneOK`).

**Converge.** `JobsHavePaths`: every hash a run deals with is held by a path of the `state.db` it works
from, which does not change under it. The rest is about `policy-evaluation.ts`: the first policy that
matches exists (naturals are well-ordered, by the library's `WFMin`), so a path has one class
(`PathClass`); an object's is the warmest its paths ask for (`HashClass`); and a copy a job sends is to
that class (`TargetIsWarmEnough`, `CopyIsWarmEnough`).

**Thumbnails.** For the table: a row is what the command line can have made of it, passes the
validation and holds no discriminant of another branch, so `ReadBack` returns it as it is and a merge
stays within a branch or resets it (`Row`, `MergedRow`); `RowFits` derives the schema's CHECK, which is
written in other terms. For names: a segment's tokens determine the sizing, the encoding and the values of
both (`SegmentTellsRecipe`). For deletions: what a job holds are previews of its source (`JobHolds`);
what it took from the tables stays true under the lock (`JobKnows`), in particular that the preview
`keepOne` is to keep has not been passed by; what it found on disk is true until the user touches the
source (`JobFound`). `WhoRemoves` lists the steps that delete and what each knows.

**Bootstrap.** A command's state is followed stage by stage: what it has read or written so far is of
one vault (`InitOK`, `AttachOK`, `FetchOK`). It holds because a root runs one command, the one its lock
names (`OneCommand`), because a location is only ever added to (`VaultsOnlyGrow`), and because an init
that has put its manifest is the only one of its location (`SoleInit`).

**Assumptions.** The bounds are natural numbers (pool sizes, queue limits, attempts, chunks and stamps
positive, as the code's defaults and validations are). `None` is no content. Converge's tables are lists
of policies with known classes. `FlagsAssumption` is the argument parsing: a flag that is given is a
value its parser accepts, and `create` has its name, glob and action. `NullAssumption`: SQL's NULL is
none of the values a column is compared with. `CreatedAssumption`: the rows there are at first went
through `create`. TLC evaluates all of them in the runs.

**Model-checked only.** Liveness is out of the prover's reach: `CommandsEnd`, `RunsEnd`, `Converges`,
`CallEnds`, `MirrorCatchesUp`, `PreviewsSettle`, `LeftoversDoNotBlock`. `ListedIsStored` with gc holds only if one
machine alone uploads, and needs an invariant about the marker and the uploads of an interrupted sync;
`vault_collect` checks it. The three `violation` runs are counterexamples, and stay with TLC.

## 5. Properties by hazard

The full list with source lines is in `PROJECT.json`. In short: two writers and lost answers
(`AckedSurvives`, `NoLostUpdate`, `LinearVaultSpec`, `DivergedMeansMoved`); a crash between CAS and
promotion, and the download shortcut that trusts what it left (`BaselineMatches`, `LocalOnTrunk`,
`StateDbAdvances`); uploads interrupted before their version (`ListedIsStored`); unlimited retries
(`CommandsEnd`); a cache that names a version of a lost CAS (`RowsAreHistory`); an edit during hashing
(`SkippedIsUnchanged`); differences at equal version stamps (`SyncedMeansEqual`); stale baselines
(`ReplacesOnlySeen`); a pull over an edit the scan recorded (`PendingIsKept`); a kill between stub and file
(`NeverNeither`); a file that is not what its row says (`ContentIsKept`, `OnlyCommittedIsStubbed`);
parts copied from inside a job of a full pool (`RunsEnd`), HEADs
that are stale and restores that expire (`Converges`, `NeverColderThanImplied`).

In the upload pipeline: drains in the wrong order, jobs lost with their rows (`LedgerSpec`), stages that
wait for each other (`CallEnds`), echoes of one failure taken for another (`SourceFailureIsPerRow`,
`IgnoredMirrorIsAGap`), branches cut short (`SinksPublishAll`), and the shortcuts past an upload:
deduplicated, attached and adopted rows (`CommittedIsStored`, `CleanSyncIsMirrored`). In the mirror:
metadata written around the CAS (`PointerIsCommitted`), gaps (`SyncKeepsComplete`), an interrupted
catchup (`CatchupIsHonest`, `MirrorCatchesUp`), prune against a version that moves (`RestorableStays`). In
the previews: the last preview of a stub or an
unreadable file (`StubKeepsAPreview`, `SparesWhatIsWanted`), "up to date" by name (`NameTellsRecipe`), two
commands undoing each other (`PreviewsSettle`), fields carried across branches (`RowsFitSchema`). In a root's
first steps: rival and killed inits (`CurrentIsReadable`), leftovers of failed attempts
and stale locks under pids given out again (`RootIsOfOneVault`, `LeftoversDoNotBlock`).

Three hazards do go wrong in the code and are `violation` runs: gc's deletes against another machine's
upload (`ListedIsStored`), a sink that fails unread (`OneFailureStopsTheOthers`), a half attached root
(`RetrySucceeds`). Those no property covers, an edit after the scan for one, have a note that says why.

Each of these properties is broken by a small change of the model that a plausible bug would amount to;
these variants stand in the modules, before what they vary ("Mutant") or together ("Plausible slips"),
and are used by no specification.

## 6. Disagreements found

Each of the first three is a `violation` run whose counterexample is a behaviour of the code.

1. **gc can delete an object in use** (`vault_gc_race`). `gc.ts` deletes orphans' bytes after its CAS.
   Another machine that has already built on gc's version can upload the same content again before the
   delete arrives; the delete then removes an object the newest version lists. The comment at
   `gc.ts:193` considers the re-upload, not its order.
2. **A sink that fails before it reads hangs the sync** (`upload_hang`). The abort signal shared by the
   sinks is raised only once both have settled (`apply-local-changes.ts:728-737`). A failing `mkdirSync`
   (`mirror-sink.ts:344`, before the pipeline) or `CreateMultipartUpload` (`upload-object.ts:256`,
   outside the `try`) leaves its branch open and unread: the source stays paused, the other sink waits
   for bytes, `allSettled` never returns. `mirroring.md:75` says the one that gives up stops the others.
   The unit test of this case uses content smaller than a branch's buffer, where it does not show.
3. **Half attached for good** (`bootstrap_retry`). attach writes `vault.json` (`attach_remote.ts:162`)
   before `last_synced_version`, `remote.json` (`:167`) and `cache.db`; a full disk or a kill in between
   leaves a root that is not attached and refuses every retry as already attached (`:95`), until its
   `vault.json` is deleted by hand. The comment at `:90-94` has no failed attempt block a retry, and
   `locking.md:65` has `vault.json` written at the very end. `init_remote.ts:156` has the same gap, where
   the vault exists by then. `LeftoversDoNotBlock` shows that nothing else keeps a root out.

The following were met while modelling, by TLC or by reading; no run of the project checks them.

* *A deletion of something this machine never had*. A `created` row's parent is `last_synced_version`; if
  the file disappears again the row becomes `deleted` with that parent (`update-cache.ts:555`), and a
  deletion *is* decided by version, so the next sync deletes an entry this machine never had.
  `conflict-resolution.md:49` allows that parent for created rows because they are resolved by hash.
* *A new vault that is not empty*. `init_remote` opens the `state.db` an earlier attempt at this root left
  (`init_remote.ts:119`) and publishes what it lists: versions that were never committed, or, after an
  attach that failed before its `vault.json`, another vault's entries. `docs/cli/init_remote.md:40` says
  it creates an empty one with one initial version.
* *Half created*. An init that ends between its PUTs leaves a location that is neither empty nor a vault:
  no init and no attach accepts it.
* *A lock under a pid that lives again*. `isProcessAlive` asks only whether the pid exists, and does not
  except the process that asks (`lock.ts:61`): a container killed hard leaves a lock that its successor,
  of the same pid, takes for live, and so does a host that gave the pid to another program.
* *Ignoring a mirror failure costs S3 nothing*. `mirroring.md:169-171` says that under
  `--on-mirror-max-retries ignore` "the mirror's failure tore down the S3 branch too, so the unit is run
  once more with the mirror switched off". The code does neither: the tee detaches the mirror
  (`apply-local-changes.ts:809-818`, "Nothing is re-run"), and S3's branch of that same attempt goes on to
  complete. The model follows the code, and `IgnoredMirrorIsAGap` states what the code does; the
  document describes an earlier design.
* *An edit after its scan is overwritten by the pull* (`apply-remote-changes.ts:401`), although `:96` says
  it never is. The scan's own pending edits are safe (`PendingIsKept`).
* *An unreadable stub after a crash*. A pulled stub exists before `cache.db` and `state.db` know its
  content; killed in between, every later `update_cache` and `sync` ends in `UnknownStubContentError`
  (`update-cache.ts:407`) until `fetch_remote` is run.
* *Downloads without the lock*. A materialize in which a HEAD fails ends, and releases the vault lock,
  while its downloads are still running (`materialize.ts:326`); `locking.md:5-10` has every command
  exclusive for its duration.
* *GLACIER to DEEP_ARCHIVE never happens*. Every move to a colder class is a plain copy
  (`storage-class-actions.ts:25`), also of an object that is archived already, which S3 refuses unless
  it has been restored.
* *The mirror's pointer past a missing snapshot*. `mirrorStateSnapshot` may fail quietly and
  `mirrorCurrentPointer` still moves (`mirror-metadata.ts:69`); `flow-mirror-metadata.md:62` says the
  pointer can never name a version whose snapshot the drive does not hold. `verify` reports it and
  catchup repairs it (`MirrorCatchesUp`).
* *Blame for a mirror that fails mid-stream.* Under `--on-mirror-max-retries fail` the tee takes S3's
  branch down and the S3 outcome is recorded first, so the run ends in `S3UploadFatalError` (the order in
  `Outcome`) where `mirroring.md` describes `MirrorRequiredError`. A unit that feeds only the mirror does
  not tell its source's failure from the mirror's (`:774`).
* *Prune by a pointer that is behind* removes objects the vault's current version lists and the mirror
  held already; `RestorableStays` is about the version the mirror names.
* *A stub keeps one preview.* Cleanup keeps a single preview of a stub's content, whichever the directory
  lists first, though several policies may each have had one (`thumbnail.ts:818`); `docs/cli/thumbnail.md`
  says the preserved ones are never touched.
* *A preview drawn from what is there, named after the row.* The hash in a preview's name is
  `cache.db`'s; a file edited since the scan gives a preview of other content under that name, which is
  believed if the file is changed back. `NameTellsRecipe` is about parameters, not pixels.
* *A stub moved by hand* since the scan is materialized with the row's content (`materialize.ts:182`).

## 7. Plan

1. *Proofs*: the operators the runs evaluate and no theorem is about yet (the conflict matrix of
   ConflictRules against its table, `DecideStorageClassAction` of ObjectStorage, `CreateFlagsAccepted` against
   `Valid`); `ListedIsStored` with gc for the one uploading machine of `vault_collect`, whose invariant has to
   follow the interrupted uploads through the marker.
2. *Policy edits*: the effect of a mutation that is run again after its first CAS landed unnoticed.
3. Ignore policies and case collisions in the scan and the pull; directories; the mirror check of
   stubify; `verify --offline` and bytes that rot in place.

**Not modelled**: sanity check, status, diff, inspect and progress output (read-only or derived); the
media tools, and previews that are stubs themselves; the cryptography (content is a model value; a hash
stands for it, an object for its encryption); SQL and glob matching as such; migrations.
