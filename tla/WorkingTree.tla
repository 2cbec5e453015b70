---------------------------- MODULE WorkingTree ----------------------------
(***************************************************************************)
(* One machine's working tree and what `sync` and `update_cache` do to it: *)
(* the scan of the tree into cache.db, the dirty rows folded into the      *)
(* candidate (ConflictRules), the vault's changes pulled down, the commit  *)
(* and the reconciliation of cache.db.  The user edits files at any time;  *)
(* other machines commit at any time; the process can end between any two  *)
(* steps.  The commit protocol itself is module Vault: here it is one step *)
(* that succeeds when the vault is still where this sync found it.         *)
(***************************************************************************)
EXTENDS ConflictRules, FiniteSets

CONSTANTS
  Paths,          \* paths of files
  MaxEdits,       \* bound: edits by the user
  MaxOthers,      \* bound: commits by other machines
  MaxFaults       \* bound: processes killed

ASSUME BoundsAssumption == MaxEdits \in Nat /\ MaxOthers \in Nat /\ MaxFaults \in Nat

(* A logical path: the real file and the .stub beside it, each with its    *)
(* modification time.                                                      *)
File == [real : Contents \cup {None}, rtime : Mtimes \cup {0},
         stub : Contents \cup {None}, stime : Mtimes \cup {0}]
NoFile == [real |-> None, rtime |-> 0, stub |-> None, stime |-> 0]
Both(f) == f.real # None /\ f.stub # None
Content(f) == IF f.real # None THEN f.real ELSE f.stub
Mtime(f) == IF f.real # None THEN f.rtime ELSE f.stime

Vault == [version : Stamps, entries : [Paths -> Entry \cup {NoEntry}],
          objs : SUBSET Contents]
Pcs == {"idle", "scan", "fetch", "local", "pull", "commit", "promote", "adopt",
        "reconcile", "done"}
Run == [pc : Pcs,
        todo : SUBSET Paths,                     \* paths still to process
        hashing : [Paths -> Mtimes \cup {0}],    \* hash jobs: the time walk() saw
        staged : [Paths -> Row \cup {NoRow}],    \* the staging database
        base : Stamps,                           \* the /current it read
        cand : Vault,                            \* its candidate state.db
        exclude : SUBSET Paths,                  \* excludePaths
        handled : [Paths -> Stamps \cup {NoStamp}],
        settled : SUBSET Paths,                  \* keys of handledPaths
        applied : BOOLEAN,
        landing : SUBSET Paths]                  \* written, not yet recorded

VARIABLES
  remote,      \* S3: the version /current names
  minted,      \* stamps generated so far, by any machine
  tree,        \* disk: the files
  cache,       \* disk: .sync1/cache.db
  known,       \* disk: the objects table of .sync1/state.db
  lastSynced,  \* disk: .sync1/last_synced_version
  run,         \* memory: the command being run
  history,     \* history: every entry the vault ever held, by path
  seen,        \* history: the entries this machine pulled or committed
  edits, others, faults   \* history: how many there were

diskVars == <<tree, cache, known, lastSynced>>
ghostVars == <<history, seen, edits, others, faults>>
vars == <<remote, minted, tree, cache, known, lastSynced, run, history, seen,
          edits, others, faults>>

EmptyVault == [version |-> 1, entries |-> [p \in Paths |-> NoEntry], objs |-> {}]
Idle == [pc |-> "idle", todo |-> {},
         hashing |-> [p \in Paths |-> 0],
         staged |-> [p \in Paths |-> NoRow], base |-> 1, cand |-> EmptyVault,
         exclude |-> {}, handled |-> [p \in Paths |-> NoStamp], settled |-> {},
         applied |-> FALSE, landing |-> {}]

(* attach_remote into a directory that may hold files already: state.db is *)
(* the vault's, cache.db is empty.                                         *)
Init ==
  /\ \E first \in [Paths -> Contents \cup {None}] :
       /\ remote = [version |-> 1,
                    entries |-> [p \in Paths |-> IF first[p] = None THEN NoEntry
                                                 ELSE [hash |-> first[p], version |-> 1]],
                    objs |-> {first[p] : p \in Paths} \ {None}]
  /\ minted = 1
  /\ \E found \in [Paths -> Contents \cup {None}] :
       tree = [p \in Paths |-> IF found[p] = None THEN NoFile
                               ELSE [NoFile EXCEPT !.real = found[p], !.rtime = 1]]
  /\ cache = [p \in Paths |-> NoRow]
  /\ known = remote.objs
  /\ lastSynced = 1
  /\ run = Idle
  /\ history = [p \in Paths |-> {remote.entries[p]} \ {NoEntry}]
  /\ seen = [p \in Paths |-> {}]
  /\ edits = 0 /\ others = 0 /\ faults = 0

(* A write to p gets a modification time that no row and no other file of p*)
(* records.                                                                *)
NewMtime(p) ==
  CHOOSE t \in Mtimes :
    t \notin {cache[p].mtime, run.hashing[p], run.staged[p].mtime,
               tree[p].rtime, tree[p].stime}

End == run' = Idle

(***************************************************************************)
(* Plausible slips, used by no specification: what each property is there  *)
(* to exclude, as a wrong variant of the operator it is named after.       *)
(***************************************************************************)

(* A hashed file is recorded with the modification time it has when the    *)
(* rows are written, not with the one it had before it was hashed.         *)
ApplyStagedRowsLate ==
  /\ run.pc = "scan" /\ run.todo = {} /\ \A p \in Paths : run.hashing[p] = 0
  /\ cache' = [p \in Paths |->
                 IF run.staged[p] = NoRow THEN cache[p]
                 ELSE [run.staged[p] EXCEPT !.mtime = Mtime(tree[p])]]
  /\ run' \in {Idle, [Idle EXCEPT !.pc = "fetch"]}
  /\ UNCHANGED <<remote, minted, tree, known, lastSynced, ghostVars>>

(* Conflicted rows are pulled like any other.                              *)
ToPullConflicts ==
  {p \in Paths \ run.settled : cache[p].hash # run.cand.entries[p].hash}

(* Equal version stamps are taken to mean there is nothing to pull.        *)
ToPullIfMoved ==
  {p \in Paths \ run.exclude :
     run.base # lastSynced /\ cache[p].hash # run.cand.entries[p].hash}

(* A row resolved as a no-op gets the stamp of the commit in flight.       *)
ReconciledRowStamped(p) ==
  IF cache[p].state = "deleted" THEN NoRow
  ELSE [cache[p] EXCEPT !.state = "unchanged", !.parent = run.cand.version]

(***************************************************************************)
(* The user, and the other machines.                                       *)
(***************************************************************************)

(* (A file this process is just putting in place is in `landing` until the *)
(* stat in the same turn of the event loop has recorded it: an edit inside *)
(* that turn is not modelled.)                                             *)
Edit(p) ==
  /\ edits < MaxEdits /\ edits' = edits + 1
  /\ p \notin run.landing
  /\ \/ \E c \in Contents :
          tree' = [tree EXCEPT ![p].real = c, ![p].rtime = NewMtime(p)]
     \/ /\ tree[p] # NoFile
        /\ tree' = [tree EXCEPT ![p] = NoFile]
  /\ UNCHANGED <<remote, minted, cache, known, lastSynced, run, history, seen,
                 others, faults>>

(* Another machine commits: it writes a path (the same content again       *)
(* included), deletes one, changes a policy, or collects garbage.          *)
OtherCommits ==
  /\ others < MaxOthers /\ others' = others + 1
  /\ minted < MaxStamps /\ minted' = minted + 1
  /\ \/ \E p \in Paths, c \in Contents :
          LET e == [hash |-> c, version |-> minted + 1]
          IN /\ remote' = [remote EXCEPT !.version = minted + 1, !.entries[p] = e,
                                         !.objs = @ \cup {c}]
             /\ history' = [history EXCEPT ![p] = @ \cup {e}]
     \/ \E p \in Paths :
          /\ remote.entries[p] # NoEntry
          /\ remote' = [remote EXCEPT !.version = minted + 1, !.entries[p] = NoEntry]
          /\ UNCHANGED history
     \/ /\ remote' = [remote EXCEPT !.version = minted + 1]
        /\ UNCHANGED history
     \/ /\ remote' = [remote EXCEPT !.version = minted + 1,
                                    !.objs = {remote.entries[p].hash : p \in Paths} \ {None}]
        /\ UNCHANGED history
  /\ UNCHANGED <<diskVars, run, seen, edits, faults>>

(***************************************************************************)
(* The scan (performUpdateCache).                                          *)
(***************************************************************************)

Start ==
  /\ run.pc = "idle"
  /\ run' = [Idle EXCEPT !.pc = "scan", !.todo = Paths]
  /\ UNCHANGED <<remote, minted, diskVars, ghostVars>>

(* Nothing at p: a tracked path becomes a deleted row with its old parent. *)
MissingRow(p) ==
  IF cache[p].state \in {"none", "deleted"} THEN NoRow
  ELSE [state |-> "deleted", hash |-> None, mtime |-> 0, parent |-> cache[p].parent]

CreatedRow(hash, mtime) ==
  [state |-> "created", hash |-> hash, mtime |-> mtime, parent |-> lastSynced]

(* A tracked path: a pending change stays in its category and keeps its    *)
(* parent; the same content only refreshes the modification time.          *)
ExistingRow(row, hash, mtime) ==
  LET touched == [row EXCEPT !.mtime = mtime, !.hash = hash]
  IN IF hash = row.hash THEN touched
     ELSE CASE row.state = "unchanged" -> [touched EXCEPT !.state = "modified"]
            [] row.state = "deleted" -> [touched EXCEPT !.state = "created"]
            [] OTHER -> touched

FoundRow(p, hash, mtime) ==
  IF cache[p] = NoRow THEN CreatedRow(hash, mtime) ELSE ExistingRow(cache[p], hash, mtime)

(* A file with the modification time of its row is not read.               *)
Skipped(p) == cache[p] # NoRow /\ ~Both(tree[p]) /\ Mtime(tree[p]) = cache[p].mtime

(* A stub is believed only when state.db lists the content it names.       *)
StubUnknown(p) ==
  /\ tree[p].real = None /\ tree[p].stub # None
  /\ ~Skipped(p)
  /\ tree[p].stub \notin known

(* p is walked: a stub names its content, a file is handed to the hash pool*)
(* with the modification time it has now, a stub beside it deleted.        *)
WalkPath(p) ==
  /\ run.pc = "scan" /\ p \in run.todo
  /\ ~StubUnknown(p)
  /\ LET walked == [run EXCEPT !.todo = @ \ {p}]
     IN \/ /\ tree[p] = NoFile
           /\ run' = [walked EXCEPT !.staged[p] = MissingRow(p)]
           /\ UNCHANGED tree
        \/ /\ tree[p] # NoFile /\ Skipped(p)
           /\ run' = walked
           /\ UNCHANGED tree
        \/ /\ tree[p].real = None /\ tree[p].stub # None /\ ~Skipped(p)
           /\ run' = [walked EXCEPT !.staged[p] = FoundRow(p, tree[p].stub, tree[p].stime)]
           /\ UNCHANGED tree
        \/ /\ tree[p].real # None /\ ~Skipped(p)
           /\ run' = [walked EXCEPT !.hashing[p] = tree[p].rtime]
           /\ tree' = [tree EXCEPT ![p].stub = None, ![p].stime = 0]
  /\ UNCHANGED <<remote, minted, cache, known, lastSynced, ghostVars>>

(* A hash job ends.  It reads whatever the file holds by then, and fails   *)
(* the command when there is no file any more.                             *)
HashPath(p) ==
  /\ run.pc = "scan" /\ run.hashing[p] # 0
  /\ IF tree[p].real = None
     THEN End
     ELSE run' = [run EXCEPT !.hashing[p] = 0,
                             !.staged[p] = FoundRow(p, tree[p].real, run.hashing[p])]
  /\ UNCHANGED <<remote, minted, diskVars, ghostVars>>

(* UnknownStubContentError ends the command.                               *)
ScanFails(p) ==
  /\ run.pc = "scan" /\ p \in run.todo
  /\ StubUnknown(p)
  /\ End
  /\ UNCHANGED <<remote, minted, diskVars, ghostVars>>

StagedPaths == {p \in Paths : run.staged[p] # NoRow}

(* The staged rows are written to cache.db, a transaction per batch; after *)
(* the last one update_cache ends and sync goes on.                        *)
ApplyStagedRows ==
  /\ run.pc = "scan" /\ run.todo = {} /\ \A p \in Paths : run.hashing[p] = 0
  /\ \E batch \in SUBSET StagedPaths :
       /\ batch = {} => StagedPaths = {}
       /\ cache' = [p \in Paths |-> IF p \in batch THEN run.staged[p] ELSE cache[p]]
       /\ IF batch # StagedPaths
          THEN run' = [run EXCEPT !.staged = [p \in Paths |-> IF p \in batch THEN NoRow
                                                              ELSE @[p]]]
          ELSE run' \in {Idle, [Idle EXCEPT !.pc = "fetch"]}
  /\ UNCHANGED <<remote, minted, tree, known, lastSynced, ghostVars>>

(***************************************************************************)
(* sync: local changes into the candidate.                                 *)
(***************************************************************************)

DirtyPaths == {p \in Paths : Dirty(cache[p])}

(* The candidate is a copy of the vault's state.db, a stamp is generated   *)
(* and the dirty rows are read.                                            *)
Fetch ==
  /\ run.pc = "fetch" /\ minted < MaxStamps
  /\ minted' = minted + 1
  /\ run' = [run EXCEPT !.pc = "local", !.todo = DirtyPaths, !.exclude = DirtyPaths,
                        !.base = remote.version,
                        !.cand = [remote EXCEPT !.version = minted + 1]]
  /\ UNCHANGED <<remote, diskVars, ghostVars>>

(* The bound MaxStamps: a sync this instance has no stamp for ends here.   *)
OutOfStamps ==
  /\ run.pc = "fetch" /\ minted = MaxStamps
  /\ End
  /\ UNCHANGED <<remote, minted, diskVars, ghostVars>>

(* The content to upload is the file the scan hashed, not changed since.   *)
Uploadable(p) == tree[p].real # None /\ tree[p].rtime = cache[p].mtime

(* Rows of the same content attached to one upload.                        *)
Sharing(p) ==
  {q \in run.todo : /\ cache[q].state # "deleted" /\ cache[q].hash = cache[p].hash
                    /\ DecideLocalChange(cache[q], run.cand.entries[q]) = "apply"}

(* One dirty row, the deletions before the rest.  An upload whose file is  *)
(* gone or changed fails, with the rows that waited for it: they stay dirty*)
LocalRow(p) ==
  LET row == cache[p]
      stamp == run.cand.version
      decision == DecideLocalChange(row, run.cand.entries[p])
      done == [run EXCEPT !.todo = @ \ {p}]
  IN /\ run.pc = "local" /\ p \in run.todo
     /\ \A q \in run.todo : cache[q].state = "deleted" => row.state = "deleted"
     /\ \/ /\ decision = "conflict"
           /\ run' = done
        \/ /\ decision = "noop"
           /\ run' = [done EXCEPT !.settled = @ \cup {p},
                                  !.handled[p] = run.cand.entries[p].version]
        \/ /\ decision = "apply" /\ row.state = "deleted"
           /\ run' = [done EXCEPT !.settled = @ \cup {p}, !.applied = TRUE,
                                  !.cand.entries[p] = NoEntry]
        \/ /\ decision = "apply" /\ row.state # "deleted"
           /\ row.hash \in run.cand.objs \/ Uploadable(p)
           /\ run' = [done EXCEPT !.settled = @ \cup {p}, !.applied = TRUE,
                                  !.handled[p] = stamp,
                                  !.cand.objs = @ \cup {row.hash},
                                  !.cand.entries[p] = [hash |-> row.hash, version |-> stamp]]
        \/ /\ decision = "apply" /\ row.state # "deleted"
           /\ row.hash \notin run.cand.objs /\ ~Uploadable(p)
           /\ \E failed \in SUBSET Sharing(p) :
                p \in failed /\ run' = [run EXCEPT !.todo = @ \ failed]
     /\ UNCHANGED <<remote, minted, diskVars, ghostVars>>

(***************************************************************************)
(* sync: the vault's changes into the tree (applyRemoteChangesToLocal).    *)
(***************************************************************************)

(* Paths whose cache row differs in content from the candidate's entry,    *)
(* this machine's own dirty rows excepted.                                 *)
ToPull ==
  {p \in Paths \ run.exclude : cache[p].hash # run.cand.entries[p].hash}

StartPull ==
  /\ run.pc = "local" /\ run.todo = {}
  /\ run' = [run EXCEPT !.pc = "pull", !.todo = ToPull]
  /\ UNCHANGED <<remote, minted, diskVars, ghostVars>>

(* A new path arrives as a stub; a known one keeps the form it has.        *)
AsStub(p) == cache[p] = NoRow \/ (tree[p].real = None /\ tree[p].stub # None)

PulledFile(p, hash) ==
  IF hash = None THEN NoFile
  ELSE IF AsStub(p)
       THEN [tree[p] EXCEPT !.stub = hash, !.stime = NewMtime(p)]
       ELSE [tree[p] EXCEPT !.real = hash, !.rtime = NewMtime(p)]

(* The file (or stub) is renamed into place, or both are removed ...       *)
PullFile(p) ==
  /\ run.pc = "pull" /\ p \in run.todo
  /\ tree' = [tree EXCEPT ![p] = PulledFile(p, run.cand.entries[p].hash)]
  /\ run' = [run EXCEPT !.todo = @ \ {p}, !.landing = @ \cup {p}]
  /\ UNCHANGED <<remote, minted, cache, known, lastSynced, ghostVars>>

(* ... and cache.db gets its row, with the entry's own version.            *)
RecordPulled(p) ==
  LET e == run.cand.entries[p]
      mtime == IF AsStub(p) THEN tree[p].stime ELSE tree[p].rtime
  IN /\ run.pc = "pull" /\ p \in run.landing
     /\ cache' = [cache EXCEPT ![p] =
                    IF e = NoEntry THEN NoRow
                    ELSE [state |-> "unchanged", hash |-> e.hash, mtime |-> mtime,
                          parent |-> e.version]]
     /\ run' = [run EXCEPT !.landing = @ \ {p}]
     /\ seen' = [seen EXCEPT ![p] = @ \cup ({e} \ {NoEntry})]
     /\ UNCHANGED <<remote, minted, tree, known, lastSynced, history,
                    edits, others, faults>>

PullDone ==
  /\ run.pc = "pull" /\ run.todo = {} /\ run.landing = {}
  /\ run' = [run EXCEPT !.pc = IF run.applied THEN "commit" ELSE "adopt"]
  /\ UNCHANGED <<remote, minted, diskVars, ghostVars>>

(***************************************************************************)
(* sync: commit and reconciliation.                                        *)
(***************************************************************************)

(* What this commit makes of the vault's entries.                          *)
Written(p) == run.cand.entries[p] # remote.entries[p]

(* The conditional PUT: it succeeds when /current is still what this sync  *)
(* read, and otherwise ends the sync with RemoteDivergedError.             *)
Commit ==
  /\ run.pc = "commit"
  /\ \/ /\ remote.version = run.base
        /\ remote' = run.cand
        /\ history' = [p \in Paths |-> history[p] \cup ({run.cand.entries[p]} \ {NoEntry})]
        /\ seen' = [p \in Paths |->
                      IF Written(p) THEN seen[p] \cup ({run.cand.entries[p]} \ {NoEntry})
                      ELSE seen[p]]
        /\ run' = [run EXCEPT !.pc = "promote"]
     \/ /\ remote.version # run.base
        /\ End
        /\ UNCHANGED <<remote, history, seen>>
  /\ UNCHANGED <<minted, diskVars, edits, others, faults>>

(* The candidate becomes state.db and its stamp last_synced_version.       *)
Promote ==
  /\ run.pc = "promote"
  /\ known' = run.cand.objs
  /\ lastSynced' = run.cand.version
  /\ run' = [run EXCEPT !.pc = "reconcile", !.todo = run.settled]
  /\ UNCHANGED <<remote, minted, tree, cache, ghostVars>>

(* Nothing to commit: the version that was read becomes the baseline.      *)
Adopt ==
  /\ run.pc = "adopt"
  /\ IF run.base # lastSynced
     THEN known' = run.cand.objs /\ lastSynced' = run.base
     ELSE UNCHANGED <<known, lastSynced>>
  /\ run' = [run EXCEPT !.pc = "reconcile", !.todo = run.settled]
  /\ UNCHANGED <<remote, minted, tree, cache, ghostVars>>

ReconciledRow(p) ==
  IF cache[p].state = "deleted" THEN NoRow
  ELSE [cache[p] EXCEPT !.state = "unchanged", !.parent = run.handled[p]]

(* One handled row after the other becomes clean, or goes.                 *)
Reconcile(p) ==
  /\ run.pc = "reconcile" /\ p \in run.todo
  /\ cache' = [cache EXCEPT ![p] = ReconciledRow(p)]
  /\ run' = [run EXCEPT !.todo = @ \ {p}]
  /\ seen' = [seen EXCEPT ![p] = @ \cup ({run.cand.entries[p]} \ {NoEntry})]
  /\ UNCHANGED <<remote, minted, tree, known, lastSynced, history,
                 edits, others, faults>>

(* The result is reported to the user ...                                  *)
ReconcileDone ==
  /\ run.pc = "reconcile" /\ run.todo = {}
  /\ run' = [run EXCEPT !.pc = "done"]
  /\ UNCHANGED <<remote, minted, diskVars, ghostVars>>

Report ==
  /\ run.pc = "done"
  /\ End
  /\ UNCHANGED <<remote, minted, diskVars, ghostVars>>

(* The process is killed, or S3 or the file system fails it.               *)
Crash ==
  /\ run.pc # "idle"
  /\ faults < MaxFaults /\ faults' = faults + 1
  /\ End
  /\ UNCHANGED <<remote, minted, diskVars, history, seen, edits, others>>

Command ==
  \/ Start \/ ApplyStagedRows \/ Fetch \/ OutOfStamps \/ StartPull \/ PullDone
  \/ Commit \/ Promote \/ Adopt \/ ReconcileDone \/ Report
  \/ \E p \in Paths : WalkPath(p) \/ HashPath(p) \/ ScanFails(p) \/ LocalRow(p) \/ PullFile(p)
                        \/ RecordPulled(p) \/ Reconcile(p)

Next == Command \/ Crash \/ OtherCommits \/ \E p \in Paths : Edit(p)

Spec == Init /\ [][Next]_vars

(***************************************************************************)
(* Properties.                                                             *)
(***************************************************************************)

(* Every variable has its type.                                            *)
TypeOK ==
  /\ remote \in Vault
  /\ minted \in Stamps
  /\ tree \in [Paths -> File]
  /\ cache \in [Paths -> Row \cup {NoRow}]
  /\ known \subseteq Contents
  /\ lastSynced \in Stamps
  /\ run \in Run
  /\ history \in [Paths -> SUBSET Entry]
  /\ seen \in [Paths -> SUBSET Entry]
  /\ edits \in 0..MaxEdits /\ others \in 0..MaxOthers /\ faults \in 0..MaxFaults

(* A row of cache.db never speaks of a version that was not committed: an  *)
(* unchanged row is an entry the vault really held at that path, whatever  *)
(* was killed or lost the CAS between the pull, the commit and the         *)
(* reconciliation (commit.ts:492-508).                                     *)
RowsAreHistory ==
  \A p \in Paths :
    /\ cache[p].state = "unchanged" =>
         [hash |-> cache[p].hash, version |-> cache[p].parent] \in history[p]
    /\ cache[p].state = "modified" =>
         \E e \in history[p] : e.version = cache[p].parent

(* An edit is never overlooked: a file whose modification time is the one  *)
(* its row records has the content its row records, so the scan may skip   *)
(* it without hashing (update-cache.ts:608).                               *)
SkippedIsUnchanged ==
  \A p \in Paths :
    tree[p] # NoFile /\ ~Both(tree[p]) /\ Mtime(tree[p]) = cache[p].mtime =>
      Content(tree[p]) = cache[p].hash

(* A sync that ends leaves nothing behind: at every path without a pending *)
(* (conflicted or failed) row, cache.db agrees with the version it settled *)
(* on, whatever the reason they differed (conflict-resolution.md:171-188). *)
SyncedMeansEqual ==
  run.pc = "done" =>
    \A p \in Paths : ~Dirty(cache[p]) => cache[p].hash = run.cand.entries[p].hash

(* What this sync is about to overwrite in the vault, it has had: a commit *)
(* replaces an entry only by a change based on that very entry.            *)
ReplacesOnlySeen ==
  run.pc = "commit" /\ remote.version = run.base =>
    \A p \in Paths :
      Written(p) /\ remote.entries[p] # NoEntry /\ run.cand.entries[p] # NoEntry =>
        remote.entries[p] \in seen[p]

(* "This function never overwrites a file the user has a pending edit to": *)
(* only the user changes a file whose edit, or deletion, was scanned and   *)
(* is not committed yet.                                                   *)
PendingIsKept ==
  [][\A p \in Paths :
       Dirty(cache[p]) /\ edits' = edits => tree'[p].real = tree[p].real]_vars
=============================================================================
