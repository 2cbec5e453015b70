------------------------------- MODULE Vault -------------------------------
(***************************************************************************)
(* The commit protocol of a vault: several machines, one S3 prefix.        *)
(*                                                                         *)
(* /current names a version; /states/<stamp> holds that version's encrypted*)
(* state.db; objects/<hash> holds content.  `sync`, `gc --apply`, a policy *)
(* edit (mutateStateDb) and `fetch_remote` each read /current, build a     *)
(* candidate state.db beside the local one, upload it under a fresh stamp  *)
(* and move /current with a conditional PUT, then promote the candidate    *)
(* and write last_synced_version.  Every step that is visible to another   *)
(* machine, or that a crash can fall between, is an action of its own.     *)
(*                                                                         *)
(* Which local paths are dirty and how they merge is module ConflictRules  *)
(* and WorkingTree: here a version is the set of hashes its entries        *)
(* reference, its objects table and its versions table.  A machine runs    *)
(* one command at a time (the vault lock, docs/architecture/locking.md).   *)
(***************************************************************************)
EXTENDS Naturals, Sequences, FiniteSets

CONSTANTS
  Machines,       \* the machines attached to the vault
  Commands,       \* Commands[m]: the commands machine m is given
  Hashes,         \* the content a version can reference
  MaxStamps,      \* bound: version stamps that can be minted
  MaxAttempts,    \* MAX_CAS_ATTEMPTS of gc.ts and mutate-state-db.ts
  MaxFaults       \* bound: answers of S3 lost, processes ended

ASSUME CommandsAssumption ==
  \A m \in Machines : Commands[m] \subseteq {"sync", "gc", "mutate", "fetch"}
ASSUME BoundsAssumption ==
  MaxStamps \in Nat \ {0} /\ MaxAttempts \in Nat \ {0} /\ MaxFaults \in Nat

Stamps == 1..MaxStamps
InitStamp == 1        \* the version every machine attached at

(* A decrypted state.db: its versions table in `sequence` order, the       *)
(* hashes its entries reference, and its objects table.                    *)
Snapshot == [versions : Seq(Stamps), refs : SUBSET Hashes, objs : SUBSET Hashes]
NoSnapshot == [versions |-> <<>>, refs |-> {}, objs |-> {}]
FirstSnapshot(refs, objs) ==
  [versions |-> <<InitStamp>>, refs |-> refs, objs |-> objs]

Tip(s) == s.versions[Len(s.versions)]
VersionsOf(s) == {s.versions[i] : i \in 1..Len(s.versions)}
IsPrefixOf(s, t) ==
  /\ Len(s.versions) <= Len(t.versions)
  /\ \A i \in 1..Len(s.versions) : s.versions[i] = t.versions[i]

(* What one running command keeps in memory.                               *)
Ops == {"none", "sync", "gc", "mutate", "fetch"}
Pcs == {"idle", "fetch", "plan", "upload", "stage", "put", "cas", "readback",
        "sweep", "promote", "stamp", "clear", "adopt", "adoptDb", "adoptStamp",
        "save", "diverged"}
Run == [op : Ops, pc : Pcs,
        base : Stamps,             \* the /current (and ETag) it read
        cand : Snapshot,           \* its candidate state.db
        stamp : Stamps,            \* the version stamp it minted
        verify : BOOLEAN,          \* verifyRemote of commit.ts
        todo : SUBSET Hashes,      \* content whose rows are still undecided
        applied : BOOLEAN,         \* appliedCount > 0
        attempt : 0..(MaxAttempts-1),  \* CAS attempts already lost
        sweep : SUBSET Hashes,     \* orphans whose bytes are still to delete
        failed : BOOLEAN,          \* the delete pool's error box is set
        conflict : BOOLEAN]        \* the last CAS error was a 412
Idle == [op |-> "none", pc |-> "idle", base |-> InitStamp, cand |-> NoSnapshot,
         stamp |-> InitStamp, verify |-> FALSE, todo |-> {}, applied |-> FALSE,
         attempt |-> 0, sweep |-> {}, failed |-> FALSE, conflict |-> FALSE]

(* A conditional PUT of /current that S3 may still process.  The ETag is   *)
(* the stamp: stamps are unique, so equal ETags mean equal bodies.         *)
Request == [stamp : Stamps, ifMatch : Stamps]

VARIABLES
  current,      \* S3: the body of /current
  states,       \* S3: /states/<stamp>, NoSnapshot where nothing was put
  stored,       \* S3: the hashes whose object exists
  wire,         \* CAS requests in flight whose sender got no answer
  minted,       \* stamps generated so far
  stateDb,      \* disk: .sync1/state.db of each machine
  lastSynced,   \* disk: .sync1/last_synced_version
  marker,       \* disk: .sync1/upload_in_progress
  run,          \* memory: the command each machine is running
  acked,        \* history: stamps a command reported as committed
  faults        \* history: faults so far

s3Vars == <<current, states, stored, wire, minted>>
diskVars == <<stateDb, lastSynced, marker>>
ghostVars == <<acked, faults>>
vars == <<current, states, stored, wire, minted, stateDb, lastSynced, marker,
          run, acked, faults>>

(* A quiet vault to which every machine has just been attached             *)
(* (attach_remote writes state.db and last_synced_version): init_remote's  *)
(* empty one, or one with content and orphans from earlier versions.       *)
Init ==
  /\ current = InitStamp
  /\ \E objs \in SUBSET Hashes : \E refs \in SUBSET objs :
       LET first == FirstSnapshot(refs, objs)
       IN /\ states = [v \in Stamps |-> IF v = InitStamp THEN first ELSE NoSnapshot]
          /\ stateDb = [m \in Machines |-> first]
          /\ stored = objs
  /\ wire = {}
  /\ minted = InitStamp
  /\ lastSynced = [m \in Machines |-> InitStamp]
  /\ marker = [m \in Machines |-> FALSE]
  /\ run = [m \in Machines |-> Idle]
  /\ acked = {}
  /\ faults = 0

At(m, op, pc) == run[m].op = op /\ run[m].pc = pc
Goto(m, pc) == run' = [run EXCEPT ![m].pc = pc]
End(m) == run' = [run EXCEPT ![m] = Idle]
Fault == faults < MaxFaults /\ faults' = faults + 1

(***************************************************************************)
(* Plausible slips, used by no specification: what each property is there  *)
(* to exclude, as a wrong variant of the operator it is named after.       *)
(***************************************************************************)

(* The pointer is written without If-Match.                                *)
CasAnsweredBlind(m) ==
  /\ run[m].pc = "cas"
  /\ current' = run[m].stamp
  /\ Goto(m, IF run[m].op = "gc" THEN "sweep" ELSE "promote")
  /\ UNCHANGED <<states, stored, wire, minted, diskVars, ghostVars>>

(* A lost CAS is sent again with a fresh ETag but the old candidate.       *)
RetryKeepsCandidate(m) ==
  run' = [run EXCEPT ![m].pc = "put", ![m].base = current]

(* A 412 is taken for a success.                                           *)
RetryTrusts(m) == Goto(m, "promote")

(* Any failure of the CAS is reported, without reading /current back.      *)
ReadBackSkipped(m) ==
  /\ At(m, "sync", "readback")
  /\ Goto(m, "diverged")
  /\ UNCHANGED <<s3Vars, diskVars, ghostVars>>

(* A 412 is retried like a transient error.                                *)
ReadBackForever(m) ==
  /\ At(m, "sync", "readback")
  /\ Goto(m, IF current = run[m].stamp THEN "promote" ELSE "cas")
  /\ UNCHANGED <<s3Vars, diskVars, ghostVars>>

(* Only last_synced_version is advanced to the adopted version.            *)
AdoptDbForgotten(m) ==
  /\ At(m, "sync", "adoptDb")
  /\ Goto(m, "adoptStamp")
  /\ UNCHANGED <<s3Vars, diskVars, ghostVars>>

(* state.db is restored from the version the machine last synced.          *)
AdoptDbFromBaseline(m) ==
  /\ At(m, "sync", "adoptDb")
  /\ stateDb' = [stateDb EXCEPT ![m] = states[lastSynced[m]]]
  /\ Goto(m, "adoptStamp")
  /\ UNCHANGED <<s3Vars, lastSynced, marker, ghostVars>>

(* The candidate becomes state.db when it is uploaded, before the CAS.     *)
PutSnapshotPromotes(m) ==
  /\ run[m].pc = "put" /\ minted < MaxStamps
  /\ LET v == minted + 1
         db == [run[m].cand EXCEPT !.versions = Append(@, v)]
     IN /\ minted' = v
        /\ states' = [states EXCEPT ![v] = db]
        /\ stateDb' = [stateDb EXCEPT ![m] = db]
        /\ run' = [run EXCEPT ![m].stamp = v, ![m].cand = db, ![m].pc = "cas"]
  /\ UNCHANGED <<current, stored, wire, lastSynced, marker, ghostVars>>

(* After an interrupted run every object is assumed to be there already.   *)
AdoptUnseen(m, h) ==
  /\ At(m, "sync", "upload") /\ h \in run[m].todo
  /\ h \notin run[m].cand.objs
  /\ run[m].verify
  /\ run' = [run EXCEPT ![m].todo = @ \ {h},
                        ![m].cand.refs = @ \cup {h},
                        ![m].cand.objs = @ \cup {h},
                        ![m].applied = TRUE]
  /\ UNCHANGED <<s3Vars, diskVars, ghostVars>>

(***************************************************************************)
(* Starting a command, and reading /current.                               *)
(***************************************************************************)

(* GET /current and the snapshot it names, which never changes.  A sync    *)
(* that finds /current at its own last_synced_version downloads nothing and*)
(* starts from the local state.db.                                         *)
Opened(m, op, verify, attempt) ==
  [Idle EXCEPT
     !.op = op, !.verify = verify, !.attempt = attempt,
     !.base = current,
     !.cand = IF op = "sync" /\ current = lastSynced[m] THEN stateDb[m]
              ELSE states[current],
     !.pc = CASE op = "sync" -> "plan"
              [] op = "gc" -> "stage"
              [] op = "mutate" -> "put"
              [] OTHER -> "save"]

(* A command takes the lock and reads /current.  `sync` decides whether to *)
(* ask S3 about each upload first: --verify-remote, or the marker an       *)
(* earlier run left behind.                                                *)
Start(m) ==
  /\ run[m].pc = "idle"
  /\ \E op \in Commands[m], flag \in BOOLEAN :
       /\ flag => op = "sync"
       /\ run' = [run EXCEPT ![m] = Opened(m, op, op = "sync" /\ (flag \/ marker[m]), 0)]
  /\ UNCHANGED <<s3Vars, diskVars, ghostVars>>

(* gc or a policy edit, after losing a CAS.                                *)
Refetch(m) ==
  /\ run[m].pc = "fetch"
  /\ run' = [run EXCEPT ![m] = Opened(m, run[m].op, FALSE, run[m].attempt)]
  /\ UNCHANGED <<s3Vars, diskVars, ghostVars>>

(* fetch_remote writes state.db, and nothing else on disk.                 *)
SaveFetched(m) ==
  /\ At(m, "fetch", "save")
  /\ stateDb' = [stateDb EXCEPT ![m] = run[m].cand]
  /\ End(m)
  /\ UNCHANGED <<s3Vars, lastSynced, marker, acked, faults>>

(***************************************************************************)
(* sync: folding the local changes into the candidate.                     *)
(***************************************************************************)

(* The marker goes down before the first upload.  The dirty rows are any   *)
(* deletions of referenced content (pass 1), any content to add, and rows  *)
(* that change no content (directories, a second path of the same hash);   *)
(* rows that end as conflicts, no-ops or failed uploads write nothing, and *)
(* are the rows not chosen.                                                *)
Plan(m) ==
  /\ At(m, "sync", "plan")
  /\ \E del \in SUBSET run[m].cand.refs, add \in SUBSET Hashes, other \in BOOLEAN :
       run' = [run EXCEPT ![m].cand.refs = @ \ del,
                          ![m].applied = other \/ del # {},
                          ![m].todo = add,
                          ![m].pc = "upload"]
  /\ marker' = [marker EXCEPT ![m] = TRUE]
  /\ UNCHANGED <<s3Vars, stateDb, lastSynced, ghostVars>>

(* The entries row of content h is written, with its objects row.          *)
ApplyRow(m, h) ==
  run' = [run EXCEPT ![m].todo = @ \ {h},
                     ![m].cand.refs = @ \cup {h},
                     ![m].cand.objs = @ \cup {h},
                     ![m].applied = TRUE]

(* The objects table already lists h: no request is made.                  *)
Dedup(m, h) ==
  /\ At(m, "sync", "upload") /\ h \in run[m].todo
  /\ h \in run[m].cand.objs
  /\ ApplyRow(m, h)
  /\ UNCHANGED <<s3Vars, diskVars, ghostVars>>

(* verifyRemote: a HEAD finds the object of an interrupted run and keeps it*)
Adopt(m, h) ==
  /\ At(m, "sync", "upload") /\ h \in run[m].todo
  /\ h \notin run[m].cand.objs
  /\ run[m].verify /\ h \in stored
  /\ ApplyRow(m, h)
  /\ UNCHANGED <<s3Vars, diskVars, ghostVars>>

Upload(m, h) ==
  /\ At(m, "sync", "upload") /\ h \in run[m].todo
  /\ h \notin run[m].cand.objs
  /\ ~(run[m].verify /\ h \in stored)
  /\ stored' = stored \cup {h}
  /\ ApplyRow(m, h)
  /\ UNCHANGED <<current, states, wire, minted, diskVars, ghostVars>>

(* Remote changes are pulled down, whatever is missing on S3 aborting the  *)
(* run (Crash); then either there is something to commit or there is not.  *)
(* (verifyRemote is not read again: forgetting it merges equal states.)    *)
Pull(m) ==
  /\ At(m, "sync", "upload") /\ run[m].todo = {}
  /\ run' = [run EXCEPT ![m].pc = IF run[m].applied THEN "put" ELSE "adopt",
                        ![m].verify = FALSE]
  /\ UNCHANGED <<s3Vars, diskVars, ghostVars>>

(* Nothing to commit: the marker goes, and if /current had moved its       *)
(* state.db and stamp become the local baseline, in that order.            *)
AdoptRemote(m) ==
  /\ At(m, "sync", "adopt")
  /\ marker' = [marker EXCEPT ![m] = FALSE]
  /\ IF run[m].base # lastSynced[m]
     THEN Goto(m, "adoptDb")
     ELSE End(m)
  /\ UNCHANGED <<s3Vars, stateDb, lastSynced, acked, faults>>

AdoptDb(m) ==
  /\ At(m, "sync", "adoptDb")
  /\ stateDb' = [stateDb EXCEPT ![m] = states[run[m].base]]
  /\ Goto(m, "adoptStamp")
  /\ UNCHANGED <<s3Vars, lastSynced, marker, ghostVars>>

AdoptStamp(m) ==
  /\ At(m, "sync", "adoptStamp")
  /\ lastSynced' = [lastSynced EXCEPT ![m] = run[m].base]
  /\ End(m)
  /\ UNCHANGED <<s3Vars, stateDb, marker, acked, faults>>

(***************************************************************************)
(* gc: choosing the orphans.                                               *)
(***************************************************************************)

Orphans(s) == s.objs \ s.refs

StageOrphans(m) ==
  /\ At(m, "gc", "stage")
  /\ IF Orphans(run[m].cand) = {}
     THEN End(m)
     ELSE run' = [run EXCEPT ![m].sweep = Orphans(run[m].cand),
                             ![m].cand.objs = @ \ Orphans(run[m].cand),
                             ![m].pc = "put"]
  /\ UNCHANGED <<s3Vars, diskVars, acked, faults>>

(***************************************************************************)
(* The commit: snapshot, compare-and-swap, promotion.                      *)
(***************************************************************************)

(* The candidate is uploaded under a stamp nobody else can mint, its own   *)
(* row appended to the versions table.                                     *)
PutSnapshot(m) ==
  /\ run[m].pc = "put" /\ minted < MaxStamps
  /\ LET v == minted + 1
         db == [run[m].cand EXCEPT !.versions = Append(@, v)]
     IN /\ minted' = v
        /\ states' = [states EXCEPT ![v] = db]
        /\ run' = [run EXCEPT ![m].stamp = v, ![m].cand = db, ![m].pc = "cas"]
  /\ UNCHANGED <<current, stored, wire, diskVars, ghostVars>>

(* The bound MaxStamps: a command this instance has no stamp for ends here.*)
OutOfStamps(m) ==
  /\ run[m].pc = "put" /\ minted = MaxStamps
  /\ End(m)
  /\ UNCHANGED <<s3Vars, diskVars, ghostVars>>

AfterCommit(m) == IF run[m].op = "gc" THEN "sweep" ELSE "promote"

(* gc and a policy edit answer a 412 by starting over, a few times.        *)
Retry(m) ==
  IF run[m].attempt + 1 < MaxAttempts
  THEN run' = [run EXCEPT ![m] = [Idle EXCEPT !.op = run[m].op, !.pc = "fetch",
                                                 !.attempt = run[m].attempt + 1]]
  ELSE End(m)

(* S3 processes the conditional PUT and its answer arrives.                *)
CasAnswered(m) ==
  /\ run[m].pc = "cas"
  /\ \/ /\ current = run[m].base
        /\ current' = run[m].stamp
        /\ Goto(m, AfterCommit(m))
     \/ /\ current # run[m].base
        /\ IF run[m].op = "sync"
           THEN run' = [run EXCEPT ![m].pc = "readback", ![m].conflict = TRUE]
           ELSE Retry(m)
        /\ UNCHANGED current
  /\ UNCHANGED <<states, stored, wire, minted, diskVars, acked, faults>>

(* No answer: the request may be processed before, after or never.  The    *)
(* SDK sends the same request again, or gives up with a transient error:   *)
(* sync then reads /current back, gc and a policy edit fail.               *)
CasUnanswered(m) ==
  /\ run[m].pc = "cas" /\ Fault
  /\ wire' = wire \cup {[stamp |-> run[m].stamp, ifMatch |-> run[m].base]}
  /\ \/ UNCHANGED run
     \/ /\ run[m].op = "sync"
        /\ run' = [run EXCEPT ![m].pc = "readback", ![m].conflict = FALSE]
     \/ /\ run[m].op # "sync"
        /\ End(m)
  /\ UNCHANGED <<current, states, stored, minted, diskVars, acked>>

(* A request without an answer reaches S3, its sender alive or not.        *)
WireLands ==
  \E r \in wire :
    /\ wire' = wire \ {r}
    /\ current' = IF current = r.ifMatch THEN r.stamp ELSE current
    /\ UNCHANGED <<states, stored, minted, diskVars, run, ghostVars>>

(* pointerAlreadyOurs of commitCurrentPointer: on any failure GET /current.*)
(* Own stamp: the commit landed.  Otherwise the error stands: a transient  *)
(* one is retried by withS3Retry from the PUT on, a 412 becomes            *)
(* RemoteDivergedError.                                                    *)
ReadBack(m) ==
  /\ At(m, "sync", "readback")
  /\ Goto(m, CASE current = run[m].stamp -> "promote"
               [] current # run[m].stamp /\ run[m].conflict -> "diverged"
               [] current # run[m].stamp /\ ~run[m].conflict -> "cas")
  /\ UNCHANGED <<s3Vars, diskVars, ghostVars>>

(* The user reads "run sync again"; the candidate is discarded.            *)
ReportDiverged(m) ==
  /\ At(m, "sync", "diverged")
  /\ End(m)
  /\ UNCHANGED <<s3Vars, diskVars, ghostVars>>

(* The read-back itself fails: its transient error is what gets retried.   *)
ReadBackUnanswered(m) ==
  /\ At(m, "sync", "readback") /\ Fault
  /\ Goto(m, "cas")
  /\ UNCHANGED <<s3Vars, diskVars, acked>>

(* gc deletes the orphans' bytes from a pool, in no order; one delete that *)
(* fails does not stop the others, but the run then ends in an error       *)
(* without promoting its candidate.                                        *)
DeleteObject(m, h) ==
  /\ run[m].pc = "sweep" /\ h \in run[m].sweep
  /\ stored' = stored \ {h}
  /\ run' = [run EXCEPT ![m].sweep = @ \ {h}]
  /\ UNCHANGED <<current, states, wire, minted, diskVars, ghostVars>>

DeleteFails(m, h) ==
  /\ run[m].pc = "sweep" /\ h \in run[m].sweep /\ Fault
  /\ run' = [run EXCEPT ![m].sweep = @ \ {h}, ![m].failed = TRUE]
  /\ UNCHANGED <<s3Vars, diskVars, acked>>

SweepDone(m) ==
  /\ run[m].pc = "sweep" /\ run[m].sweep = {}
  /\ IF run[m].failed
     THEN End(m)
     ELSE Goto(m, "promote")
  /\ UNCHANGED <<s3Vars, diskVars, acked, faults>>

Promote(m) ==
  /\ run[m].pc = "promote"
  /\ stateDb' = [stateDb EXCEPT ![m] = run[m].cand]
  /\ Goto(m, "stamp")
  /\ UNCHANGED <<s3Vars, lastSynced, marker, ghostVars>>

WriteStamp(m) ==
  /\ run[m].pc = "stamp"
  /\ lastSynced' = [lastSynced EXCEPT ![m] = run[m].stamp]
  /\ IF run[m].op = "sync"
     THEN Goto(m, "clear") /\ UNCHANGED acked
     ELSE End(m) /\ acked' = acked \cup {run[m].stamp}
  /\ UNCHANGED <<s3Vars, stateDb, marker, faults>>

ClearMarker(m) ==
  /\ At(m, "sync", "clear")
  /\ marker' = [marker EXCEPT ![m] = FALSE]
  /\ End(m)
  /\ acked' = acked \cup {run[m].stamp}
  /\ UNCHANGED <<s3Vars, stateDb, lastSynced, faults>>

(* The process ends here: killed, or on an error it does not retry (S3,    *)
(* file system, missing object).  Only what is on disk or in S3 remains.   *)
Crash(m) ==
  /\ run[m].pc # "idle" /\ Fault
  /\ End(m)
  /\ UNCHANGED <<s3Vars, diskVars, acked>>

(* One step of the command machine m is running.                           *)
Step(m) ==
  \/ Refetch(m) \/ SaveFetched(m) \/ Plan(m)
  \/ \E h \in Hashes : Dedup(m, h) \/ Adopt(m, h) \/ Upload(m, h)
  \/ Pull(m) \/ AdoptRemote(m) \/ AdoptDb(m) \/ AdoptStamp(m)
  \/ StageOrphans(m) \/ PutSnapshot(m) \/ OutOfStamps(m)
  \/ CasAnswered(m) \/ ReadBack(m) \/ ReportDiverged(m)
  \/ \E h \in Hashes : DeleteObject(m, h)
  \/ SweepDone(m) \/ Promote(m) \/ WriteStamp(m) \/ ClearMarker(m)

(* What may happen to it but need not.                                     *)
Mishap(m) ==
  \/ CasUnanswered(m) \/ ReadBackUnanswered(m) \/ Crash(m)
  \/ \E h \in Hashes : DeleteFails(m, h)

Next == WireLands \/ \E m \in Machines : Start(m) \/ Step(m) \/ Mishap(m)

Spec == Init /\ [][Next]_vars

(* A running command takes its next step: Node's event loop and the        *)
(* answered S3 requests see to that.  Nothing makes a command start, an    *)
(* answer get lost or a lost request arrive.                               *)
FairSpec == Spec /\ \A m \in Machines : WF_vars(Step(m))

(***************************************************************************)
(* Properties.                                                             *)
(***************************************************************************)

(* Every variable has its type.                                            *)
TypeOK ==
  /\ current \in Stamps
  /\ states \in [Stamps -> Snapshot]
  /\ stored \in SUBSET Hashes
  /\ wire \in SUBSET Request
  /\ minted \in Stamps
  /\ stateDb \in [Machines -> Snapshot]
  /\ lastSynced \in [Machines -> Stamps]
  /\ marker \in [Machines -> BOOLEAN]
  /\ run \in [Machines -> Run]
  /\ acked \in SUBSET Stamps
  /\ faults \in 0..MaxFaults

(* A commit reported to a user is never lost: its stamp stays in the       *)
(* versions table of whatever /current names, through other machines'      *)
(* commits, lost answers, retries and crashes (the whole protocol of       *)
(* commit.ts, gc.ts, mutate-state-db.ts and commit-pointer.ts).            *)
AckedSurvives == acked \subseteq VersionsOf(states[current])

(* The shortcut of commit.ts:309 is sound: a machine whose                 *)
(* last_synced_version equals /current holds exactly that version's        *)
(* state.db, so building on the local file instead of downloading the      *)
(* snapshot loses nobody's commit.                                         *)
BaselineMatches ==
  \A m \in Machines : lastSynced[m] = current => stateDb[m] = states[current]

(* Every machine's state.db is an earlier version of the vault, never a    *)
(* branch of it, and is never older than the last_synced_version beside    *)
(* it, whatever a crash left half promoted (commit.ts:498-499).            *)
LocalOnTrunk ==
  \A m \in Machines :
    /\ IsPrefixOf(stateDb[m], states[current])
    /\ lastSynced[m] \in VersionsOf(stateDb[m])

(* An object some committed or local version lists exists in S3: the       *)
(* uploads of commit.ts come before the snapshot that lists them, and gc   *)
(* deletes only what no version will list again (gc.ts:193-196).           *)
ListedIsStored ==
  /\ states[current].objs \subseteq stored
  /\ states[current].refs \subseteq states[current].objs

(* /current only ever moves to a version built on the one it replaces: no  *)
(* commit overwrites another (the If-Match of commit.ts:484, gc.ts:161,    *)
(* mutate-state-db.ts:113).                                                *)
NoLostUpdate ==
  [][current' # current =>
       states[current'].versions = Append(states[current].versions, current')]_vars

(* A machine's state.db never goes back to an older version, not even      *)
(* when fetch_remote ran ahead of last_synced_version.                     *)
StateDbAdvances ==
  [][\A m \in Machines : IsPrefixOf(stateDb[m], stateDb'[m])]_vars

(* A sync that reports a divergence lost to another machine: /current is   *)
(* neither the version it started from nor its own (commit-pointer.ts, "the*)
(* fix is to ask").                                                        *)
DivergedMeansMoved ==
  \A m \in Machines :
    run[m].pc = "diverged" => current \notin {run[m].base, run[m].stamp}

(* The commit protocol implements the linear vault.                        *)
Linear == INSTANCE LinearVault WITH
  order <- states[current].versions,
  held <- [m \in Machines |-> Len(stateDb[m].versions)]
LinearVaultSpec == Linear!Spec

(* Every command ends: retries, read-backs and resends do not go on for    *)
(* ever once answers arrive (withS3Retry has no limit of its own).         *)
CommandsEnd == \A m \in Machines : run[m].pc # "idle" ~> run[m].pc = "idle"
=============================================================================
