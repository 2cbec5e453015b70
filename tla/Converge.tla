------------------------------ MODULE Converge ------------------------------
(***************************************************************************)
(* `converge` and `status` (sync/converge-storage-policies.ts): every      *)
(* object is moved to the storage class its paths' policies imply, by      *)
(* machines that each act on their own copy of state.db, with one job per  *)
(* object in a bounded pool, single or multipart copies, and restores of   *)
(* archived objects that take time and expire.                             *)
(***************************************************************************)
EXTENDS ObjectStorage, Sequences, FiniteSetsExt

CONSTANTS
  Machines,
  Paths,
  Tables,         \* the contents state.db may have: entries and policies
  Filters,        \* the paths a --filter may match
  FirstClasses,   \* the classes objects were uploaded with
  Large,          \* objects too large for one CopyObject
  PoolSlots,      \* concurrency of the s3 pool
  QueueLimit,     \* s3QueueLimit
  MaxCommits,     \* bound: commits of entries and policies
  MaxOthers,      \* bound: steps of machines outside Machines
  MaxFaults       \* bound: failed calls, expired restores and killed processes

ASSUME LargeAssumption == Large \subseteq Objects
ASSUME FilterAssumption == Paths \in Filters /\ Filters \subseteq SUBSET Paths
ASSUME PoolAssumption == PoolSlots \in Nat \ {0} /\ QueueLimit \in Nat \ {0}

(* A state.db: the hash at each path, the non-default policies in priority *)
(* order, each with the paths its glob matches, and the default's class.   *)
Policy == [glob : SUBSET Paths, class : Classes]
Table == [entries : [Paths -> Objects], policies : Seq(Policy), default : Classes]

ASSUME TablesAssumption == Tables \subseteq Table /\ FirstClasses \subseteq Classes
ASSUME BoundsAssumption == MaxCommits \in Nat /\ MaxOthers \in Nat /\ MaxFaults \in Nat

Stages == {"none", "queued", "restore", "copy", "parts", "complete", "abort"}
Run == [pc : {"idle", "run"}, apply : BOOLEAN,
        todo : SUBSET Objects,               \* hashes not yet dispatched
        stage : [Objects -> Stages]]         \* jobs of the s3 pool

VARIABLES
  vault,       \* S3: the state.db of the current version
  db,          \* disk: each machine's state.db
  run,         \* memory: the command each machine runs
  uploads,     \* S3: multipart uploads begun and neither completed nor aborted
  commits, others, faults   \* history: how many there were

vars == <<stored, vault, db, run, uploads, commits, others, faults>>

IdleRun == [pc |-> "idle", apply |-> FALSE, todo |-> {},
            stage |-> [o \in Objects |-> "none"]]

Init ==
  /\ \E class \in [Objects -> FirstClasses] : stored = [o \in Objects |-> Fresh(class[o])]
  /\ vault \in Tables
  /\ db = [m \in Machines |-> vault]
  /\ run = [m \in Machines |-> IdleRun]
  /\ uploads = {}
  /\ commits = 0 /\ others = 0 /\ faults = 0

(***************************************************************************)
(* Policies.                                                               *)
(***************************************************************************)

(* A slip, used by no specification: the last matching policy is taken.    *)
EvaluatePathLast(p, table) ==
  LET matching == {i \in DOMAIN table.policies : p \in table.policies[i].glob}
  IN IF matching = {} THEN table.default ELSE table.policies[Max(matching)].class

(* The first policy in priority order whose glob matches, or the default.  *)
EvaluatePathTargetClass(p, table) ==
  LET matching == {i \in DOMAIN table.policies : p \in table.policies[i].glob}
  IN IF matching = {} THEN table.default ELSE table.policies[Min(matching)].class

(* Several paths may hold one object: the warmest of their classes wins.   *)
ResolveHashTargetClass(paths, table) ==
  LET targets == {EvaluatePathTargetClass(p, table) : p \in paths}
  IN CHOOSE t \in targets : \A u \in targets : Coldness[t] <= Coldness[u]

PathsOf(o, table) == {p \in Paths : table.entries[p] = o}

(* Every path of the object counts, those outside --filter included.       *)
TargetClass(m, o) == ResolveHashTargetClass(PathsOf(o, db[m]), db[m])

(***************************************************************************)
(* The other commands.                                                     *)
(***************************************************************************)

(* A sync or a policy edit of some machine commits.                        *)
Commit ==
  /\ commits < MaxCommits /\ commits' = commits + 1
  /\ vault' \in Tables \ {vault}
  /\ UNCHANGED <<stored, db, run, uploads, others, faults>>

(* sync or fetch_remote brings the machine's state.db up to date.          *)
Fetch(m) ==
  /\ run[m].pc = "idle" /\ db[m] # vault
  /\ db' = [db EXCEPT ![m] = vault]
  /\ UNCHANGED <<stored, vault, run, uploads, commits, others, faults>>

(* A machine outside Machines: materialize --request-retrieval or a        *)
(* converge of its own asks for a restore, or its converge copies an       *)
(* object to the class some state.db implies.                              *)
Elsewhere(o) ==
  /\ others < MaxOthers /\ others' = others + 1
  /\ \/ RestoreAccepted(o) /\ stored' = Restored(o)
     \/ /\ Readable(stored[o])
        /\ \E table \in Tables :
             /\ PathsOf(o, table) # {}
             /\ stored' = [stored EXCEPT ![o] =
                             Fresh(ResolveHashTargetClass(PathsOf(o, table), table))]
  /\ UNCHANGED <<vault, db, run, uploads, commits, faults>>

(***************************************************************************)
(* convergeStoragePolicies.                                                *)
(***************************************************************************)

Start(m, filter, apply) ==
  /\ run[m].pc = "idle"
  /\ run' = [run EXCEPT ![m] = [IdleRun EXCEPT
               !.pc = "run", !.apply = apply,
               !.todo = {db[m].entries[p] : p \in filter}]]
  /\ UNCHANGED <<stored, vault, db, uploads, commits, others, faults>>

InStage(m, stages) == {o \in Objects : run[m].stage[o] \in stages}
Running(m) == InStage(m, {"restore", "copy", "parts", "complete", "abort"})

Stage(m, o, stage) == run' = [run EXCEPT ![m].stage[o] = stage]
JobEnds(m, o) == Stage(m, o, "none")
Fault == faults < MaxFaults /\ faults' = faults + 1

Dispatch(m, o) ==
  /\ o \in run[m].todo
  /\ Cardinality(InStage(m, {"queued"})) < QueueLimit
  /\ run' = [run EXCEPT ![m].todo = @ \ {o}, ![m].stage[o] = "queued"]
  /\ UNCHANGED <<stored, vault, db, uploads, commits, others, faults>>

(* What the HEAD, answered now, makes of the job.                          *)
StageAfterHead(m, o) ==
  LET status == ClassifyArchiveStatus(stored[o])
      action == DecideStorageClassAction(stored[o].class, TargetClass(m, o), status)
  IN CASE ~run[m].apply \/ action \in {"already-correct", "restore-ongoing"} -> "none"
       [] run[m].apply /\ action = "needs-restore-request" -> "restore"
       [] run[m].apply /\ action \in {"immediate-copy", "finalize-copy"} -> "copy"

(* A job takes a slot of the pool and HEADs its object; a failed HEAD is   *)
(* boxed and ends the job.                                                 *)
HeadObject(m, o) ==
  /\ run[m].stage[o] = "queued"
  /\ Cardinality(Running(m)) < PoolSlots
  /\ \/ Stage(m, o, StageAfterHead(m, o)) /\ UNCHANGED faults
     \/ Fault /\ JobEnds(m, o)
  /\ UNCHANGED <<stored, vault, db, uploads, commits, others>>

RequestRestore(m, o) ==
  /\ run[m].stage[o] = "restore"
  /\ \/ /\ stored' = IF RestoreAccepted(o) THEN Restored(o) ELSE stored
        /\ UNCHANGED faults
     \/ Fault /\ UNCHANGED stored
  /\ JobEnds(m, o)
  /\ UNCHANGED <<vault, db, uploads, commits, others>>

(* CopyObject onto itself: S3 refuses it while the source is not readable. *)
CopySmall(m, o) ==
  /\ run[m].stage[o] = "copy" /\ o \notin Large
  /\ \/ /\ stored' = IF Readable(stored[o])
                     THEN [stored EXCEPT ![o] = Fresh(TargetClass(m, o))] ELSE stored
        /\ UNCHANGED faults
     \/ Fault /\ UNCHANGED stored
  /\ JobEnds(m, o)
  /\ UNCHANGED <<vault, db, uploads, commits, others>>

CreateMultipart(m, o) ==
  /\ run[m].stage[o] = "copy" /\ o \in Large
  /\ \/ /\ uploads' = uploads \cup {<<m, o>>}
        /\ Stage(m, o, "parts")
        /\ UNCHANGED faults
     \/ Fault /\ JobEnds(m, o) /\ UNCHANGED uploads
  /\ UNCHANGED <<stored, vault, db, commits, others>>

(* A slip, used by no specification: the parts are queued in the pool the  *)
(* job itself runs in.                                                     *)
CopyPartsInPool(m, o) ==
  /\ run[m].stage[o] = "parts"
  /\ Cardinality(Running(m)) < PoolSlots
  /\ Stage(m, o, IF Readable(stored[o]) THEN "complete" ELSE "abort")
  /\ UNCHANGED <<stored, vault, db, uploads, commits, others, faults>>

(* The parts are copied on a queue of the copy's own; one that S3 refuses  *)
(* fails the copy.                                                         *)
CopyParts(m, o) ==
  /\ run[m].stage[o] = "parts"
  /\ \/ /\ Stage(m, o, IF Readable(stored[o]) THEN "complete" ELSE "abort")
        /\ UNCHANGED faults
     \/ Fault /\ Stage(m, o, "abort")
  /\ UNCHANGED <<stored, vault, db, uploads, commits, others>>

(* The object is replaced in one step.  An answer that is lost, or a       *)
(* checksum that does not match, aborts the upload too.                    *)
CompleteMultipart(m, o) ==
  /\ run[m].stage[o] = "complete"
  /\ \/ /\ stored' = [stored EXCEPT ![o] = Fresh(TargetClass(m, o))]
        /\ uploads' = uploads \ {<<m, o>>}
        /\ \/ JobEnds(m, o) /\ UNCHANGED faults
           \/ Fault /\ Stage(m, o, "abort")
     \/ Fault /\ Stage(m, o, "abort") /\ UNCHANGED <<stored, uploads>>
  /\ UNCHANGED <<vault, db, commits, others>>

(* Best effort: the upload stays behind when every attempt fails.          *)
AbortMultipart(m, o) ==
  /\ run[m].stage[o] = "abort"
  /\ \/ uploads' = uploads \ {<<m, o>>} /\ UNCHANGED faults
     \/ Fault /\ UNCHANGED uploads
  /\ JobEnds(m, o)
  /\ UNCHANGED <<stored, vault, db, commits, others>>

(* s3Pool.onIdle(), then the first boxed error decides the exit code.      *)
Finish(m) ==
  /\ run[m].pc = "run" /\ run[m].todo = {}
  /\ InStage(m, Stages \ {"none"}) = {}
  /\ run' = [run EXCEPT ![m] = IdleRun]
  /\ UNCHANGED <<stored, vault, db, uploads, commits, others, faults>>

Crash(m) ==
  /\ run[m].pc = "run" /\ Fault
  /\ run' = [run EXCEPT ![m] = IdleRun]
  /\ UNCHANGED <<stored, vault, db, uploads, commits, others>>

Job(m, o) ==
  \/ Dispatch(m, o) \/ HeadObject(m, o) \/ RequestRestore(m, o)
  \/ CopySmall(m, o) \/ CreateMultipart(m, o) \/ CopyParts(m, o)
  \/ CompleteMultipart(m, o) \/ AbortMultipart(m, o)

Progress(m) == Finish(m) \/ \E o \in Objects : Job(m, o)

S3Restores(o) ==
  /\ RestoreCompletes(o)
  /\ UNCHANGED <<vault, db, run, uploads, commits, others, faults>>

S3Expires(o) ==
  /\ Fault /\ RestoreExpires(o)
  /\ UNCHANGED <<vault, db, run, uploads, commits, others>>

Next ==
  \/ Commit
  \/ \E m \in Machines :
       \/ Fetch(m) \/ Progress(m) \/ Crash(m)
       \/ \E filter \in Filters, apply \in BOOLEAN : Start(m, filter, apply)
  \/ \E o \in Objects : Elsewhere(o) \/ S3Restores(o) \/ S3Expires(o)

Spec == Init /\ [][Next]_vars

(* The event loop runs every job that can run, a restore S3 accepted ends, *)
(* and every user goes on syncing and converging.                          *)
Fairness ==
  /\ \A m \in Machines : /\ WF_vars(Progress(m))
                         /\ SF_vars(Fetch(m))
                         /\ SF_vars(Start(m, Paths, TRUE))
  /\ \A o \in Objects : WF_vars(S3Restores(o))

FairSpec == Spec /\ Fairness

(***************************************************************************)
(* Properties.                                                             *)
(***************************************************************************)

(* Every variable has its type.                                            *)
TypeOK ==
  /\ stored \in [Objects -> Object]
  /\ vault \in Tables
  /\ db \in [Machines -> Tables]
  /\ run \in [Machines -> Run]
  /\ uploads \subseteq Machines \X Objects
  /\ commits \in 0..MaxCommits /\ others \in 0..MaxOthers /\ faults \in 0..MaxFaults

(* "An object is never archived colder than any path that implies it       *)
(* should stay warm": whatever a machine's --filter, a copy it makes is no *)
(* colder than the first matching policy of any path of the object asks    *)
(* for, in the state.db it works from (policy-evaluation.ts:45-65).        *)
NeverColderThanImplied ==
  [][\A o \in Objects :
       stored'[o].class # stored[o].class /\ others' = others =>
         \E m \in Machines :
           /\ run[m].apply /\ run[m].stage[o] \in {"copy", "complete"}
           /\ \A p \in Paths : db[m].entries[p] = o =>
                LET table == db[m]
                    implied == {i \in DOMAIN table.policies :
                                  /\ p \in table.policies[i].glob
                                  /\ \A j \in 1..(i - 1) : p \notin table.policies[j].glob}
                IN /\ \A i \in implied :
                        Coldness[stored'[o].class] <= Coldness[table.policies[i].class]
                   /\ implied = {} => Coldness[stored'[o].class] <= Coldness[table.default]]_vars

(* No command hangs: however many large objects are copied at once, their  *)
(* parts find room (copy-object.ts:234).                                   *)
RunsEnd == \A m \in Machines : run[m].pc = "run" ~> run[m].pc = "idle"

AtTarget(o) ==
  LET paths == PathsOf(o, vault)
  IN paths # {} => stored[o].class = ResolveHashTargetClass(paths, vault)

(* The move the code believes to be a plain copy and S3 refuses.           *)
Frozen(o) ==
  LET paths == PathsOf(o, vault)
  IN /\ paths # {}
     /\ stored[o].class = "GLACIER"
     /\ ResolveHashTargetClass(paths, vault) = "DEEP_ARCHIVE"

(* Converging reaches the classes the policies ask for and stays there,    *)
(* through restores, expiries, failed calls and machines that first worked *)
(* from different policies.                                                *)
Converges == <>[](\A o \in Objects : AtTarget(o) \/ Frozen(o))
=============================================================================
