---------------------------- MODULE StubCommands ----------------------------
(***************************************************************************)
(* `stubify` and `materialize` on the tree and cache.db of WorkingTree,    *)
(* which `update_cache` and `sync` bring about: files replaced by stubs,   *)
(* stubs by the content they stand for, with hash jobs and downloads in    *)
(* flight while the user edits, objects that have to be restored first,    *)
(* processes killed between any two writes, and downloads that outlive     *)
(* the command that began them.                                            *)
(***************************************************************************)
EXTENDS WorkingTree

VARIABLES
  stored,     \* S3: the storage class of each object (ObjectStorage)
  job,        \* memory: the stub command being run
  strays,     \* memory: downloads still under way when their command ended
  touched     \* history: paths others changed since the command began

S3 == INSTANCE ObjectStorage WITH Objects <- Contents

JobStages == {"none", "rehash", "confirmed", "stubbed", "queued", "stream", "landed",
              "record"}
Job == [cmd : {"none", "stubify", "materialize"},
        request : BOOLEAN,                   \* --request-retrieval
        todo : SUBSET Paths,                 \* rows of cache.db still to come
        stage : [Paths -> JobStages],
        failed : BOOLEAN]                    \* an error in the s3 pool's box
NoJob == [cmd |-> "none", request |-> FALSE, todo |-> {},
          stage |-> [p \in Paths |-> "none"], failed |-> FALSE]

allVars == <<vars, stored, job, strays, touched>>

StubInit ==
  /\ Init
  /\ \E class \in {"STANDARD", "GLACIER"} : stored = [c \in Contents |-> S3!Fresh(class)]
  /\ job = NoJob
  /\ strays = [p \in Paths |-> None]
  /\ touched = {}

InStage(stages) == {p \in Paths : job.stage[p] \in stages}
ToStage(p, stage) == job' = [job EXCEPT !.stage[p] = stage]
SetAside(p) == job' = [job EXCEPT !.todo = @ \ {p}]
Dispatched(p, stage) == job' = [job EXCEPT !.todo = @ \ {p}, !.stage[p] = stage]

(* What a command leaves alone that writes to the tree and cache.db only.  *)
sharedVars == <<remote, minted, known, lastSynced, run, ghostVars>>

(***************************************************************************)
(* The commands of WorkingTree, the user and the other machines.           *)
(***************************************************************************)

(* Every command but these two; the lock keeps them apart.                 *)
OtherCommand ==
  /\ job.cmd = "none"
  /\ Command \/ Crash
  /\ UNCHANGED <<stored, job, strays, touched>>

(* What runs to its end in one turn of the event loop is not interrupted by*)
(* an edit.                                                                *)
InTurn == InStage({"stubbed", "landed", "record"})

Touch(p) ==
  touched' = IF job.cmd = "none" THEN {} ELSE touched \cup {p}

UserEdits(p) ==
  /\ p \notin InTurn
  /\ Edit(p)
  /\ Touch(p)
  /\ UNCHANGED <<stored, job, strays>>

(* The user writes a stub by hand, or moves one here from another path.    *)
HandStub(p) ==
  /\ edits < MaxEdits /\ edits' = edits + 1
  /\ p \notin InTurn /\ p \notin run.landing
  /\ \E c \in known :
       tree' = [tree EXCEPT ![p].stub = c, ![p].stime = NewMtime(p)]
  /\ Touch(p)
  /\ UNCHANGED <<remote, minted, cache, known, lastSynced, run, history, seen,
                 others, faults, stored, job, strays>>

OthersAct ==
  /\ \/ OtherCommits /\ UNCHANGED stored
     \/ /\ others < MaxOthers /\ others' = others + 1      \* a converge
        /\ \E c \in Contents, class \in {"STANDARD", "GLACIER"} :
             /\ S3!Readable(stored[c])
             /\ stored' = [stored EXCEPT ![c] = S3!Fresh(class)]
        /\ UNCHANGED <<remote, minted, diskVars, run, history, seen, edits, faults>>
  /\ UNCHANGED <<job, strays, touched>>

RestoreEnds ==
  /\ \E c \in Contents : S3!RestoreCompletes(c)
  /\ UNCHANGED <<vars, job, strays, touched>>

(***************************************************************************)
(* stubify.                                                                *)
(***************************************************************************)

StartCommand(cmd, request) ==
  /\ run.pc = "idle" /\ job.cmd = "none"
  /\ job' = [NoJob EXCEPT !.cmd = cmd, !.request = request,
                          !.todo = {p \in Paths : cache[p] # NoRow}]
  /\ UNCHANGED <<vars, stored, strays, touched>>

(* Slips a change of this file could make, each caught by a property.      *)

StubifyRowPending(p) ==       \* pending local changes are not skipped
  /\ job.cmd = "stubify" /\ p \in job.todo
  /\ \/ /\ tree[p].real = None
        /\ SetAside(p)
        /\ UNCHANGED tree
     \/ /\ tree[p].real # None
        /\ tree' = [tree EXCEPT ![p].stub = cache[p].hash, ![p].stime = NewMtime(p)]
        /\ Dispatched(p, "stubbed")
  /\ UNCHANGED <<cache, sharedVars, stored, strays, touched>>

RehashEndsUnchecked(p) ==     \* the rehash is not compared with the row's hash
  /\ job.stage[p] = "rehash"
  /\ ToStage(p, "confirmed")
  /\ UNCHANGED <<tree, cache, sharedVars, stored, strays, touched>>

WriteStubLate(p) ==           \* the file is deleted before its stub is written
  /\ job.stage[p] = "confirmed"
  /\ tree' = [tree EXCEPT ![p].real = None, ![p].rtime = 0]
  /\ ToStage(p, "stubbed")
  /\ UNCHANGED <<cache, sharedVars, stored, strays, touched>>

(* One row: only a real file whose row is unchanged goes on, at once when  *)
(* its modification time is the row's and through a rehash otherwise.      *)
StubifyRow(p) ==
  /\ job.cmd = "stubify" /\ p \in job.todo
  /\ \/ /\ tree[p].real = None \/ cache[p].state # "unchanged"
        /\ SetAside(p)
        /\ UNCHANGED tree
     \/ /\ tree[p].real # None /\ cache[p].state = "unchanged"
        /\ tree[p].rtime = cache[p].mtime
        /\ tree' = [tree EXCEPT ![p].stub = cache[p].hash, ![p].stime = NewMtime(p)]
        /\ Dispatched(p, "stubbed")
     \/ /\ tree[p].real # None /\ cache[p].state = "unchanged"
        /\ tree[p].rtime # cache[p].mtime
        /\ Dispatched(p, "rehash")
        /\ UNCHANGED tree
  /\ UNCHANGED <<cache, sharedVars, stored, strays, touched>>

(* The hash worker read the file; another content, or none, is left alone. *)
RehashEnds(p) ==
  /\ job.stage[p] = "rehash"
  /\ ToStage(p, IF tree[p].real = cache[p].hash THEN "confirmed" ELSE "none")
  /\ UNCHANGED <<tree, cache, sharedVars, stored, strays, touched>>

(* finalize: the stub is put in place ...                                  *)
WriteStub(p) ==
  /\ job.stage[p] = "confirmed"
  /\ tree' = [tree EXCEPT ![p].stub = cache[p].hash, ![p].stime = NewMtime(p)]
  /\ ToStage(p, "stubbed")
  /\ UNCHANGED <<cache, sharedVars, stored, strays, touched>>

(* ... then the file is deleted, whatever it holds by now ...              *)
RemoveReal(p) ==
  /\ job.stage[p] = "stubbed"
  /\ IF tree[p].real = None
     THEN ToStage(p, "none") /\ UNCHANGED tree
     ELSE /\ tree' = [tree EXCEPT ![p].real = None, ![p].rtime = 0]
          /\ ToStage(p, "record")
  /\ UNCHANGED <<cache, sharedVars, stored, strays, touched>>

(* ... and cache.db gets the new modification time: of the stub after     *)
(* stubify, of the file after materialize.                                 *)
Record(p) ==
  /\ job.stage[p] = "record"
  /\ cache' = [cache EXCEPT ![p].mtime = Mtime(tree[p])]
  /\ ToStage(p, "none")
  /\ UNCHANGED <<tree, sharedVars, stored, strays, touched>>

(***************************************************************************)
(* materialize.                                                            *)
(***************************************************************************)

(* The downloads the command leaves to themselves when it ends with an     *)
(* error: they run on in a process that no longer holds the lock.          *)
Abandoned ==
  [p \in Paths |-> IF job.stage[p] \in {"queued", "stream"} THEN cache[p].hash
                   ELSE strays[p]]

Ended == job' = NoJob /\ touched' = {}

(* A row whose stub cannot be resolved ends the command.                   *)
Unresolved(p) ==
  /\ job.cmd = "materialize" /\ p \in job.todo
  /\ tree[p].real = None /\ tree[p].stub # None
  /\ cache[p].hash \notin known

MaterializeFails(p) ==
  /\ Unresolved(p)
  /\ strays' = Abandoned
  /\ Ended
  /\ UNCHANGED <<tree, cache, sharedVars, stored>>

MaterializeRow(p) ==
  /\ job.cmd = "materialize" /\ p \in job.todo /\ ~Unresolved(p)
  /\ \/ /\ tree[p].stub = None \/ tree[p].real # None
        /\ tree' = [tree EXCEPT ![p].stub = None, ![p].stime = 0]
        /\ SetAside(p)
     \/ /\ tree[p].stub # None /\ tree[p].real = None
        /\ Dispatched(p, "queued")
        /\ UNCHANGED tree
  /\ UNCHANGED <<cache, sharedVars, stored, strays, touched>>

Exists(c) == c \in remote.objs

(* The HEAD of a stub's object.                                            *)
HeadStub(p) ==
  LET c == cache[p].hash
      status == S3!ClassifyArchiveStatus(stored[c])
      retrieve == status \in {"needs-restore-request", "restore-expired-needs-reissue"}
  IN /\ job.stage[p] = "queued"
     /\ \/ /\ ~Exists(c)
           /\ job' = [job EXCEPT !.stage[p] = "none", !.failed = TRUE]
           /\ UNCHANGED stored
        \/ /\ Exists(c) /\ status \in {"immediate", "restore-ready"}
           /\ ToStage(p, "stream")
           /\ UNCHANGED stored
        \/ /\ Exists(c) /\ status \notin {"immediate", "restore-ready"}
           /\ stored' = IF job.request /\ retrieve THEN S3!Restored(c) ELSE stored
           /\ ToStage(p, "none")
     /\ UNCHANGED <<tree, cache, sharedVars, strays, touched>>

(* A HEAD is not retried: one that S3 fails, of this row or of another of  *)
(* the command's, leaves its error in the s3 pool's box.                   *)
HeadFails ==
  /\ job.cmd = "materialize"
  /\ faults < MaxFaults /\ faults' = faults + 1
  /\ \/ job' = [job EXCEPT !.failed = TRUE]
     \/ \E p \in InStage({"queued"}) :
          job' = [job EXCEPT !.failed = TRUE, !.stage[p] = "none"]
  /\ UNCHANGED <<remote, minted, diskVars, run, history, seen, edits, others,
                 stored, strays, touched>>

(* The download, verified against the row's hash, is renamed into place;   *)
(* it fails when the object was archived or collected since the HEAD.      *)
Download(p) ==
  LET c == cache[p].hash
  IN /\ job.stage[p] = "stream"
     /\ IF Exists(c) /\ S3!Readable(stored[c])
        THEN /\ tree' = [tree EXCEPT ![p].real = c, ![p].rtime = NewMtime(p)]
             /\ ToStage(p, "landed")
        ELSE ToStage(p, "none") /\ UNCHANGED tree
     /\ UNCHANGED <<cache, sharedVars, stored, strays, touched>>

(* Only then is the stub deleted; one that is gone fails the job.          *)
RemoveStub(p) ==
  /\ job.stage[p] = "landed"
  /\ IF tree[p].stub = None
     THEN ToStage(p, "none") /\ UNCHANGED tree
     ELSE /\ tree' = [tree EXCEPT ![p].stub = None, ![p].stime = 0]
          /\ ToStage(p, "record")
  /\ UNCHANGED <<cache, sharedVars, stored, strays, touched>>

(* A stray download lands like any other, but its cache.db is closed, so   *)
(* the row stays; or its process is killed once the file is in place; or it*)
(* fails.                                                                  *)
StrayReady(p) ==
  /\ strays[p] # None
  /\ Exists(strays[p]) /\ S3!Readable(stored[strays[p]])
  /\ p \notin InTurn /\ p \notin run.landing

StrayLands(p) ==
  /\ StrayReady(p)
  /\ tree' = [tree EXCEPT ![p] = [NoFile EXCEPT !.real = strays[p], !.rtime = NewMtime(p)]]
  /\ strays' = [strays EXCEPT ![p] = None]
  /\ Touch(p)
  /\ UNCHANGED <<cache, sharedVars, stored, job>>

StrayKilled(p) ==
  /\ StrayReady(p)
  /\ faults < MaxFaults /\ faults' = faults + 1
  /\ tree' = [tree EXCEPT ![p].real = strays[p], ![p].rtime = NewMtime(p)]
  /\ strays' = [strays EXCEPT ![p] = None]
  /\ Touch(p)
  /\ UNCHANGED <<remote, minted, cache, known, lastSynced, run, history, seen,
                 edits, others, stored, job>>

StrayFails(p) ==
  /\ strays[p] # None
  /\ strays' = [strays EXCEPT ![p] = None]
  /\ UNCHANGED <<vars, stored, job, touched>>

(* The s3 pool is drained first and its error thrown before the stream     *)
(* pool is waited for.                                                     *)
CommandEnds ==
  /\ job.cmd # "none" /\ job.todo = {}
  /\ \/ job.failed /\ InStage(JobStages \ {"none", "stream"}) = {}
     \/ InStage(JobStages \ {"none"}) = {}
  /\ strays' = Abandoned
  /\ Ended
  /\ UNCHANGED <<tree, cache, sharedVars, stored>>

Killed ==
  /\ job.cmd # "none"
  /\ faults < MaxFaults /\ faults' = faults + 1
  /\ Ended
  /\ UNCHANGED <<remote, minted, diskVars, run, history, seen, edits, others,
                 stored, strays>>

StubStep ==
  \/ CommandEnds
  \/ \E p \in Paths :
       \/ StubifyRow(p) \/ RehashEnds(p) \/ WriteStub(p) \/ RemoveReal(p) \/ Record(p)
       \/ MaterializeRow(p) \/ MaterializeFails(p) \/ HeadStub(p) \/ Download(p)
       \/ RemoveStub(p)

StubNext ==
  \/ HeadFails
  \/ OtherCommand \/ OthersAct \/ RestoreEnds \/ StubStep \/ Killed
  \/ StartCommand("stubify", FALSE)
  \/ \E request \in BOOLEAN : StartCommand("materialize", request)
  \/ \E p \in Paths :
       UserEdits(p) \/ HandStub(p) \/ StrayLands(p) \/ StrayKilled(p)
       \/ StrayFails(p)

StubSpec == StubInit /\ [][StubNext]_allVars

(***************************************************************************)
(* Properties.                                                             *)
(***************************************************************************)

(* Every variable has its type.                                            *)
StubTypeOK ==
  /\ TypeOK
  /\ stored \in [Contents -> S3!Object]
  /\ job \in Job
  /\ strays \in [Paths -> Contents \cup {None}]
  /\ touched \subseteq Paths

(* The steps of stubify and materialize and the ends of either, killed     *)
(* ones included.                                                          *)
ByStubCommand == job.cmd # "none" /\ job' # job

(* The ends of a download that outlived its command.                       *)
ByStray == strays' # strays

(* A path always holds something: no step of either command, no crash      *)
(* between two of them, and no download landing under a later command or   *)
(* killed as it lands, leaves neither the file nor the stub, whatever the  *)
(* user does meanwhile ("never a state where neither representation        *)
(* exists", stub-files.md:68-72).                                          *)
NeverNeither ==
  [][ByStubCommand \/ ByStray =>
       \A p \in Paths : tree[p] # NoFile => tree'[p] # NoFile]_allVars

(* Neither command changes what a path stands for: the file, or the stub   *)
(* the scan has recorded, stands for the same content after every step,    *)
(* unless the path was changed while the command was running.              *)
ContentIsKept ==
  [][ByStubCommand =>
       \A p \in Paths \ touched :
         tree[p].stub \in {None, cache[p].hash} => Content(tree'[p]) = Content(tree[p])]_allVars

(* stubify deletes the local bytes of a file only when the vault has held  *)
(* that content at that path, so there is something to materialize from    *)
(* (stubify.ts:217-273).                                                   *)
OnlyCommittedIsStubbed ==
  [][ByStubCommand =>
       \A p \in Paths \ touched :
         tree[p].real # None /\ tree'[p].real = None =>
           \E e \in history[p] : e.hash = tree[p].real]_allVars
=============================================================================
