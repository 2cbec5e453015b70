-------------------------------- MODULE Mirror --------------------------------
(***************************************************************************)
(* The local mirror: a second copy of the encrypted vault, which this      *)
(* machine's commits extend as they go and which the mirror command        *)
(* verifies, completes and prunes.  Commands of this machine run one at a  *)
(* time, under the vault's lock; other machines commit to the same S3      *)
(* vault and know nothing of this mirror.                                  *)
(*                                                                         *)
(* Modelled: what the mirror holds and names while sync, gc, policy edits, *)
(* catchup and prune run, fail halfway or are killed.  Not modelled here:  *)
(* how an object's bytes reach both sinks (UploadUnit), how /current is    *)
(* moved (Vault), verify --offline, bytes that rot in place, stale temps.   *)
(***************************************************************************)
EXTENDS Naturals, Sequences, FiniteSets

CONSTANTS Objects,      \* content hashes
          Initial,      \* those the vault lists before there is a mirror
          Archivable,   \* those a storage policy may archive
          MaxVersions,  \* versions minted in all (bounds the instance)
          MaxFaults     \* kills, failed writes, rot and expiries, together

ASSUME MirrorAssumption == /\ Initial \subseteq Objects /\ Archivable \subseteq Objects
                           /\ MaxVersions \in Nat \ {0} /\ MaxFaults \in Nat

VARIABLES versions,  \* versions[v]: what the state.db of stamp v lists
          log,       \* the stamps S3's /current has named, in order
          s3,        \* s3[h]: the object's state in S3
          local,     \* objects some file with a clean cache row still has
          mirror,    \* the mirror's own files
          run,       \* the command this machine is running
          faults     \* how many things went wrong so far

vars == <<versions, log, s3, local, mirror, run, faults>>

\* A stamp's state.db: its objects table, and the hashes its entries use.
Version == [objects : SUBSET Objects, refs : SUBSET Objects]

\* archive-status.ts, see ObjectStorage
S3States == {"absent", "readable", "archived", "restoring", "restored"}

Run == [cmd     : {"none", "sync", "edit", "catchup", "prune"},
        stage   : {"idle", "objects", "commit", "snapshot", "pointer"},
        version : 0..MaxVersions,                  \* the stamp it works for
        base    : 0..MaxVersions,                  \* the /current it built on
        sink    : {"fail", "ignore", "skip"},      \* --on-mirror-max-retries
        todo    : SUBSET Objects,                  \* objects still to look at
        lost    : BOOLEAN,                         \* unrecoverableLocally > 0
        waiting : SUBSET Objects,                  \* found archived
        download : BOOLEAN, retrieve : BOOLEAN]    \* catchup's flags

NoRun == [cmd |-> "none", stage |-> "idle", version |-> 0, base |-> 0,
          sink |-> "fail", todo |-> {}, lost |-> FALSE, waiting |-> {},
          download |-> FALSE, retrieve |-> FALSE]

Current == log[Len(log)]
Idling == run = NoRun
Ends == run' = NoRun

Init ==
    /\ versions = <<[objects |-> Initial, refs |-> Initial]>>
    /\ s3 = [h \in Objects |-> IF h \in Initial THEN "readable" ELSE "absent"]
    /\ log = <<1>>
    /\ local = {}
    /\ mirror = [pointer |-> 0, snapshots |-> {}, manifest |-> FALSE, held |-> {}]
    /\ run = NoRun /\ faults = 0

-----------------------------------------------------------------------------
(***************************************************************************)
(* What the mirror's files say.                                            *)
(***************************************************************************)

\* mirrorObjectExists: a file of the object's size.  The bytes of one that has
\* it are never looked at again, but by verify --checksum.
Exists(h) == h \in mirror.held

\* readMirrorVersion: a current pointer, and the snapshot it names.
HasVersion == mirror.pointer # 0 /\ mirror.pointer \in mirror.snapshots

\* mirror verify: the manifest, the version, and every object it lists.
VerifyPasses(depth) ==
    /\ mirror.manifest /\ HasVersion
    /\ depth # "quick" => \A h \in versions[mirror.pointer].objects : Exists(h)

\* writeMirrorFile and the streams publish by rename: all or nothing.
Put(h) == mirror' = [mirror EXCEPT !.held = @ \union {h}]

\* Each thing that goes wrong counts against the instance's bound.
Fault == faults < MaxFaults /\ faults' = faults + 1

-----------------------------------------------------------------------------
(***************************************************************************)
(* Commits of this machine.  sync stores its new objects, writes the       *)
(* snapshot to the mirror and then moves /current; gc and the policy       *)
(* commands move /current first.                                           *)
(***************************************************************************)

Mint(v) == Len(versions) < MaxVersions /\ versions' = Append(versions, v)

\* Files appear and go; what they hold is stored where it is missing.
SyncStart ==
    /\ Idling
    /\ \E add \in SUBSET (Objects \ versions[Current].refs),
          drop \in SUBSET versions[Current].refs, sink \in {"fail", "ignore", "skip"} :
         LET base == versions[Current] IN
         /\ add # {} \/ drop # {}
         /\ Mint([objects |-> base.objects \union add, refs |-> (base.refs \ drop) \union add])
         /\ run' = [NoRun EXCEPT !.cmd = "sync", !.stage = "objects", !.sink = sink,
                      !.version = Len(versions) + 1, !.base = Current,
                      !.todo = {h \in add : \/ h \notin base.objects
                                            \/ sink # "skip" /\ ~Exists(h)}]
    /\ UNCHANGED <<log, s3, local, mirror, faults>>

\* Mutant: a mirror that fails is ignored whatever the run was told.
SyncStoreIgnores(h) ==
    /\ run.cmd = "sync" /\ run.stage = "objects" /\ h \in run.todo
    /\ s3' = IF h \in versions[run.base].objects THEN s3 ELSE [s3 EXCEPT ![h] = "readable"]
    /\ run' = [run EXCEPT !.todo = @ \ {h}]
    /\ \/ Put(h) /\ UNCHANGED faults
       \/ UNCHANGED mirror /\ Fault
    /\ UNCHANGED <<versions, log, local>>

\* One object reaches S3 if S3 lacks it and the mirror if that lacks it.  A
\* mirror that fails for good aborts the sync, or leaves a gap.
SyncStore(h) ==
    LET wanted == run.sink # "skip" /\ ~Exists(h) IN
    /\ run.cmd = "sync" /\ run.stage = "objects" /\ h \in run.todo
    /\ s3' = IF h \in versions[run.base].objects THEN s3 ELSE [s3 EXCEPT ![h] = "readable"]
    /\ \/ /\ run' = [run EXCEPT !.todo = @ \ {h}]
          /\ IF wanted THEN Put(h) ELSE UNCHANGED mirror
          /\ UNCHANGED faults
       \/ /\ wanted /\ Fault
          /\ run' = IF run.sink = "fail" THEN NoRun ELSE [run EXCEPT !.todo = @ \ {h}]
          /\ UNCHANGED mirror
    /\ UNCHANGED <<versions, log, local>>

\* mirrorStateSnapshot, whose failure is only logged.
WriteSnapshot ==
    \/ mirror' = [mirror EXCEPT !.snapshots = @ \union {run.version}] /\ UNCHANGED faults
    \/ UNCHANGED mirror /\ Fault

\* Mutant: the pointer goes along with the snapshot.
SyncSnapshotPoints ==
    /\ run.cmd = "sync" /\ run.stage = "objects" /\ run.todo = {}
    /\ run' = [run EXCEPT !.stage = "commit"]
    /\ mirror' = [mirror EXCEPT !.snapshots = @ \union {run.version}, !.pointer = run.version]
    /\ UNCHANGED <<versions, log, s3, local, faults>>

SyncSnapshot ==
    /\ run.cmd = "sync" /\ run.stage = "objects" /\ run.todo = {}
    /\ run' = [run EXCEPT !.stage = "commit"]
    /\ IF run.sink = "skip" THEN UNCHANGED <<mirror, faults>> ELSE WriteSnapshot
    /\ UNCHANGED <<versions, log, s3, local>>

\* The compare-and-swap on S3's /current.
SyncCommit ==
    /\ run.cmd = "sync" /\ run.stage = "commit"
    /\ IF run.base = Current
       THEN log' = Append(log, run.version) /\ run' = [run EXCEPT !.stage = "pointer"]
       ELSE Ends /\ UNCHANGED log
    /\ UNCHANGED <<versions, s3, local, mirror, faults>>

\* A policy edit, or gc, which drops every object no entry uses from the
\* table; both retry their compare-and-swap until it lands.
EditCommit ==
    /\ Idling
    /\ \E gc \in BOOLEAN :
         /\ gc => versions[Current].objects # versions[Current].refs
         /\ Mint(IF gc THEN [versions[Current] EXCEPT !.objects = versions[Current].refs]
                       ELSE versions[Current])
    /\ log' = Append(log, Len(versions'))
    /\ run' = [NoRun EXCEPT !.cmd = "edit", !.stage = "snapshot", !.base = Current,
                            !.version = Len(versions')]
    /\ UNCHANGED <<s3, local, mirror, faults>>

EditSnapshot ==
    /\ run.cmd = "edit" /\ run.stage = "snapshot"
    /\ WriteSnapshot
    /\ run' = [run EXCEPT !.stage = "pointer"]
    /\ UNCHANGED <<versions, log, s3, local>>

\* mirrorCurrentPointer: the manifest if it is missing, then the pointer;
\* either may fail, and is only logged.  The rows this commit handled become
\* clean, or gc goes on to delete what it dropped from S3 (but for content
\* listed again since: Vault is about that race).
MovePointer ==
    /\ run.cmd \in {"sync", "edit"} /\ run.stage = "pointer"
    /\ IF run.sink = "skip" THEN UNCHANGED <<mirror, faults>> ELSE
         \/ /\ mirror' = [mirror EXCEPT !.manifest = TRUE, !.pointer = run.version]
            /\ UNCHANGED faults
         \/ /\ Fault
            /\ \/ mirror' = [mirror EXCEPT !.manifest = TRUE]
               \/ mirror' = [mirror EXCEPT !.pointer = run.version]
               \/ UNCHANGED mirror
    /\ LET gone == versions[run.base].objects \ versions[Current].objects
           new  == versions[run.version].refs \ versions[run.base].refs
       IN /\ \E deleted \in SUBSET gone :
               s3' = [h \in Objects |-> IF h \in deleted THEN "absent" ELSE s3[h]]
          /\ local' = local \union new
    /\ Ends
    /\ UNCHANGED <<versions, log>>

-----------------------------------------------------------------------------
(***************************************************************************)
(* mirror catchup.                                                         *)
(***************************************************************************)

\* Mutant: a mirror whose pointer is S3's needs nothing.
CatchupStartIfBehind ==
    /\ Idling /\ mirror.pointer # Current
    /\ mirror' = [mirror EXCEPT !.manifest = TRUE, !.snapshots = @ \union {Current}]
    /\ run' = [NoRun EXCEPT !.cmd = "catchup", !.stage = "objects", !.version = Current,
                 !.todo = versions[Current].objects, !.download = TRUE, !.retrieve = TRUE]
    /\ UNCHANGED <<versions, log, s3, local, faults>>

\* /current and its snapshot come from S3; the manifest is this root's own.
\* A write that fails here ends the command.
CatchupStart ==
    /\ Idling
    /\ \E download, retrieve \in BOOLEAN :
       /\ retrieve => download
       /\ \/ /\ mirror' = [mirror EXCEPT !.manifest = TRUE, !.snapshots = @ \union {Current}]
             /\ run' = [NoRun EXCEPT !.cmd = "catchup", !.stage = "objects",
                          !.version = Current, !.todo = versions[Current].objects,
                          !.download = download, !.retrieve = retrieve]
             /\ UNCHANGED faults
          \/ /\ Fault /\ Ends
             /\ mirror' = [mirror EXCEPT !.manifest = TRUE]
    /\ UNCHANGED <<versions, log, s3, local>>

\* recoverFromLocalSources: some path of the snapshot has a clean row of h's
\* size, and its file proves to hold h's bytes.  One edited in place does not.
Recoverable(h) == h \in versions[run.version].refs /\ h \in local

Recover(h) == Recoverable(h) /\ Put(h)

NextObject == CHOOSE h \in run.todo : TRUE

After(step) == run' = [step EXCEPT !.todo = @ \ {NextObject}]

\* The next row of the snapshot's objects table: present, recovered from a
\* local file, downloaded, waiting for its archive, or lost.
CatchupObject ==
    LET h == NextObject IN
    /\ run.cmd = "catchup" /\ run.stage = "objects" /\ run.todo # {}
    /\ \/ Exists(h) /\ After(run) /\ UNCHANGED <<mirror, s3, faults>>
       \/ ~Exists(h) /\ Recover(h) /\ After(run) /\ UNCHANGED <<s3, faults>>
       \/ /\ ~Exists(h) /\ IF Recoverable(h) THEN Fault ELSE UNCHANGED faults
          /\ \/ /\ run.download /\ s3[h] \in {"readable", "restored"}
                /\ Put(h) /\ After(run) /\ UNCHANGED s3
             \/ /\ ~run.download \/ s3[h] = "absent"
                /\ After([run EXCEPT !.lost = TRUE]) /\ UNCHANGED <<mirror, s3>>
             \/ /\ run.download /\ s3[h] \in {"archived", "restoring"}
                /\ s3' = IF run.retrieve THEN [s3 EXCEPT ![h] = "restoring"] ELSE s3
                /\ After([run EXCEPT !.waiting = @ \union {h}]) /\ UNCHANGED mirror
    /\ UNCHANGED <<versions, log, local>>

\* Mutant: the pointer moves whatever was lost.
CatchupEndsAnyway ==
    /\ run.cmd = "catchup" /\ run.stage = "objects" /\ run.todo = {}
    /\ mirror' = [mirror EXCEPT !.pointer = run.version]
    /\ Ends
    /\ UNCHANGED <<versions, log, s3, local, faults>>

\* The pointer moves last, and only if every object had a usable source.
CatchupEnds ==
    /\ run.cmd = "catchup" /\ run.stage = "objects" /\ run.todo = {}
    /\ mirror' = IF run.lost THEN mirror ELSE [mirror EXCEPT !.pointer = run.version]
    /\ Ends
    /\ UNCHANGED <<versions, log, s3, local, faults>>

-----------------------------------------------------------------------------
(***************************************************************************)
(* mirror prune --apply, by the mirror's own version.                      *)
(***************************************************************************)

\* Mutant: extra is what the vault's current version does not list.
ExtraNow == mirror.held \ versions[Current].objects

\* findExtraMirrorObjects
Extra == mirror.held \ versions[mirror.pointer].objects

PruneStart ==
    /\ Idling /\ mirror.manifest /\ HasVersion /\ Extra # {}
    /\ run' = [NoRun EXCEPT !.cmd = "prune", !.stage = "objects", !.todo = Extra]
    /\ UNCHANGED <<versions, log, s3, local, mirror, faults>>

PruneObject ==
    /\ run.cmd = "prune"
    /\ \E h \in run.todo :
         /\ mirror' = [mirror EXCEPT !.held = @ \ {h}]
         /\ run' = IF run.todo = {h} THEN NoRun ELSE [run EXCEPT !.todo = @ \ {h}]
    /\ UNCHANGED <<versions, log, s3, local, faults>>

-----------------------------------------------------------------------------
(***************************************************************************)
(* Everything else.                                                        *)
(***************************************************************************)

\* Any command may be killed, or die of an error that it does not handle.
Killed == /\ ~Idling /\ Fault /\ Ends
          /\ UNCHANGED <<versions, log, s3, local, mirror>>

\* Another machine commits, from the version it last adopted.
OtherCommits ==
    LET base == versions[Current] IN
    /\ \/ \E h \in Objects \ base.refs :
            /\ Mint([objects |-> base.objects \union {h}, refs |-> base.refs \union {h}])
            /\ s3' = IF s3[h] = "absent" THEN [s3 EXCEPT ![h] = "readable"] ELSE s3
       \/ \E h \in base.refs :
            Mint([base EXCEPT !.refs = @ \ {h}]) /\ UNCHANGED s3
       \/ /\ base.objects # base.refs
          /\ Mint([base EXCEPT !.objects = base.refs])
          /\ s3' = [h \in Objects |-> IF h \in base.objects \ base.refs THEN "absent" ELSE s3[h]]
    /\ log' = Append(log, Len(versions'))
    /\ UNCHANGED <<local, mirror, run, faults>>

\* A file is pulled or materialized, or it is stubbed, deleted or edited.
LocalChanges ==
    /\ Idling
    /\ \E h \in versions[Current].refs :
         local' = IF h \in local THEN local \ {h} ELSE local \union {h}
    /\ UNCHANGED <<versions, log, s3, mirror, run, faults>>

Archive(h) ==
    /\ h \in Archivable /\ s3[h] = "readable"
    /\ s3' = [s3 EXCEPT ![h] = "archived"]
    /\ UNCHANGED <<versions, log, local, mirror, run, faults>>

RestoreEnds(h) ==
    /\ s3[h] = "restoring"
    /\ s3' = [s3 EXCEPT ![h] = "restored"]
    /\ UNCHANGED <<versions, log, local, mirror, run, faults>>

RestoreExpires(h) ==
    /\ s3[h] = "restored" /\ Fault
    /\ s3' = [s3 EXCEPT ![h] = "archived"]
    /\ UNCHANGED <<versions, log, local, mirror, run>>

\* The drive loses or truncates a file between two commands.
Rot(h) ==
    /\ Idling /\ Exists(h) /\ Fault
    /\ mirror' = [mirror EXCEPT !.held = @ \ {h}]
    /\ UNCHANGED <<versions, log, s3, local, run>>

Commits == \/ SyncStart \/ SyncSnapshot \/ SyncCommit \/ (\E h \in Objects : SyncStore(h))
           \/ EditCommit \/ EditSnapshot \/ MovePointer

Catchup == CatchupStart \/ CatchupObject \/ CatchupEnds

Prune == PruneStart \/ PruneObject

Next == \/ Commits \/ Catchup \/ Prune
        \/ Killed \/ OtherCommits \/ LocalChanges
        \/ \E h \in Objects : Archive(h) \/ RestoreEnds(h) \/ RestoreExpires(h) \/ Rot(h)

Spec == Init /\ [][Next]_vars

\* Commands get on, restores end, and the user goes on running catchup with
\* both its flags, as its output asks ("run this again once they are ready").
FullCatchup == CatchupStart /\ run'.download /\ run'.retrieve

Fairness == /\ WF_vars(Commits /\ ~Idling) /\ WF_vars(PruneObject)
            /\ WF_vars(CatchupObject \/ CatchupEnds)
            /\ SF_vars(FullCatchup)
            /\ \A h \in Objects : WF_vars(RestoreEnds(h))

FairSpec == Spec /\ Fairness

-----------------------------------------------------------------------------
(***************************************************************************)
(* What has to hold.                                                       *)
(***************************************************************************)

TypeOK ==
    /\ versions \in Seq(Version) /\ Len(versions) <= MaxVersions
    /\ log \in Seq(1..Len(versions))
    /\ s3 \in [Objects -> S3States] /\ local \subseteq Objects
    /\ mirror \in [pointer : 0..Len(versions), snapshots : SUBSET (1..Len(versions)),
                   manifest : BOOLEAN, held : SUBSET Objects]
    /\ run \in Run /\ faults \in 0..MaxFaults

\* "It can never name a version S3 has not committed" (mirroring.md:103):
\* though the snapshot is mirrored before the compare-and-swap, and a sync
\* that loses it leaves that snapshot behind.
PointerIsCommitted ==
    mirror.pointer # 0 => \E i \in 1..Len(log) : log[i] = mirror.pointer

\* "A clean sync means a complete mirror" (mirroring.md:68-70), for a mirror
\* that held what the sync built on: in fail mode, every object the pointer's
\* new version lists is there when it moves, whatever shortcut past the upload
\* its rows took.
SyncKeepsComplete ==
    [][/\ run.cmd = "sync" /\ run.sink = "fail" /\ mirror'.pointer # mirror.pointer
       /\ \A h \in versions[run.base].objects : Exists(h)
       => \A h \in versions[run.version].objects : Exists(h)']_vars

\* catchup's pointer is "the very last thing this command writes - and only
\* once every object below has been accounted for" (mirror.md): the drive then
\* has the manifest, the snapshot, and every object that is not waiting for
\* its archive.
CatchupIsHonest ==
    [][run.cmd = "catchup" /\ mirror'.pointer # mirror.pointer =>
         /\ mirror'.manifest /\ mirror'.pointer \in mirror'.snapshots
         /\ versions[mirror'.pointer].objects \ run.waiting \subseteq mirror'.held]_vars

\* A mirror that verifies as restorable stays so, through aborted syncs,
\* interrupted catchups, gc and prune, until the drive fails or a commit
\* moves the pointer.
RestorableStays ==
    [][VerifyPasses("presence") /\ mirror'.pointer = mirror.pointer
         => VerifyPasses("presence")' \/ \E h \in Objects : Rot(h)]_vars

Complete == VerifyPasses("presence") /\ mirror.pointer = Current

\* Whatever was missed, catchup makes up for: gaps, failed metadata writes,
\* other machines' commits, archived objects.
MirrorCatchesUp == <>[]Complete
=============================================================================
