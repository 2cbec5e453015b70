------------------------------ MODULE Thumbnails ------------------------------
(***************************************************************************)
(* sync1 thumbnail ensure and cleanup (scanThumbnails) over the sources of *)
(* one tree, while the user edits and removes those sources, and between   *)
(* the other commands: the lock lets one command run at a time, the user   *)
(* needs no lock.  A run can be killed between any two steps.              *)
(*                                                                         *)
(* The main walk hands each source to a job; a job probes its file, reads  *)
(* its cache row, lists the previews the source has (forEachThumbnailFor-  *)
(* Original, one directory entry per step, in any order) and generates or  *)
(* deletes as it goes; when all jobs are done a sweep looks at every       *)
(* preview left.  Removing a file and the checks just before it, and the   *)
(* rename that publishes a preview, happen in one tick: one step each.     *)
(*                                                                         *)
(* Not modelled: mode state (it only counts), the estimate walk, previews  *)
(* that are themselves stubs (their names do not parse), temp files, and   *)
(* the pixels: a preview records the recipe it was made with.              *)
(***************************************************************************)
EXTENDS ThumbnailPolicies

CONSTANTS Sources,     \* paths that may hold an original
          Contents,    \* content hashes
          Found,       \* those the originals may have at first
          MimeOf,      \* what probing finds in each: <<type, subtype>>, or Null
          TooLong,     \* TooLong[s]: the policy names that make the name of a
                       \* preview of s too long (they stand for whole segments)
          Defaults,    \* ENCODING_DEFAULTS
          Created,     \* the creates behind the policies there are at first
          MaxMoves,    \* steps of the user and of commands that move files
          MaxEdits,    \* policy commands
          MaxUpsets    \* kills, media tools that fail and narrow --glob runs

ASSUME ThumbnailsAssumption == /\ DOMAIN MimeOf = Contents /\ Found \subseteq Contents
                               /\ DOMAIN TooLong = Sources
                               /\ MaxMoves \in Nat /\ MaxEdits \in Nat /\ MaxUpsets \in Nat

\* The rows there are at first passed create like any other, names UNIQUE.
ASSUME CreatedAssumption ==
    /\ Created \subseteq Creates
    /\ \A flags \in Created : CreateFlagsAccepted(flags) /\ Valid(Built(flags, Defaults))
    /\ \A f, g \in Created : f.name = g.name => f = g

VARIABLES files,    \* files[s]: what is at s, a real file or a stub
          rows,     \* cache.db: the hash of s's row, Null without one
          thumbs,   \* the previews on disk, as their names tell them apart
          run,      \* the thumbnail command that runs
          jobs,     \* where that run is with each source
          touched,  \* sources the user changed under the run (observation only)
          moves, edits, upsets

vars == <<policies, files, rows, thumbs, run, jobs, touched, moves, edits, upsets>>

\* A file name <original>.<segment>.<hash>.<ext>; the extension follows from
\* the segment's output mime.  made is what the generator was given.
Thumb(s, p, hash) == [src |-> s, name |-> p.name, seg |-> Segment(p), hash |-> hash,
                      made |-> Recipe(p)]

ThumbsOf(s) == {t \in thumbs : t.src = s}

NoFile == [form |-> "none", hash |-> Null]
File(form, hash) == [form |-> form, hash |-> hash]

NoRun == [mode |-> "none", stage |-> "idle", scope |-> {}, discard |-> FALSE, todo |-> {}]
Idling == run = NoRun

\* pc: what the job does next; todo: previews listed and not yet looked at;
\* pending: policies still to generate for; drop: the preview just replaced.
NoJob == [pc |-> "waiting", todo |-> {}, exact |-> {}, stale |-> {}, kept |-> FALSE,
          pending |-> {}, drop |-> {}]
Job(pc, todo) == [NoJob EXCEPT !.pc = pc, !.todo = todo]

Init ==
    /\ policies = {Built(flags, Defaults) : flags \in Created}
    /\ files \in [Sources -> {File("real", h) : h \in Found}]
    /\ rows = [s \in Sources |-> Null]
    /\ thumbs = {}
    /\ run = NoRun
    /\ jobs = [s \in Sources |-> NoJob]
    /\ touched = {}
    /\ moves = 0 /\ edits = 0 /\ upsets = 0

(* Matching **************************************************************)

\* mimeTypeMatches
MimeMatches(pattern, mime) ==
    pattern = mime \/ (pattern[2] = "*" /\ pattern[1] = mime[1])

Globbed(s) == {p \in policies : s \in p.glob}

\* matchingGenerateGlobs, hasMatchingSkipGlob
GenerateGlobbed(s) == {p \in Globbed(s) : p.action = "generate"}
Skipped(s) == \E p \in Globbed(s) : p.action = "skip"

\* resolvePolicies, for what probing found
Resolved(s, mime) ==
    {p \in GenerateGlobbed(s) : \E pattern \in p.mimeTypes : MimeMatches(pattern, mime)}

\* expectedThumbnailExists
Exists(s, p, hash) == \E t \in ThumbsOf(s) : t.seg = Segment(p) /\ t.hash = hash

\* Mutant: one preview is enough.
ShouldProcessIfNone(s, mode, hash) ==
    /\ Globbed(s) # {}
    /\ (mode = "ensure" /\ hash # Null) => \A p \in GenerateGlobbed(s) : ~ Exists(s, p, hash)

\* shouldProcessSource: ensure leaves a source alone only when every policy
\* whose glob matches, whatever its mime types, has its preview.
ShouldProcess(s, mode, hash) ==
    /\ Globbed(s) # {}
    /\ (mode = "ensure" /\ hash # Null) => \E p \in GenerateGlobbed(s) : ~ Exists(s, p, hash)

\* removeIfCleanup
Removed(dropped) == IF run.mode = "cleanup" THEN thumbs \ dropped ELSE thumbs

(* A run *****************************************************************)

\* runThumbnailMode.  scope: the sources --glob matches and no ignore policy
\* does; without --glob, all of them.
Start(mode, scope, discard) ==
    /\ Idling
    /\ discard => mode = "cleanup"
    /\ \/ scope = Sources /\ ~ discard /\ UNCHANGED upsets
       \/ ~ (scope = Sources /\ ~ discard) /\ upsets < MaxUpsets /\ upsets' = upsets + 1
    /\ run' = [mode |-> mode, stage |-> "walk", scope |-> scope, discard |-> discard, todo |-> {}]
    /\ jobs' = [s \in Sources |-> NoJob]
    /\ touched' = {}
    /\ UNCHANGED <<policies, files, rows, thumbs, moves, edits>>

\* processStubSource, up to its second listing.  A stub without a row, or
\* without a preview, is only counted.  (No command can change the row of s
\* under the run, so rows[s] is the hash whenever it is read.)
StubJob(s) ==
    IF rows[s] = Null THEN Job("done", {})
    ELSE IF \E t \in ThumbsOf(s) : t.hash = rows[s] THEN Job("keepOne", ThumbsOf(s))
    ELSE Job("staleStub", ThumbsOf(s))

\* The main walk reaches s, in the form its directory was read with.  A skip
\* policy is resolved from the glob alone; a real file is probed in the pool.
Reach(s) ==
    /\ run.stage = "walk" /\ jobs[s].pc = "waiting"
    /\ jobs' = [jobs EXCEPT ![s] =
           IF files[s].form = "none" \/ s \notin run.scope THEN Job("done", {})
           ELSE IF Skipped(s)
               THEN IF files[s].form = "stub" THEN StubJob(s) ELSE Job("discard", ThumbsOf(s))
           ELSE IF ~ ShouldProcess(s, run.mode, rows[s]) THEN Job("done", {})
           ELSE IF files[s].form = "stub" THEN StubJob(s)
           ELSE Job("probe", {})]
    /\ UNCHANGED <<policies, files, rows, thumbs, run, touched, moves, edits, upsets>>

\* classifyProbed and the early returns of reconcileProbedSource.  A file
\* that is gone by now is as unreadable as a broken one.
Probe(s) ==
    LET mime == IF files[s].form = "real" THEN MimeOf[files[s].hash] ELSE Null IN
    /\ jobs[s].pc = "probe"
    /\ jobs' = [jobs EXCEPT ![s] =
           IF mime = Null THEN Job("done", {})
           ELSE IF Resolved(s, mime) = {} THEN Job("discard", ThumbsOf(s))
           ELSE IF rows[s] = Null THEN Job("done", {})
           ELSE [Job("reconcile", ThumbsOf(s)) EXCEPT !.pending = Resolved(s, mime)]]
    /\ UNCHANGED <<policies, files, rows, thumbs, run, touched, moves, edits, upsets>>

\* Mutant: the preview that is kept may be an outdated one.
VisitKeepsFirst(s, t) ==
    LET job == jobs[s]
        keep == job.pc = "keepOne" /\ ~ job.kept
        dropped == IF keep \/ (job.pc = "staleStub" /\ ~ run.discard) THEN {} ELSE {t} IN
    /\ job.pc \in {"discard", "keepOne", "staleStub"} /\ t \in job.todo
    /\ thumbs' = Removed(dropped)
    /\ jobs' = [jobs EXCEPT ![s].todo = @ \ {t}, ![s].kept = @ \/ keep]
    /\ UNCHANGED <<policies, files, rows, run, touched, moves, edits, upsets>>

\* discardThumbnailsFor, and the second listing of processStubSource: one
\* preview of the stub's content is kept, which one is the directory's order.
Visit(s, t) ==
    LET job == jobs[s]
        keep == job.pc = "keepOne" /\ ~ job.kept /\ t.hash = rows[s]
        dropped == IF keep \/ (job.pc = "staleStub" /\ ~ run.discard) THEN {} ELSE {t} IN
    /\ job.pc \in {"discard", "keepOne", "staleStub"} /\ t \in job.todo
    /\ thumbs' = Removed(dropped)
    /\ jobs' = [jobs EXCEPT ![s].todo = @ \ {t}, ![s].kept = @ \/ keep]
    /\ UNCHANGED <<policies, files, rows, run, touched, moves, edits, upsets>>

\* The listing of reconcileProbedSource.  A preview belongs to the resolved
\* policy it names; each policy claims the one it expects, or else the first
\* outdated one, and everything unclaimed is dropped.
Claim(s, t) ==
    LET job == jobs[s]
        owners == {p \in job.pending : p.name = t.name}
        exact == t.hash = rows[s] /\ \E p \in owners : t.seg = Segment(p)
        claimed == t.name \in job.exact
        held == {u \in job.stale : u.name = t.name} IN
    /\ job.pc = "reconcile" /\ t \in job.todo
    /\ \/ /\ owners # {} /\ exact
          /\ thumbs' = Removed(held)
          /\ jobs' = [jobs EXCEPT ![s].todo = @ \ {t}, ![s].exact = @ \cup {t.name},
                                 ![s].stale = @ \ held]
       \/ /\ owners # {} /\ ~ exact /\ ~ claimed /\ held = {}
          /\ jobs' = [jobs EXCEPT ![s].todo = @ \ {t}, ![s].stale = @ \cup {t}]
          /\ UNCHANGED thumbs
       \/ /\ owners = {} \/ (~ exact /\ (claimed \/ held # {}))
          /\ thumbs' = Removed({t})
          /\ jobs' = [jobs EXCEPT ![s].todo = @ \ {t}]
    /\ UNCHANGED <<policies, files, rows, run, touched, moves, edits, upsets>>

\* The policies the listing found no up-to-date preview for.
Unserved(s) == {p \in jobs[s].pending : p.name \notin jobs[s].exact}

\* The listing is over: what has its preview needs none.
Listed(s) ==
    /\ jobs[s].pc \in {"discard", "keepOne", "staleStub", "reconcile"} /\ jobs[s].todo = {}
    /\ jobs' = [jobs EXCEPT ![s] =
           IF jobs[s].pc = "reconcile" /\ run.mode = "ensure"
               THEN [jobs[s] EXCEPT !.pc = "generate", !.pending = Unserved(s)]
               ELSE Job("done", {})]
    /\ UNCHANGED <<policies, files, rows, thumbs, run, touched, moves, edits, upsets>>

\* generateForDecision succeeds for p: the preview is renamed into place.
\* It is drawn from whatever the file holds now, and named after the row.
Publish(s, p) ==
    LET stale == {t \in jobs[s].stale : t.name = p.name} IN
    /\ jobs[s].pc = "generate" /\ p \in jobs[s].pending /\ jobs[s].drop = {}
    /\ files[s].form = "real" /\ p.name \notin TooLong[s]
    /\ thumbs' = thumbs \cup {Thumb(s, p, rows[s])}
    /\ jobs' = [jobs EXCEPT ![s].pending = @ \ {p}, ![s].drop = stale]
    /\ UNCHANGED <<policies, files, rows, run, touched, moves, edits, upsets>>

\* Only then does the preview it replaces go (a kill can come in between).
DropStale(s) ==
    /\ jobs[s].drop # {}
    /\ thumbs' = thumbs \ jobs[s].drop
    /\ jobs' = [jobs EXCEPT ![s].drop = {}]
    /\ UNCHANGED <<policies, files, rows, run, touched, moves, edits, upsets>>

\* A ThumbnailGenerationError: counted, and the next policy is tried.  A
\* source that is gone cannot but fail; so must a name that is too long, in
\* this run and in every later one.
GenerationFails(s, p) ==
    /\ jobs[s].pc = "generate" /\ p \in jobs[s].pending /\ jobs[s].drop = {}
    /\ \/ (files[s].form # "real" \/ p.name \in TooLong[s]) /\ UNCHANGED upsets
       \/ files[s].form = "real" /\ upsets < MaxUpsets /\ upsets' = upsets + 1
    /\ jobs' = [jobs EXCEPT ![s].pending = @ \ {p}]
    /\ UNCHANGED <<policies, files, rows, thumbs, run, touched, moves, edits>>

JobEnds(s) ==
    /\ jobs[s].pc = "generate" /\ jobs[s].pending = {} /\ jobs[s].drop = {}
    /\ jobs' = [jobs EXCEPT ![s] = Job("done", {})]
    /\ UNCHANGED <<policies, files, rows, thumbs, run, touched, moves, edits, upsets>>

\* pool.onIdle, then sweepUnprocessedThumbnails walks the previews.
StartSweep ==
    /\ run.stage = "walk" /\ \A s \in Sources : jobs[s].pc = "done"
    /\ run' = [run EXCEPT !.stage = "sweep", !.todo = thumbs]
    /\ UNCHANGED <<policies, files, rows, thumbs, jobs, touched, moves, edits, upsets>>

\* Mutant: a preview that names no matching policy is an orphan.
OrphanByName(t) == \/ files[t.src].form = "none"
                   \/ t.src \notin run.scope
                   \/ \A p \in Globbed(t.src) : p.name # t.name

\* isSweepOrphan: its original is gone, or was not this run's business.
Orphan(t) == \/ files[t.src].form = "none"
             \/ t.src \notin run.scope
             \/ Globbed(t.src) = {}

Sweep(t) ==
    /\ run.stage = "sweep" /\ t \in run.todo
    /\ thumbs' = IF Orphan(t) THEN Removed({t}) ELSE thumbs
    /\ run' = [run EXCEPT !.todo = @ \ {t}]
    /\ UNCHANGED <<policies, files, rows, jobs, touched, moves, edits, upsets>>

Finish ==
    /\ run.stage = "sweep" /\ run.todo = {}
    /\ run' = NoRun
    /\ jobs' = [s \in Sources |-> NoJob]
    /\ touched' = {}
    /\ UNCHANGED <<policies, files, rows, thumbs, moves, edits, upsets>>

\* The process dies, or a media tool is missing (MediaToolMissingError).
Kill ==
    /\ ~ Idling /\ upsets < MaxUpsets
    /\ upsets' = upsets + 1
    /\ run' = NoRun
    /\ jobs' = [s \in Sources |-> NoJob]
    /\ touched' = {}
    /\ UNCHANGED <<policies, files, rows, thumbs, moves, edits>>

(* Everything else *******************************************************)

Moving == moves < MaxMoves /\ moves' = moves + 1

\* The user writes, or removes, the original at any time.
Write(s, h) ==
    /\ Moving
    /\ files[s] # File("real", h)
    /\ files' = [files EXCEPT ![s] = File("real", h)]
    /\ touched' = IF Idling THEN {} ELSE touched \cup {s}
    /\ UNCHANGED <<policies, rows, thumbs, run, jobs, edits, upsets>>

Remove(s) ==
    /\ Moving
    /\ files[s].form # "none"
    /\ files' = [files EXCEPT ![s] = NoFile]
    /\ touched' = IF Idling THEN {} ELSE touched \cup {s}
    /\ UNCHANGED <<policies, rows, thumbs, run, jobs, edits, upsets>>

\* update_cache gives every file the hash it has, or its stub says.
Scanned == [s \in Sources |-> files[s].hash]

Scan ==
    /\ Idling /\ rows # Scanned
    /\ rows' = Scanned
    /\ UNCHANGED <<policies, files, thumbs, run, jobs, touched, moves, edits, upsets>>

\* stubify and materialize (StubCommands).
Stubify(s) ==
    /\ Idling /\ Moving
    /\ files[s].form = "real" /\ rows[s] = files[s].hash
    /\ files' = [files EXCEPT ![s] = File("stub", rows[s])]
    /\ UNCHANGED <<policies, rows, thumbs, run, jobs, touched, edits, upsets>>

Materialize(s) ==
    /\ Idling /\ Moving
    /\ files[s].form = "stub"
    /\ files' = [files EXCEPT ![s].form = "real"]
    /\ UNCHANGED <<policies, rows, thumbs, run, jobs, touched, edits, upsets>>

\* A thumbnail_policy command of this machine, or a sync that brings one.
EditPolicies ==
    /\ Idling /\ edits < MaxEdits
    /\ edits' = edits + 1
    /\ \/ \E flags \in Creates : RunCreate(flags, Defaults)
       \/ \E old \in policies, flags \in Edits : RunEdit(old, flags)
       \/ \E old \in policies : RunDelete(old)
    /\ policies' # policies
    /\ UNCHANGED <<files, rows, thumbs, run, jobs, touched, moves, upsets>>

RunSteps ==
    \/ \E s \in Sources : \/ Reach(s) \/ Probe(s) \/ Listed(s) \/ DropStale(s) \/ JobEnds(s)
                          \/ \E t \in thumbs : Visit(s, t) \/ Claim(s, t)
                          \/ \E p \in jobs[s].pending : Publish(s, p) \/ GenerationFails(s, p)
    \/ StartSweep
    \/ \E t \in run.todo : Sweep(t)
    \/ Finish

UserSteps == \E s \in Sources : \/ Remove(s) \/ Stubify(s) \/ Materialize(s)
                                \/ \E h \in Contents : Write(s, h)

Starts == \E mode \in {"ensure", "cleanup"}, scope \in SUBSET Sources, discard \in BOOLEAN :
              Start(mode, scope, discard)

Next == RunSteps \/ UserSteps \/ Starts \/ Scan \/ EditPolicies \/ Kill

Spec == Init /\ [][Next]_vars

\* A run goes on until it ends.  The user keeps scanning, ensuring and
\* cleaning up the whole tree, and nothing else is fair.
FairSpec == /\ Spec
            /\ WF_vars(RunSteps)
            /\ SF_vars(Scan)
            /\ SF_vars(Start("ensure", Sources, FALSE))
            /\ SF_vars(Start("cleanup", Sources, FALSE))

(* Properties ************************************************************)

Files == {NoFile} \cup [form : {"real", "stub"}, hash : Contents]

TypeOK == /\ files \in [Sources -> Files]
          /\ rows \in [Sources -> Contents \cup {Null}]
          /\ \A t \in thumbs : t.src \in Sources /\ t.hash \in Contents
          /\ run.scope \subseteq Sources /\ run.todo \subseteq thumbs
          /\ \A s \in Sources : jobs[s].todo \cup jobs[s].drop \subseteq ThumbsOf(s)
          /\ moves \in 0..MaxMoves /\ edits \in 0..MaxEdits /\ upsets \in 0..MaxUpsets

\* "Up to date" is a comparison of file names alone, so the name must tell
\* everything the generator was given: no preview that a policy takes for
\* its own was made by another recipe, however the policy got its values.
NameTellsRecipe ==
    \A t \in thumbs, p \in policies :
        (p.action = "generate" /\ t.seg = Segment(p)) => t.made = Recipe(p)

\* The previews the policies ask for, for the source as it is.
Expected(s) ==
    IF files[s].form # "real" \/ rows[s] = Null \/ Skipped(s) \/ MimeOf[files[s].hash] = Null
        THEN {}
        ELSE {Thumb(s, p, rows[s]) : p \in Resolved(s, MimeOf[files[s].hash])}

\* Of a source in its scope no run deletes a preview that ensure would make
\* again, nor, if the source cannot be read any more, any preview at all: it
\* may be the last copy of the picture (unless the user changed the source
\* under the run).  Out of its scope a cleanup deletes wanted previews too,
\* as docs/cli/thumbnail.md:47 says of a narrow --glob.
SparesWhatIsWanted ==
    [][\A t \in thumbs \ thumbs' :
          t.src \in run.scope \ touched =>
              /\ t \notin Expected(t.src)
              /\ ~ (/\ files[t.src].form = "real" /\ MimeOf[files[t.src].hash] = Null
                    /\ Globbed(t.src) # {} /\ ~ Skipped(t.src))]_vars

\* A stub cannot be drawn from: as long as a policy's glob, generate or
\* skip, covers it, a run leaves it a preview of its content if it had one.
StubKeepsAPreview ==
    [][\A s \in run.scope \ touched :
          (/\ files[s].form = "stub" /\ Globbed(s) # {}
           /\ \E t \in ThumbsOf(s) : t.hash = rows[s])
             => \E t \in thumbs' : t.src = s /\ t.hash = rows[s]]_vars

\* Once nothing else changes, scanning, ensuring and cleaning up settle: a
\* source that can be read has the previews its policies ask for, save those
\* whose name would be too long, no others, and the two commands stop undoing
\* each other.
Settled(s) ==
    \/ files[s].form = "stub"
    \/ files[s].form = "real" /\ MimeOf[files[s].hash] = Null
    \/ ThumbsOf(s) = {t \in Expected(s) : t.name \notin TooLong[s]}

PreviewsSettle == <>[](\A s \in Sources : Settled(s))
=============================================================================
