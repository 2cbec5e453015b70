------------------------------ MODULE Bootstrap ------------------------------
(***************************************************************************)
(* How a root comes to have a vault: init_remote, attach_remote and, for   *)
(* every other command, fetch_remote, under the lock file of each root.    *)
(* Several roots and S3 locations; two commands of different roots meet in *)
(* S3, two of one root at its lock.  Commands fail at any call and are     *)
(* killed between any two, and what they leave in .sync1/ is what the next *)
(* one finds.                                                              *)
(*                                                                         *)
(* A command's first look at .sync1/ and its lock file, a few synchronous  *)
(* calls, are one step: docs/architecture/locking.md accepts the race of   *)
(* two commands started at the same moment.  A root is used from one host. *)
(* A version is its stamp; the stamp an init mints also stands for the     *)
(* salt and so the key of its manifest.                                    *)
(***************************************************************************)
EXTENDS Naturals, FiniteSets

CONSTANTS Roots, Locations,
          Pids,        \* Pids[r]: the process ids the commands of root r get
          Keen,        \* the roots whose user goes on attaching
          MaxStamps,   \* stamps minted in all (bounds the instance)
          MaxFaults    \* errors, wrong passwords, signals, kills, pids given away

ASSUME BootstrapAssumption ==
    /\ \A r \in Roots : Pids[r] \subseteq Nat \ {0}
    /\ Keen \subseteq Roots
    /\ MaxStamps \in Nat \ {0} /\ MaxFaults \in Nat

VARIABLES vault,   \* vault[l]: the keys under the prefix l in S3
          sealed,  \* sealed[v]: the state.db in states/<v>, and its key
          local,   \* local[r]: the files of r's .sync1/
          run,     \* run[r][p]: what process p does at root r
          stranger,  \* stranger[r]: the pid of r's an unrelated process has
          minted, faults

vars == <<vault, sealed, local, run, stranger, minted, faults>>

None == 0
Stamps == 1..MaxStamps

Stages == {"open", "pointer", "snapshot", "db", "putManifest", "putSnapshot",
           "putPointer", "last", "manifest", "remote"}

\* What a process has read so far: loc and key, a version and its table.
NoRun == [cmd |-> "none", stage |-> "open", loc |-> None, key |-> None,
          version |-> None, rows |-> {}]

NoVault == [manifest |-> None, states |-> {}, current |-> None]
Bare == [dir |-> FALSE, db |-> {}, manifest |-> None, last |-> None,
         remote |-> None, lock |-> None]

Init ==
    /\ vault = [l \in Locations |-> NoVault]
    /\ sealed = [v \in Stamps |-> [key |-> None, rows |-> {}]]
    /\ local = [r \in Roots |-> Bare]
    /\ run = [r \in Roots |-> [p \in Pids[r] |-> NoRun]]
    /\ stranger = [r \in Roots |-> None]
    /\ minted = 0 /\ faults = 0

-----------------------------------------------------------------------------
(***************************************************************************)
(* The lock file.                                                          *)
(***************************************************************************)

\* process.kill(pid, 0) of a process p that starts: itself, those running, and
\* whatever else goes by that pid.
IsProcessAlive(r, p, q) == q = p \/ run[r][q] # NoRun \/ q = stranger[r]

\* No lock, or one whose process is gone.
Acquirable(r, p) == local[r].lock # None => ~IsProcessAlive(r, p, local[r].lock)

\* Process p has nothing to do yet, and the pid to itself.
CanStart(r, p) == run[r][p] = NoRun /\ p # stranger[r]

\* release: only a lock that is still its own.
Released(r, p) == [local[r] EXCEPT !.lock = IF @ = p THEN None ELSE @]

\* A command returns or throws: finally, or the postAction hook.
Ends(r, p) == /\ local' = [local EXCEPT ![r] = Released(r, p)]
              /\ run' = [run EXCEPT ![r][p] = NoRun]

\* Mutant: it is .sync1/ itself that tells a root has been set up.
StartInNewRoot(r, p, cmd, l) ==
    /\ CanStart(r, p)
    /\ local[r].dir = (cmd = "fetch")
    /\ Acquirable(r, p)
    /\ local' = [local EXCEPT ![r].dir = TRUE, ![r].lock = p]
    /\ run' = [run EXCEPT ![r][p] = [NoRun EXCEPT !.cmd = cmd, !.loc = l]]
    /\ UNCHANGED <<vault, sealed, minted, faults, stranger>>

\* init and attach want no vault.json and make .sync1/, the others want .sync1/.
Start(r, p, cmd, l) ==
    /\ CanStart(r, p)
    /\ IF cmd = "fetch" THEN local[r].dir ELSE local[r].manifest = None
    /\ Acquirable(r, p)
    /\ local' = [local EXCEPT ![r].dir = TRUE, ![r].lock = p]
    /\ run' = [run EXCEPT ![r][p] = [NoRun EXCEPT !.cmd = cmd, !.loc = l]]
    /\ UNCHANGED <<vault, sealed, minted, faults, stranger>>

-----------------------------------------------------------------------------
(***************************************************************************)
(* S3, and the stages of a command.                                        *)
(***************************************************************************)

At(r, p, cmd, stage) == run[r][p].cmd = cmd /\ run[r][p].stage = stage

\* The same command at a later stage.
Goes(r, p, stage) == run' = [run EXCEPT ![r][p].stage = stage]

IsPrefixEmpty(l) == vault[l] = NoVault

\* init: the list, and once it is empty the manifest and the state.db, opened
\* where an earlier attempt may have left one, with a row for the new stamp.
CreateVault(r, p) ==
    /\ At(r, p, "init", "open")
    /\ \/ /\ ~IsPrefixEmpty(run[r][p].loc) \/ minted = MaxStamps  \* (the bound)
          /\ Ends(r, p)
          /\ UNCHANGED minted
       \/ /\ IsPrefixEmpty(run[r][p].loc) /\ minted < MaxStamps
          /\ minted' = minted + 1
          /\ LET rows == local[r].db \union {minted'} IN
             /\ local' = [local EXCEPT ![r].db = rows]
             /\ run' = [run EXCEPT ![r][p] = [@ EXCEPT !.stage = "putManifest",
                           !.key = minted', !.version = minted', !.rows = rows]]
    /\ UNCHANGED <<vault, sealed, faults, stranger>>

\* Mutant: the manifest is put whether or not there is one.
PutManifestAnyway(r, p) ==
    /\ At(r, p, "init", "putManifest")
    /\ vault' = [vault EXCEPT ![run[r][p].loc].manifest = run[r][p].key]
    /\ Goes(r, p, "putSnapshot")
    /\ UNCHANGED <<local, sealed, minted, faults, stranger>>

\* The three conditional PUTs (If-None-Match: *).
PutManifest(r, p) ==
    LET l == run[r][p].loc IN
    /\ At(r, p, "init", "putManifest")
    /\ \/ /\ vault[l].manifest = None
          /\ vault' = [vault EXCEPT ![l].manifest = run[r][p].key]
          /\ Goes(r, p, "putSnapshot") /\ UNCHANGED local
       \/ vault[l].manifest # None /\ Ends(r, p) /\ UNCHANGED vault
    /\ UNCHANGED <<sealed, minted, faults, stranger>>

PutSnapshot(r, p) ==
    LET me == run[r][p] IN
    /\ At(r, p, "init", "putSnapshot")
    /\ vault' = [vault EXCEPT ![me.loc].states = @ \union {me.version}]
    /\ sealed' = [sealed EXCEPT ![me.version] = [key |-> me.key, rows |-> me.rows]]
    /\ Goes(r, p, "putPointer")
    /\ UNCHANGED <<local, minted, faults, stranger>>

PutPointer(r, p) ==
    LET l == run[r][p].loc IN
    /\ At(r, p, "init", "putPointer")
    /\ IF vault[l].current = None
       THEN /\ vault' = [vault EXCEPT ![l].current = run[r][p].version]
            /\ Goes(r, p, "last") /\ UNCHANGED local
       ELSE Ends(r, p) /\ UNCHANGED vault
    /\ UNCHANGED <<sealed, minted, faults, stranger>>

-----------------------------------------------------------------------------
\* attach: vault.json, and the password it verifies.
GetManifest(r, p) ==
    LET key == vault[run[r][p].loc].manifest IN
    /\ At(r, p, "attach", "open")
    /\ IF key = None THEN Ends(r, p)
       ELSE /\ run' = [run EXCEPT ![r][p] = [@ EXCEPT !.stage = "pointer", !.key = key]]
            /\ UNCHANGED local
    /\ UNCHANGED <<vault, sealed, minted, faults, stranger>>

\* fetch: remote.json and the root's copy of vault.json.
ReadConfig(r, p) ==
    /\ At(r, p, "fetch", "open")
    /\ IF None \in {local[r].remote, local[r].manifest} THEN Ends(r, p)
       ELSE /\ run' = [run EXCEPT ![r][p] = [@ EXCEPT !.stage = "pointer",
                          !.loc = local[r].remote, !.key = local[r].manifest]]
            /\ UNCHANGED local
    /\ UNCHANGED <<vault, sealed, minted, faults, stranger>>

GetPointer(r, p) ==
    LET current == vault[run[r][p].loc].current IN
    /\ run[r][p].cmd \in {"attach", "fetch"} /\ run[r][p].stage = "pointer"
    /\ IF current = None THEN Ends(r, p)
       ELSE /\ run' = [run EXCEPT ![r][p] = [@ EXCEPT !.stage = "snapshot", !.version = current]]
            /\ UNCHANGED local
    /\ UNCHANGED <<vault, sealed, minted, faults, stranger>>

\* Missing, or not sealed with the key: a CorruptionError.
GetSnapshot(r, p) ==
    LET me == run[r][p] IN
    /\ me.cmd \in {"attach", "fetch"} /\ me.stage = "snapshot"
    /\ IF me.version \in vault[me.loc].states /\ sealed[me.version].key = me.key
       THEN /\ run' = [run EXCEPT ![r][p] = [@ EXCEPT !.stage = "db",
                          !.rows = sealed[me.version].rows]]
            /\ UNCHANGED local
       ELSE Ends(r, p)
    /\ UNCHANGED <<vault, sealed, minted, faults, stranger>>

-----------------------------------------------------------------------------
(***************************************************************************)
(* The files of .sync1/, each written by itself.                           *)
(***************************************************************************)

\* Mutant: attach leaves a state.db it finds alone.
WriteDbIfNone(r, p) ==
    LET me == run[r][p] IN
    /\ me.stage = "db"
    /\ IF me.cmd = "fetch"
       THEN /\ local' = [local EXCEPT ![r] = [Released(r, p) EXCEPT !.db = me.rows]]
            /\ run' = [run EXCEPT ![r][p] = NoRun]
       ELSE /\ local' = IF local[r].db = {} THEN [local EXCEPT ![r].db = me.rows] ELSE local
            /\ Goes(r, p, "manifest")
    /\ UNCHANGED <<vault, sealed, minted, faults, stranger>>

\* writeFileAtomic(state.db): fetch changes nothing else.
WriteDb(r, p) ==
    LET me == run[r][p] IN
    /\ me.stage = "db"
    /\ IF me.cmd = "fetch"
       THEN /\ local' = [local EXCEPT ![r] = [Released(r, p) EXCEPT !.db = me.rows]]
            /\ run' = [run EXCEPT ![r][p] = NoRun]
       ELSE /\ local' = [local EXCEPT ![r].db = me.rows]
            /\ Goes(r, p, "manifest")
    /\ UNCHANGED <<vault, sealed, minted, faults, stranger>>

WriteManifest(r, p) ==
    /\ run[r][p].stage = "manifest"
    /\ local' = [local EXCEPT ![r].manifest = run[r][p].key]
    /\ Goes(r, p, IF run[r][p].cmd = "init" THEN "remote" ELSE "last")
    /\ UNCHANGED <<vault, sealed, minted, faults, stranger>>

WriteLast(r, p) ==
    /\ run[r][p].stage = "last"
    /\ local' = [local EXCEPT ![r].last = run[r][p].version]
    /\ Goes(r, p, IF run[r][p].cmd = "init" THEN "manifest" ELSE "remote")
    /\ UNCHANGED <<vault, sealed, minted, faults, stranger>>

WriteRemote(r, p) ==
    /\ run[r][p].stage = "remote"
    /\ local' = [local EXCEPT ![r] = [Released(r, p) EXCEPT !.remote = run[r][p].loc]]
    /\ run' = [run EXCEPT ![r][p] = NoRun]
    /\ UNCHANGED <<vault, sealed, minted, faults, stranger>>

-----------------------------------------------------------------------------
(***************************************************************************)
(* What goes wrong, and the other machines.                                *)
(***************************************************************************)

Fault == faults < MaxFaults /\ faults' = faults + 1

\* A call of the command throws: S3, the password, a full disk.
Throws(r, p) ==
    /\ run[r][p] # NoRun /\ Fault
    /\ Ends(r, p)
    /\ UNCHANGED <<vault, sealed, minted, stranger>>

\* The process is gone with its lock file left behind.
Kill(r, p) ==
    /\ run[r][p] # NoRun /\ Fault
    /\ run' = [run EXCEPT ![r][p] = NoRun]
    /\ UNCHANGED <<vault, sealed, local, minted, stranger>>

\* Ctrl+C, at an await: the lock goes without a look at whose it is.  The
\* configuration files are written without one.
Signal(r, p) ==
    /\ run[r][p] # NoRun /\ run[r][p].stage \notin {"last", "manifest", "remote"}
    /\ Fault
    /\ local' = [local EXCEPT ![r].lock = None]
    /\ run' = [run EXCEPT ![r][p] = NoRun]
    /\ UNCHANGED <<vault, sealed, minted, stranger>>

\* A pid, perhaps that of a lock left behind, goes to another program.
StrangerComes(r) ==
    /\ stranger[r] = None /\ Fault
    /\ \E p \in Pids[r] : run[r][p] = NoRun /\ stranger' = [stranger EXCEPT ![r] = p]
    /\ UNCHANGED <<vault, sealed, local, run, minted>>

StrangerGoes(r) ==
    /\ stranger[r] # None
    /\ stranger' = [stranger EXCEPT ![r] = None]
    /\ UNCHANGED <<vault, sealed, local, run, minted, faults>>

\* A machine attached elsewhere commits a version (module Vault).
OtherCommits(l) ==
    LET v == minted + 1 IN
    /\ vault[l].current # None /\ minted < MaxStamps
    /\ minted' = v
    /\ vault' = [vault EXCEPT ![l].states = @ \union {v}, ![l].current = v]
    /\ sealed' = [sealed EXCEPT ![v] = [key |-> vault[l].manifest,
                                        rows |-> sealed[vault[l].current].rows \union {v}]]
    /\ UNCHANGED <<local, run, faults, stranger>>

\* What a running command does next of itself.
Step(r, p) ==
    \/ CreateVault(r, p) \/ PutManifest(r, p) \/ PutSnapshot(r, p) \/ PutPointer(r, p)
    \/ GetManifest(r, p) \/ ReadConfig(r, p) \/ GetPointer(r, p) \/ GetSnapshot(r, p)
    \/ WriteDb(r, p) \/ WriteManifest(r, p) \/ WriteLast(r, p) \/ WriteRemote(r, p)

Next ==
    \/ \E r \in Roots : \E p \in Pids[r] :
         \/ \E cmd \in {"init", "attach"}, l \in Locations : Start(r, p, cmd, l)
         \/ Start(r, p, "fetch", None)
         \/ Step(r, p)
         \/ Throws(r, p) \/ Kill(r, p) \/ Signal(r, p)
    \/ \E r \in Roots : StrangerComes(r) \/ StrangerGoes(r)
    \/ \E l \in Locations : OtherCommits(l)

Spec == Init /\ [][Next]_vars

\* A running command goes on; a keen user repeats an attach, as one process or
\* another, as often as it takes; the program that got its pid ends some time.
FairSpec ==
    /\ Spec
    /\ \A r \in Keen : WF_vars(StrangerGoes(r)) /\ \A p \in Pids[r] :
         /\ WF_vars(Step(r, p))
         /\ \A l \in Locations : SF_vars(Start(r, p, "attach", l))

-----------------------------------------------------------------------------
(***************************************************************************)
(* Properties.                                                             *)
(***************************************************************************)

\* Where there is a /current, its snapshot is there and opens with the key of
\* the manifest that is there: two inits of one location never mix, and none is
\* seen half done (the conditional PUTs and their order in runInitRemote).
CurrentIsReadable ==
    \A l \in Locations : LET at == vault[l] IN
        at.current # None => /\ at.manifest # None /\ at.current \in at.states
                             /\ sealed[at.current].key = at.manifest

\* A root with a remote.json is all of one vault: its manifest is that
\* location's, its state.db one of that location's versions that knows
\* last_synced_version, whatever earlier attempts left in .sync1/.
RootIsOfOneVault ==
    \A r \in Roots : local[r].remote # None =>
        LET at == vault[local[r].remote] IN
        /\ local[r].manifest = at.manifest
        /\ local[r].last \in at.states \intersect local[r].db
        /\ \E v \in at.states : sealed[v] = [key |-> at.manifest, rows |-> local[r].db]

\* Where there is a vault, a user who goes on attaching a root has it attached
\* in the end: no attempt that failed "ever permanently blocks a retry against
\* the same root" (attach_remote.ts:90-94).  The code does not keep this.
RetrySucceeds ==
    \A r \in Keen :
        (\E l \in Locations : vault[l].current # None) ~> local[r].remote # None

\* The root that every retry is refused at, though it is not attached: its
\* last attempt ended after its vault.json and before its remote.json.
HalfAttached(r) ==
    /\ local[r].manifest # None /\ local[r].remote = None
    /\ \A p \in Pids[r] : run[r][p].cmd \notin {"init", "attach"}

\* What is left of RetrySucceeds: half attached is the one state a root can be
\* kept in for ever.  No lock left behind, under whatever pid, and no other
\* half-made .sync1/ outlasts a user who goes on attaching (the looks at
\* vault.json and at the lock's process, and the order of the writes).
LeftoversDoNotBlock ==
    \A r \in Keen :
        (\E l \in Locations : vault[l].current # None) ~>
            (local[r].remote # None \/ HalfAttached(r))
=============================================================================
