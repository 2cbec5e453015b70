--------------------------- MODULE Bootstrap_proofs ---------------------------
(***************************************************************************)
(* Proofs of what Bootstrap promises, for any roots and processes, any     *)
(* locations and any number of stamps and faults.                          *)
(*                                                                         *)
(* The inductive invariant follows a command through its stages: what it   *)
(* has read or written so far is of one vault.  It holds because a root    *)
(* runs one command at a time (the lock), because what a location holds is *)
(* only ever added to, and because an init that has put its manifest is    *)
(* the only one of its location.                                           *)
(***************************************************************************)
EXTENDS Bootstrap, TLAPS

USE BootstrapAssumption

(***************************************************************************)
(* The inductive invariant.                                                *)
(***************************************************************************)

Vault == [manifest : 0..MaxStamps, states : SUBSET Stamps, current : 0..MaxStamps]
Sealed == [key : 0..MaxStamps, rows : SUBSET Stamps]
Files == [dir : BOOLEAN, db : SUBSET Stamps, manifest : 0..MaxStamps, last : 0..MaxStamps,
          remote : Locations \union {None}, lock : Nat]
Run == [cmd : {"none", "init", "attach", "fetch"}, stage : Stages,
        loc : Locations \union {None}, key : 0..MaxStamps, version : 0..MaxStamps,
        rows : SUBSET Stamps]

RunType == /\ run = [r \in Roots |-> run[r]]
           /\ \A r \in Roots : run[r] \in [Pids[r] -> Run]

TypeOK ==
  /\ vault \in [Locations -> Vault]
  /\ sealed \in [Stamps -> Sealed]
  /\ local \in [Roots -> Files]
  /\ RunType
  /\ minted \in 0..MaxStamps

(* A root runs one command at a time, the one its lock file names.         *)
OneCommand ==
  \A r \in Roots : \A p \in Pids[r] : run[r][p] # NoRun => local[r].lock = p

(* A location: what its states/ hold opens with its manifest's key, and    *)
(* /current's state.db knows every one of them.                            *)
LocationOK(l) ==
  LET at == vault[l] IN
  /\ at.states \subseteq 1..minted
  /\ at.manifest = None => at.states = {} /\ at.current = None
  /\ at.current # None => at.current \in at.states /\ at.states \subseteq sealed[at.current].rows
  /\ \A v \in at.states : sealed[v].key = at.manifest /\ v \in sealed[v].rows

RootOK(r) ==
  local[r].remote # None =>
    LET at == vault[local[r].remote] IN
    /\ local[r].manifest = at.manifest
    /\ local[r].last \in at.states \intersect local[r].db
    /\ \E v \in at.states : sealed[v] = [key |-> at.manifest, rows |-> local[r].db]

Minting == {"putManifest", "putSnapshot"}
Publishing == {"putSnapshot", "putPointer"}
Published == {"last", "manifest", "remote"}

(* An init: its stamp is its own until the snapshot is in S3; from its     *)
(* manifest to its pointer the location is its own too.                    *)
InitOK(r, p) ==
  LET me == run[r][p]
      at == vault[me.loc]
  IN me.cmd = "init" =>
       /\ me.stage \in {"open"} \union Minting \union Publishing \union Published
       /\ me.loc \in Locations /\ local[r].remote = None
       /\ me.stage # "open" => /\ me.key = me.version /\ me.version \in 1..minted
                               /\ me.version \in me.rows /\ local[r].db = me.rows
       /\ me.stage \in Minting => \A l \in Locations : me.version \notin vault[l].states
       /\ me.stage \in Publishing => at.manifest = me.key /\ at.current = None
       /\ me.stage = "putSnapshot" => at.states = {}
       /\ me.stage = "putPointer" => at.states = {me.version}
       /\ me.stage \in {"putPointer"} \union Published =>
            /\ at.manifest = me.key /\ me.version \in at.states
            /\ sealed[me.version] = [key |-> me.key, rows |-> me.rows]
       /\ me.stage \in {"manifest", "remote"} => local[r].last = me.version
       /\ me.stage = "remote" => local[r].manifest = me.key

(* An attach: a manifest, a version of its location, that version's table, *)
(* and what of it is in .sync1/.                                           *)
AttachOK(r, p) ==
  LET me == run[r][p]
      at == vault[me.loc]
  IN me.cmd = "attach" =>
       /\ me.stage \in {"open", "pointer", "snapshot", "db"} \union Published
       /\ me.loc \in Locations /\ local[r].remote = None
       /\ me.stage # "open" => me.key = at.manifest /\ me.key # None
       /\ me.stage \in {"snapshot", "db"} \union Published => me.version \in at.states
       /\ me.stage \in {"db"} \union Published => me.rows = sealed[me.version].rows
       /\ me.stage \in Published => local[r].db = me.rows
       /\ me.stage \in {"last", "remote"} => local[r].manifest = me.key
       /\ me.stage = "remote" => local[r].last = me.version

(* A fetch: the version it reads is no older than the root's own.          *)
FetchOK(r, p) ==
  LET me == run[r][p]
      at == vault[me.loc]
  IN me.cmd = "fetch" =>
       /\ me.stage \in {"open", "pointer", "snapshot", "db"}
       /\ me.stage # "open" => me.loc # None /\ me.loc = local[r].remote
       /\ me.stage \in {"snapshot", "db"} =>
            me.version \in at.states /\ local[r].last \in sealed[me.version].rows
       /\ me.stage = "db" => me.rows = sealed[me.version].rows

RunOK(r, p) == /\ InitOK(r, p) /\ AttachOK(r, p) /\ FetchOK(r, p)
               /\ run[r][p].cmd = "none" => run[r][p] = NoRun

Minted(me) == me.cmd = "init" /\ me.stage # "open"

(* No two inits have the same stamp.                                       *)
OwnStamps ==
  \A r, s \in Roots : \A p \in Pids[r], q \in Pids[s] :
    Minted(run[r][p]) /\ Minted(run[s][q]) /\ run[r][p].version = run[s][q].version
      => r = s /\ p = q

Inv == /\ OneCommand /\ OwnStamps
       /\ \A l \in Locations : LocationOK(l)
       /\ \A r \in Roots : RootOK(r)
       /\ \A r \in Roots : \A p \in Pids[r] : RunOK(r, p)

(***************************************************************************)
(* What a step of one command does to the state around it.                 *)
(***************************************************************************)

LEMMA NoRunType == NoRun \in Run
BY DEF NoRun, Run, Stages, None

LEMMA Reads ==
  ASSUME TypeOK, NEW r \in Roots, NEW p \in Pids[r]
  PROVE  run[r][p] \in Run /\ local[r] \in Files /\ p \in Nat /\ p # None
BY DEF TypeOK, RunType, None

NoRunFacts == NoRun.cmd = "none" /\ ~Minted(NoRun)

LEMMA NoRunIsNone == NoRunFacts
BY DEF NoRunFacts, NoRun, Minted

(* Process p of root r is from now on at what me says; r holds files.      *)
RunIs(r, p, me) == run' = [run EXCEPT ![r][p] = me]
FilesAre(r, files) == local' = [local EXCEPT ![r] = files]

LEMMA RunUpdate ==
  ASSUME TypeOK, NEW r \in Roots, NEW p \in Pids[r], NEW me \in Run, RunIs(r, p, me)
  PROVE  /\ RunType' /\ run'[r][p] = me
         /\ \A s \in Roots : \A q \in Pids[s] : s # r \/ q # p => run'[s][q] = run[s][q]
<1>1. run = [s \in Roots |-> run[s]] /\ \A s \in Roots : run[s] \in [Pids[s] -> Run]
  BY DEF TypeOK, RunType, RunIs
<1>2. run' = [s \in Roots |-> IF s = r THEN [run[r] EXCEPT ![p] = me] ELSE run[s]]
  BY <1>1 DEF RunIs
<1>3. run'[r] = [run[r] EXCEPT ![p] = me] /\ run'[r] \in [Pids[r] -> Run] /\ run'[r][p] = me
  BY <1>1, <1>2
<1>4. \A s \in Roots : s # r => run'[s] = run[s]
  BY <1>2
<1>5. \A q \in Pids[r] : q # p => run'[r][q] = run[r][q]
  BY <1>1, <1>3
<1>6. RunType'
  BY <1>1, <1>2, <1>3, <1>4 DEF RunType
<1>. QED BY <1>3, <1>4, <1>5, <1>6

(* A location keeps its manifest, and each snapshot as it was put.         *)
VaultGrows ==
  \A l \in Locations :
    /\ vault[l].manifest # None => vault'[l].manifest = vault[l].manifest
    /\ vault[l].states \subseteq vault'[l].states
    /\ \A v \in vault[l].states : sealed'[v] = sealed[v]

(* What an init on its way to the pointer relies on.                       *)
Undisturbed(r, p) ==
  LET me == run[r][p] IN
  me.cmd = "init" =>
    /\ me.stage \in Minting => \A l \in Locations : me.version \notin vault'[l].states
    /\ me.stage \in Publishing => /\ vault'[me.loc].current = vault[me.loc].current
                                  /\ vault'[me.loc].states = vault[me.loc].states

LEMMA RootKept ==
  ASSUME TypeOK, Inv, VaultGrows, NEW r \in Roots,
         local'[r].remote = local[r].remote, local'[r].manifest = local[r].manifest,
         local'[r].last = local[r].last, local'[r].db = local[r].db
  PROVE  RootOK(r)'
<1>. SUFFICES ASSUME local[r].remote # None PROVE RootOK(r)'
  BY DEF RootOK
<1>. DEFINE l == local[r].remote
<1>1. l \in Locations
  BY DEF TypeOK, Files
<1>2. /\ local[r].manifest = vault[l].manifest
      /\ local[r].last \in vault[l].states \intersect local[r].db
      /\ \E v \in vault[l].states : sealed[v] = [key |-> vault[l].manifest, rows |-> local[r].db]
  BY DEF Inv, RootOK
<1>3. vault[l].manifest # None
  BY <1>1, <1>2 DEF Inv, LocationOK
<1>4. /\ vault'[l].manifest = vault[l].manifest /\ vault[l].states \subseteq vault'[l].states
      /\ \A v \in vault[l].states : sealed'[v] = sealed[v]
  BY <1>1, <1>3 DEF VaultGrows
<1>5. \E v \in vault'[l].states : sealed'[v] = [key |-> vault'[l].manifest, rows |-> local'[r].db]
  BY <1>2, <1>4
<1>. QED BY <1>2, <1>4, <1>5 DEF RootOK

LEMMA RunKept ==
  ASSUME TypeOK, Inv, VaultGrows, minted' >= minted, minted' \in Nat,
         NEW r \in Roots, NEW p \in Pids[r], Undisturbed(r, p),
         run'[r][p] = run[r][p],
         local'[r].remote = local[r].remote, local'[r].manifest = local[r].manifest,
         local'[r].last = local[r].last, local'[r].db = local[r].db
  PROVE  RunOK(r, p)'
<1>. DEFINE me == run[r][p]
<1>1. RunOK(r, p) /\ RootOK(r) /\ me \in Run /\ minted \in Nat
  BY Reads DEF Inv, TypeOK
<1>2. CASE me.cmd = "init"
  <2>1. /\ InitOK(r, p) /\ me.loc \in Locations
        /\ me.version \in 1..minted => me.version \in 1..minted'
    BY <1>1, <1>2 DEF RunOK, InitOK
  <2>2. LocationOK(me.loc)
    BY <2>1 DEF Inv
  <2>3. /\ vault[me.loc].manifest # None => vault'[me.loc].manifest = vault[me.loc].manifest
        /\ vault[me.loc].states \subseteq vault'[me.loc].states
        /\ \A v \in vault[me.loc].states : sealed'[v] = sealed[v]
    BY <2>1 DEF VaultGrows
  <2>4. /\ me.stage \in Publishing => vault'[me.loc].current = None
        /\ me.stage = "putSnapshot" => vault'[me.loc].states = {}
        /\ me.stage = "putPointer" => vault'[me.loc].states = {me.version}
        /\ me.stage \in Minting => \A l \in Locations : me.version \notin vault'[l].states
    BY <1>2, <2>1 DEF InitOK, Undisturbed, Publishing
  <2>5. me.stage \in Publishing \union Published =>
          vault'[me.loc].manifest = me.key
    BY <1>1, <1>2, <2>1, <2>3 DEF InitOK, Publishing, Published, None
  <2>6. me.stage \in {"putPointer"} \union Published =>
          me.version \in vault'[me.loc].states
            /\ sealed'[me.version] = [key |-> me.key, rows |-> me.rows]
    BY <1>2, <2>1, <2>3 DEF InitOK
  <2>7. InitOK(r, p)'
    BY <1>2, <2>1, <2>4, <2>5, <2>6 DEF InitOK, Publishing
  <2>. QED BY <1>2, <2>7 DEF RunOK, AttachOK, FetchOK
<1>3. CASE me.cmd = "attach"
  <2>1. AttachOK(r, p) /\ me.loc \in Locations
    BY <1>1, <1>3 DEF RunOK, AttachOK
  <2>2. /\ vault[me.loc].manifest # None => vault'[me.loc].manifest = vault[me.loc].manifest
        /\ vault[me.loc].states \subseteq vault'[me.loc].states
        /\ \A v \in vault[me.loc].states : sealed'[v] = sealed[v]
    BY <2>1 DEF VaultGrows
  <2>3. AttachOK(r, p)'
    BY <1>3, <2>1, <2>2 DEF AttachOK
  <2>. QED BY <1>3, <2>3 DEF RunOK, InitOK, FetchOK
<1>4. CASE me.cmd = "fetch"
  <2>1. FetchOK(r, p)
    BY <1>1 DEF RunOK
  <2>2. CASE me.stage = "open"
    BY <1>4, <2>1, <2>2 DEF RunOK, InitOK, AttachOK, FetchOK
  <2>3. CASE me.stage # "open"
    <3>1. me.loc \in Locations
      BY <1>1, <1>4, <2>1, <2>3 DEF FetchOK, Run
    <3>2. /\ vault[me.loc].states \subseteq vault'[me.loc].states
          /\ \A v \in vault[me.loc].states : sealed'[v] = sealed[v]
      BY <3>1 DEF VaultGrows
    <3>3. FetchOK(r, p)'
      BY <1>4, <2>1, <3>2 DEF FetchOK
    <3>. QED BY <1>4, <3>3 DEF RunOK, InitOK, AttachOK
  <2>. QED BY <2>2, <2>3
<1>5. CASE me.cmd = "none"
  BY <1>1, <1>5 DEF RunOK, InitOK, AttachOK, FetchOK
<1>. QED BY <1>1, <1>2, <1>3, <1>4, <1>5 DEF Run

(* A step of a root's only command: what is left to show is what it does   *)
(* to itself, its root and its location.                                   *)
LEMMA OnlyCommand ==
  ASSUME TypeOK, Inv, NEW r \in Roots, NEW p \in Pids[r],
         NEW me \in Run, NEW files \in Files,
         RunIs(r, p, me), FilesAre(r, files),
         vault' \in [Locations -> Vault], sealed' \in [Stamps -> Sealed],
         minted' \in 0..MaxStamps, minted' >= minted, VaultGrows,
         \A q \in Pids[r] \ {p} : run[r][q] = NoRun,
         me # NoRun => files.lock = p,
         Minted(me) => \/ Minted(run[r][p]) /\ me.version = run[r][p].version
                       \/ me.version > minted,
         \A s \in Roots \ {r} : \A q \in Pids[s] : Undisturbed(s, q),
         \A l \in Locations : LocationOK(l)',
         RootOK(r)', RunOK(r, p)'
  PROVE  TypeOK' /\ Inv' /\ VaultGrows
<1>1. /\ RunType' /\ run'[r][p] = me
      /\ \A s \in Roots : \A q \in Pids[s] : s # r \/ q # p => run'[s][q] = run[s][q]
  BY RunUpdate
<1>2. /\ local' \in [Roots -> Files] /\ local'[r] = files
      /\ \A s \in Roots \ {r} : local'[s] = local[s]
  BY DEF TypeOK, FilesAre
<1>3. TypeOK'
  BY <1>1, <1>2 DEF TypeOK
<1>4. OneCommand'
  BY <1>1, <1>2 DEF Inv, OneCommand
<1>5. OwnStamps'
  <2>1. \A s \in Roots : \A q \in Pids[s] : Minted(run[s][q]) => run[s][q].version \in 1..minted
    BY DEF Inv, RunOK, InitOK, Minted
  <2>2. minted \in Nat /\ me.version \in Nat
    BY DEF TypeOK, Run
  <2>3. \A s \in Roots : \A q \in Pids[s] :
          (s # r \/ q # p) /\ Minted(me) /\ Minted(run[s][q]) => run[s][q].version # me.version
    BY <2>1, <2>2 DEF Inv, OwnStamps
  <2>. QED BY <1>1, <2>3 DEF Inv, OwnStamps
<1>6. \A s \in Roots : RootOK(s)'
  BY <1>2, RootKept
<1>7. ASSUME NEW s \in Roots, NEW q \in Pids[s] PROVE RunOK(s, q)'
  <2>1. CASE s # r
    BY <1>1, <1>2, <2>1, RunKept
  <2>2. CASE s = r /\ q # p
    <3>1. run'[s][q] = NoRun
      BY <1>1, <2>2
    <3>. QED BY <3>1, NoRunIsNone DEF NoRunFacts, RunOK, InitOK, AttachOK, FetchOK
  <2>3. CASE s = r /\ q = p
    BY <2>3
  <2>. QED BY <2>1, <2>2, <2>3
<1>. QED BY <1>3, <1>4, <1>5, <1>6, <1>7 DEF Inv

LEMMA SameVault ==
  ASSUME TypeOK, Inv, UNCHANGED <<vault, sealed, minted>>
  PROVE  /\ vault' \in [Locations -> Vault] /\ sealed' \in [Stamps -> Sealed]
         /\ minted' \in 0..MaxStamps /\ minted' >= minted /\ VaultGrows
         /\ \A s \in Roots : \A q \in Pids[s] : Undisturbed(s, q)
         /\ \A l \in Locations : LocationOK(l)'
<1>1. \A l \in Locations : LocationOK(l)'
  BY DEF Inv, LocationOK
<1>2. \A s \in Roots : \A q \in Pids[s] : Undisturbed(s, q)
  BY DEF Inv, RunOK, InitOK, Undisturbed, Publishing
<1>. QED BY <1>1, <1>2 DEF TypeOK, VaultGrows

LEMMA Alone ==
  ASSUME TypeOK, Inv, NEW r \in Roots, NEW p \in Pids[r], run[r][p] # NoRun
  PROVE  local[r].lock = p /\ \A q \in Pids[r] \ {p} : run[r][q] = NoRun
BY DEF Inv, OneCommand

(* A command that is gone leaves its root and what it holds as they were,  *)
(* but for the lock.                                                       *)
LEMMA Gone ==
  ASSUME TypeOK, Inv, NEW r \in Roots, NEW p \in Pids[r], run[r][p] # NoRun,
         RunIs(r, p, NoRun),
         NEW lock \in Nat, local' = [local EXCEPT ![r].lock = lock],
         UNCHANGED <<vault, sealed, minted>>
  PROVE  TypeOK' /\ Inv' /\ VaultGrows
<1>. DEFINE files == [local[r] EXCEPT !.lock = lock]
<1>1. local[r] \in Files
  BY DEF TypeOK
<1>2. FilesAre(r, files)
  BY DEF TypeOK, FilesAre
<1>3. /\ files \in Files /\ files.remote = local[r].remote /\ files.manifest = local[r].manifest
      /\ files.last = local[r].last /\ files.db = local[r].db
  BY <1>1 DEF Files
<1>4. local'[r] = files
  BY <1>2 DEF TypeOK, FilesAre
<1>. HIDE DEF files
<1>5. VaultGrows
  BY SameVault
<1>6. RootOK(r)'
  BY <1>3, <1>4, <1>5, RootKept
<1>7. run'[r][p] = NoRun
  BY NoRunType, RunUpdate
<1>8. RunOK(r, p)'
  BY <1>7, NoRunIsNone DEF NoRunFacts, RunOK, InitOK, AttachOK, FetchOK
<1>9. ~Minted(NoRun)
  BY NoRunIsNone DEF NoRunFacts
<1>. QED BY <1>2, <1>3, <1>6, <1>8, <1>9, NoRunType, SameVault, Alone, OnlyCommand

LEMMA EndsFacts ==
  ASSUME TypeOK, Inv, NEW r \in Roots, NEW p \in Pids[r], run[r][p] # NoRun,
         Ends(r, p), UNCHANGED <<vault, sealed, minted>>
  PROVE  TypeOK' /\ Inv' /\ VaultGrows
<1>1. local[r].lock = p
  BY Alone
<1>2. local' = [local EXCEPT ![r].lock = None] /\ RunIs(r, p, NoRun)
  BY <1>1 DEF Ends, Released, TypeOK, RunIs
<1>. QED BY <1>2, Gone DEF None

(* A step that touches nothing outside the root.                           *)
LEMMA Proceeds ==
  ASSUME TypeOK, Inv, NEW r \in Roots, NEW p \in Pids[r], run[r][p] # NoRun,
         NEW me \in Run, NEW files \in Files, RunIs(r, p, me), FilesAre(r, files),
         UNCHANGED <<vault, sealed, minted>>, files.lock = local[r].lock,
         Minted(me) => Minted(run[r][p]) /\ me.version = run[r][p].version,
         RootOK(r)', RunOK(r, p)'
  PROVE  TypeOK' /\ Inv' /\ VaultGrows
<1>1. files.lock = p /\ \A q \in Pids[r] \ {p} : run[r][q] = NoRun
  BY Alone
<1>. QED BY <1>1, SameVault, OnlyCommand

(* One that only reads.                                                    *)
LEMMA OnlyReads ==
  ASSUME TypeOK, Inv, NEW r \in Roots, NEW p \in Pids[r], run[r][p] # NoRun,
         NEW me \in Run, RunIs(r, p, me), UNCHANGED <<vault, sealed, local, minted>>,
         me.cmd \in {"attach", "fetch"}, RunOK(r, p)'
  PROVE  TypeOK' /\ Inv' /\ VaultGrows
<1>1. FilesAre(r, local[r]) /\ local[r] \in Files
  BY DEF FilesAre, TypeOK
<1>2. RootOK(r)'
  BY SameVault, RootKept
<1>3. ~Minted(me)
  BY DEF Minted
<1>. QED BY <1>1, <1>2, <1>3, Proceeds

(***************************************************************************)
(* Each action keeps the invariant.                                        *)
(***************************************************************************)

Started(cmd, l) == [NoRun EXCEPT !.cmd = cmd, !.loc = l]

LEMMA StartedRun ==
  ASSUME NEW cmd \in {"init", "attach", "fetch"}, NEW l \in Locations \union {None}
  PROVE  LET me == Started(cmd, l)
         IN  me \in Run /\ me.cmd = cmd /\ me.stage = "open" /\ me.loc = l
<1>1. PICK me : me = Started(cmd, l)
  OBVIOUS
<1>2. me = [cmd |-> cmd, stage |-> "open", loc |-> l, key |-> None, version |-> None, rows |-> {}]
  BY <1>1 DEF Started, NoRun
<1>3. None \in 0..MaxStamps /\ "open" \in Stages
  BY DEF None, Stages
<1>4. me \in Run
  BY <1>2, <1>3 DEF Run
<1>. QED BY <1>1, <1>2, <1>4

Created(old, v, rows) ==
  [old EXCEPT !.stage = "putManifest", !.key = v, !.version = v, !.rows = rows]

LEMMA CreatedRun ==
  ASSUME NEW old \in Run, NEW v \in Stamps, NEW rows \in SUBSET Stamps
  PROVE  LET me == Created(old, v, rows)
         IN  /\ me \in Run /\ me.cmd = old.cmd /\ me.stage = "putManifest" /\ me.loc = old.loc
             /\ me.key = v /\ me.version = v /\ me.rows = rows
<1>1. PICK me : me = Created(old, v, rows)
  OBVIOUS
<1>2. me = [cmd |-> old.cmd, stage |-> "putManifest", loc |-> old.loc, key |-> v, version |-> v,
            rows |-> rows]
  BY <1>1 DEF Created, Run
<1>3. v \in 0..MaxStamps /\ "putManifest" \in Stages
  BY DEF Stamps, Stages
<1>4. me \in Run
  BY <1>2, <1>3 DEF Run
<1>. QED BY <1>1, <1>2, <1>4

LEMMA StartStep ==
  ASSUME TypeOK, Inv, NEW r \in Roots, NEW p \in Pids[r],
         NEW cmd \in {"init", "attach", "fetch"}, NEW l \in Locations \union {None},
         cmd # "fetch" => l \in Locations, Start(r, p, cmd, l)
  PROVE  TypeOK' /\ Inv' /\ VaultGrows
<1>. DEFINE me == Started(cmd, l)
<1>. DEFINE files == [local[r] EXCEPT !.dir = TRUE, !.lock = p]
<1>1. RunIs(r, p, me) /\ UNCHANGED <<vault, sealed, minted>>
  BY DEF Start, RunIs, Started
<1>2. FilesAre(r, files)
  BY DEF Start, FilesAre, TypeOK
<1>3. me \in Run /\ me.cmd = cmd /\ me.stage = "open" /\ me.loc = l
  BY StartedRun
<1>4. /\ files \in Files /\ files.lock = p /\ files.remote = local[r].remote
      /\ files.manifest = local[r].manifest /\ files.last = local[r].last /\ files.db = local[r].db
  BY Reads DEF Files
<1>. HIDE DEF me, files
<1>5. local'[r] = files /\ run'[r][p] = me
  BY <1>1, <1>2, <1>3, RunUpdate DEF FilesAre, TypeOK
<1>6. RootOK(r)'
  BY <1>1, <1>4, <1>5, SameVault, RootKept
<1>7. \A q \in Pids[r] \ {p} : run[r][q] = NoRun
  <2>. SUFFICES ASSUME NEW q \in Pids[r], q # p, run[r][q] # NoRun PROVE FALSE
    OBVIOUS
  <2>1. local[r].lock = q /\ q # None
    BY Reads DEF Inv, OneCommand
  <2>. QED BY <2>1 DEF Start, Acquirable, IsProcessAlive
<1>8. cmd # "fetch" => local[r].remote = None
  <2>. SUFFICES ASSUME cmd # "fetch", local[r].remote # None PROVE FALSE
    OBVIOUS
  <2>1. local[r].manifest = None /\ local[r].remote \in Locations
    BY Reads DEF Start, Files
  <2>2. /\ local[r].manifest = vault[local[r].remote].manifest
        /\ vault[local[r].remote].states # {}
    BY DEF Inv, RootOK
  <2>. QED BY <2>1, <2>2 DEF Inv, LocationOK
<1>9. RunOK(r, p)'
  BY <1>3, <1>4, <1>5, <1>8 DEF RunOK, InitOK, AttachOK, FetchOK, Minting, Publishing, Published
<1>10. ~Minted(me)
  BY <1>3 DEF Minted
<1>. QED BY <1>1, <1>2, <1>3, <1>4, <1>6, <1>7, <1>9, <1>10, SameVault, OnlyCommand

LEMMA CreateVaultStep ==
  ASSUME TypeOK, Inv, NEW r \in Roots, NEW p \in Pids[r], CreateVault(r, p)
  PROVE  TypeOK' /\ Inv' /\ VaultGrows
<1>1. run[r][p].cmd = "init" /\ run[r][p].stage = "open" /\ run[r][p] # NoRun
  BY NoRunIsNone DEF CreateVault, At, NoRunFacts
<1>2. CASE Ends(r, p) /\ UNCHANGED minted
  BY <1>1, <1>2, EndsFacts DEF CreateVault
<1>3. CASE ~(Ends(r, p) /\ UNCHANGED minted)
  <2>. DEFINE rows == local[r].db \union {minted'}
  <2>. DEFINE me == Created(run[r][p], minted', rows)
  <2>. DEFINE files == [local[r] EXCEPT !.db = rows]
  <2>1. /\ minted < MaxStamps /\ minted' = minted + 1 /\ UNCHANGED <<vault, sealed>>
        /\ RunIs(r, p, me)
    BY <1>3 DEF CreateVault, RunIs, Created
  <2>2. FilesAre(r, files)
    BY <1>3 DEF CreateVault, FilesAre, TypeOK
  <2>3. minted \in Nat /\ minted' \in Stamps /\ minted' > minted
    BY <2>1 DEF TypeOK, Stamps
  <2>4. rows \subseteq Stamps /\ minted' \in rows
    BY <2>3, Reads DEF Files
  <2>5. /\ me \in Run /\ me.cmd = "init" /\ me.stage = "putManifest" /\ me.loc = run[r][p].loc
        /\ me.key = minted' /\ me.version = minted' /\ me.rows = rows
    BY <1>1, <2>3, <2>4, Reads, CreatedRun
  <2>6. /\ files \in Files /\ files.lock = local[r].lock /\ files.remote = local[r].remote
        /\ files.db = rows
    BY <2>4, Reads DEF Files
  <2>. HIDE DEF me, files, rows
  <2>7. local'[r] = files /\ run'[r][p] = me
    BY <2>1, <2>2, <2>5, RunUpdate DEF FilesAre, TypeOK
  <2>8. InitOK(r, p)
    BY DEF Inv, RunOK
  <2>9. RootOK(r)'
    BY <1>1, <2>6, <2>7, <2>8 DEF InitOK, RootOK
  <2>10. \A l \in Locations : vault[l].states \subseteq 1..minted
    BY DEF Inv, LocationOK
  <2>11. InitOK(r, p)'
    BY <1>1, <2>1, <2>3, <2>4, <2>5, <2>6, <2>7, <2>8, <2>10
    DEF InitOK, Minting, Publishing, Published, Stamps
  <2>12. RunOK(r, p)'
    BY <2>5, <2>7, <2>11 DEF RunOK, AttachOK, FetchOK
  <2>13. \A l \in Locations : LocationOK(l)'
    BY <2>1, <2>3 DEF Inv, LocationOK
  <2>14. VaultGrows /\ \A s \in Roots : \A q \in Pids[s] : Undisturbed(s, q)
    BY <2>1 DEF VaultGrows, Inv, RunOK, InitOK, Undisturbed
  <2>15. vault' \in [Locations -> Vault] /\ sealed' \in [Stamps -> Sealed] /\ minted' \in 0..MaxStamps
    BY <2>1, <2>3 DEF TypeOK, Stamps
  <2>16. files.lock = p /\ \A q \in Pids[r] \ {p} : run[r][q] = NoRun
    BY <1>1, <2>6, Alone
  <2>17. Minted(me) => me.version > minted
    BY <2>3, <2>5
  <2>18. minted' >= minted
    BY <2>1, <2>3
  <2>. QED BY <2>1, <2>2, <2>5, <2>6, <2>9, <2>12, <2>13, <2>14, <2>15, <2>16, <2>17, <2>18, OnlyCommand
<1>. QED BY <1>2, <1>3

(* A command that goes on to its next stage.                               *)
LEMMA Moves ==
  ASSUME TypeOK, NEW r \in Roots, NEW p \in Pids[r], NEW stage \in Stages, Goes(r, p, stage)
  PROVE  \E me \in Run :
           /\ RunIs(r, p, me) /\ run'[r][p] = me /\ me.cmd = run[r][p].cmd /\ me.stage = stage
           /\ me.loc = run[r][p].loc /\ me.key = run[r][p].key /\ me.version = run[r][p].version
           /\ me.rows = run[r][p].rows
<1>1. PICK me : me = [run[r][p] EXCEPT !.stage = stage]
  OBVIOUS
<1>2. RunIs(r, p, me)
  BY <1>1 DEF Goes, RunIs
<1>3. /\ me \in Run /\ me.cmd = run[r][p].cmd /\ me.stage = stage
      /\ me.loc = run[r][p].loc /\ me.key = run[r][p].key /\ me.version = run[r][p].version
      /\ me.rows = run[r][p].rows
  BY <1>1, Reads DEF Run
<1>4. run'[r][p] = me
  BY <1>2, <1>3, RunUpdate
<1>. QED BY <1>2, <1>3, <1>4

(* An init that has its manifest in S3 shares the location with no other.  *)
LEMMA SoleInit ==
  ASSUME TypeOK, Inv, NEW r \in Roots, NEW p \in Pids[r], NEW s \in Roots, NEW q \in Pids[s],
         run[r][p].cmd = "init", run[s][q].cmd = "init",
         run[r][p].stage \in Publishing, run[s][q].stage \in Publishing,
         run[r][p].loc = run[s][q].loc
  PROVE  r = s /\ p = q
<1>1. InitOK(r, p) /\ InitOK(s, q)
  BY DEF Inv, RunOK
<1>2. run[r][p].version = run[s][q].version
  BY <1>1 DEF InitOK, Publishing
<1>3. Minted(run[r][p]) /\ Minted(run[s][q])
  BY DEF Minted, Publishing
<1>. QED BY <1>2, <1>3 DEF Inv, OwnStamps

LEMMA PutManifestStep ==
  ASSUME TypeOK, Inv, NEW r \in Roots, NEW p \in Pids[r], PutManifest(r, p)
  PROVE  TypeOK' /\ Inv' /\ VaultGrows
<1>. DEFINE l == run[r][p].loc
<1>1. run[r][p].cmd = "init" /\ run[r][p].stage = "putManifest" /\ run[r][p] # NoRun
  BY NoRunIsNone DEF PutManifest, At, NoRunFacts
<1>2. CASE Ends(r, p) /\ UNCHANGED vault
  BY <1>1, <1>2, EndsFacts DEF PutManifest
<1>3. CASE vault[l].manifest = None /\ ~(Ends(r, p) /\ UNCHANGED vault)
  <2>1. /\ vault' = [vault EXCEPT ![l].manifest = run[r][p].key] /\ Goes(r, p, "putSnapshot")
        /\ UNCHANGED <<local, sealed, minted>>
    BY <1>3 DEF PutManifest
  <2>2. PICK me \in Run :
          /\ RunIs(r, p, me) /\ run'[r][p] = me /\ me.cmd = "init" /\ me.stage = "putSnapshot"
          /\ me.loc = l /\ me.key = run[r][p].key /\ me.version = run[r][p].version
          /\ me.rows = run[r][p].rows
    BY <1>1, <2>1, Moves DEF Stages
  <2>3. InitOK(r, p) /\ l \in Locations
    BY <1>1 DEF Inv, RunOK, InitOK
  <2>4. LocationOK(l) /\ vault[l].states = {} /\ vault[l].current = None /\ vault[l] \in Vault
    BY <1>3, <2>3 DEF Inv, LocationOK, TypeOK
  <2>5. /\ vault'[l].manifest = run[r][p].key /\ vault'[l].states = {} /\ vault'[l].current = None
        /\ \A k \in Locations : vault'[k].states = vault[k].states /\ vault'[k].current = vault[k].current
        /\ \A k \in Locations \ {l} : vault'[k] = vault[k]
    BY <2>1, <2>3, <2>4 DEF TypeOK, Vault
  <2>6. run[r][p].key \in 0..MaxStamps /\ run[r][p].key # None
    BY <1>1, <2>3, Reads DEF InitOK, Run, None
  <2>7. vault' \in [Locations -> Vault]
    BY <2>1, <2>3, <2>6 DEF TypeOK, Vault
  <2>8. VaultGrows
    BY <1>3, <2>1, <2>5 DEF VaultGrows
  <2>9. ASSUME NEW s \in Roots, NEW q \in Pids[s] PROVE Undisturbed(s, q)
    <3>. SUFFICES ASSUME run[s][q].cmd = "init" PROVE Undisturbed(s, q)
      BY DEF Undisturbed
    <3>1. InitOK(s, q) /\ run[s][q].loc \in Locations
      BY DEF Inv, RunOK, InitOK
    <3>. QED BY <2>5, <3>1 DEF Undisturbed, InitOK
  <2>10. ASSUME NEW k \in Locations PROVE LocationOK(k)'
    <3>1. CASE k = l
      BY <2>1, <2>4, <2>5, <2>6, <3>1 DEF LocationOK
    <3>2. CASE k # l
      BY <2>1, <2>5, <3>2 DEF Inv, LocationOK
    <3>. QED BY <3>1, <3>2
  <2>11. RootOK(r)'
    BY <2>1, <2>8, RootKept
  <2>12. InitOK(r, p)'
    BY <1>1, <2>1, <2>2, <2>3, <2>5 DEF InitOK, Minting, Publishing, Published
  <2>13. RunOK(r, p)'
    BY <2>2, <2>12 DEF RunOK, AttachOK, FetchOK
  <2>14. FilesAre(r, local[r]) /\ local[r] \in Files
    BY <2>1 DEF FilesAre, TypeOK
  <2>15. local[r].lock = p /\ \A q \in Pids[r] \ {p} : run[r][q] = NoRun
    BY <1>1, Alone
  <2>16. Minted(run[r][p]) /\ me.version = run[r][p].version
    BY <1>1, <2>2 DEF Minted
  <2>17. sealed' \in [Stamps -> Sealed] /\ minted' \in 0..MaxStamps /\ minted' >= minted
    BY <2>1 DEF TypeOK
  <2>. QED BY <2>2, <2>7, <2>8, <2>9, <2>10, <2>11, <2>13, <2>14, <2>15, <2>16, <2>17, OnlyCommand
<1>. QED BY <1>2, <1>3 DEF PutManifest

LEMMA PutSnapshotStep ==
  ASSUME TypeOK, Inv, NEW r \in Roots, NEW p \in Pids[r], PutSnapshot(r, p)
  PROVE  TypeOK' /\ Inv' /\ VaultGrows
<1>. DEFINE old == run[r][p]
<1>. DEFINE l == old.loc
<1>. DEFINE v == old.version
<1>1. old.cmd = "init" /\ old.stage = "putSnapshot" /\ old # NoRun
  BY NoRunIsNone DEF PutSnapshot, At, NoRunFacts
<1>2. /\ vault' = [vault EXCEPT ![l].states = @ \union {v}]
      /\ sealed' = [sealed EXCEPT ![v] = [key |-> old.key, rows |-> old.rows]]
      /\ Goes(r, p, "putPointer") /\ UNCHANGED <<local, minted>>
  BY DEF PutSnapshot
<1>3. PICK me \in Run :
        /\ RunIs(r, p, me) /\ run'[r][p] = me /\ me.cmd = "init" /\ me.stage = "putPointer"
        /\ me.loc = l /\ me.key = old.key /\ me.version = v /\ me.rows = old.rows
  BY <1>1, <1>2, Moves DEF Stages
<1>4. InitOK(r, p) /\ l \in Locations
  BY <1>1 DEF Inv, RunOK, InitOK
<1>5. /\ old.key = v /\ v \in 1..minted /\ v \in old.rows /\ local[r].db = old.rows
      /\ vault[l].manifest = v /\ vault[l].current = None /\ vault[l].states = {}
      /\ \A k \in Locations : v \notin vault[k].states
  BY <1>1, <1>4 DEF InitOK, Minting, Publishing
<1>6. v \in Stamps /\ v # None /\ [key |-> old.key, rows |-> old.rows] \in Sealed
  BY <1>5, Reads DEF TypeOK, Run, Stamps, Sealed, None
<1>7. /\ vault'[l].manifest = v /\ vault'[l].states = {v} /\ vault'[l].current = None
      /\ \A k \in Locations \ {l} : vault'[k] = vault[k]
      /\ sealed'[v] = [key |-> old.key, rows |-> old.rows]
      /\ \A w \in Stamps \ {v} : sealed'[w] = sealed[w]
  BY <1>2, <1>4, <1>5, <1>6 DEF TypeOK, Vault
<1>8. vault' \in [Locations -> Vault] /\ sealed' \in [Stamps -> Sealed]
  BY <1>2, <1>4, <1>6 DEF TypeOK, Vault
<1>9. VaultGrows
  <2>1. \A k \in Locations : vault[k].states \subseteq Stamps
    BY DEF TypeOK, Vault
  <2>. QED BY <1>5, <1>7, <2>1 DEF VaultGrows
<1>10. ASSUME NEW s \in Roots \ {r}, NEW q \in Pids[s] PROVE Undisturbed(s, q)
  <2>. SUFFICES ASSUME run[s][q].cmd = "init" PROVE Undisturbed(s, q)
    BY DEF Undisturbed
  <2>1. InitOK(s, q) /\ run[s][q].loc \in Locations
    BY DEF Inv, RunOK, InitOK
  <2>2. run[s][q].stage \in Minting => run[s][q].version # v
    BY <1>1 DEF Inv, OwnStamps, Minted, Minting
  <2>3. run[s][q].stage \in Publishing => run[s][q].loc # l
    BY <1>1, SoleInit DEF Publishing
  <2>. QED BY <1>7, <2>1, <2>2, <2>3 DEF Undisturbed, InitOK
<1>11. ASSUME NEW k \in Locations PROVE LocationOK(k)'
  <2>1. CASE k = l
    <3>1. vault'[k].states = {v} /\ vault'[k].manifest = v /\ vault'[k].current = None
      BY <1>7, <2>1
    <3>2. sealed'[v].key = v /\ v \in sealed'[v].rows /\ v \in 1..minted'
      BY <1>2, <1>5, <1>7
    <3>. QED BY <1>6, <3>1, <3>2 DEF LocationOK
  <2>2. CASE k # l
    <3>1. LocationOK(k) /\ vault[k].states \subseteq Stamps
      BY DEF Inv, TypeOK, Vault
    <3>2. \A w \in vault[k].states : sealed'[w] = sealed[w]
      BY <1>9 DEF VaultGrows
    <3>3. vault'[k] = vault[k] /\ minted' = minted
      BY <1>2, <1>7, <2>2
    <3>. QED BY <3>1, <3>2, <3>3 DEF LocationOK
  <2>. QED BY <2>1, <2>2
<1>12. RootOK(r)'
  BY <1>2, <1>9, RootKept
<1>13. InitOK(r, p)'
  <2>1. /\ vault'[me.loc].manifest = me.key /\ vault'[me.loc].current = None
        /\ vault'[me.loc].states = {me.version}
        /\ sealed'[me.version] = [key |-> me.key, rows |-> me.rows]
    BY <1>3, <1>5, <1>7
  <2>2. /\ me.loc \in Locations /\ local'[r].remote = None /\ me.key = me.version
        /\ me.version \in 1..minted' /\ me.version \in me.rows /\ local'[r].db = me.rows
    BY <1>1, <1>2, <1>3, <1>4, <1>5 DEF InitOK
  <2>. HIDE DEF old, l, v
  <2>. QED BY <1>3, <2>1, <2>2 DEF InitOK, Minting, Publishing, Published
<1>14. RunOK(r, p)'
  BY <1>3, <1>13 DEF RunOK, AttachOK, FetchOK
<1>15. FilesAre(r, local[r]) /\ local[r] \in Files
  BY <1>2 DEF FilesAre, TypeOK
<1>16. local[r].lock = p /\ \A q \in Pids[r] \ {p} : run[r][q] = NoRun
  BY <1>1, Alone
<1>17. Minted(old) /\ me.version = v
  BY <1>1, <1>3 DEF Minted
<1>18. minted' \in 0..MaxStamps /\ minted' >= minted
  BY <1>2 DEF TypeOK
<1>. HIDE DEF old, l, v
<1>. QED BY <1>3, <1>8, <1>9, <1>10, <1>11, <1>12, <1>14, <1>15, <1>16, <1>17, <1>18, OnlyCommand DEF old, v

LEMMA PutPointerStep ==
  ASSUME TypeOK, Inv, NEW r \in Roots, NEW p \in Pids[r], PutPointer(r, p)
  PROVE  TypeOK' /\ Inv' /\ VaultGrows
<1>. DEFINE old == run[r][p]
<1>. DEFINE l == old.loc
<1>. DEFINE v == old.version
<1>1. old.cmd = "init" /\ old.stage = "putPointer" /\ old # NoRun
  BY NoRunIsNone DEF PutPointer, At, NoRunFacts
<1>2. InitOK(r, p) /\ l \in Locations
  BY <1>1 DEF Inv, RunOK, InitOK
<1>3. /\ old.key = v /\ v \in 1..minted /\ v \in old.rows /\ local[r].db = old.rows
      /\ vault[l].manifest = v /\ vault[l].current = None /\ vault[l].states = {v}
      /\ sealed[v] = [key |-> old.key, rows |-> old.rows]
  BY <1>1, <1>2 DEF InitOK, Minting, Publishing
<1>4. /\ vault' = [vault EXCEPT ![l].current = v] /\ Goes(r, p, "last")
      /\ UNCHANGED <<local, sealed, minted>>
  BY <1>3 DEF PutPointer
<1>5. PICK me \in Run :
        /\ RunIs(r, p, me) /\ run'[r][p] = me /\ me.cmd = "init" /\ me.stage = "last"
        /\ me.loc = l /\ me.key = old.key /\ me.version = v /\ me.rows = old.rows
  BY <1>1, <1>4, Moves DEF Stages
<1>6. /\ vault'[l].manifest = v /\ vault'[l].states = {v} /\ vault'[l].current = v
      /\ \A k \in Locations \ {l} : vault'[k] = vault[k]
      /\ vault' \in [Locations -> Vault]
  BY <1>2, <1>3, <1>4, Reads DEF TypeOK, Vault, Run
<1>7. VaultGrows
  BY <1>3, <1>4, <1>6 DEF VaultGrows
<1>8. ASSUME NEW s \in Roots \ {r}, NEW q \in Pids[s] PROVE Undisturbed(s, q)
  <2>. SUFFICES ASSUME run[s][q].cmd = "init" PROVE Undisturbed(s, q)
    BY DEF Undisturbed
  <2>1. InitOK(s, q) /\ run[s][q].loc \in Locations
    BY DEF Inv, RunOK, InitOK
  <2>2. run[s][q].stage \in Publishing => run[s][q].loc # l
    BY <1>1, SoleInit DEF Publishing
  <2>3. \A k \in Locations : vault'[k].states = vault[k].states
    BY <1>3, <1>6
  <2>. QED BY <1>6, <2>1, <2>2, <2>3 DEF Undisturbed, InitOK
<1>9. ASSUME NEW k \in Locations PROVE LocationOK(k)'
  <2>1. CASE k = l
    <3>1. vault'[k].states = {v} /\ vault'[k].manifest = v /\ vault'[k].current = v
      BY <1>6, <2>1
    <3>2. sealed'[v].key = v /\ v \in sealed'[v].rows /\ v \in 1..minted' /\ v # None
      BY <1>3, <1>4 DEF None
    <3>. QED BY <3>1, <3>2 DEF LocationOK
  <2>2. CASE k # l
    BY <1>4, <1>6, <2>2 DEF Inv, LocationOK
  <2>. QED BY <2>1, <2>2
<1>10. RootOK(r)'
  BY <1>4, <1>7, RootKept
<1>11. InitOK(r, p)'
  <2>1. /\ vault'[me.loc].manifest = me.key /\ me.version \in vault'[me.loc].states
        /\ sealed'[me.version] = [key |-> me.key, rows |-> me.rows]
    BY <1>3, <1>4, <1>5, <1>6
  <2>2. /\ me.loc \in Locations /\ local'[r].remote = None /\ me.key = me.version
        /\ me.version \in 1..minted' /\ me.version \in me.rows /\ local'[r].db = me.rows
    BY <1>1, <1>2, <1>3, <1>4, <1>5 DEF InitOK
  <2>. HIDE DEF old, l, v
  <2>. QED BY <1>5, <2>1, <2>2 DEF InitOK, Minting, Publishing, Published
<1>12. RunOK(r, p)'
  BY <1>5, <1>11 DEF RunOK, AttachOK, FetchOK
<1>13. FilesAre(r, local[r]) /\ local[r] \in Files
  BY <1>4 DEF FilesAre, TypeOK
<1>14. local[r].lock = p /\ \A q \in Pids[r] \ {p} : run[r][q] = NoRun
  BY <1>1, Alone
<1>15. Minted(old) /\ me.version = v
  BY <1>1, <1>5 DEF Minted
<1>16. sealed' \in [Stamps -> Sealed] /\ minted' \in 0..MaxStamps /\ minted' >= minted
  BY <1>4 DEF TypeOK
<1>. HIDE DEF old, l, v
<1>. QED BY <1>5, <1>6, <1>7, <1>8, <1>9, <1>10, <1>12, <1>13, <1>14, <1>15, <1>16, OnlyCommand DEF old, v

LEMMA GetManifestStep ==
  ASSUME TypeOK, Inv, NEW r \in Roots, NEW p \in Pids[r], GetManifest(r, p)
  PROVE  TypeOK' /\ Inv' /\ VaultGrows
<1>. DEFINE old == run[r][p]
<1>. DEFINE key == vault[old.loc].manifest
<1>1. old.cmd = "attach" /\ old.stage = "open" /\ old # NoRun /\ old \in Run
  BY NoRunIsNone, Reads DEF GetManifest, At, NoRunFacts
<1>2. CASE key = None
  BY <1>1, <1>2, EndsFacts DEF GetManifest
<1>3. CASE key # None
  <2>1. AttachOK(r, p) /\ old.loc \in Locations /\ key \in 0..MaxStamps
    BY <1>1 DEF Inv, RunOK, AttachOK, TypeOK, Vault
  <2>2. PICK me : me = [old EXCEPT !.stage = "pointer", !.key = key]
    OBVIOUS
  <2>3. RunIs(r, p, me) /\ UNCHANGED <<vault, sealed, local, minted>>
    BY <1>3, <2>2 DEF GetManifest, RunIs
  <2>4. /\ me \in Run /\ me.cmd = "attach" /\ me.stage = "pointer" /\ me.key = key
        /\ me.loc = old.loc
    BY <1>1, <2>1, <2>2 DEF Run, Stages
  <2>5. run'[r][p] = me
    BY <2>3, <2>4, RunUpdate
  <2>6. AttachOK(r, p)'
    BY <1>1, <1>3, <2>1, <2>3, <2>4, <2>5 DEF AttachOK, Published
  <2>7. RunOK(r, p)'
    BY <2>4, <2>5, <2>6 DEF RunOK, InitOK, FetchOK
  <2>. QED BY <1>1, <2>3, <2>4, <2>7, OnlyReads
<1>. QED BY <1>2, <1>3

LEMMA ReadConfigStep ==
  ASSUME TypeOK, Inv, NEW r \in Roots, NEW p \in Pids[r], ReadConfig(r, p)
  PROVE  TypeOK' /\ Inv' /\ VaultGrows
<1>. DEFINE old == run[r][p]
<1>1. old.cmd = "fetch" /\ old.stage = "open" /\ old # NoRun /\ old \in Run /\ local[r] \in Files
  BY NoRunIsNone, Reads DEF ReadConfig, At, NoRunFacts
<1>2. CASE None \in {local[r].remote, local[r].manifest}
  BY <1>1, <1>2, EndsFacts DEF ReadConfig
<1>3. CASE None \notin {local[r].remote, local[r].manifest}
  <2>1. PICK me : me = [old EXCEPT !.stage = "pointer", !.loc = local[r].remote,
                                   !.key = local[r].manifest]
    OBVIOUS
  <2>2. RunIs(r, p, me) /\ UNCHANGED <<vault, sealed, local, minted>>
    BY <1>3, <2>1 DEF ReadConfig, RunIs
  <2>3. /\ me \in Run /\ me.cmd = "fetch" /\ me.stage = "pointer" /\ me.loc = local[r].remote
    BY <1>1, <2>1 DEF Run, Stages, Files
  <2>4. run'[r][p] = me
    BY <2>2, <2>3, RunUpdate
  <2>5. FetchOK(r, p)'
    BY <1>3, <2>2, <2>3, <2>4 DEF FetchOK
  <2>6. RunOK(r, p)'
    BY <2>3, <2>4, <2>5 DEF RunOK, InitOK, AttachOK
  <2>. QED BY <1>1, <2>2, <2>3, <2>6, OnlyReads
<1>. QED BY <1>2, <1>3

(* Where an attach or a fetch reads: a location, and one whose snapshots a *)
(* root of it has seen none the current one lacks.                         *)
LEMMA ReadersPlace ==
  ASSUME TypeOK, Inv, NEW r \in Roots, NEW p \in Pids[r],
         run[r][p].cmd \in {"attach", "fetch"}, run[r][p].stage # "open"
  PROVE  /\ run[r][p].loc \in Locations /\ LocationOK(run[r][p].loc)
         /\ run[r][p].cmd = "fetch" => local[r].last \in vault[run[r][p].loc].states
<1>1. run[r][p] \in Run
  BY Reads
<1>2. CASE run[r][p].cmd = "attach"
  BY <1>2 DEF Inv, RunOK, AttachOK
<1>3. CASE run[r][p].cmd = "fetch"
  <2>1. FetchOK(r, p) /\ RootOK(r)
    BY DEF Inv, RunOK
  <2>2. run[r][p].loc \in Locations /\ run[r][p].loc = local[r].remote /\ local[r].remote # None
    BY <1>1, <1>3, <2>1 DEF FetchOK, Run
  <2>. QED BY <2>1, <2>2 DEF Inv, RootOK
<1>. QED BY <1>2, <1>3

LEMMA GetPointerStep ==
  ASSUME TypeOK, Inv, NEW r \in Roots, NEW p \in Pids[r], GetPointer(r, p)
  PROVE  TypeOK' /\ Inv' /\ VaultGrows
<1>. DEFINE old == run[r][p]
<1>. DEFINE at == vault[old.loc]
<1>1. old.cmd \in {"attach", "fetch"} /\ old.stage = "pointer" /\ old # NoRun /\ old \in Run
  BY NoRunIsNone, Reads DEF GetPointer, NoRunFacts
<1>2. CASE at.current = None
  BY <1>1, <1>2, EndsFacts DEF GetPointer
<1>3. CASE at.current # None
  <2>1. /\ old.loc \in Locations /\ LocationOK(old.loc)
        /\ old.cmd = "fetch" => local[r].last \in at.states
    BY <1>1, ReadersPlace
  <2>2. at.current \in at.states /\ at.states \subseteq sealed[at.current].rows /\ at.current \in 0..MaxStamps
    BY <1>3, <2>1 DEF LocationOK, TypeOK, Vault
  <2>3. PICK me : me = [old EXCEPT !.stage = "snapshot", !.version = at.current]
    OBVIOUS
  <2>4. RunIs(r, p, me) /\ UNCHANGED <<vault, sealed, local, minted>>
    BY <1>3, <2>3 DEF GetPointer, RunIs
  <2>5. /\ me \in Run /\ me.cmd = old.cmd /\ me.stage = "snapshot" /\ me.key = old.key
        /\ me.loc = old.loc /\ me.version = at.current
    BY <1>1, <2>2, <2>3 DEF Run, Stages
  <2>6. run'[r][p] = me
    BY <2>4, <2>5, RunUpdate
  <2>7. AttachOK(r, p)' /\ FetchOK(r, p)'
    <3>1. AttachOK(r, p) /\ FetchOK(r, p)
      BY DEF Inv, RunOK
    <3>2. AttachOK(r, p)'
      BY <1>1, <2>2, <2>4, <2>5, <2>6, <3>1 DEF AttachOK, Published
    <3>3. FetchOK(r, p)'
      BY <1>1, <2>1, <2>2, <2>4, <2>5, <2>6, <3>1 DEF FetchOK
    <3>. QED BY <3>2, <3>3
  <2>8. RunOK(r, p)'
    BY <1>1, <2>5, <2>6, <2>7 DEF RunOK, InitOK
  <2>. QED BY <1>1, <2>4, <2>5, <2>8, OnlyReads
<1>. QED BY <1>2, <1>3

LEMMA GetSnapshotStep ==
  ASSUME TypeOK, Inv, NEW r \in Roots, NEW p \in Pids[r], GetSnapshot(r, p)
  PROVE  TypeOK' /\ Inv' /\ VaultGrows
<1>. DEFINE old == run[r][p]
<1>1. old.cmd \in {"attach", "fetch"} /\ old.stage = "snapshot" /\ old # NoRun /\ old \in Run
  BY NoRunIsNone, Reads DEF GetSnapshot, NoRunFacts
<1>2. CASE Ends(r, p)
  BY <1>1, <1>2, EndsFacts DEF GetSnapshot
<1>3. CASE ~Ends(r, p)
  <2>1. /\ old.loc \in Locations /\ LocationOK(old.loc) /\ old.version \in vault[old.loc].states
    BY <1>1, <1>3, ReadersPlace DEF GetSnapshot
  <2>2. sealed[old.version].rows \subseteq Stamps
    BY <2>1 DEF TypeOK, Vault, Sealed
  <2>3. PICK me : me = [old EXCEPT !.stage = "db", !.rows = sealed[old.version].rows]
    OBVIOUS
  <2>4. RunIs(r, p, me) /\ UNCHANGED <<vault, sealed, local, minted>>
    BY <1>3, <2>3 DEF GetSnapshot, RunIs
  <2>5. /\ me \in Run /\ me.cmd = old.cmd /\ me.stage = "db" /\ me.key = old.key
        /\ me.loc = old.loc /\ me.version = old.version /\ me.rows = sealed[old.version].rows
    BY <1>1, <2>2, <2>3 DEF Run, Stages
  <2>6. run'[r][p] = me
    BY <2>4, <2>5, RunUpdate
  <2>7. AttachOK(r, p)' /\ FetchOK(r, p)'
    <3>1. AttachOK(r, p) /\ FetchOK(r, p)
      BY DEF Inv, RunOK
    <3>2. AttachOK(r, p)'
      BY <1>1, <2>4, <2>5, <2>6, <3>1 DEF AttachOK, Published
    <3>3. FetchOK(r, p)'
      BY <1>1, <2>4, <2>5, <2>6, <3>1 DEF FetchOK
    <3>. QED BY <3>2, <3>3
  <2>8. RunOK(r, p)'
    BY <1>1, <2>5, <2>6, <2>7 DEF RunOK, InitOK
  <2>. QED BY <1>1, <2>4, <2>5, <2>8, OnlyReads
<1>. QED BY <1>2, <1>3

LEMMA Leaves ==
  ASSUME TypeOK, Inv, NEW r \in Roots, NEW p \in Pids[r], run[r][p] # NoRun,
         RunIs(r, p, NoRun), NEW files \in Files, FilesAre(r, files),
         UNCHANGED <<vault, sealed, minted>>, RootOK(r)'
  PROVE  TypeOK' /\ Inv' /\ VaultGrows
<1>1. run'[r][p] = NoRun
  BY NoRunType, RunUpdate
<1>2. RunOK(r, p)'
  BY <1>1, NoRunIsNone DEF NoRunFacts, RunOK, InitOK, AttachOK, FetchOK
<1>3. ~Minted(NoRun)
  BY NoRunIsNone DEF NoRunFacts
<1>. QED BY <1>2, <1>3, NoRunType, SameVault, Alone, OnlyCommand

LEMMA Running ==
  ASSUME TypeOK, Inv, NEW r \in Roots, NEW p \in Pids[r], run[r][p].stage # "open"
  PROVE  run[r][p] # NoRun /\ run[r][p].cmd \in {"init", "attach", "fetch"} /\ run[r][p] \in Run
<1>1. run[r][p] # NoRun
  BY DEF NoRun
<1>. QED BY <1>1, Reads DEF Inv, RunOK, Run

LEMMA WriteDbStep ==
  ASSUME TypeOK, Inv, NEW r \in Roots, NEW p \in Pids[r], WriteDb(r, p)
  PROVE  TypeOK' /\ Inv' /\ VaultGrows
<1>. DEFINE old == run[r][p]
<1>1. /\ old.stage = "db" /\ old # NoRun /\ old \in Run /\ local[r] \in Files
      /\ old.cmd \in {"init", "attach", "fetch"} /\ UNCHANGED <<vault, sealed, minted>>
  BY Running, Reads DEF WriteDb
<1>2. old.cmd \in {"attach", "fetch"}
  BY <1>1 DEF Inv, RunOK, InitOK, Minting, Publishing, Published
<1>3. old.rows \subseteq Stamps
  BY <1>1 DEF Run
<1>4. CASE old.cmd = "fetch"
  <2>. DEFINE files == [Released(r, p) EXCEPT !.db = old.rows]
  <2>1. RunIs(r, p, NoRun) /\ FilesAre(r, files)
    BY <1>4 DEF WriteDb, RunIs, FilesAre
  <2>2. /\ files \in Files /\ files.remote = local[r].remote /\ files.manifest = local[r].manifest
        /\ files.last = local[r].last /\ files.db = old.rows
    BY <1>1, <1>3 DEF Released, Files, None
  <2>. HIDE DEF files
  <2>3. local'[r] = files
    BY <2>1 DEF FilesAre, TypeOK
  <2>. DEFINE l == local[r].remote
  <2>4. /\ FetchOK(r, p) /\ RootOK(r) /\ old.loc = l /\ l # None /\ l \in Locations
        /\ LocationOK(l)
    BY <1>1, <1>4 DEF Inv, RunOK, FetchOK, Files
  <2>5. /\ old.version \in vault[l].states /\ local[r].last \in old.rows
        /\ old.rows = sealed[old.version].rows
    BY <1>1, <1>4, <2>4 DEF FetchOK
  <2>6. sealed[old.version] = [key |-> vault[l].manifest, rows |-> old.rows]
    <3>1. sealed[old.version] \in Sealed /\ sealed[old.version].key = vault[l].manifest
      BY <2>4, <2>5 DEF LocationOK, TypeOK, Vault
    <3>. QED BY <2>5, <3>1 DEF Sealed
  <2>7. local[r].manifest = vault[l].manifest /\ local[r].last \in vault[l].states
    BY <2>4 DEF RootOK
  <2>8. RootOK(r)'
    BY <1>1, <2>2, <2>3, <2>4, <2>5, <2>6, <2>7 DEF RootOK
  <2>. QED BY <1>1, <2>1, <2>2, <2>8, Leaves
<1>5. CASE old.cmd = "attach"
  <2>. DEFINE files == [local[r] EXCEPT !.db = old.rows]
  <2>1. Goes(r, p, "manifest") /\ FilesAre(r, files)
    BY <1>5 DEF WriteDb, FilesAre, TypeOK
  <2>2. /\ files \in Files /\ files.remote = local[r].remote /\ files.db = old.rows
        /\ files.lock = local[r].lock
    BY <1>1, <1>3 DEF Files
  <2>. HIDE DEF files
  <2>3. local'[r] = files
    BY <2>1 DEF FilesAre, TypeOK
  <2>4. PICK me \in Run :
          /\ RunIs(r, p, me) /\ run'[r][p] = me /\ me.cmd = "attach" /\ me.stage = "manifest"
          /\ me.loc = old.loc /\ me.key = old.key /\ me.version = old.version /\ me.rows = old.rows
    BY <1>5, <2>1, Moves DEF Stages
  <2>5. AttachOK(r, p)
    BY DEF Inv, RunOK
  <2>6. AttachOK(r, p)'
    BY <1>1, <1>5, <2>2, <2>3, <2>4, <2>5 DEF AttachOK, Published
  <2>7. RunOK(r, p)' /\ RootOK(r)'
    BY <1>5, <2>2, <2>3, <2>4, <2>5, <2>6 DEF RunOK, InitOK, AttachOK, FetchOK, RootOK
  <2>8. ~Minted(me)
    BY <2>4 DEF Minted
  <2>. QED BY <1>1, <2>1, <2>2, <2>4, <2>7, <2>8, Proceeds
<1>. QED BY <1>2, <1>4, <1>5

LEMMA WriteManifestStep ==
  ASSUME TypeOK, Inv, NEW r \in Roots, NEW p \in Pids[r], WriteManifest(r, p)
  PROVE  TypeOK' /\ Inv' /\ VaultGrows
<1>. DEFINE old == run[r][p]
<1>. DEFINE files == [local[r] EXCEPT !.manifest = old.key]
<1>. DEFINE stage == IF old.cmd = "init" THEN "remote" ELSE "last"
<1>1. /\ old.stage = "manifest" /\ old # NoRun /\ old \in Run /\ local[r] \in Files
      /\ old.cmd \in {"init", "attach", "fetch"} /\ UNCHANGED <<vault, sealed, minted>>
  BY Running, Reads DEF WriteManifest
<1>2. old.cmd \in {"init", "attach"} /\ InitOK(r, p) /\ AttachOK(r, p)
  BY <1>1 DEF Inv, RunOK, FetchOK
<1>3. FilesAre(r, files) /\ Goes(r, p, stage) /\ stage \in Stages
  BY DEF WriteManifest, FilesAre, TypeOK, Stages
<1>4. /\ files \in Files /\ files.remote = local[r].remote /\ files.db = local[r].db
      /\ files.lock = local[r].lock /\ files.manifest = old.key /\ files.last = local[r].last
  BY <1>1 DEF Files, Run
<1>5. PICK me \in Run :
        /\ RunIs(r, p, me) /\ run'[r][p] = me /\ me.cmd = old.cmd /\ me.stage = stage
        /\ me.loc = old.loc /\ me.key = old.key /\ me.version = old.version /\ me.rows = old.rows
  BY <1>3, Moves
<1>. HIDE DEF files
<1>6. local'[r] = files
  BY <1>3 DEF FilesAre, TypeOK
<1>7. InitOK(r, p)'
  BY <1>1, <1>2, <1>4, <1>5, <1>6 DEF InitOK, Minting, Publishing, Published
<1>8. AttachOK(r, p)'
  BY <1>1, <1>2, <1>4, <1>5, <1>6 DEF AttachOK, Published
<1>9. RunOK(r, p)' /\ RootOK(r)'
  BY <1>2, <1>4, <1>5, <1>6, <1>7, <1>8 DEF RunOK, InitOK, AttachOK, FetchOK, RootOK
<1>10. Minted(me) => Minted(old) /\ me.version = old.version
  BY <1>1, <1>5 DEF Minted
<1>. QED BY <1>1, <1>3, <1>4, <1>5, <1>9, <1>10, Proceeds

LEMMA WriteLastStep ==
  ASSUME TypeOK, Inv, NEW r \in Roots, NEW p \in Pids[r], WriteLast(r, p)
  PROVE  TypeOK' /\ Inv' /\ VaultGrows
<1>. DEFINE old == run[r][p]
<1>. DEFINE files == [local[r] EXCEPT !.last = old.version]
<1>. DEFINE stage == IF old.cmd = "init" THEN "manifest" ELSE "remote"
<1>1. /\ old.stage = "last" /\ old # NoRun /\ old \in Run /\ local[r] \in Files
      /\ old.cmd \in {"init", "attach", "fetch"} /\ UNCHANGED <<vault, sealed, minted>>
  BY Running, Reads DEF WriteLast
<1>2. old.cmd \in {"init", "attach"} /\ InitOK(r, p) /\ AttachOK(r, p)
  BY <1>1 DEF Inv, RunOK, FetchOK
<1>3. FilesAre(r, files) /\ Goes(r, p, stage) /\ stage \in Stages
  BY DEF WriteLast, FilesAre, TypeOK, Stages
<1>4. /\ files \in Files /\ files.remote = local[r].remote /\ files.db = local[r].db
      /\ files.lock = local[r].lock /\ files.manifest = local[r].manifest
      /\ files.last = old.version
  BY <1>1 DEF Files, Run
<1>5. PICK me \in Run :
        /\ RunIs(r, p, me) /\ run'[r][p] = me /\ me.cmd = old.cmd /\ me.stage = stage
        /\ me.loc = old.loc /\ me.key = old.key /\ me.version = old.version /\ me.rows = old.rows
  BY <1>3, Moves
<1>. HIDE DEF files
<1>6. local'[r] = files
  BY <1>3 DEF FilesAre, TypeOK
<1>7. InitOK(r, p)'
  BY <1>1, <1>2, <1>4, <1>5, <1>6 DEF InitOK, Minting, Publishing, Published
<1>8. AttachOK(r, p)'
  BY <1>1, <1>2, <1>4, <1>5, <1>6 DEF AttachOK, Published
<1>9. RunOK(r, p)' /\ RootOK(r)'
  BY <1>2, <1>4, <1>5, <1>6, <1>7, <1>8 DEF RunOK, InitOK, AttachOK, FetchOK, RootOK
<1>10. Minted(me) => Minted(old) /\ me.version = old.version
  BY <1>1, <1>5 DEF Minted
<1>. QED BY <1>1, <1>3, <1>4, <1>5, <1>9, <1>10, Proceeds

(* remote.json comes last, and with it all the rest is of its location.    *)
LEMMA WriteRemoteStep ==
  ASSUME TypeOK, Inv, NEW r \in Roots, NEW p \in Pids[r], WriteRemote(r, p)
  PROVE  TypeOK' /\ Inv' /\ VaultGrows
<1>. DEFINE old == run[r][p]
<1>. DEFINE files == [Released(r, p) EXCEPT !.remote = old.loc]
<1>1. /\ old.stage = "remote" /\ old # NoRun /\ old \in Run /\ local[r] \in Files
      /\ old.cmd \in {"init", "attach", "fetch"} /\ UNCHANGED <<vault, sealed, minted>>
  BY Running, Reads DEF WriteRemote
<1>2. old.cmd \in {"init", "attach"} /\ InitOK(r, p) /\ AttachOK(r, p)
  BY <1>1 DEF Inv, RunOK, FetchOK
<1>3. RunIs(r, p, NoRun) /\ FilesAre(r, files)
  BY DEF WriteRemote, RunIs, FilesAre
<1>4. /\ files \in Files /\ files.remote = old.loc /\ files.db = local[r].db
      /\ files.manifest = local[r].manifest /\ files.last = local[r].last
  BY <1>1 DEF Released, Files, Run, None
<1>. HIDE DEF files
<1>5. local'[r] = files
  BY <1>3 DEF FilesAre, TypeOK
<1>6. old.loc \in Locations /\ LocationOK(old.loc)
  BY <1>2 DEF InitOK, AttachOK, Inv
<1>7. /\ local[r].manifest = vault[old.loc].manifest /\ local[r].last = old.version
      /\ old.version \in vault[old.loc].states /\ local[r].db = sealed[old.version].rows
  <2>1. CASE old.cmd = "init"
    BY <1>1, <1>2, <2>1 DEF InitOK, Published
  <2>2. CASE old.cmd = "attach"
    BY <1>1, <1>2, <2>2 DEF AttachOK, Published
  <2>. QED BY <1>2, <2>1, <2>2
<1>8. sealed[old.version] = [key |-> vault[old.loc].manifest, rows |-> local[r].db]
  <2>1. /\ sealed[old.version] \in Sealed /\ sealed[old.version].key = vault[old.loc].manifest
    BY <1>6, <1>7 DEF LocationOK, TypeOK, Vault
  <2>. QED BY <1>7, <2>1 DEF Sealed
<1>9. old.version \in local[r].db
  BY <1>6, <1>7 DEF LocationOK
<1>10. RootOK(r)'
  BY <1>1, <1>4, <1>5, <1>7, <1>8, <1>9 DEF RootOK
<1>. QED BY <1>1, <1>3, <1>4, <1>10, Leaves

LEMMA OtherCommitsStep ==
  ASSUME TypeOK, Inv, NEW l \in Locations, OtherCommits(l)
  PROVE  TypeOK' /\ Inv' /\ VaultGrows
<1>. DEFINE v == minted + 1
<1>. DEFINE at == vault[l]
<1>1. /\ at.current # None /\ minted < MaxStamps /\ minted' = v /\ UNCHANGED <<local, run>>
      /\ vault' = [vault EXCEPT ![l] = [at EXCEPT !.states = @ \union {v}, !.current = v]]
      /\ sealed' = [sealed EXCEPT ![v] = [key |-> at.manifest,
                                          rows |-> sealed[at.current].rows \union {v}]]
  <2>1. /\ at.current # None /\ minted < MaxStamps /\ minted' = v /\ UNCHANGED <<local, run>>
    BY DEF OtherCommits
  <2>2. vault' = [vault EXCEPT ![l] = [at EXCEPT !.states = @ \union {v}, !.current = v]]
    BY DEF OtherCommits, TypeOK
  <2>3. sealed' = [sealed EXCEPT ![v] = [key |-> at.manifest,
                                        rows |-> sealed[at.current].rows \union {v}]]
    BY DEF OtherCommits
  <2>. QED BY <2>1, <2>2, <2>3
<1>2. minted' = minted + 1 /\ minted \in Nat /\ v \in Stamps /\ v > minted /\ v # None /\ at \in Vault
  BY <1>1 DEF TypeOK, Stamps, None
<1>3. /\ LocationOK(l) /\ at.manifest # None /\ at.current \in at.states /\ at.current \in Stamps
      /\ at.states \subseteq sealed[at.current].rows /\ at.states \subseteq 1..minted
  BY <1>1, <1>2 DEF Inv, LocationOK, Vault
<1>4. /\ vault'[l].manifest = at.manifest /\ vault'[l].states = at.states \union {v}
      /\ vault'[l].current = v
      /\ \A k \in Locations \ {l} : vault'[k] = vault[k]
  BY <1>1, <1>2 DEF TypeOK, Vault
<1>5. /\ sealed'[v].key = at.manifest /\ sealed'[v].rows = sealed[at.current].rows \union {v}
      /\ \A w \in Stamps \ {v} : sealed'[w] = sealed[w]
  <2>1. v \in DOMAIN sealed /\ DOMAIN sealed = Stamps
    BY <1>2 DEF TypeOK
  <2>. HIDE DEF v, at
  <2>. QED BY <1>1, <2>1
<1>6. [at EXCEPT !.states = @ \union {v}, !.current = v] \in Vault
  <2>1. v \in 0..MaxStamps
    BY <1>2 DEF Stamps
  <2>. HIDE DEF v, at
  <2>. QED BY <1>2, <2>1 DEF Vault
<1>7. [key |-> at.manifest, rows |-> sealed[at.current].rows \union {v}] \in Sealed
  BY <1>2, <1>3 DEF Vault, Sealed, TypeOK
<1>8. vault' \in [Locations -> Vault] /\ sealed' \in [Stamps -> Sealed] /\ minted' \in 0..MaxStamps
  BY <1>1, <1>2, <1>6, <1>7 DEF TypeOK, Stamps
<1>. HIDE DEF v, at
<1>9. TypeOK'
  BY <1>1, <1>8 DEF TypeOK, RunType
<1>10. \A k \in Locations : vault[k].states \subseteq 1..minted /\ v \notin vault[k].states
                             /\ vault[k].states \subseteq Stamps
  BY <1>2 DEF Inv, LocationOK, TypeOK, Vault
<1>11. VaultGrows
  BY <1>4, <1>5, <1>10 DEF VaultGrows, at
<1>12. minted' >= minted /\ minted' \in Nat
  BY <1>2
<1>13. ASSUME NEW s \in Roots, NEW q \in Pids[s] PROVE RunOK(s, q)'
  <2>1. Undisturbed(s, q)
    <3>. SUFFICES ASSUME run[s][q].cmd = "init" PROVE Undisturbed(s, q)
      BY DEF Undisturbed
    <3>1. InitOK(s, q) /\ run[s][q].loc \in Locations
      BY DEF Inv, RunOK, InitOK
    <3>2. run[s][q].stage \in Publishing => run[s][q].loc # l
      BY <1>1, <3>1 DEF InitOK, at
    <3>3. run[s][q].stage \in Minting => run[s][q].version # v
      BY <1>2, <3>1 DEF InitOK, Minting
    <3>. QED BY <1>4, <3>1, <3>2, <3>3 DEF Undisturbed, InitOK, at
  <2>. QED BY <1>1, <1>11, <1>12, <2>1, RunKept
<1>14. ASSUME NEW k \in Locations PROVE LocationOK(k)'
  <2>1. CASE k = l
    <3>1. \A w \in at.states : sealed'[w] = sealed[w]
      BY <1>3, <1>5, <1>10 DEF at
    <3>2. at.states \union {v} \subseteq 1..minted'
      BY <1>1, <1>2, <1>3 DEF v
    <3>. QED BY <1>3, <1>4, <1>5, <2>1, <3>1, <3>2 DEF LocationOK, at
  <2>2. CASE k # l
    <3>1. LocationOK(k) /\ vault'[k] = vault[k] /\ \A w \in vault[k].states : sealed'[w] = sealed[w]
      BY <1>4, <1>5, <1>10, <2>2 DEF Inv
    <3>2. vault[k].states \subseteq 1..minted' /\ vault[k].current \in 0..MaxStamps
      BY <1>1, <1>2, <1>10 DEF TypeOK, Vault
    <3>. QED BY <3>1, <3>2 DEF LocationOK
  <2>. QED BY <2>1, <2>2
<1>15. \A s \in Roots : RootOK(s)'
  BY <1>1, <1>11, RootKept
<1>16. OneCommand' /\ OwnStamps'
  BY <1>1 DEF Inv, OneCommand, OwnStamps
<1>. QED BY <1>9, <1>11, <1>13, <1>14, <1>15, <1>16 DEF Inv

LEMMA InvStep ==
  ASSUME TypeOK, Inv, [Next]_vars
  PROVE  TypeOK' /\ Inv' /\ VaultGrows
<1>1. ASSUME NEW r \in Roots, NEW p \in Pids[r], NEW cmd \in {"init", "attach"}, NEW l \in Locations,
             Start(r, p, cmd, l)
      PROVE  TypeOK' /\ Inv' /\ VaultGrows
  BY <1>1, StartStep
<1>2. ASSUME NEW r \in Roots, NEW p \in Pids[r], Start(r, p, "fetch", None)
      PROVE  TypeOK' /\ Inv' /\ VaultGrows
  BY <1>2, StartStep
<1>3. ASSUME NEW r \in Roots, NEW p \in Pids[r], Step(r, p)
      PROVE  TypeOK' /\ Inv' /\ VaultGrows
  BY <1>3, CreateVaultStep, PutManifestStep, PutSnapshotStep, PutPointerStep, GetManifestStep,
     ReadConfigStep, GetPointerStep, GetSnapshotStep, WriteDbStep, WriteManifestStep,
     WriteLastStep, WriteRemoteStep DEF Step
<1>4. ASSUME NEW r \in Roots, NEW p \in Pids[r], Throws(r, p)
      PROVE  TypeOK' /\ Inv' /\ VaultGrows
  BY <1>4, EndsFacts DEF Throws
<1>5. ASSUME NEW r \in Roots, NEW p \in Pids[r], Kill(r, p)
      PROVE  TypeOK' /\ Inv' /\ VaultGrows
  <2>1. local' = [local EXCEPT ![r].lock = local[r].lock] /\ local[r].lock \in Nat
    BY <1>5 DEF Kill, TypeOK, Files
  <2>. QED BY <1>5, <2>1, Gone DEF Kill, RunIs
<1>6. ASSUME NEW r \in Roots, NEW p \in Pids[r], Signal(r, p)
      PROVE  TypeOK' /\ Inv' /\ VaultGrows
  BY <1>6, Gone DEF Signal, RunIs, None
<1>7. ASSUME UNCHANGED <<vault, sealed, local, run, minted>>
      PROVE  TypeOK' /\ Inv' /\ VaultGrows
  <2>1. TypeOK'
    BY <1>7 DEF TypeOK, RunType
  <2>2. Inv'
    BY <1>7 DEF Inv, OneCommand, OwnStamps, LocationOK, RootOK, RunOK, InitOK, AttachOK, FetchOK
  <2>. QED BY <1>7, <2>1, <2>2, SameVault
<1>8. ASSUME NEW r \in Roots, StrangerComes(r) \/ StrangerGoes(r)
      PROVE  TypeOK' /\ Inv' /\ VaultGrows
  BY <1>7, <1>8 DEF StrangerComes, StrangerGoes
<1>9. CASE UNCHANGED vars
  BY <1>7, <1>9 DEF vars
<1>. QED BY <1>1, <1>2, <1>3, <1>4, <1>5, <1>6, <1>8, <1>9, OtherCommitsStep DEF Next

LEMMA InvInit == Init => TypeOK /\ Inv
<1>. SUFFICES ASSUME Init PROVE TypeOK /\ Inv
  OBVIOUS
<1>1. NoVault \in Vault /\ Bare \in Files /\ [key |-> None, rows |-> {}] \in Sealed
  BY DEF NoVault, Vault, Bare, Files, Sealed, None
<1>2. \A r \in Roots : run[r] = [p \in Pids[r] |-> NoRun]
  BY DEF Init
<1>3. RunType
  BY <1>2, NoRunType DEF Init, RunType
<1>4. TypeOK
  BY <1>1, <1>3 DEF Init, TypeOK
<1>5. \A r \in Roots : \A p \in Pids[r] : run[r][p] = NoRun
  BY <1>2
<1>6. \A r \in Roots : \A p \in Pids[r] : RunOK(r, p)
  BY <1>5, NoRunIsNone DEF NoRunFacts, RunOK, InitOK, AttachOK, FetchOK
<1>7. OneCommand /\ OwnStamps
  BY <1>5, NoRunIsNone DEF NoRunFacts, OneCommand, OwnStamps
<1>8. \A l \in Locations : LocationOK(l)
  BY DEF Init, NoVault, LocationOK, None
<1>9. \A r \in Roots : RootOK(r)
  BY DEF Init, Bare, RootOK
<1>. QED BY <1>4, <1>6, <1>7, <1>8, <1>9 DEF Inv

LEMMA Invariant == Spec => [](TypeOK /\ Inv)
<1>1. TypeOK /\ Inv /\ [Next]_vars => (TypeOK /\ Inv)'
  BY InvStep
<1>. QED BY InvInit, <1>1, PTL DEF Spec

(***************************************************************************)
(* The theorems.                                                           *)
(***************************************************************************)

(* Every variable keeps the shape the rest of the argument relies on.      *)
THEOREM TypeCorrect == Spec => []TypeOK
BY Invariant, PTL

(* A root runs one command at a time, whatever is killed or started: the   *)
(* lock file names every command that runs (acquireLock).                  *)
THEOREM OneCommandHolds == Spec => []OneCommand
<1>1. Inv => OneCommand
  BY DEF Inv
<1>. QED BY Invariant, <1>1, PTL

(* Whatever inits meet at a location or fail there, a /current that is     *)
(* there names a snapshot that is there and that the manifest opens        *)
(* (runInitRemote's conditional PUTs, in their order).                     *)
THEOREM CurrentIsReadableHolds == Spec => []CurrentIsReadable
<1>1. TypeOK /\ Inv => CurrentIsReadable
  <2>. SUFFICES ASSUME TypeOK, Inv, NEW l \in Locations, vault[l].current # None
                PROVE  /\ vault[l].manifest # None /\ vault[l].current \in vault[l].states
                       /\ sealed[vault[l].current].key = vault[l].manifest
    BY DEF CurrentIsReadable
  <2>. QED BY DEF Inv, LocationOK
<1>. QED BY Invariant, <1>1, PTL

(* A root with a remote.json is all of one vault, whatever earlier attempts *)
(* left in .sync1/ and whatever is fetched into it.                        *)
THEOREM RootIsOfOneVaultHolds == Spec => []RootIsOfOneVault
<1>1. Inv => RootIsOfOneVault
  BY DEF Inv, RootOK, RootIsOfOneVault
<1>. QED BY Invariant, <1>1, PTL

(* What S3 holds of a location is only added to: its manifest stays, and a *)
(* snapshot that is named by none but its stamp is never written again.    *)
(* That is what lets attach and fetch read a location in several calls     *)
(* while others init and commit there.                                     *)
THEOREM VaultsOnlyGrow == Spec => [][VaultGrows]_vars
<1>1. TypeOK /\ Inv /\ [Next]_vars => [VaultGrows]_vars
  BY InvStep
<1>. QED BY Invariant, <1>1, PTL DEF Spec
=============================================================================
