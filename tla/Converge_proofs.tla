--------------------------- MODULE Converge_proofs ---------------------------
(***************************************************************************)
(* Proofs of what Converge promises, for any objects, paths, state.dbs,    *)
(* machines, pool sizes and bounds: every object keeps a class S3 knows,   *)
(* and no converge makes one colder than a path that holds it allows.      *)
(***************************************************************************)
EXTENDS Converge, WellFoundedInduction, TLAPS

(***************************************************************************)
(* Policies.                                                               *)
(***************************************************************************)

(* Naturals are well-ordered.                                              *)
LEMMA LeastOf ==
  ASSUME NEW S \in SUBSET Nat, S # {}
  PROVE  Min(S) \in S /\ \A k \in S : Min(S) <= k
<1>1. IsWellFoundedOn({ss \in Nat \X Nat : ss[1] < ss[2]}, Nat)
  BY NatLessThanWellFounded DEF OpToRel, IsWellFoundedOn
<1>2. PICK R : R = {ss \in Nat \X Nat : ss[1] < ss[2]}
  OBVIOUS
<1>3. \A a, b \in Nat : a < b => <<a, b>> \in R
  BY <1>2
<1>4. \E x \in S : \A y \in S : ~ (<<y, x>> \in R)
  BY <1>1, <1>2, WFMin
<1>5. PICK x \in S : \A y \in S : ~ (<<y, x>> \in R)
  BY <1>4
<1>6. ASSUME NEW y \in S PROVE x <= y
  <2>1. x \in Nat /\ y \in Nat
    OBVIOUS
  <2>2. ~ (y < x)
    BY <1>3, <1>5, <2>1
  <2>. QED BY <2>1, <2>2
<1>7. \E z \in S : \A y \in S : z <= y
  BY <1>6
<1>. QED BY <1>7 DEF Min

LEMMA ClassFacts ==
  /\ Classes = {"STANDARD", "GLACIER", "DEEP_ARCHIVE"}
  /\ \A c \in Classes : Coldness[c] \in 0..2
  /\ \A c, d \in Classes : Coldness[c] = Coldness[d] => c = d
<1>1. Classes = {"STANDARD", "GLACIER", "DEEP_ARCHIVE"}
  BY DEF Classes, Coldness
<1>. QED BY <1>1 DEF Coldness

LEMMA TableFacts ==
  ASSUME NEW table \in Tables
  PROVE  /\ table.entries \in [Paths -> Objects] /\ table.policies \in Seq(Policy)
         /\ table.default \in Classes
         /\ DOMAIN table.policies = 1..Len(table.policies) /\ Len(table.policies) \in Nat
         /\ \A i \in DOMAIN table.policies : table.policies[i].class \in Classes
<1>1. table \in Table
  BY TablesAssumption
<1>2. table.policies \in Seq(Policy)
  BY <1>1 DEF Table
<1>3. \A i \in DOMAIN table.policies : table.policies[i] \in Policy
  BY <1>2
<1>. QED BY <1>1, <1>2, <1>3 DEF Table, Policy

(* The class of a path is that of its first matching policy.               *)
LEMMA PathClass ==
  ASSUME NEW table \in Tables, NEW p \in Paths
  PROVE  LET c == EvaluatePathTargetClass(p, table)
             implied == {i \in DOMAIN table.policies :
                           /\ p \in table.policies[i].glob
                           /\ \A j \in 1..(i - 1) : p \notin table.policies[j].glob}
         IN /\ c \in Classes
            /\ \A i \in implied : c = table.policies[i].class
            /\ implied = {} => c = table.default
<1>. DEFINE c == EvaluatePathTargetClass(p, table)
            matching == {i \in DOMAIN table.policies : p \in table.policies[i].glob}
            implied == {i \in DOMAIN table.policies :
                          /\ p \in table.policies[i].glob
                          /\ \A j \in 1..(i - 1) : p \notin table.policies[j].glob}
<1>1. matching \subseteq 1..Len(table.policies) /\ Len(table.policies) \in Nat
  BY TableFacts
<1>2. implied \subseteq matching
  OBVIOUS
<1>3. CASE matching = {}
  BY <1>2, <1>3, TableFacts DEF EvaluatePathTargetClass
<1>4. CASE matching # {}
  <2>1. PICK first : first = Min(matching)
    OBVIOUS
  <2>2. first \in matching /\ \A k \in matching : first <= k
    <3>1. matching \in SUBSET Nat
      BY <1>1
    <3>2. PICK ms \in SUBSET Nat : ms = matching
      BY <3>1
    <3>3. Min(ms) \in ms /\ \A k \in ms : Min(ms) <= k
      BY <1>4, <3>2, LeastOf
    <3>. QED BY <2>1, <3>2, <3>3
  <2>3. c = table.policies[first].class
    BY <1>4, <2>1 DEF EvaluatePathTargetClass
  <2>4. first \in implied
    <3>1. ASSUME NEW j \in 1..(first - 1) PROVE p \notin table.policies[j].glob
      <4>1. first \in 1..Len(table.policies)
        BY <1>1, <2>2
      <4>2. j \in DOMAIN table.policies /\ ~ (first <= j)
        BY <1>1, <4>1, TableFacts
      <4>. QED BY <2>2, <4>2
    <3>. QED BY <2>2, <3>1
  <2>5. ASSUME NEW i \in implied PROVE i = first
    <3>1. i \in Nat /\ first \in 1..Len(table.policies) /\ first <= i
      BY <1>1, <1>2, <2>2
    <3>2. ~ (first \in 1..(i - 1))
      BY <2>2
    <3>. QED BY <1>1, <3>1, <3>2
  <2>. QED BY <2>2, <2>3, <2>4, <2>5, TableFacts
<1>. QED BY <1>3, <1>4

(* The class of an object is the warmest its paths ask for.                *)
LEMMA HashClass ==
  ASSUME NEW table \in Tables, NEW paths \in SUBSET Paths, paths # {}
  PROVE  LET c == ResolveHashTargetClass(paths, table)
         IN /\ c \in Classes
            /\ \A p \in paths : Coldness[c] <= Coldness[EvaluatePathTargetClass(p, table)]
<1>. DEFINE targets == {EvaluatePathTargetClass(p, table) : p \in paths}
<1>1. targets # {} /\ targets \subseteq Classes
  BY PathClass
<1>2. \E t \in targets : \A u \in targets : Coldness[t] <= Coldness[u]
  <2>1. PICK ts : ts = targets
    OBVIOUS
  <2>2. \E t \in ts : \A u \in ts : Coldness[t] <= Coldness[u]
    <3>1. CASE "STANDARD" \in ts
      BY <1>1, <2>1, <3>1, ClassFacts DEF Coldness
    <3>2. CASE "STANDARD" \notin ts /\ "GLACIER" \in ts
      BY <1>1, <2>1, <3>2, ClassFacts DEF Coldness
    <3>3. CASE "STANDARD" \notin ts /\ "GLACIER" \notin ts
      BY <1>1, <2>1, <3>3, ClassFacts DEF Coldness
    <3>. QED BY <3>1, <3>2, <3>3
  <2>. QED BY <2>1, <2>2
<1>3. PICK c : c = ResolveHashTargetClass(paths, table)
  OBVIOUS
<1>4. c \in targets /\ \A u \in targets : Coldness[c] <= Coldness[u]
  BY <1>2, <1>3 DEF ResolveHashTargetClass
<1>. QED BY <1>1, <1>3, <1>4

(***************************************************************************)
(* The inductive invariant: a machine that is not converging has no jobs;  *)
(* every hash a run has to deal with is held by a path of the state.db it  *)
(* works from, which does not change under it; and only --apply gets past  *)
(* the HEAD.                                                               *)
(***************************************************************************)

Applying == {"restore", "copy", "parts", "complete", "abort"}

JobsHavePaths ==
  \A m \in Machines :
    /\ run[m].pc = "idle" => run[m] = IdleRun
    /\ \A o \in Objects :
         /\ o \in run[m].todo \/ run[m].stage[o] # "none" => PathsOf(o, db[m]) # {}
         /\ run[m].stage[o] \in Applying => run[m].apply

ConvInv == TypeOK /\ JobsHavePaths

LEMMA IdleTyped == IdleRun \in Run
<1>1. [o \in Objects |-> "none"] \in [Objects -> Stages]
  BY DEF Stages
<1>. QED BY <1>1 DEF IdleRun, Run

(* An object the run deals with has a class its paths agree on.            *)
LEMMA TargetTyped ==
  ASSUME TypeOK, NEW m \in Machines, NEW o \in Objects, PathsOf(o, db[m]) # {}
  PROVE  TargetClass(m, o) \in Classes
<1>1. db[m] \in Tables /\ PathsOf(o, db[m]) \in SUBSET Paths
  BY DEF TypeOK, PathsOf
<1>. QED BY <1>1, HashClass DEF TargetClass

LEMMA FreshTyped == \A c \in Classes : Fresh(c) \in Object
BY DEF Fresh, Object, Restores

(* A job that goes from one stage to another keeps the invariant.          *)
LEMMA StageKeeps ==
  ASSUME ConvInv, NEW m \in Machines, NEW o \in Objects, NEW stage \in Stages,
         Stage(m, o, stage), UNCHANGED db, run[m].stage[o] # "none",
         stage \in Applying => run[m].apply
  PROVE  run' \in [Machines -> Run] /\ JobsHavePaths'
<1>1. run \in [Machines -> Run] /\ run[m] \in Run
  BY DEF ConvInv, TypeOK
<1>2. PICK st : st = [run[m].stage EXCEPT ![o] = stage]
  OBVIOUS
<1>3. st \in [Objects -> Stages] /\ st[o] = stage
      /\ \A q \in Objects : q # o => st[q] = run[m].stage[q]
  BY <1>1, <1>2 DEF Run
<1>4. PICK r : r = [run[m] EXCEPT !.stage = st]
  OBVIOUS
<1>5. r \in Run /\ r.pc = run[m].pc /\ r.apply = run[m].apply /\ r.todo = run[m].todo
      /\ r.stage = st
  BY <1>1, <1>3, <1>4 DEF Run
<1>6. run' = [run EXCEPT ![m] = r]
  BY <1>1, <1>2, <1>4 DEF Stage
<1>7. run' \in [Machines -> Run] /\ run'[m] = r
      /\ \A n \in Machines : n # m => run'[n] = run[n]
  BY <1>1, <1>5, <1>6
<1>8. run[m].pc # "idle"
  BY DEF ConvInv, JobsHavePaths, IdleRun
<1>9. PathsOf(o, db[m]) # {}
  BY DEF ConvInv, JobsHavePaths
<1>10. JobsHavePaths'
  <2>1. ASSUME NEW n \in Machines, n # m
        PROVE  /\ run'[n].pc = "idle" => run'[n] = IdleRun
               /\ \A q \in Objects :
                    /\ q \in run'[n].todo \/ run'[n].stage[q] # "none" => PathsOf(q, db[n]) # {}
                    /\ run'[n].stage[q] \in Applying => run'[n].apply
    BY <1>7, <2>1 DEF ConvInv, JobsHavePaths
  <2>2. /\ run'[m].pc = "idle" => run'[m] = IdleRun
        /\ \A q \in Objects :
             /\ q \in run'[m].todo \/ run'[m].stage[q] # "none" => PathsOf(q, db[m]) # {}
             /\ run'[m].stage[q] \in Applying => run'[m].apply
    BY <1>3, <1>5, <1>7, <1>8, <1>9 DEF ConvInv, JobsHavePaths
  <2>3. \A n \in Machines :
          /\ run'[n].pc = "idle" => run'[n] = IdleRun
          /\ \A q \in Objects :
               /\ q \in run'[n].todo \/ run'[n].stage[q] # "none" => PathsOf(q, db[n]) # {}
               /\ run'[n].stage[q] \in Applying => run'[n].apply
    BY <2>1, <2>2
  <2>. QED BY <2>3 DEF JobsHavePaths, PathsOf, IdleRun
<1>. QED BY <1>7, <1>10

(* A run that starts anew, or ends, keeps the invariant.                   *)
LEMMA RunKeeps ==
  ASSUME ConvInv, NEW m \in Machines, NEW r \in Run, run' = [run EXCEPT ![m] = r],
         UNCHANGED db,
         r.pc = "idle" => r = IdleRun,
         \A o \in Objects : o \in r.todo \/ r.stage[o] # "none" => PathsOf(o, db[m]) # {},
         \A o \in Objects : r.stage[o] \in Applying => r.apply
  PROVE  run' \in [Machines -> Run] /\ JobsHavePaths'
<1>1. run' \in [Machines -> Run] /\ run'[m] = r
      /\ \A n \in Machines : n # m => run'[n] = run[n]
  BY DEF ConvInv, TypeOK
<1>2. \A n \in Machines :
        /\ run'[n].pc = "idle" => run'[n] = IdleRun
        /\ \A q \in Objects :
             /\ q \in run'[n].todo \/ run'[n].stage[q] # "none" => PathsOf(q, db[n]) # {}
             /\ run'[n].stage[q] \in Applying => run'[n].apply
  <2>1. ASSUME NEW n \in Machines, n # m
        PROVE  /\ run'[n].pc = "idle" => run'[n] = IdleRun
               /\ \A q \in Objects :
                    /\ q \in run'[n].todo \/ run'[n].stage[q] # "none" => PathsOf(q, db[n]) # {}
                    /\ run'[n].stage[q] \in Applying => run'[n].apply
    BY <1>1, <2>1 DEF ConvInv, JobsHavePaths
  <2>. QED BY <1>1, <2>1
<1>3. \A n \in Machines, q \in Objects : PathsOf(q, db'[n]) = PathsOf(q, db[n])
  OBVIOUS
<1>. QED BY <1>1, <1>2, <1>3, Zenon DEF JobsHavePaths, PathsOf, IdleRun

(* A machine that starts anew, or ends, in the other half of its state.    *)
LEMMA IdleKeeps ==
  ASSUME ConvInv, NEW m \in Machines, run' = [run EXCEPT ![m] = IdleRun], UNCHANGED db
  PROVE  run' \in [Machines -> Run] /\ JobsHavePaths'
<1>1. IdleRun.todo = {} /\ \A o \in Objects : IdleRun.stage[o] = "none"
  BY DEF IdleRun
<1>2. "none" \notin Applying
  BY DEF Applying
<1>. QED BY <1>1, <1>2, IdleTyped, RunKeeps

(***************************************************************************)
(* The steps of the invariant.                                             *)
(***************************************************************************)

LEMMA ConvInit == Init => ConvInv
<1>. SUFFICES ASSUME Init PROVE ConvInv
  OBVIOUS
<1>1. stored \in [Objects -> Object]
  BY FreshTyped, TablesAssumption DEF Init
<1>2. run \in [Machines -> Run] /\ \A m \in Machines : run[m] = IdleRun
  BY IdleTyped DEF Init
<1>3. TypeOK
  BY <1>1, <1>2, BoundsAssumption DEF Init, TypeOK
<1>4. JobsHavePaths
  BY <1>2 DEF JobsHavePaths, IdleRun, Applying
<1>. QED BY <1>3, <1>4 DEF ConvInv

LEMMA FaultTyped ==
  ASSUME TypeOK, Fault \/ UNCHANGED faults
  PROVE  faults' \in 0..MaxFaults
<1>1. faults \in 0..MaxFaults
  BY DEF TypeOK
<1>2. UNCHANGED faults \/ (faults < MaxFaults /\ faults' = faults + 1)
  BY DEF Fault
<1>. QED BY <1>1, <1>2, BoundsAssumption

(* Only the restored copy of an object changes.                            *)
LEMMA RestoreTyped ==
  ASSUME TypeOK, NEW o \in Objects, NEW left \in Restores,
         stored' = [stored EXCEPT ![o].restore = left]
  PROVE  /\ stored' \in [Objects -> Object]
         /\ \A q \in Objects : stored'[q].class = stored[q].class
<1>1. stored \in [Objects -> Object] /\ stored[o] \in Object
  BY DEF TypeOK
<1>2. PICK b : b = [stored[o] EXCEPT !.restore = left]
  OBVIOUS
<1>3. b \in Object /\ b.class = stored[o].class
  BY <1>1, <1>2 DEF Object
<1>4. stored' = [stored EXCEPT ![o] = b]
  BY <1>1, <1>2
<1>. QED BY <1>1, <1>3, <1>4

LEMMA RestoredTyped ==
  ASSUME TypeOK, NEW o \in Objects, stored' = Restored(o)
  PROVE  /\ stored' \in [Objects -> Object]
         /\ \A q \in Objects : stored'[q].class = stored[q].class
<1>1. PICK left : left = IF stored[o].restore = "ready" THEN "ready" ELSE "ongoing"
  OBVIOUS
<1>2. left \in Restores /\ stored' = [stored EXCEPT ![o].restore = left]
  BY <1>1 DEF Restored, Restores
<1>. QED BY <1>2, RestoreTyped

(* An object is copied onto itself in another class.                       *)
LEMMA CopiedTyped ==
  ASSUME TypeOK, NEW o \in Objects, NEW c \in Classes,
         stored' = [stored EXCEPT ![o] = Fresh(c)]
  PROVE  /\ stored' \in [Objects -> Object] /\ stored'[o].class = c
         /\ \A q \in Objects : q # o => stored'[q] = stored[q]
<1>1. Fresh(c) \in Object /\ Fresh(c).class = c
  BY FreshTyped DEF Fresh
<1>. QED BY <1>1 DEF TypeOK

LEMMA CommitInv == ConvInv /\ Commit => ConvInv'
<1>. SUFFICES ASSUME ConvInv, Commit PROVE ConvInv'
  OBVIOUS
<1>1. commits < MaxCommits /\ commits' = commits + 1 /\ vault' \in Tables
      /\ UNCHANGED <<stored, db, run, uploads, others, faults>>
  BY DEF Commit
<1>2. commits' \in 0..MaxCommits
  BY <1>1, BoundsAssumption DEF ConvInv, TypeOK
<1>. QED BY <1>1, <1>2 DEF ConvInv, TypeOK, JobsHavePaths, PathsOf, IdleRun

LEMMA FetchInv ==
  ASSUME ConvInv, NEW m \in Machines, Fetch(m)
  PROVE  ConvInv'
<1>1. run[m].pc = "idle" /\ db' = [db EXCEPT ![m] = vault]
      /\ UNCHANGED <<stored, vault, run, uploads, commits, others, faults>>
  BY DEF Fetch
<1>2. TypeOK'
  BY <1>1 DEF ConvInv, TypeOK
<1>3. \A n \in Machines : n # m => db'[n] = db[n]
  BY <1>1 DEF ConvInv, TypeOK
<1>4. run[m] = IdleRun
  BY <1>1 DEF ConvInv, JobsHavePaths
<1>5. run[m].todo = {} /\ \A o \in Objects : run[m].stage[o] = "none"
  BY <1>4 DEF IdleRun
<1>6. \A n \in Machines :
        /\ run[n].pc = "idle" => run[n] = IdleRun
        /\ \A q \in Objects :
             /\ q \in run[n].todo \/ run[n].stage[q] # "none" => PathsOf(q, db'[n]) # {}
             /\ run[n].stage[q] \in Applying => run[n].apply
  <2>1. ASSUME NEW n \in Machines, n # m
        PROVE  /\ run[n].pc = "idle" => run[n] = IdleRun
               /\ \A q \in Objects :
                    /\ q \in run[n].todo \/ run[n].stage[q] # "none" => PathsOf(q, db'[n]) # {}
                    /\ run[n].stage[q] \in Applying => run[n].apply
    BY <1>3, <2>1 DEF ConvInv, JobsHavePaths
  <2>2. \A q \in Objects : run[m].stage[q] \notin Applying
    BY <1>5 DEF Applying
  <2>. QED BY <1>4, <1>5, <2>1, <2>2
<1>7. JobsHavePaths'
  BY <1>1, <1>6 DEF JobsHavePaths, PathsOf, IdleRun
<1>. QED BY <1>2, <1>7 DEF ConvInv

LEMMA ElsewhereInv ==
  ASSUME ConvInv, NEW o \in Objects, Elsewhere(o)
  PROVE  ConvInv'
<1>1. others < MaxOthers /\ others' = others + 1
      /\ UNCHANGED <<vault, db, run, uploads, commits, faults>>
  BY DEF Elsewhere
<1>2. others' \in 0..MaxOthers
  BY <1>1, BoundsAssumption DEF ConvInv, TypeOK
<1>3. stored' \in [Objects -> Object]
  <2>1. CASE stored' = Restored(o)
    BY <2>1, RestoredTyped DEF ConvInv
  <2>2. ASSUME NEW table \in Tables, PathsOf(o, table) # {},
               stored' = [stored EXCEPT ![o] =
                            Fresh(ResolveHashTargetClass(PathsOf(o, table), table))]
        PROVE  stored' \in [Objects -> Object]
    <3>1. ResolveHashTargetClass(PathsOf(o, table), table) \in Classes
      BY <2>2, HashClass DEF PathsOf
    <3>. QED BY <2>2, <3>1, CopiedTyped DEF ConvInv
  <2>. QED BY <2>1, <2>2 DEF Elsewhere
<1>. QED BY <1>1, <1>2, <1>3 DEF ConvInv, TypeOK, JobsHavePaths, PathsOf, IdleRun

LEMMA StartInv ==
  ASSUME ConvInv, NEW m \in Machines, NEW filter \in Filters, NEW apply \in BOOLEAN,
         Start(m, filter, apply)
  PROVE  ConvInv'
<1>1. UNCHANGED <<stored, vault, db, uploads, commits, others, faults>>
  BY DEF Start
<1>2. PICK hashes : hashes = {db[m].entries[p] : p \in filter}
  OBVIOUS
<1>3. PICK r : r = [IdleRun EXCEPT !.pc = "run", !.apply = apply, !.todo = hashes]
  OBVIOUS
<1>4. run' = [run EXCEPT ![m] = r]
  BY <1>2, <1>3 DEF Start
<1>5. filter \subseteq Paths /\ db[m] \in Tables
  BY FilterAssumption DEF ConvInv, TypeOK
<1>6. hashes \subseteq Objects
  BY <1>2, <1>5, TableFacts
<1>7. r \in Run /\ r.pc = "run" /\ r.apply = apply /\ r.todo = hashes
      /\ r.stage = IdleRun.stage
  BY <1>3, <1>6, IdleTyped DEF Run
<1>8. \A o \in Objects : r.stage[o] = "none"
  BY <1>7 DEF IdleRun
<1>9. \A o \in hashes : PathsOf(o, db[m]) # {}
  BY <1>2, <1>5 DEF PathsOf
<1>10. "none" \notin Applying
  BY DEF Applying
<1>11. run' \in [Machines -> Run] /\ JobsHavePaths'
  BY <1>1, <1>4, <1>7, <1>8, <1>9, <1>10, RunKeeps
<1>. QED BY <1>1, <1>11 DEF ConvInv, TypeOK

LEMMA DispatchInv ==
  ASSUME ConvInv, NEW m \in Machines, NEW o \in Objects, Dispatch(m, o)
  PROVE  ConvInv'
<1>1. o \in run[m].todo /\ UNCHANGED <<stored, vault, db, uploads, commits, others, faults>>
  BY DEF Dispatch
<1>2. run[m] \in Run
  BY DEF ConvInv, TypeOK
<1>3. PICK st : st = [run[m].stage EXCEPT ![o] = "queued"]
  OBVIOUS
<1>4. st \in [Objects -> Stages] /\ st[o] = "queued"
      /\ \A q \in Objects : q # o => st[q] = run[m].stage[q]
  BY <1>2, <1>3 DEF Run, Stages
<1>5. PICK r : r = [run[m] EXCEPT !.todo = @ \ {o}, !.stage = st]
  OBVIOUS
<1>6. r \in Run /\ r.pc = run[m].pc /\ r.apply = run[m].apply /\ r.stage = st
      /\ r.todo = run[m].todo \ {o}
  BY <1>2, <1>4, <1>5 DEF Run
<1>7. run' = [run EXCEPT ![m] = r]
  BY <1>3, <1>5 DEF Dispatch
<1>8. run[m].pc # "idle"
  BY <1>1 DEF ConvInv, JobsHavePaths, IdleRun
<1>9. "queued" \notin Applying
  BY DEF Applying
<1>10. \A q \in Objects : q \in r.todo \/ r.stage[q] # "none" => PathsOf(q, db[m]) # {}
  BY <1>1, <1>4, <1>6 DEF ConvInv, JobsHavePaths
<1>11. \A q \in Objects : r.stage[q] \in Applying => r.apply
  BY <1>4, <1>6, <1>9 DEF ConvInv, JobsHavePaths
<1>12. run' \in [Machines -> Run] /\ JobsHavePaths'
  BY <1>1, <1>6, <1>7, <1>8, <1>10, <1>11, RunKeeps
<1>. QED BY <1>1, <1>12 DEF ConvInv, TypeOK

(* The stage a HEAD leads to, and what it takes.                           *)
LEMMA HeadTyped ==
  ASSUME ConvInv, NEW m \in Machines, NEW o \in Objects, run[m].stage[o] = "queued"
  PROVE  /\ StageAfterHead(m, o) \in {"none", "restore", "copy"}
         /\ StageAfterHead(m, o) \in Applying => run[m].apply
<1>1. stored[o] \in Object /\ run[m] \in Run
  BY DEF ConvInv, TypeOK
<1>2. run[m].apply \in BOOLEAN
  BY <1>1 DEF Run
<1>3. PICK status : status = ClassifyArchiveStatus(stored[o])
  OBVIOUS
<1>4. status \in {"immediate", "needs-restore-request", "restore-ongoing", "restore-ready",
                  "restore-expired-needs-reissue"}
  BY <1>1, <1>3 DEF ClassifyArchiveStatus, Object, Restores
<1>5. PICK action : action = DecideStorageClassAction(stored[o].class, TargetClass(m, o), status)
  OBVIOUS
<1>6. action \in {"already-correct", "restore-ongoing", "needs-restore-request",
                  "immediate-copy", "finalize-copy"}
  BY <1>4, <1>5 DEF DecideStorageClassAction
<1>7. StageAfterHead(m, o) =
        CASE ~run[m].apply \/ action \in {"already-correct", "restore-ongoing"} -> "none"
          [] run[m].apply /\ action = "needs-restore-request" -> "restore"
          [] run[m].apply /\ action \in {"immediate-copy", "finalize-copy"} -> "copy"
  BY <1>3, <1>5 DEF StageAfterHead
<1>. QED BY <1>2, <1>6, <1>7 DEF Applying

LEMMA JobInv ==
  ASSUME ConvInv, NEW m \in Machines, NEW o \in Objects, Job(m, o)
  PROVE  ConvInv'
<1>0. /\ {"none", "restore", "copy", "parts", "complete", "abort"} \subseteq Stages
      /\ "none" \notin Applying /\ "queued" \notin Applying
      /\ {"restore", "copy", "parts", "complete", "abort"} = Applying
  BY DEF Stages, Applying
<1>t. run[m].stage[o] # "none" => TargetClass(m, o) \in Classes
  BY TargetTyped DEF ConvInv, JobsHavePaths
<1>f. ASSUME Fault \/ UNCHANGED faults PROVE faults' \in 0..MaxFaults
  BY <1>f, FaultTyped DEF ConvInv
<1>1. CASE Dispatch(m, o)
  BY <1>1, DispatchInv
<1>2. CASE HeadObject(m, o)
  <2>1. run[m].stage[o] = "queued" /\ (Fault \/ UNCHANGED faults)
        /\ UNCHANGED <<stored, vault, db, uploads, commits, others>>
    BY <1>2 DEF HeadObject
  <2>2. \E stage \in {"none", "restore", "copy"} :
          Stage(m, o, stage) /\ (stage \in Applying => run[m].apply)
    BY <1>0, <1>2, <2>1, HeadTyped DEF HeadObject, JobEnds
  <2>3. run' \in [Machines -> Run] /\ JobsHavePaths'
    BY <1>0, <2>1, <2>2, StageKeeps
  <2>. QED BY <1>f, <2>1, <2>3 DEF ConvInv, TypeOK
<1>3. CASE RequestRestore(m, o)
  <2>1. run[m].stage[o] = "restore" /\ (Fault \/ UNCHANGED faults) /\ Stage(m, o, "none")
        /\ UNCHANGED <<vault, db, uploads, commits, others>>
        /\ (stored' = Restored(o) \/ stored' = stored)
    BY <1>3 DEF RequestRestore, JobEnds
  <2>2. run' \in [Machines -> Run] /\ JobsHavePaths'
    BY <1>0, <2>1, StageKeeps
  <2>3. stored' \in [Objects -> Object]
    BY <2>1, RestoredTyped DEF ConvInv, TypeOK
  <2>. QED BY <1>f, <2>1, <2>2, <2>3 DEF ConvInv, TypeOK
<1>4. CASE CopySmall(m, o)
  <2>1. run[m].stage[o] = "copy" /\ (Fault \/ UNCHANGED faults) /\ Stage(m, o, "none")
        /\ UNCHANGED <<vault, db, uploads, commits, others>>
        /\ (stored' = [stored EXCEPT ![o] = Fresh(TargetClass(m, o))] \/ stored' = stored)
    BY <1>4 DEF CopySmall, JobEnds
  <2>2. run' \in [Machines -> Run] /\ JobsHavePaths'
    BY <1>0, <2>1, StageKeeps
  <2>3. stored' \in [Objects -> Object]
    BY <1>t, <2>1, CopiedTyped DEF ConvInv, TypeOK
  <2>. QED BY <1>f, <2>1, <2>2, <2>3 DEF ConvInv, TypeOK
<1>5. CASE CreateMultipart(m, o)
  <2>1. run[m].stage[o] = "copy" /\ (Fault \/ UNCHANGED faults)
        /\ UNCHANGED <<stored, vault, db, commits, others>>
        /\ uploads' \subseteq uploads \cup {<<m, o>>}
        /\ \E stage \in {"parts", "none"} : Stage(m, o, stage)
    BY <1>5 DEF CreateMultipart, JobEnds
  <2>2. run[m].apply
    BY <1>0, <2>1 DEF ConvInv, JobsHavePaths
  <2>3. run' \in [Machines -> Run] /\ JobsHavePaths'
    BY <1>0, <2>1, <2>2, StageKeeps
  <2>4. uploads' \subseteq Machines \X Objects
    BY <2>1 DEF ConvInv, TypeOK
  <2>. QED BY <1>f, <2>1, <2>3, <2>4 DEF ConvInv, TypeOK
<1>6. CASE CopyParts(m, o)
  <2>1. run[m].stage[o] = "parts" /\ (Fault \/ UNCHANGED faults)
        /\ UNCHANGED <<stored, vault, db, uploads, commits, others>>
        /\ \E stage \in {"complete", "abort"} : Stage(m, o, stage)
    BY <1>6 DEF CopyParts
  <2>2. run[m].apply
    BY <1>0, <2>1 DEF ConvInv, JobsHavePaths
  <2>3. run' \in [Machines -> Run] /\ JobsHavePaths'
    BY <1>0, <2>1, <2>2, StageKeeps
  <2>. QED BY <1>f, <2>1, <2>3 DEF ConvInv, TypeOK
<1>7. CASE CompleteMultipart(m, o)
  <2>1. run[m].stage[o] = "complete" /\ (Fault \/ UNCHANGED faults)
        /\ UNCHANGED <<vault, db, commits, others>> /\ uploads' \subseteq uploads
        /\ (stored' = [stored EXCEPT ![o] = Fresh(TargetClass(m, o))] \/ stored' = stored)
        /\ \E stage \in {"none", "abort"} : Stage(m, o, stage)
    BY <1>7 DEF CompleteMultipart, JobEnds
  <2>2. run[m].apply
    BY <1>0, <2>1 DEF ConvInv, JobsHavePaths
  <2>3. run' \in [Machines -> Run] /\ JobsHavePaths'
    BY <1>0, <2>1, <2>2, StageKeeps
  <2>4. stored' \in [Objects -> Object]
    BY <1>t, <2>1, CopiedTyped DEF ConvInv, TypeOK
  <2>5. uploads' \subseteq Machines \X Objects
    BY <2>1 DEF ConvInv, TypeOK
  <2>. QED BY <1>f, <2>1, <2>3, <2>4, <2>5 DEF ConvInv, TypeOK
<1>8. CASE AbortMultipart(m, o)
  <2>1. run[m].stage[o] = "abort" /\ (Fault \/ UNCHANGED faults) /\ Stage(m, o, "none")
        /\ UNCHANGED <<stored, vault, db, commits, others>> /\ uploads' \subseteq uploads
    BY <1>8 DEF AbortMultipart, JobEnds
  <2>2. run' \in [Machines -> Run] /\ JobsHavePaths'
    BY <1>0, <2>1, StageKeeps
  <2>3. uploads' \subseteq Machines \X Objects
    BY <2>1 DEF ConvInv, TypeOK
  <2>. QED BY <1>f, <2>1, <2>2, <2>3 DEF ConvInv, TypeOK
<1>. QED BY <1>1, <1>2, <1>3, <1>4, <1>5, <1>6, <1>7, <1>8 DEF Job

LEMMA RunEndsInv ==
  ASSUME ConvInv, NEW m \in Machines, Finish(m) \/ Crash(m)
  PROVE  ConvInv'
<1>1. run' = [run EXCEPT ![m] = IdleRun] /\ (Fault \/ UNCHANGED faults)
      /\ UNCHANGED <<stored, vault, db, uploads, commits, others>>
  BY DEF Finish, Crash
<1>2. run' \in [Machines -> Run] /\ JobsHavePaths'
  BY <1>1, IdleKeeps
<1>3. faults' \in 0..MaxFaults
  BY <1>1, FaultTyped DEF ConvInv
<1>. QED BY <1>1, <1>2, <1>3 DEF ConvInv, TypeOK

LEMMA S3Inv ==
  ASSUME ConvInv, NEW o \in Objects, S3Restores(o) \/ S3Expires(o)
  PROVE  ConvInv' /\ \A q \in Objects : stored'[q].class = stored[q].class
<1>1. UNCHANGED <<vault, db, run, uploads, commits, others>> /\ (Fault \/ UNCHANGED faults)
      /\ \E left \in Restores : stored' = [stored EXCEPT ![o].restore = left]
  BY DEF S3Restores, S3Expires, RestoreCompletes, RestoreExpires, Restores
<1>2. stored' \in [Objects -> Object] /\ \A q \in Objects : stored'[q].class = stored[q].class
  BY <1>1, RestoreTyped DEF ConvInv
<1>3. faults' \in 0..MaxFaults
  BY <1>1, FaultTyped DEF ConvInv
<1>. QED BY <1>1, <1>2, <1>3 DEF ConvInv, TypeOK, JobsHavePaths, PathsOf, IdleRun

LEMMA ConvNext == ConvInv /\ [Next]_vars => ConvInv'
<1>. SUFFICES ASSUME ConvInv, [Next]_vars PROVE ConvInv'
  OBVIOUS
<1>1. CASE UNCHANGED vars
  BY <1>1 DEF vars, ConvInv, TypeOK, JobsHavePaths, PathsOf, IdleRun
<1>2. CASE Commit
  BY <1>2, CommitInv
<1>3. ASSUME NEW m \in Machines, Fetch(m) \/ Progress(m) \/ Crash(m) PROVE ConvInv'
  BY <1>3, FetchInv, JobInv, RunEndsInv DEF Progress
<1>4. ASSUME NEW m \in Machines, NEW filter \in Filters, NEW apply \in BOOLEAN,
             Start(m, filter, apply)
      PROVE  ConvInv'
  BY <1>4, StartInv
<1>5. ASSUME NEW o \in Objects, Elsewhere(o) \/ S3Restores(o) \/ S3Expires(o) PROVE ConvInv'
  BY <1>5, ElsewhereInv, S3Inv
<1>. QED BY <1>1, <1>2, <1>3, <1>4, <1>5 DEF Next

(* The invariant of converge.                                              *)
THEOREM ConvergeInvariant == Spec => []ConvInv
<1>1. Init => ConvInv
  BY ConvInit
<1>2. ConvInv /\ [Next]_vars => ConvInv'
  BY ConvNext
<1>. QED BY <1>1, <1>2, PTL DEF Spec

(* Every variable has its type, whatever the policies, the machines and    *)
(* the failures: in particular every object keeps a class S3 knows.        *)
THEOREM TypeCorrect == Spec => []TypeOK
<1>1. ConvInv => TypeOK
  BY DEF ConvInv
<1>. QED BY <1>1, ConvergeInvariant, PTL

(***************************************************************************)
(* No object is made colder than a path of it allows.                      *)
(***************************************************************************)

(* The class a job gives its object is what NeverColderThanImplied asks.   *)
LEMMA TargetIsWarmEnough ==
  ASSUME ConvInv, NEW m \in Machines, NEW o \in Objects, run[m].stage[o] # "none",
         NEW p \in Paths, db[m].entries[p] = o
  PROVE  LET table == db[m]
             implied == {i \in DOMAIN table.policies :
                           /\ p \in table.policies[i].glob
                           /\ \A j \in 1..(i - 1) : p \notin table.policies[j].glob}
         IN /\ \A i \in implied : Coldness[TargetClass(m, o)] <= Coldness[table.policies[i].class]
            /\ implied = {} => Coldness[TargetClass(m, o)] <= Coldness[table.default]
<1>1. db[m] \in Tables
  BY DEF ConvInv, TypeOK
<1>2. p \in PathsOf(o, db[m]) /\ PathsOf(o, db[m]) \in SUBSET Paths
  BY DEF PathsOf
<1>3. Coldness[TargetClass(m, o)] <= Coldness[EvaluatePathTargetClass(p, db[m])]
  BY <1>1, <1>2, HashClass DEF TargetClass
<1>. QED BY <1>1, <1>3, PathClass

(* A step that copies an object onto itself, by a job of some machine.     *)
LEMMA CopyIsWarmEnough ==
  ASSUME ConvInv, NEW m \in Machines, NEW q \in Objects,
         run[m].stage[q] \in {"copy", "complete"},
         stored' = [stored EXCEPT ![q] = Fresh(TargetClass(m, q))],
         NEW o \in Objects, stored'[o].class # stored[o].class
  PROVE  /\ run[m].apply /\ run[m].stage[o] \in {"copy", "complete"}
         /\ \A p \in Paths : db[m].entries[p] = o =>
              LET table == db[m]
                  implied == {i \in DOMAIN table.policies :
                                /\ p \in table.policies[i].glob
                                /\ \A j \in 1..(i - 1) : p \notin table.policies[j].glob}
              IN /\ \A i \in implied :
                      Coldness[stored'[o].class] <= Coldness[table.policies[i].class]
                 /\ implied = {} => Coldness[stored'[o].class] <= Coldness[table.default]
<1>1. run[m].stage[q] # "none" /\ run[m].stage[q] \in Applying
  BY DEF Applying
<1>2. run[m].apply
  BY <1>1 DEF ConvInv, JobsHavePaths
<1>3. TargetClass(m, q) \in Classes
  BY <1>1, TargetTyped DEF ConvInv, JobsHavePaths
<1>4. stored'[q].class = TargetClass(m, q) /\ \A u \in Objects : u # q => stored'[u] = stored[u]
  BY <1>3, CopiedTyped DEF ConvInv
<1>5. o = q
  BY <1>4
<1>6. stored'[o].class = TargetClass(m, o)
  BY <1>4, <1>5
<1>. QED BY <1>1, <1>2, <1>5, <1>6, TargetIsWarmEnough

(* What a step may do to the class of an object.                           *)
LEMMA ClassChanges ==
  ASSUME ConvInv, [Next]_vars, NEW o \in Objects, stored'[o].class # stored[o].class,
         others' = others
  PROVE  \E m \in Machines, q \in Objects :
           /\ run[m].stage[q] \in {"copy", "complete"}
           /\ stored' = [stored EXCEPT ![q] = Fresh(TargetClass(m, q))]
<1>1. stored' # stored
  OBVIOUS
<1>2. CASE UNCHANGED vars
  BY <1>1, <1>2 DEF vars
<1>3. CASE Commit
  BY <1>1, <1>3 DEF Commit
<1>4. ASSUME NEW m \in Machines, Fetch(m) \/ Finish(m) \/ Crash(m) PROVE FALSE
  BY <1>1, <1>4 DEF Fetch, Finish, Crash
<1>5. ASSUME NEW m \in Machines, NEW filter \in Filters, NEW apply \in BOOLEAN,
             Start(m, filter, apply)
      PROVE  FALSE
  BY <1>1, <1>5 DEF Start
<1>6. ASSUME NEW q \in Objects, Elsewhere(q) PROVE FALSE
  <2>1. others' = others + 1 /\ others \in Nat
    BY <1>6, BoundsAssumption DEF Elsewhere, ConvInv, TypeOK
  <2>. QED BY <2>1
<1>7. ASSUME NEW q \in Objects, S3Restores(q) \/ S3Expires(q) PROVE FALSE
  BY <1>7, S3Inv
<1>8. ASSUME NEW m \in Machines, NEW q \in Objects, Job(m, q)
      PROVE  /\ run[m].stage[q] \in {"copy", "complete"}
             /\ stored' = [stored EXCEPT ![q] = Fresh(TargetClass(m, q))]
  <2>1. ~ Dispatch(m, q) /\ ~ HeadObject(m, q) /\ ~ CreateMultipart(m, q) /\ ~ CopyParts(m, q)
        /\ ~ AbortMultipart(m, q)
    BY <1>1 DEF Dispatch, HeadObject, CreateMultipart, CopyParts, AbortMultipart
  <2>2. ~ RequestRestore(m, q)
    BY <1>1, RestoredTyped DEF RequestRestore, ConvInv
  <2>3. CopySmall(m, q) \/ CompleteMultipart(m, q)
    BY <1>8, <2>1, <2>2 DEF Job
  <2>. QED BY <1>1, <2>3 DEF CopySmall, CompleteMultipart
<1>. QED BY <1>2, <1>3, <1>4, <1>5, <1>6, <1>7, <1>8 DEF Next, Progress

(* No converge, whatever its --filter, the state.db it works from and what *)
(* fails, archives an object colder than the policy of any of its paths    *)
(* asks for (policy-evaluation.ts:45-65).                                  *)
THEOREM NeverColderThanImpliedHolds == Spec => NeverColderThanImplied
<1>1. ASSUME ConvInv, [Next]_vars, NEW o \in Objects, stored'[o].class # stored[o].class,
             others' = others
      PROVE  \E m \in Machines :
               /\ run[m].apply /\ run[m].stage[o] \in {"copy", "complete"}
               /\ \A p \in Paths : db[m].entries[p] = o =>
                    LET table == db[m]
                        implied == {i \in DOMAIN table.policies :
                                      /\ p \in table.policies[i].glob
                                      /\ \A j \in 1..(i - 1) : p \notin table.policies[j].glob}
                    IN /\ \A i \in implied :
                            Coldness[stored'[o].class] <= Coldness[table.policies[i].class]
                       /\ implied = {} => Coldness[stored'[o].class] <= Coldness[table.default]
  BY <1>1, ClassChanges, CopyIsWarmEnough
<1>2. ConvInv /\ [Next]_vars =>
        \A o \in Objects :
          stored'[o].class # stored[o].class /\ others' = others =>
            \E m \in Machines :
              /\ run[m].apply /\ run[m].stage[o] \in {"copy", "complete"}
              /\ \A p \in Paths : db[m].entries[p] = o =>
                   LET table == db[m]
                       implied == {i \in DOMAIN table.policies :
                                     /\ p \in table.policies[i].glob
                                     /\ \A j \in 1..(i - 1) : p \notin table.policies[j].glob}
                   IN /\ \A i \in implied :
                           Coldness[stored'[o].class] <= Coldness[table.policies[i].class]
                      /\ implied = {} => Coldness[stored'[o].class] <= Coldness[table.default]
  BY <1>1
<1>. QED BY <1>2, ConvergeInvariant, PTL DEF Spec, NeverColderThanImplied
=============================================================================
