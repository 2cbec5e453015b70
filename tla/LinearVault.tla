---------------------------- MODULE LinearVault ----------------------------
(***************************************************************************)
(* What the vault promises the machines that share it, with no S3 in it:   *)
(* one totally ordered sequence of versions, to which every successful     *)
(* command appends at the end and from which nothing is ever removed; a    *)
(* command that reported a commit reported a version of that sequence;     *)
(* and each machine holds a prefix of the sequence that only grows.        *)
(*                                                                         *)
(* docs/architecture/conflict-resolution.md calls this the "strict total   *)
(* order of versions regardless of how many machines are involved".        *)
(***************************************************************************)
EXTENDS Naturals, Sequences

CONSTANTS Machines, Stamps, InitStamp

VARIABLES
  order,      \* the versions committed so far, oldest first
  acked,      \* the versions some command reported as committed
  held        \* held[m]: how many versions machine m's own state.db contains

vars == <<order, acked, held>>

Init ==
  /\ order = <<InitStamp>>
  /\ acked = {}
  /\ held = [m \in Machines |-> 1]

(* A version lands: it is new, and it goes to the end.                     *)
Commit ==
  \E v \in Stamps :
    /\ \A i \in 1..Len(order) : order[i] # v
    /\ order' = Append(order, v)
    /\ UNCHANGED <<acked, held>>

(* A command tells its user that a landed version is committed.            *)
Acknowledge ==
  \E i \in 1..Len(order) :
    /\ acked' = acked \cup {order[i]}
    /\ UNCHANGED <<order, held>>

(* A machine replaces its state.db by that of a version as new or newer.   *)
CatchUp(m) ==
  \E n \in held[m]..Len(order) :
    /\ held' = [held EXCEPT ![m] = n]
    /\ UNCHANGED <<order, acked>>

Next == Commit \/ Acknowledge \/ \E m \in Machines : CatchUp(m)

Spec == Init /\ [][Next]_vars
=============================================================================
