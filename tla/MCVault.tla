------------------------------ MODULE MCVault ------------------------------
(* Instances of Vault for TLC.                                             *)
EXTENDS Vault, TLC

CONSTANTS a, b, x, y

Symmetry == Permutations(Machines)

(* Whom vault_race, vault_collect and vault_gc_race give which commands: in *)
(* vault_collect the rival only moves /current, it uploads nothing.         *)
Syncing == [m \in Machines |-> {"sync", "mutate", "fetch"}]
Collecting == a :> {"sync", "gc", "mutate", "fetch"} @@ b :> {"mutate"}
Colliding == [m \in Machines |-> {"sync", "gc"}]
=============================================================================
