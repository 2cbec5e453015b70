----------------------------- MODULE MCConverge -----------------------------
(* Instances of Converge for TLC.                                          *)
EXTENDS Converge, TLC

CONSTANTS a, p, q, r, x, y

(* Two paths share x.  Under the first table x belongs in STANDARD, because*)
(* of q alone and of the order of its policies, and y in DEEP_ARCHIVE;     *)
(* under the second x belongs in GLACIER and y in STANDARD.                *)
MCTables ==
  LET shared == (p :> x @@ q :> x @@ r :> y)
  IN { [entries |-> shared, default |-> "DEEP_ARCHIVE",
        policies |-> << [glob |-> {q}, class |-> "STANDARD"],
                        [glob |-> {p, q}, class |-> "GLACIER"] >>],
       [entries |-> shared, default |-> "GLACIER",
        policies |-> << [glob |-> {r}, class |-> "STANDARD"] >>] }

MCFilters == {{p, q, r}, {p}}
=============================================================================
