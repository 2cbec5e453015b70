------------------------------ MODULE RowLedger ------------------------------
(***************************************************************************)
(* What folding a batch of dirty rows promises, whatever pools, streams    *)
(* and sinks are used for it: every row gets one verdict, once, and the    *)
(* call only returns when no row is left without one.  It may give up with *)
(* an error at any time.                                                   *)
(***************************************************************************)
CONSTANT Row
VARIABLES verdict,  \* verdict[r]: "pending", or what became of the row
          call      \* the call that folds them: "open", "returned", "threw"

Verdicts == {"handled", "conflict", "failed"}

Init == verdict = [r \in Row |-> "pending"] /\ call = "open"

\* A job settles every row that rides on it at once.
Settle == /\ call = "open"
          /\ \E v \in Verdicts :
               /\ verdict' \in [Row -> Verdicts \union {"pending"}]
               /\ \A r \in Row :
                    \/ verdict'[r] = verdict[r]
                    \/ verdict[r] = "pending" /\ verdict'[r] = v
          /\ UNCHANGED call

Return == /\ call = "open" /\ \A r \in Row : verdict[r] # "pending"
          /\ call' = "returned"
          /\ UNCHANGED verdict

Throw == call = "open" /\ call' = "threw" /\ UNCHANGED verdict

Spec == Init /\ [][Settle \/ Return \/ Throw]_<<verdict, call>>
=============================================================================
