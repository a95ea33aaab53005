------------------------------ MODULE PoolOnce ------------------------------
(***************************************************************************)
(* What postgres.Provider promises: in the life of one process the question *)
(* whether there is a pool is settled at most once, and the answer stays.   *)
(* ContactBook is shown to implement this module.                          *)
(***************************************************************************)
EXTENDS Naturals

VARIABLES epoch,   \* lives of the process before this one
          status   \* "none" until settled, then "open" or "failed"

vars == <<epoch, status>>

TypeOK == epoch \in Nat /\ status \in {"none", "open", "failed"}

Init == epoch = 0 /\ status = "none"

Settle == /\ status = "none"
          /\ status' \in {"open", "failed"}
          /\ UNCHANGED epoch

Restart == /\ epoch' = epoch + 1
           /\ status' = "none"

Next == Settle \/ Restart

Spec == Init /\ [][Next]_vars
=============================================================================
