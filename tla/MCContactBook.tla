---------------------------- MODULE MCContactBook ----------------------------
(* ContactBook on small instances.                                          *)
EXTENDS ContactBook, TLC

CONSTANTS u1, u2, b1, good, bad, near, far, none, A, B, r1, r2, r3, i1, i2, c1, c2

(* "near" is bridged from chain 1 and "far" from chain 2; "none" is not      *)
(* configured.                                                              *)
MCBridgeByNetwork == [n \in Networks |-> CASE n = near -> A
                                           [] n = far  -> B
                                           [] OTHER    -> None]
MCBridgeChain == [b \in Bridges |-> IF b = A THEN 1 ELSE 2]

Symmetry == Permutations(Users) \cup Permutations(Requests)
            \cup Permutations(RowIds) \cup Permutations(Cids)
=============================================================================
