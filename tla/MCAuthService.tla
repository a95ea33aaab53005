---------------------------- MODULE MCAuthService ----------------------------
(* AuthService on small instances.                                          *)
EXTENDS AuthService, TLC

CONSTANTS a1, a2, n1, n2, n3, t1, t2, t3, t4, v1, v2, r1, r2

(* Nonces, tokens and goroutines are interchangeable: every action and every *)
(* property quantifies over all of them alike.                              *)
Symmetry == Permutations(Nonces) \cup Permutations(Tokens)
            \cup Permutations(Verifiers) \cup Permutations(Refreshers)
=============================================================================
