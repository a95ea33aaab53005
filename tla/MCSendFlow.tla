----------------------------- MODULE MCSendFlow -----------------------------
(* SendFlow on a small instance.                                            *)
EXTENDS SendFlow, TLC

CONSTANTS a1, a2, b1, b2, near, A, t1, t2, p1, p2, s1, s2, q1

MCBridgeByNetwork == [n \in Networks |-> A]
MCBridgeChain == [b \in Bridges |-> 1]
MCRpcByNetwork == [n \in Networks |-> 1]
MCMaxHead == [c \in Chains |-> IF c = 1 THEN 2 ELSE 0]

Symmetry == Permutations(Accounts) \cup Permutations(Recipients)
            \cup Permutations(Pages) \cup Permutations(Sends) \cup Permutations(TokenIds)
=============================================================================
