---------------------------- MODULE MCWebSession ----------------------------
(* WebSession: two accounts; two tabs with a call in each, or one with two.  *)
EXTENDS WebSession

CONSTANTS a1, a2, l1, l2, t1, t2, c1, c2

MCTabOf == [c \in Calls |-> IF c = c1 THEN t1 ELSE t2]
MCOneTab == [c \in Calls |-> t1]
MCOwnerOf == [l \in Logins |-> IF l = l1 THEN a1 ELSE a2]
=============================================================================
