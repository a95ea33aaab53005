---------------------------- MODULE MCNftWatcher ----------------------------
(* NftWatcher on a small instance.                                          *)
EXTENDS NftWatcher

CONSTANTS o1, o2, x1, x2, g1
=============================================================================
