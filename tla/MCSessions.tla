----------------------------- MODULE MCSessions -----------------------------
(* TLC instances of Sessions: which request is which makes no difference.  *)
EXTENDS Sessions, TLC

RequestSymmetry == Permutations(Requests)
=============================================================================
