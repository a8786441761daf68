--------------------------- MODULE MCDealerRouter ---------------------------
(* DealerRouter with interchangeable calls.                                  *)
EXTENDS DealerRouter

MCSymmetry == Permutations(Calls)
=============================================================================
