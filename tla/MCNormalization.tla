-------------------------- MODULE MCNormalization --------------------------
(* The normalizer on short raw logs; keys and prices are interchangeable.  *)
EXTENDS Normalization, TLC

DataSymmetry == Permutations(Prices) \cup Permutations(CandleKeys)
=============================================================================
