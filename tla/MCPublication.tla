--------------------------- MODULE MCPublication ---------------------------
(* The publisher on short raw logs; releases, epochs and partitions are    *)
(* each interchangeable.                                                   *)
EXTENDS Publication, TLC

DataSymmetry == Permutations(Encoders) \cup Permutations(Epochs)
                    \cup Permutations(Partitions)
=============================================================================
