------------------------------ MODULE MCAgent ------------------------------
(* Agent on two or three releases, with the release store's bounds scaled    *)
(* down from 10 and 50 so that pruning and cutting the history happen.      *)
EXTENDS Agent, TLC

CONSTANTS h1, h2, h3, boot, none

HashSymmetry == Permutations(Hash)
=============================================================================
