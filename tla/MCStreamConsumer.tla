-------------------------- MODULE MCStreamConsumer --------------------------
(***************************************************************************)
(* Instances of the event bus for TLC.                                     *)
(***************************************************************************)
EXTENDS StreamConsumer, TLC

CONSTANTS w1, w2

Symmetry == Permutations(Workers)
=============================================================================
