----------------------------- MODULE MCPublisher -----------------------------
(***************************************************************************)
(* Publisher for TLC: connections are interchangeable.                     *)
(***************************************************************************)
EXTENDS Publisher, TLC

ConnSymmetry == Permutations(Conns)
=============================================================================
