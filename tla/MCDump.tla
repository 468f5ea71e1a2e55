------------------------------- MODULE MCDump -------------------------------
(***************************************************************************)
(* The dump on the wires of MCFraming.                                     *)
(***************************************************************************)
EXTENDS Dump, MCFraming
=============================================================================
