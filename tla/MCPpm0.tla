------------------------------- MODULE MCPpm0 -------------------------------
(***************************************************************************)
(* TLC instance of Ppm0: the model on its own, learning any sequence of    *)
(* bytes.  It extends the proof module so that the inductive invariant is  *)
(* checked as well.                                                        *)
(***************************************************************************)
EXTENDS Ppm0Proofs
=============================================================================
