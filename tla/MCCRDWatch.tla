----------------------------- MODULE MCCRDWatch -----------------------------
(* Instances of CRDWatch for TLC. *)
EXTENDS CRDWatch
=============================================================================
