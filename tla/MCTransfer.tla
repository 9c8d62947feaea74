---------------------------- MODULE MCTransfer ----------------------------
(***************************************************************************)
(* Transfer and the invariants used in its proofs, for TLC.  The constants *)
(* get their values in the configurations.                                 *)
(***************************************************************************)
EXTENDS TransferInv
=============================================================================
