----------------------------- MODULE MCTransfer -----------------------------
(***************************************************************************)
(* Transfer on small instances; the .cfg files give the constants.         *)
(***************************************************************************)
EXTENDS TransferInv
=============================================================================
