-------------------------- MODULE MCTransferAddresses --------------------------
(***************************************************************************)
(* The instance of TransferAddresses that TLC checks: two addresses for    *)
(* each of two threads, so that the flush comes often and at every moment  *)
(* of the other thread and of the disk thread's batch.                     *)
(***************************************************************************)
EXTENDS TransferAddressProperties, TLC

UserFrameSymmetry == Permutations(Users) \cup Permutations(Frames)
=============================================================================
