------------------------------ MODULE MCDiskSlots ------------------------------
(***************************************************************************)
(* The instance of DiskSlots that TLC checks.  Eight slots in words of     *)
(* three fill two and leave the third partly empty: a search can start,    *)
(* skip and wrap at the edge of a word and in the middle of one.           *)
(***************************************************************************)
EXTENDS DiskSlotsProperties
=============================================================================
