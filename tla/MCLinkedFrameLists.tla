------------------------- MODULE MCLinkedFrameLists -------------------------
(***************************************************************************)
(* The instance of LinkedFrameLists that TLC checks: four frames, so that  *)
(* a frame can be unlinked between two others while another is elsewhere.  *)
(***************************************************************************)
EXTENDS LinkedFrameListProperties

FourFrames == <<2, 4, 3, 1>>
=============================================================================
