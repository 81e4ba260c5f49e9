----------------------------- MODULE MCOverlay -----------------------------
(***************************************************************************)
(* Overlay for TLC: one download at a time beside the uploads, a disk of   *)
(* two blocks of which the library image has one, and uploads of one block *)
(* or of both.                                                             *)
(***************************************************************************)
EXTENDS Overlay

McBodies == {<<0>>, <<0, 1>>}
=============================================================================
