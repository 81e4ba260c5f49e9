---------------------------- MODULE MCTabControl ----------------------------
(* TabControl for TLC: two tabs (MCTabControl.cfg, MCTabControlTake.cfg)   *)
(* or three (MCTabControl3.cfg), a tick a second of the code's times.      *)
EXTENDS TabControl
=============================================================================
