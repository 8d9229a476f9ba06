----------------------------- MODULE MCRoomPage -----------------------------
(* Instances of RoomPage for TLC.                                          *)
EXTENDS RoomPage, TLC

CONSTANTS a, b, c

(* b is in line.                                                           *)
InLine == <<b>>

=============================================================================
