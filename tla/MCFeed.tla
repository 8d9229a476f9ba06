------------------------------- MODULE MCFeed -------------------------------
(* Instances of Feed for TLC.                                              *)
EXTENDS Feed

CONSTANTS games, music

TwoPrompts == <<music, games>>

=============================================================================
