------------------------------ MODULE MCMucRoom ------------------------------
(* Bounds of the run of MucRoom: one contact, two requests for the text     *)
(* channel, three for tubes: two for D-Bus tubes, of which one may take the  *)
(* place of the other when that is freed, one for a stream tube; two rooms.  *)
EXTENDS MucRoom
=============================================================================
