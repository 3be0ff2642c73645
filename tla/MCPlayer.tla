------------------------------ MODULE MCPlayer ------------------------------
(* Player with two tracks of one packet: positions at the start and past the  *)
(* end.                                                                       *)
EXTENDS Player

MCPosition == {0, Length + 1}
=============================================================================
