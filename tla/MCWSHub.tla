-------------------------------- MODULE MCWSHub --------------------------------
(***************************************************************************)
(* Instances of WSHub for TLC: the lengths around each change of form and  *)
(* around the limit of wsReadFrame.                                        *)
(***************************************************************************)
EXTENDS WSHub

CONSTANTS c1, c2, b1, b2

MCLengths == {0, 1, 125, 126, 127, 128, 255, 256, 65535, 65536, 1048576, 1048577}
===============================================================================
