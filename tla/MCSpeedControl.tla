--------------------------- MODULE MCSpeedControl ---------------------------
(* SpeedControl for TLC: alone or beside others, sending fast, at leisure or *)
(* after a pause, and the clock set back.                                    *)
EXTENDS SpeedControl

MCOthers == {<<>>, <<0, 20>>}
MCDelays == {4, 7, -20}

=============================================================================
