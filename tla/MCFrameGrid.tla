--------------------------- MODULE MCFrameGrid ---------------------------
(* Windows that grow and shrink in either direction and in both.           *)
EXTENDS FrameGrid

MCWindows == {<<1, 1>>, <<2, 1>>, <<1, 2>>, <<2, 2>>}
MCValues  == {" ", "x", "y"}
MCBlank   == " "

==========================================================================
