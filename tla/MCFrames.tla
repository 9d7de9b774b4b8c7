------------------------------- MODULE MCFrames -------------------------------
(* Frames on a small instance with compression, as the configuration has   *)
(* it by default.                                                          *)
EXTENDS Frames

SomePayloads == {<<>>, <<1, 5, 0>>, <<3, 2>>}
==============================================================================
