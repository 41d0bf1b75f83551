---------------------------- MODULE MCHciSession ----------------------------
(* A small instance of HciSession for TLC.                                 *)
EXTENDS HciSession

\* The defaults; a window longer than the interval; values to clamp and none.
MCTimings == {<<10000, 10000>>, <<1000, 20000000>>, <<0, 50000>>}
=============================================================================
