---------------------------- MODULE MCHciPackets ----------------------------
(* A small instance of HciPackets for TLC.                                 *)
EXTENDS HciPackets

\* One set whose advertisements take up to three reports, one with up to two.
MCPartsOf == <<3, 2>>
=============================================================================
