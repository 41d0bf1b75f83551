---------------------------- MODULE MCHciScanner ----------------------------
(* Small instances of HciScanner for TLC.                                  *)
EXTENDS HciScanner

Event(reports) == [event |-> TRUE, reports |-> reports]

\* Advertisements of Ruuvi and of other devices, alone and together, an event
\* without any, and a packet that is not an event.
MCPackets ==
  {Event(<<"ruuvi">>), Event(<<"ruuvi", "ruuvi">>), Event(<<"other", "ruuvi">>),
   Event(<<>>), [event |-> FALSE, reports |-> <<>>]}
=============================================================================
