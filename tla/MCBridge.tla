------------------------------ MODULE MCBridge ------------------------------
(* Small instances of Bridge for TLC.                                      *)
EXTENDS BridgeRelay

CONSTANTS
  tag,    \* a RuuviTag with an interval of its own
  air,    \* a Ruuvi Air on the default interval
  blank,  \* a configured device whose YAML value is empty
  stray   \* a device nobody configured

MCInterval == [d \in Configured |-> IF d = tag THEN 1 ELSE 0]

\* One sensor common to all formats, and one of each format's own.
MCSensorsOf ==
  [F5 |-> <<"temperature", "battery">>, F6 |-> <<"temperature", "co2">>,
   E1 |-> <<"temperature", "luminosity">>]

Good(format) == [fmt |-> format, kind |-> "good"]

\* What a Ruuvi Air sends.
AirFrames == {Good("F6"), Good("E1")}

\* Frames of one format, of every kind.
TagFrames == [fmt : {"F5"}, kind : Kinds]
=============================================================================
