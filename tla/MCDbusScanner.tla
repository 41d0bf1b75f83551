--------------------------- MODULE MCDbusScanner ---------------------------
(* A small instance of DbusScanner for TLC.                                *)
EXTENDS DbusScanner

CONSTANTS tag, other

MCPaths == {tag, other}
MCConfigured == {tag}
=============================================================================
