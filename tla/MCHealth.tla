------------------------------ MODULE MCHealth ------------------------------
(* A small instance of Health for TLC: two configured tags, one that a     *)
(* neighbour has, and a key that is not spelt as addresses are.            *)
EXTENDS Health

CONSTANTS tag1, tag2, neighbour, lowerCase

MCDevices == {tag1, tag2, neighbour}
MCKeys == {tag1, tag2, lowerCase}
=============================================================================
