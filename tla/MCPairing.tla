------------------------------ MODULE MCPairing ------------------------------
(* Instances of Pairing for TLC. *)
EXTENDS Pairing

AllModes == {"normal", "auto", "button"}
Two2 == 1..2
Second == {2}
NoneOf == {}
RemotesAB == {"a", "b"}
=============================================================================
