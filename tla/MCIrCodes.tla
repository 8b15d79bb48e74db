------------------------------ MODULE MCIrCodes ------------------------------
(* An instance of IrCodes for TLC. *)
EXTENDS IrCodes

\* Sets of codes with discrete, toggle and shared keys.
SomeKeySets == {{}, {"on"}, {"toggle"}, {"off", "volume"}, {"toggle", "volume", "input"}}
SomeSlots == {<<"any", "on">>, <<"tv", "toggle">>}
=============================================================================
