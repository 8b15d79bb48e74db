----------------------------- MODULE VoiceLease -----------------------------
(***************************************************************************)
(* What the voice session object promises its networks: one controller at  *)
(* a time holds the audio input, and for every time an RF4CE controller    *)
(* gives it up, the RF4CE network is told so once.                         *)
(***************************************************************************)
EXTENDS Naturals

CONSTANTS
    Rf4ce,        \* the controllers whose network is told
    Ble,          \* the others
    NoController  \* nobody

VARIABLES
    holder,  \* the controller that holds the audio input
    owed     \* releases the RF4CE network has not been told of yet

Init == holder = NoController /\ owed = 0

Acquire(c) ==
    /\ holder = NoController
    /\ holder' = c
    /\ owed' = owed

Release ==
    /\ holder # NoController
    /\ holder' = NoController
    /\ owed' = IF holder \in Rf4ce THEN owed + 1 ELSE owed

Tell ==
    /\ owed > 0
    /\ owed' = owed - 1
    /\ holder' = holder

Next == (\E c \in Rf4ce \cup Ble : Acquire(c)) \/ Release \/ Tell

Spec == Init /\ [][Next]_<<holder, owed>>
=============================================================================
