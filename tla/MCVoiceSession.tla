--------------------------- MODULE MCVoiceSession ---------------------------
(* Instances of VoiceSession for TLC. *)
EXTENDS VoiceSession

CONSTANTS rf, ble

\* The two networks number their controllers separately.
DistinctIds == [c \in Controllers |-> IF c = rf THEN 1 ELSE 2]
=============================================================================
