--------------------------- MODULE MCUpdateSessions ---------------------------
(* Instances of UpdateSessions for TLC. *)
EXTENDS UpdateSessions

\* Three controllers that compete for two downloads; two of them share image 0, the
\* third resumes after a restart.
Three == {"a", "b", "r"}
SharedImage == [c \in Three |-> IF c = "r" THEN {1} ELSE {0}]
OnlyR == {"r"}

\* Two controllers that each need both images.
Two == {"a", "b"}
TwoImages == [c \in Two |-> {0, 1}]
SameImage == [c \in Two |-> {0}]

\* One controller.
One == {"a"}
OneImage == [c \in One |-> {0}]

\* A file that no controller reads.
NewFile == {2}
NoneOf == {}
Three3 == 0..2
Two2 == 0..1
=============================================================================
