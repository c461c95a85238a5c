---------------------------- MODULE MCVideoStream ----------------------------
(* Instances of VideoStream: one client whose content is sent again and one  *)
(* without.                                                                  *)
EXTENDS VideoStream
LOCAL INSTANCE Integers
CONSTANTS c1, c2
Sizes == [c \in Client |-> IF c = c1 THEN 3 ELSE 2]
Percents == [c \in Client |-> IF c = c1 THEN 50 ELSE 0]
PacedChoices == {{c1, c2}, {c1}}
=============================================================================
