--------------------------- MODULE MCRegistration ---------------------------
(* Registration with two lives of one worker: the second is its restart.   *)
EXTENDS Registration
CONSTANTS w1, g1
MCIdOf    == [l \in Life |-> w1]
MCGroupOf == [l \in Life |-> g1]
=============================================================================
