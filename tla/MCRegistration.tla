--------------------------- MODULE MCRegistration ---------------------------
(* MAX_NUM_OF_ATTEMPTS_TO_SUBSCRIBE is 3: the instance is the real one.      *)
EXTENDS Registration
=============================================================================
