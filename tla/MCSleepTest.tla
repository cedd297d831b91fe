----------------------------- MODULE MCSleepTest -----------------------------
(* Model-checking instance of SleepTest: mp_sleep.c with three children.    *)
EXTENDS SleepTest

CONSTANTS c1, c2, c3

MCChildren == {c1, c2, c3}

=============================================================================
