---------------------------- MODULE MCGroupFlags ----------------------------
(* Model-checking instance of GroupFlags: one sleeper, one awaker and the *)
(* revoker, as model values.                                              *)
EXTENDS GroupFlags

CONSTANTS s1, a1

MCSleepers == {s1}

MCAwakers == {a1}

=============================================================================
