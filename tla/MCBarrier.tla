------------------------------ MODULE MCBarrier ------------------------------
(* Model-checking instance of Barrier: three sleeping threads and two      *)
(* awaking threads, all interchangeable within their role.                *)
EXTENDS Barrier, TLC

CONSTANTS s1, s2, s3, a1, a2

MCSleepers == {s1, s2, s3}
MCAwakers == {a1, a2}

MCSymmetry == Permutations(MCSleepers) \cup Permutations(MCAwakers)

=============================================================================
