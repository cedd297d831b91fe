----------------------------- MODULE MCRegistry -----------------------------
(* Model-checking instance of Registry: one or two installing threads.    *)
EXTENDS Registry, TLC

CONSTANTS i1, i2

\* A single installing thread: installs never overlap.
MCOneInstaller == {i1}

\* Two installing threads, interchangeable.
MCInstallers == {i1, i2}

MCSymmetry == Permutations(MCInstallers)

=============================================================================
