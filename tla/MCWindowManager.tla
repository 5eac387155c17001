-------------------------- MODULE MCWindowManager --------------------------
\* Window processes and names for TLC; the processes are interchangeable.
EXTENDS WindowManager, TLC

Symmetry == Permutations(Procs)
=============================================================================
