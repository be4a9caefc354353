------------------------------- MODULE MCRunner -------------------------------
\* Scripts of up to three lines, a quantum that preempts them and one that never does.
EXTENDS Runner, TLC

Symmetries == Permutations(Scripts) \cup Permutations(Workers)
===============================================================================
