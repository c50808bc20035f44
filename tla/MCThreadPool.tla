---------------------------- MODULE MCThreadPool ----------------------------
EXTENDS ThreadPool, TLC

\* A priority below and one above that of a recycled task.
BothSides == {-1, 1}

\* The pooled threads are interchangeable.
Symmetry == Permutations(Workers)
=============================================================================
