----------------------------- MODULE MCApiGate -----------------------------
\* Instances of ApiGate for TLC; the threads are interchangeable.
EXTENDS ApiGate, TLC

Symmetry == Permutations(Thread) \cup Permutations(Endpoint)
=============================================================================
