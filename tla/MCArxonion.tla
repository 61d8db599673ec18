----------------------------- MODULE MCArxonion -----------------------------
(* TLC instances of Arxonion: slots and namespace objects are interchangeable.*)
EXTENDS Arxonion, TLC

Symmetry == Permutations(Procs) \cup Permutations(Nets)
=============================================================================
