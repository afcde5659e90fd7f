--------------------------- MODULE MCProxyRegistry ---------------------------
(* ProxyRegistry for TLC. *)
EXTENDS ProxyRegistry, TLC

\* Controls, names and proxy objects are interchangeable.
Symmetry == Permutations(Ctl) \cup Permutations(Name) \cup Permutations(Pxy)
=============================================================================
