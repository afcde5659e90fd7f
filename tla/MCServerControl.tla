--------------------------- MODULE MCServerControl ---------------------------
(* ServerControl for TLC: the channel capacities are scaled down from 10 so  *)
(* that a handful of messages fills them.                                    *)
EXTENDS ServerControl, TLC

\* Work connections and user connections are interchangeable (safety runs only).
Symmetry == Permutations(WorkConns) \cup Permutations(Users)
=============================================================================
