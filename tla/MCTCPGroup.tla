----------------------------- MODULE MCTCPGroup -----------------------------
(* TCPGroup for TLC: two groups, of which one is asked for with two keys and *)
(* both with a fixed port and with any.                                      *)
EXTENDS TCPGroup

CONSTANTS g1, g2, k1, k2

Asks(g, k, w) == [group |-> g, key |-> k, port |-> w]

MCAsk == {Asks(g1, k1, 1), Asks(g1, k2, 1), Asks(g1, k1, 0),
          Asks(g2, k1, 1), Asks(g2, k1, 0)}
=============================================================================
