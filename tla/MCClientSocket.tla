--------------------------- MODULE MCClientSocket ---------------------------
(* Constants for the model checker's runs of ClientSocket. *)
EXTENDS ClientSocketProps, TLC

CONSTANTS s1, s2, c1, c2, c3, x

TwoSocks == {s1, s2}
Bytes == {NL, CR, x}

\* Objects and connections are interchangeable.
Symmetry == Permutations(Sock) \cup Permutations(ConnId)
=============================================================================
