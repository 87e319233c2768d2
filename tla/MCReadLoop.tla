----------------------------- MODULE MCReadLoop -----------------------------
(* Constants for the model checker's runs of ReadLoop. *)
EXTENDS ReadLoop

CONSTANT c1

OneSock == {S}
Bytes == {NL, CR, PING}
=============================================================================
