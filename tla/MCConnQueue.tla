---------------------------- MODULE MCConnQueue ----------------------------
(* Model-checking instance of ConnQueue: a ring of three slots. *)
EXTENDS ConnQueue

CONSTANTS a, b, zero

MCConns == {a, b}
=============================================================================
