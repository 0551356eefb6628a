----------------------------- MODULE MCPostgres -----------------------------
(***************************************************************************)
(* Instances of Postgres for TLC.                                          *)
(***************************************************************************)
EXTENDS Postgres, TLC

CONSTANTS p1, p2, w1, w2, w3, k1, k2

\* Two processes with a connection each: w1 and w3 share that of p1, and w2 of p2
\* locks the rows of w1 in the opposite order.
Home == (w1 :> p1) @@ (w2 :> p2) @@ (w3 :> p1)
Locked == (w1 :> <<k1, k2>>) @@ (w2 :> <<k2, k1>>) @@ (w3 :> <<k1>>)
Pools == [x \in {p1, p2} |-> 1]
=============================================================================
