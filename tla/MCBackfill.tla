----------------------------- MODULE MCBackfill -----------------------------
(***************************************************************************)
(* Instances of Backfill for TLC.                                          *)
(***************************************************************************)
EXTENDS Backfill, TLC

CONSTANTS a, issuer, h, w1, w2

Symmetry == Permutations(Runners)

\* One issuance a and one holder h.  Transactions 1 and 2 close in one ledger;
\* 3 is unrelated activity of both accounts.
OneIssuer == [i \in {a} |-> issuer]
OneLedgers == <<2, 2, 3>>
OneTouches == <<{<<a, h>>}, {<<a, h>>}, {}>>
OneIndex == [x \in {issuer, h} |-> {1, 2, 3}]
OneFrom == [i \in {a} |-> 1]
=============================================================================
