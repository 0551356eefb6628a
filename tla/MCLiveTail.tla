----------------------------- MODULE MCLiveTail -----------------------------
(***************************************************************************)
(* Instances of LiveTail for TLC.                                          *)
(***************************************************************************)
EXTENDS LiveTail

CONSTANTS a, b, issuer, other, h, g

\* One issuance a, two transactions in ledger 3 and one in ledger 4.
OneIssuer == [i \in {a} |-> issuer]
OneLedgers == <<3, 3, 4>>
OneTouches == <<{<<a, h>>}, {<<a, h>>}, {<<a, h>>}>>
OneIndex == [x \in {issuer, h} |-> {1, 2, 3}]

\* A second issuance b of another issuer: transaction 1 names holder h of a and
\* holder g of b, transaction 2 h as a holder of both.
TwoIssuer == [i \in {a, b} |-> IF i = a THEN issuer ELSE other]
TwoLedgers == <<3, 4>>
TwoTouches == <<{<<a, h>>, <<b, g>>}, {<<a, h>>, <<b, h>>}>>
TwoIndex == [x \in {issuer, other, h, g} |-> IF x = g THEN {1} ELSE {1, 2}]
=============================================================================
