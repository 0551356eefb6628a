----------------------------- MODULE MCDeletion -----------------------------
(***************************************************************************)
(* Instances of Deletion for TLC.                                          *)
(***************************************************************************)
EXTENDS Deletion

CONSTANTS a, b, x, y, h, g

\* Two issuances of one issuer: h holds both, g only a.
SameIssuer == [i \in {a, b} |-> x]
SameLedgers == <<1, 2>>
SameTouches == <<{<<a, g>>, <<b, h>>}, {<<a, h>>}>>
SameIndex == [w \in {x, h, g} |-> IF w = g THEN {1} ELSE {1, 2}]

\* a is of x, b of y, and y holds a.
CrossIssuer == [i \in {a, b} |-> IF i = a THEN x ELSE y]
CrossTouches == <<{<<b, h>>}, {<<a, y>>}>>
CrossIndex == [w \in {x, y, h} |-> CASE w = x -> {2} [] w = y -> {1, 2} [] OTHER -> {1}]
=============================================================================
