--------------------------- MODULE MCArchiveReads ---------------------------
(***************************************************************************)
(* Instances of ArchiveReads for TLC.                                      *)
(***************************************************************************)
EXTENDS ArchiveReads

CONSTANTS m, c, iss, h, g

\* An MPT and an IOU of one issuer iss.  Ledger 2 holds two transactions, their
\* hashes in the other order, one of both tokens; ledger 3 closes while clients
\* ask, and has a holder that is new to the IOU.
BothIssuer == [i \in {m, c} |-> iss]
BothLedgers == <<1, 2, 2, 3>>
BothTouches == <<{<<m, h>>}, {<<m, h>>, <<m, g>>, <<c, h>>}, {<<c, h>>}, {<<c, g>>}>>
BothIndex == [x \in {iss, h, g} |-> CASE x = iss -> {1, 2, 3, 4} [] x = h -> {1, 2, 3}
                                  [] x = g -> {2, 4}]
BothAfter == << (<<m, h>> :> 2),
                (<<m, h>> :> 1) @@ (<<m, g>> :> 1) @@ (<<c, h>> :> 1),
                (<<c, h>> :> 3),
                (<<c, g>> :> 2) >>
\* Transaction 2 leaves h's amount as it was: another field of the MPToken changed.
FlaggedAfter == [t \in 1 .. 4 |->
                    IF t = 2 THEN (<<m, h>> :> 2) @@ (<<m, g>> :> 1) @@ (<<c, h>> :> 1)
                             ELSE BothAfter[t]]
HashOrder == <<1, 3, 2, 4>>
IdOrder == (h :> 2) @@ (g :> 1) @@ (iss :> 3)
Times == <<10, 20, 30>>

Request(kind, issuance, account, forward, from, to, date) ==
    [kind |-> kind, issuance |-> issuance, account |-> account, forward |-> forward,
     from |-> from, to |-> to, date |-> date]

AllRequests ==
    {Request("account_tx", m, h, TRUE, 0, 0, 0),
     Request("account_tx", m, iss, FALSE, 0, 0, 0),
     Request("mpt_holders", m, iss, FALSE, 0, 0, 0),
     Request("mpt_holders", m, iss, FALSE, 0, 2, 0),
     Request("gateway_balances", c, iss, FALSE, 0, 0, 0),
     Request("gateway_balances", c, iss, FALSE, 0, 2, 0),
     Request("archive_balance_at", c, h, FALSE, 0, 0, 25),
     Request("archive_balance_at", m, h, FALSE, 0, 0, 0),
     Request("archive_transactions", c, h, FALSE, 3, 0, 30),
     Request("account_lines", c, iss, FALSE, 0, 0, 0),
     Request("tie_out", c, iss, FALSE, 0, 0, 0)}

GatewayRequests == {Request("gateway_balances", c, iss, FALSE, 0, 2, 0)}
NoRequests == {}
=============================================================================
