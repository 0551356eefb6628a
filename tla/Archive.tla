------------------------------ MODULE Archive ------------------------------
(***************************************************************************)
(* The durable archive tables every ingest path writes (src/db), and the   *)
(* statements that write them.  A statement's effect is a set of rows: the *)
(* inserts are idempotent (ON CONFLICT), so a row inserted twice is there  *)
(* once, and nothing but a delete of the issuance removes one.             *)
(***************************************************************************)
EXTENDS XrplHistory

VARIABLES
    txRows,     \* transactions: the stored transactions
    links,      \* account_transactions: <<transaction, account>>
    deltas,     \* balance_deltas: <<transaction, issuance, holder>>
    coverage    \* coverage: [address, from, to] plus the job that claimed it

ArchiveTypeOK ==
    /\ txRows \subseteq Tx
    /\ links \subseteq Tx \X Accounts
    /\ deltas \subseteq Tx \X Issuances \X Accounts
    /\ coverage \subseteq [address : Accounts, from : Nat, to : Nat,
                           job : Issuances \X Accounts]

archiveVars == <<txRows, links, deltas, coverage>>

(***************************************************************************)
(* What the swept issuer's link alone would leave out: the links of the    *)
(* holders, were the sweep to use the plain mapper.                        *)
(***************************************************************************)
SweepLinksIssuerOnly(page, tracked, issuer) ==
    {l \in Tx \X Accounts : l[1] \in page /\ l[2] = issuer}

(***************************************************************************)
(* account_transactions rows of a page mapped by issuerSweepEntryMapper:   *)
(* the swept issuer and every tracked holder the metadata names.           *)
(***************************************************************************)
SweepLinks(page, tracked, issuer) ==
    {l \in Tx \X Accounts :
        /\ l[1] \in page
        /\ l[2] = issuer \/ \E i \in tracked : <<i, l[2]>> \in Touches[l[1]]}

(***************************************************************************)
(* account_transactions rows of a page mapped by mapBinaryEntry: only the  *)
(* account whose history was paged.                                        *)
(***************************************************************************)
AccountLinks(page, account) == {l \in Tx \X Accounts : l[1] \in page /\ l[2] = account}

IssuersOf(I) == {IssuerOf[i] : i \in I}

(***************************************************************************)
(* account_transactions rows of a streamed transaction, for the issuances  *)
(* in scope: their holders it names, and the issuers of those (issuanceScope). *)
(***************************************************************************)
TouchedLinks(t, scope) ==
    {<<t, a>> : a \in {h \in Accounts : \E i \in scope : h \in HoldersIn(t, i)} \cup
                      IssuersOf({i \in scope : HoldersIn(t, i) # {}})}

(***************************************************************************)
(* deriveTxDeltasFromMeta over a page: a delta row for each holder of each *)
(* tracked issuance.  A zero delta, which writes no row, is not told apart *)
(* from a stored one.                                                      *)
(***************************************************************************)
DeltaRows(page, tracked) ==
    {d \in Tx \X Issuances \X Accounts :
        d[1] \in page /\ d[2] \in tracked /\ <<d[2], d[3]>> \in Touches[d[1]]}

(***************************************************************************)
(* What it means that the archive holds transaction t for `account`, as a  *)
(* part of issuance i: the row, the link account_tx reads through, and the *)
(* delta of holder h.                                                      *)
(***************************************************************************)
Held(t, i, h, account) ==
    t \in txRows /\ <<t, account>> \in links /\ <<t, i, h>> \in deltas

(***************************************************************************)
(* What a coverage row promises: every transaction in its ledger range     *)
(* that names the account, for the issuance it was claimed for, is stored, *)
(* linked to the account and derived.  Sweep rows cover the issuer too.    *)
(***************************************************************************)
Honours(row) ==
    LET i == row.job[1] IN
    \A t \in Tx : row.from <= LedgerOf[t] /\ LedgerOf[t] <= row.to =>
        \A h \in HoldersIn(t, i) :
            row.address \in {h, IssuerOf[i]} => Held(t, i, h, row.address)
=============================================================================
