--------------------------- MODULE LedgerObjects ---------------------------
(***************************************************************************)
(* Balances, as the archive derives them from transaction metadata in two  *)
(* ways that share nothing: the sum of the per-transaction deltas          *)
(* (src/reconcile) and the latest state of the ledger object that carries  *)
(* the balance (src/api/state).                                            *)
(*                                                                         *)
(* The object of a balance <<i, h>> is h's MPToken of the MPT i, or the    *)
(* trust line (RippleState) between h and the issuer of the IOU i.  Its    *)
(* place in ledger order is the transaction number of XrplHistory, which   *)
(* stands for (ledger_index, TransactionIndex).                            *)
(***************************************************************************)
EXTENDS Archive, Integers, FiniteSets, FiniteSetsExt

CONSTANTS
    Mpts,       \* the issuances that are MPTs; the others are IOUs
    After,      \* After[t][<<i, h>>]: the balance t leaves in that object
    LowSide,    \* the holders on the low side of their trust lines
    Gone,       \* what After holds once the object is deleted
    Absent      \* a metadata field that is not there

ASSUME ObjectsAssumption ==
    /\ Mpts \subseteq Issuances
    /\ LowSide \subseteq Accounts
    /\ DOMAIN After = Tx
    /\ Gone \notin Nat /\ Absent \notin Int
    /\ \A t \in Tx : After[t] \in [Touches[t] -> Nat \cup {Gone}]

(* A balance: of an issuance, of one account. *)
Balance == Issuances \X Accounts

-----------------------------------------------------------------------------
(***************************************************************************)
(* What the ledger holds, and what it writes into the metadata.            *)
(***************************************************************************)

(* The newest of the transactions S that touches object o, 0 if none does. *)
Newest(S, o) ==
    LET touching == {t \in S : o \in Touches[t]} IN
    IF touching = {} THEN 0 ELSE Max(touching)

State(S, o) == IF Newest(S, o) = 0 THEN Gone ELSE After[Newest(S, o)][o]
Amount(state) == IF state = Gone THEN 0 ELSE state

Before(t, o) == State({s \in Tx : s < t}, o)

(***************************************************************************)
(* Metadata names no object that is neither there before the transaction   *)
(* nor after it.                                                           *)
(***************************************************************************)
ASSUME NodesAssumption ==
    \A t \in Tx : \A o \in Touches[t] : Before(t, o) = Gone => After[t][o] # Gone

(* The true balance of o when ledger l has closed. *)
LedgerBalance(o, l) == Amount(State({t \in Tx : LedgerOf[t] <= l}, o))

(* A trust line states its balance as the low account sees it. *)
Sign(o) == IF o[1] \in Mpts \/ o[2] \in LowSide THEN 1 ELSE -1

(***************************************************************************)
(* AffectedNodes of t, the one for object o.  A deleted object carries no  *)
(* balance any more.  PreviousFields of a modified one holds the balance   *)
(* if it changed, unless it was an MPTAmount of zero: that field is left   *)
(* out of the object, and so of its previous fields.                       *)
(***************************************************************************)
Node(t, o) ==
    LET before == Before(t, o)  after == After[t][o] IN
    [kind  |-> IF before = Gone THEN "created" ELSE IF after = Gone THEN "deleted"
                                                                   ELSE "modified",
     final |-> Sign(o) * Amount(after),
     prev  |-> IF \/ before \in {Gone, after}
                  \/ o[1] \in Mpts /\ before = 0
               THEN Absent ELSE Sign(o) * Amount(before)]

-----------------------------------------------------------------------------
(***************************************************************************)
(* Deltas (mptDeltas.ts, iou.ts).                                          *)
(***************************************************************************)

(* holderBalance: the value of a trust line as its holder sees it. *)
HolderBalance(o, value) == Sign(o) * value

(***************************************************************************)
(* The previous amount of an MPToken, wherever it is not zero: read from   *)
(* the final fields when the amount did not change.                        *)
(***************************************************************************)
MptDeltaUnsigned(node) ==
    LET prev == IF node.prev = Absent THEN 0 ELSE node.prev IN
    IF node.kind = "modified" THEN prev - node.final ELSE node.final

(***************************************************************************)
(* mptDeltas: an MPTAmount missing from PreviousFields counts as zero.     *)
(***************************************************************************)
MptDelta(node) ==
    LET prev == IF node.prev = Absent THEN 0 ELSE node.prev IN
    CASE node.kind = "created"  -> node.final
      [] node.kind = "modified" -> node.final - prev
      [] node.kind = "deleted"  -> 0 - node.final

(***************************************************************************)
(* A trust line's value taken as it stands, whichever side holds.          *)
(***************************************************************************)
IouDeltaLowView(o, node) ==
    CASE node.kind = "created"  -> node.final
      [] node.kind = "modified" -> IF node.prev = Absent THEN 0 ELSE node.final - node.prev
      [] node.kind = "deleted"  -> 0 - node.final

(***************************************************************************)
(* iouDeltas: a line modified without a Balance in PreviousFields did not  *)
(* change; a deleted one loses the balance of its final fields.            *)
(***************************************************************************)
IouDelta(o, node) ==
    CASE node.kind = "created"  -> HolderBalance(o, node.final)
      [] node.kind = "modified" ->
            IF node.prev = Absent THEN 0
            ELSE HolderBalance(o, node.final) - HolderBalance(o, node.prev)
      [] node.kind = "deleted"  -> 0 - HolderBalance(o, node.final)

Delta(t, o) == IF o[1] \in Mpts THEN MptDelta(Node(t, o)) ELSE IouDelta(o, Node(t, o))

(***************************************************************************)
(* The sum over the ledgers before hi.                                     *)
(***************************************************************************)
DeltaSumBefore(o, lo, hi) ==
    LET rows == {d \in deltas : /\ <<d[2], d[3]>> = o
                                /\ lo <= LedgerOf[d[1]] /\ LedgerOf[d[1]] < hi}
    IN  SumFunction([d \in rows |-> Delta(d[1], o)])

(***************************************************************************)
(* sum(delta) over the rows of balance_deltas of o in the ledgers lo..hi.  *)
(***************************************************************************)
DeltaSum(o, lo, hi) ==
    LET rows == {d \in deltas : /\ <<d[2], d[3]>> = o
                                /\ lo <= LedgerOf[d[1]] /\ LedgerOf[d[1]] <= hi}
    IN  SumFunction([d \in rows |-> Delta(d[1], o)])

(* balanceByAccount, decimalBalanceByAccount: the sum over all its rows. *)
Derived(o) == DeltaSum(o, 0, Max({LedgerOf[t] : t \in Tx}))

-----------------------------------------------------------------------------
(***************************************************************************)
(* Reconstruction (reconstruct.ts).                                        *)
(***************************************************************************)

(***************************************************************************)
(* The first node met of an object, not the newest.                        *)
(***************************************************************************)
LatestObjectsFirst(S, wanted) ==
    {[object |-> p[1], node |-> Node(p[2], p[1])] :
        p \in {q \in wanted \X S :
            q[1] \in Touches[q[2]] /\ \A s \in S : q[1] \in Touches[s] => q[2] <= s}}

(***************************************************************************)
(* latestObjects over the transactions S, for the objects wanted: the node *)
(* that the newest of them to touch the object left.                       *)
(***************************************************************************)
LatestObjects(S, wanted) ==
    {[object |-> o, node |-> Node(Newest(S, o), o)] : o \in {w \in wanted : Newest(S, w) # 0}}

Live(S, wanted) == {r \in LatestObjects(S, wanted) : r.node.kind # "deleted"}

(***************************************************************************)
(* toMptHolders, toIouBalances: the holders of issuance i with a live      *)
(* object, and what it holds.                                              *)
(***************************************************************************)
Reconstructed(S, i) ==
    {[holder |-> r.object[2], amount |-> HolderBalance(r.object, r.node.final)] :
        r \in Live(S, {i} \X Accounts)}

(***************************************************************************)
(* The balances of the lines as the low account sees them, whoever asks.   *)
(***************************************************************************)
AccountLinesAsStored(S, account) ==
    {[currency |-> r.object[1],
      peer     |-> IF account = r.object[2] THEN IssuerOf[r.object[1]] ELSE r.object[2],
      balance  |-> r.node.final] :
        r \in Live(S, {o \in Balance : o[1] \notin Mpts /\ account \in {o[2], IssuerOf[o[1]]}})}

(***************************************************************************)
(* toAccountLines: the trust lines with `account` on either side, as it    *)
(* sees them: the low side takes the balance as it is.                     *)
(***************************************************************************)
AccountLines(S, account) ==
    LET mine == {o \in Balance : /\ o[1] \notin Mpts
                                 /\ account \in {o[2], IssuerOf[o[1]]}}
        isLow(o) == (o[2] \in LowSide) = (account = o[2])
    IN  {[currency |-> r.object[1],
          peer     |-> IF account = r.object[2] THEN IssuerOf[r.object[1]] ELSE r.object[2],
          balance  |-> IF isLow(r.object) THEN r.node.final ELSE 0 - r.node.final] :
            r \in Live(S, mine)}

(***************************************************************************)
(* The two changes a delta gets wrong: mptDeltas takes an MPToken that is  *)
(* modified without a change of its amount for one that was empty, and     *)
(* neither sees what an object held when one transaction empties and       *)
(* deletes it (the ledger does that to trust lines).                       *)
(***************************************************************************)
Miscounted(t, o) ==
    /\ Amount(Before(t, o)) # 0
    /\ After[t][o] = Gone \/ (o[1] \in Mpts /\ After[t][o] = Before(t, o))
=============================================================================
