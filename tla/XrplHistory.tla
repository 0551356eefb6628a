---------------------------- MODULE XrplHistory ----------------------------
(***************************************************************************)
(* The ledger history the archive reconstructs, as the upstream Clio       *)
(* server exposes it.  It is external to the program: what is assumed here *)
(* is what the code in src/ relies on when it reads it.                    *)
(*                                                                         *)
(* A transaction is a number: its position in ledger order, the order in   *)
(* which `account_tx` with forward = true returns entries.                 *)
(***************************************************************************)
EXTENDS Naturals

CONSTANTS
    Issuances,  \* registered tokens (rows of the table `issuances`)
    Accounts,   \* ledger addresses, issuers and holders alike
    IssuerOf,   \* the issuing account of each issuance
    LedgerOf,   \* the ledger that closed each transaction
    Touches,    \* the <<issuance, holder>> balances each one's metadata names
    IndexOf     \* the transactions Clio's account_tx lists for an account

(***************************************************************************)
(* Every validated transaction of the history, in ledger order.            *)
(***************************************************************************)
Tx == DOMAIN LedgerOf

(***************************************************************************)
(* "Clio indexes all MPT/IOU activity against the issuer", and a holder's  *)
(* own account_tx lists what touches that holder.  Either list may hold    *)
(* unrelated activity too.  An issuer does not hold its own token.         *)
(***************************************************************************)
ASSUME HistoryAssumption ==
    /\ IssuerOf \in [Issuances -> Accounts]
    /\ Tx \subseteq Nat \ {0}
    /\ LedgerOf \in [Tx -> Nat \ {0}]
    /\ \A s, t \in Tx : s <= t => LedgerOf[s] <= LedgerOf[t]
    /\ Touches \in [Tx -> SUBSET (Issuances \X Accounts)]
    /\ IndexOf \in [Accounts -> SUBSET Tx]
    /\ \A t \in Tx : \A i \in Issuances : \A a \in Accounts :
          <<i, a>> \in Touches[t] =>
             a # IssuerOf[i] /\ t \in IndexOf[a] /\ t \in IndexOf[IssuerOf[i]]

(***************************************************************************)
(* holdersInMeta: the holders of issuance i that a transaction names.      *)
(***************************************************************************)
HoldersIn(t, i) == {a \in Accounts : <<i, a>> \in Touches[t]}

(***************************************************************************)
(* holdersInMeta(meta, tracked).length > 0, for the tracked issuances I.   *)
(***************************************************************************)
InScope(t, I) == \E i \in I : HoldersIn(t, i) # {}

(***************************************************************************)
(* What one account_tx request can return: the account's transactions from *)
(* ledger lo to ledger hi, after the marker.                               *)
(***************************************************************************)
AccountTx(account, lo, hi, marker) ==
    {t \in IndexOf[account] : /\ t > marker
                              /\ lo <= LedgerOf[t]
                              /\ LedgerOf[t] <= hi}
=============================================================================
