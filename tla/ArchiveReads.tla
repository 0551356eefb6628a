---------------------------- MODULE ArchiveReads ----------------------------
(***************************************************************************)
(* The read API (src/api) and the tie-out (src/reconcile) over an archive  *)
(* that moves underneath them.  A request is a handful of queries with an  *)
(* await between each two; a paging client is a chain of requests.  Sweeps,*)
(* holder jobs and the live tail go on storing rows, claiming coverage and *)
(* recording ledgers meanwhile: each is reduced here to what it writes,    *)
(* page by page, and Backfill.tla and LiveTail.tla are about how they come *)
(* to write it.                                                            *)
(*                                                                         *)
(* One request is under way at a time: reads do not disturb each other,    *)
(* but for the close times a resolved date leaves behind in `ledgers`.     *)
(***************************************************************************)
EXTENDS LedgerObjects, Sequences, SequencesExt

CONSTANTS
    HashRank,    \* the place of each transaction's hash in hash order
    ObjectRank,  \* the place of each account's MPToken id in id order
    PageLimit,   \* the `limit` the paging clients ask for
    CloseTime,   \* the close time of each ledger
    Untimed,     \* ledgers Clio knows no close time of
    Requests,    \* what clients ask
    StartTip,    \* the validated ledger at which the tail starts
    LastLedger   \* bound: the last ledger that closes

NoBound == 0     \* a parameter left out, a marker not there, a null

ASSUME ReadsAssumption ==
    /\ IsFiniteSet(Tx) /\ IsFiniteSet(Accounts)
    /\ HashRank \in [Tx -> Nat] /\ IsInjective(HashRank)
    /\ ObjectRank \in [Accounts -> Nat \ {0}] /\ IsInjective(ObjectRank)
    /\ PageLimit \in Nat \ {0}
    /\ StartTip \in Nat \ {0} /\ LastLedger \in Nat /\ StartTip <= LastLedger
    /\ \A t \in Tx : LedgerOf[t] <= LastLedger
    /\ CloseTime \in [1 .. LastLedger -> Nat]
    /\ \A k, l \in 1 .. LastLedger : k < l => CloseTime[k] < CloseTime[l]
    /\ Untimed \subseteq 1 .. LastLedger
    /\ Requests \subseteq [kind : STRING, issuance : Issuances, account : Accounts,
                           forward : BOOLEAN, from : Nat, to : Nat, date : Nat]

VARIABLES
    holders,    \* account_issuance: <<issuance, holder>>
    jobs,       \* backfill_job: the jobs enqueued
    cursor,     \* where the paging of each job stands
    ledgers,    \* the table `ledgers`
    tip,        \* the last validated ledger upstream
    request     \* the request under way

storeVars == <<archiveVars, holders, jobs, cursor, ledgers, tip>>
vars == <<storeVars, request>>

SweepJob(i) == <<i, IssuerOf[i]>>
Claimed(j) == \E row \in coverage : row.job = j

NoRequest == [kind |-> "none"]

Init ==
    /\ txRows = {} /\ links = {} /\ deltas = {} /\ coverage = {}
    /\ holders = {} /\ ledgers = {} /\ tip = StartTip
    /\ jobs = {SweepJob(i) : i \in Issuances}
    /\ cursor = [j \in Balance |-> 0]
    /\ request = NoRequest

-----------------------------------------------------------------------------
(***************************************************************************)
(* Ingest.                                                                 *)
(***************************************************************************)
Store(page, newLinks, tracked) ==
    /\ txRows' = txRows \cup page
    /\ links' = links \cup newLinks
    /\ deltas' = deltas \cup DeltaRows(page, tracked)

(***************************************************************************)
(* The claim filed under its job instead of its address.                   *)
(***************************************************************************)
RowOfJob(address, from, to, j) == [address |-> j, from |-> from, to |-> to, job |-> j]

Row(address, from, to, j) == [address |-> address, from |-> from, to |-> to, job |-> j]

(***************************************************************************)
(* The next page of job j, up to transaction `upto`, what of it names a    *)
(* holder of the issuances I, and whether it was the last.                 *)
(***************************************************************************)
IsPage(j, upto, final) ==
    LET rest == AccountTx(j[2], 1, tip, cursor[j]) IN
    /\ j \in jobs /\ ~Claimed(j)
    /\ upto \in rest \cup {cursor[j]}
    /\ IF final THEN \A t \in rest : t <= upto ELSE upto # cursor[j]
    /\ cursor' = [cursor EXCEPT ![j] = upto]

Kept(j, upto, I) ==
    {t \in AccountTx(j[2], 1, tip, cursor[j]) : t <= upto /\ InScope(t, I)}

(* The ledgers job j has seen in scope, once its page is in. *)
SeenLedgers(j, upto, I) ==
    {LedgerOf[t] : t \in {s \in AccountTx(j[2], 1, tip, 0) : s <= upto /\ InScope(s, I)}}

(***************************************************************************)
(* A range of ledgers seen; the jobs start at ledger 0, and end there if   *)
(* they see none.                                                          *)
(***************************************************************************)
From(seen) == IF seen = {} THEN 0 ELSE Min(seen)
UpTo(seen) == IF seen = {} THEN 0 ELSE Max(seen)

(***************************************************************************)
(* A sweep's page, and on the last one the claim for each holder recorded  *)
(* and the issuer: from the first ledger seen to the last.                 *)
(***************************************************************************)
SweepPage(i) ==
    LET j == SweepJob(i) IN
    \E upto \in Tx \cup {0} : \E final \in BOOLEAN :
        LET kept == Kept(j, upto, {i})
            members == {h \in Accounts : <<i, h>> \in holders'} \cup {j[2]}
            seen == SeenLedgers(j, upto, {i})
        IN
        /\ IsPage(j, upto, final)
        /\ Store(kept, SweepLinks(kept, {i}, j[2]), {i})
        /\ holders' = holders \cup UNION {{i} \X HoldersIn(t, i) : t \in kept}
        /\ coverage' = IF ~final THEN coverage
                       ELSE coverage \cup {Row(a, From(seen), UpTo(seen), j) : a \in members}
        /\ UNCHANGED <<jobs, ledgers, tip, request>>

(***************************************************************************)
(* A page of a holder's own job, enqueued when the tail met the holder.    *)
(***************************************************************************)
HolderPage(j) ==
    \E upto \in Tx \cup {0} : \E final \in BOOLEAN :
        LET kept == Kept(j, upto, Issuances)
            listed == {LedgerOf[t] : t \in {s \in AccountTx(j[2], 1, tip, 0) : s <= upto}}
        IN
        /\ j[2] # IssuerOf[j[1]]
        /\ IsPage(j, upto, final)
        /\ Store(kept, AccountLinks(kept, j[2]), Issuances)
        /\ coverage' = IF final THEN coverage \cup {Row(j[2], 0, UpTo(listed), j)}
                                ELSE coverage
        /\ UNCHANGED <<holders, jobs, ledgers, tip, request>>

(* A ledger closes: the tail records it. *)
CloseLedger ==
    /\ tip < LastLedger
    /\ tip' = tip + 1
    /\ ledgers' = ledgers \cup {tip + 1}
    /\ UNCHANGED <<archiveVars, holders, jobs, cursor, request>>

(* A streamed transaction is stored, some time after its ledger closed. *)
StreamTransaction(t) ==
    /\ StartTip < LedgerOf[t] /\ LedgerOf[t] <= tip
    /\ InScope(t, Issuances)
    /\ Store({t}, TouchedLinks(t, Issuances), Issuances)
    /\ UNCHANGED <<coverage, holders, jobs, cursor, ledgers, tip, request>>

(* trackNewHolder, for a holder a streamed transaction named. *)
TrackHolder(i, h) ==
    /\ <<i, h>> \notin holders
    /\ \E t \in txRows : StartTip < LedgerOf[t] /\ h \in HoldersIn(t, i)
    /\ holders' = holders \cup {<<i, h>>}
    /\ jobs' = jobs \cup {<<i, h>>}
    /\ UNCHANGED <<archiveVars, cursor, ledgers, tip, request>>

(* The stored transactions linked to a holder recorded for i: inScopeMeta. *)
IssuanceTx(i) == {t \in txRows : \E h \in Accounts : <<i, h>> \in holders /\ <<t, h>> \in links}

(* deriveMptDeltas, deriveIouDeltas: all over again, from what is stored. *)
Rederive(i) ==
    /\ deltas' = deltas \cup DeltaRows(IssuanceTx(i), {i})
    /\ UNCHANGED <<txRows, links, coverage, holders, jobs, cursor, ledgers, tip, request>>

(***************************************************************************)
(* ensureLedgerCloseTimes: the dashboard asks for the dates of the stored  *)
(* transactions.                                                           *)
(***************************************************************************)
EnsureLedgerCloseTimes ==
    /\ ledgers' = ledgers \cup ({LedgerOf[t] : t \in txRows} \ Untimed)
    /\ UNCHANGED <<archiveVars, holders, jobs, cursor, tip, request>>

-----------------------------------------------------------------------------
(***************************************************************************)
(* What the queries return (scope.ts and the SELECTs of the methods).      *)
(***************************************************************************)

(* inScope: the address has an `accounts` row. *)
Known(address) ==
    \/ \E t \in Tx : <<t, address>> \in links
    \/ \E d \in deltas : d[3] = address
    \/ \E i \in Issuances : address = IssuerOf[i] \/ <<i, address>> \in holders

RowsOf(address) == {row \in coverage : row.address = address}

(* accountCoverage: <<>> when there is no row. *)
AccountCoverage(address) ==
    IF RowsOf(address) = {} THEN <<>>
    ELSE <<Min({row.from : row \in RowsOf(address)}), Max({row.to : row \in RowsOf(address)})>>

TxLedgers == {LedgerOf[t] : t \in txRows}
LatestTxLedger == UpTo(TxLedgers)             \* archiveLatestLedger
LatestLedger == UpTo(TxLedgers \cup ledgers)  \* latestLedger

(***************************************************************************)
(* conservativeCoverage: from the latest start of a row of its holders to  *)
(* the high-water of `ledgers`, or the earliest end; none if a holder has  *)
(* no row.                                                                 *)
(***************************************************************************)
ConservativeCoverage(i) ==
    LET members == {h \in Accounts : <<i, h>> \in holders}
        rows == UNION {RowsOf(h) : h \in members}
        low == Max({row.from : row \in rows})
        high == Max({Min({row.to : row \in rows})} \cup ledgers)
    IN  IF members = {} \/ (\E h \in members : RowsOf(h) = {}) \/ low > high
        THEN <<>> ELSE <<low, high>>

(* The metadata read for one account (accountMeta), up to a ledger. *)
AccountMeta(address, upTo) ==
    {t \in txRows : <<t, address>> \in links /\ (upTo = NoBound \/ LedgerOf[t] <= upTo)}

Ious(account) == {i \in Issuances \ Mpts : IssuerOf[i] = account}

-----------------------------------------------------------------------------
(***************************************************************************)
(* Requests.  `at` is the query a request has come to.                     *)
(***************************************************************************)
At(kind, stage) == request.kind = kind /\ request.at = stage
Become(r) == request' = r /\ UNCHANGED storeVars

(* The server answers, or refuses. *)
Done(r) == Become([r EXCEPT !.at = "done"])
Refuse == Become([request EXCEPT !.at = "refused"])

(* The client has its answer. *)
Leave ==
    /\ request.kind # "none"
    /\ request.at \in {"done", "refused"}
    /\ Become(NoRequest)

Ask(state) == request = NoRequest /\ Become(state)

(***************************************************************************)
(* ORDER BY: each row once, none before one that `before` puts ahead of it.*)
(* Rows it does not tell apart come in any order.                          *)
(***************************************************************************)
Ordered(rows, before(_, _)) ==
    CHOOSE s \in Bijection(1 .. Cardinality(rows), rows) :
        \A k, l \in 1 .. Cardinality(rows) : k < l => ~before(s[l], s[k])

(***************************************************************************)
(* account_tx: a window, a keyset cursor, the pages so far; `steady` are   *)
(* the rows that were in the window of every page.                         *)
(***************************************************************************)
AskAccountTx(r) ==
    /\ r.kind = "account_tx"
    /\ Known(r.account)
    /\ Ask([kind |-> r.kind, ask |-> r, at |-> "coverage", lo |-> 0, hi |-> 0,
            after |-> NoBound, got |-> <<>>, steady |-> {}])

AccountTxCoverage ==
    LET coverageOf == AccountCoverage(request.ask.account)
        asked == IF request.ask.to = NoBound THEN LastLedger ELSE request.ask.to
    IN
    /\ At("account_tx", "coverage")
    /\ Become([request EXCEPT
            !.at = "rows",
            !.lo = IF coverageOf = <<>> THEN request.ask.from
                                        ELSE Max({request.ask.from, coverageOf[1]}),
            !.hi = IF coverageOf = <<>> THEN asked ELSE Min({asked, coverageOf[2]})])

(***************************************************************************)
(* A cursor that is the ledger of the last row alone.                      *)
(***************************************************************************)
BeyondLedger(s, t, forward) ==
    IF forward THEN LedgerOf[s] > LedgerOf[t] ELSE LedgerOf[s] < LedgerOf[t]

(***************************************************************************)
(* (ledger_index, hash) past that of t, in the order asked for.            *)
(***************************************************************************)
Beyond(s, t, forward) ==
    LET above(x, y) == \/ LedgerOf[x] > LedgerOf[y]
                       \/ LedgerOf[x] = LedgerOf[y] /\ HashRank[x] > HashRank[y]
    IN  IF forward THEN above(s, t) ELSE above(t, s)

AccountTxPage ==
    LET r == request
        window == {t \in AccountMeta(r.ask.account, r.hi) : r.lo <= LedgerOf[t]}
        rest == {t \in window : r.after = NoBound \/ Beyond(t, r.after, r.ask.forward)}
        rows == Ordered(rest, LAMBDA s, t : Beyond(t, s, r.ask.forward))
        page == SubSeq(rows, 1, Min({PageLimit, Len(rows)}))
        next == [r EXCEPT !.got = @ \o page,
                          !.steady = IF r.after = NoBound THEN window ELSE @ \cap window]
    IN
    /\ At("account_tx", "rows")
    /\ IF Len(rows) > PageLimit
       THEN Become([next EXCEPT !.at = "coverage", !.after = Last(page)])
       ELSE Done(next)

(***************************************************************************)
(* mpt_holders: a cursor in the order of the MPToken ids; `steady` are the *)
(* holders listed by every page's query, `swept` whether the issuance's    *)
(* sweep had claimed the ledger asked for when the first was answered.     *)
(***************************************************************************)
AskMptHolders(r) ==
    /\ r.kind = "mpt_holders"
    /\ r.issuance \in Mpts
    /\ Ask([kind |-> r.kind, ask |-> r, at |-> "rows", after |-> NoBound, ledger |-> r.to,
            got |-> <<>>, steady |-> {}, swept |-> FALSE, more |-> FALSE])

(* The sweep of issuance i has claimed everything up to ledger l. *)
Swept(i, l) == \E row \in coverage : row.job = SweepJob(i) /\ l <= row.to

MptHoldersPage ==
    LET r == request  i == r.ask.issuance
        upTo == IF r.ask.to = NoBound THEN LastLedger ELSE r.ask.to
        all == Reconstructed({t \in IssuanceTx(i) : LedgerOf[t] <= upTo}, i)
        rest == {e \in all : ObjectRank[e.holder] > r.after}
        rows == Ordered(rest, LAMBDA e, f : ObjectRank[e.holder] < ObjectRank[f.holder])
        page == SubSeq(rows, 1, Min({PageLimit, Len(rows)}))
        first == r.after = NoBound
    IN
    /\ At("mpt_holders", "rows")
    /\ Become([r EXCEPT
            !.at = "ledger",
            !.got = @ \o page,
            !.steady = {e.holder : e \in all} \cap (IF first THEN Accounts ELSE @),
            !.swept = IF first THEN Swept(i, r.ask.to) ELSE @,
            !.more = Len(rows) > PageLimit,
            !.after = IF Len(rows) > PageLimit THEN ObjectRank[Last(page).holder] ELSE @])

(* The ledger reported: the one asked for, else the latest by now. *)
MptHoldersLedger ==
    LET r == [request EXCEPT
                !.ledger = IF request.ask.to = NoBound THEN LatestLedger ELSE request.ask.to]
    IN
    /\ At("mpt_holders", "ledger")
    /\ IF r.more THEN Become([r EXCEPT !.at = "rows"]) ELSE Done(r)

(***************************************************************************)
(* gateway_balances of an IOU issuer: the latest ledger, the coverage of   *)
(* each issuance, then the sum of each one's deltas.                       *)
(***************************************************************************)
AskGateway(r) ==
    /\ r.kind = "gateway_balances"
    /\ Ious(r.account) # {}
    /\ Ask([kind |-> r.kind, ask |-> r, at |-> "latest", ledger |-> r.to, todo |-> {},
            total |-> [i \in Ious(r.account) |-> 0], swept |-> {}])

GatewayLedger ==
    /\ At("gateway_balances", "latest")
    /\ Become([request EXCEPT
            !.at = "coverage",
            !.todo = Ious(request.ask.account),
            !.ledger = IF request.ask.to = NoBound THEN LatestLedger ELSE request.ask.to])

GatewayCoverage(i) ==
    LET window == ConservativeCoverage(i)
        rest == request.todo \ {i}
    IN
    /\ At("gateway_balances", "coverage")
    /\ i \in request.todo
    /\ IF window # <<>> /\ window[1] <= request.ledger /\ request.ledger <= window[2]
       THEN Become([request EXCEPT
                !.at = IF rest = {} THEN "sums" ELSE "coverage",
                !.todo = IF rest = {} THEN Ious(request.ask.account) ELSE rest])
       ELSE Refuse

GatewaySum(i) ==
    LET rest == request.todo \ {i}
        held == [h \in Accounts \ {request.ask.account} |->
                    DeltaSum(<<i, h>>, 0, request.ledger)]
    IN
    /\ At("gateway_balances", "sums")
    /\ i \in request.todo
    /\ Become([request EXCEPT
            !.at = IF rest = {} THEN "done" ELSE "sums",
            !.todo = rest,
            !.total[i] = SumFunction(held),
            !.swept = IF Swept(i, request.ledger) THEN @ \cup {i} ELSE @])

(***************************************************************************)
(* archive_balance_at and archive_transactions: the end of the range, a    *)
(* date perhaps; then the sum, or the items, and for a balance whether the *)
(* account's coverage reaches that far.                                    *)
(***************************************************************************)
Reporting == {"archive_balance_at", "archive_transactions"}

AskReport(r) ==
    /\ r.kind \in Reporting
    /\ Ask([kind |-> r.kind, ask |-> r,
            at |-> IF r.date # NoBound THEN "bounds" ELSE "latest", ledger |-> NoBound,
            lo |-> 0, hi |-> 0, first |-> 0, last |-> 0,
            items |-> {}, balance |-> 0, warned |-> FALSE, swept |-> FALSE])

(***************************************************************************)
(* "validated", or no end of the range: the latest ledger with a stored    *)
(* transaction.  Over an empty archive a balance is refused, a range ends  *)
(* at 0.                                                                   *)
(***************************************************************************)
ReportLedger ==
    /\ request.kind \in Reporting /\ request.at = "latest"
    /\ IF request.kind = "archive_balance_at" /\ request.ask.to = NoBound /\ txRows = {}
       THEN Refuse
       ELSE Become([request EXCEPT
                !.at = "sum",
                !.ledger = IF request.ask.to = NoBound THEN LatestTxLedger ELSE request.ask.to])

(* lazyLedgerTimeResolver: the bounds of the search. *)
SearchBounds ==
    /\ request.kind \in Reporting /\ request.at = "bounds"
    /\ IF txRows = {} THEN Refuse
       ELSE Become([request EXCEPT !.at = "probe",
                                   !.lo = Min(TxLedgers), !.hi = Max(TxLedgers),
                                   !.first = Min(TxLedgers), !.last = Max(TxLedgers)])

(***************************************************************************)
(* A step of the search that keeps the ledger it has just tried.           *)
(***************************************************************************)
NarrowedStuck(r, mid, known) ==
    IF known /\ CloseTime[mid] <= r.ask.date
    THEN [r EXCEPT !.ledger = mid, !.lo = mid]
    ELSE [r EXCEPT !.hi = mid - 1]

(***************************************************************************)
(* A ledger that closed at the very moment asked about, taken for later.   *)
(***************************************************************************)
NarrowedBefore(r, mid, known) ==
    IF known /\ CloseTime[mid] < r.ask.date
    THEN [r EXCEPT !.ledger = mid, !.lo = mid + 1]
    ELSE [r EXCEPT !.hi = mid - 1]

(***************************************************************************)
(* The search after the answer for ledger mid: an unknown close time sends *)
(* it to older ledgers.                                                    *)
(***************************************************************************)
Narrowed(r, mid, known) ==
    IF known /\ CloseTime[mid] <= r.ask.date
    THEN [r EXCEPT !.ledger = mid, !.lo = mid + 1]
    ELSE [r EXCEPT !.hi = mid - 1]

(***************************************************************************)
(* One probe: the close time from the table, or from Clio and then         *)
(* recorded.                                                               *)
(***************************************************************************)
Probe ==
    LET mid == request.lo + (request.hi - request.lo) \div 2
        known == mid \in ledgers \/ mid \notin Untimed
    IN
    /\ request.kind \in Reporting /\ request.at = "probe"
    /\ request.lo <= request.hi
    /\ request' = Narrowed(request, mid, known)
    /\ ledgers' = IF known THEN ledgers \cup {mid} ELSE ledgers
    /\ UNCHANGED <<archiveVars, holders, jobs, cursor, tip>>

(* The `ledger` request fails: so does the client's. *)
ProbeFails ==
    /\ request.kind \in Reporting /\ request.at = "probe"
    /\ request.lo <= request.hi
    /\ Refuse

SearchEnds ==
    /\ request.kind \in Reporting /\ request.at = "probe"
    /\ request.lo > request.hi
    /\ IF request.ledger = NoBound THEN Refuse
                                   ELSE Become([request EXCEPT !.at = "sum"])

ReportItems ==
    LET r == request
        rows == {d \in deltas : /\ d[2] = r.ask.issuance /\ d[3] = r.ask.account
                                /\ r.ask.from <= LedgerOf[d[1]] /\ LedgerOf[d[1]] <= r.ledger}
        items == {[tx |-> d[1], delta |-> Delta(d[1], <<d[2], d[3]>>)] : d \in rows}
    IN
    /\ At("archive_transactions", "sum")
    /\ Done([r EXCEPT !.items = {e \in items : e.delta # 0},
                      !.swept = Swept(r.ask.issuance, r.ledger)])

BalanceSum ==
    LET o == <<request.ask.issuance, request.ask.account>> IN
    /\ At("archive_balance_at", "sum")
    /\ IF o \notin holders THEN Refuse
       ELSE Become([request EXCEPT !.at = "coverage",
                                   !.balance = DeltaSum(o, 0, request.ledger),
                                   !.swept = Swept(o[1], request.ledger)])

BalanceCoverage ==
    LET coverageOf == AccountCoverage(request.ask.account) IN
    /\ At("archive_balance_at", "coverage")
    /\ Done([request EXCEPT
            !.warned = coverageOf # <<>> /\ request.ledger > coverageOf[2]])

(***************************************************************************)
(* account_lines: the account's metadata, then its coverage for the ledger *)
(* to report, or the latest it read of.  `swept` are the issuances claimed *)
(* when the metadata was read, each with how far.                          *)
(***************************************************************************)
AskAccountLines(r) ==
    /\ r.kind = "account_lines"
    /\ Known(r.account)
    /\ Ask([kind |-> r.kind, ask |-> r, at |-> "meta", entries |-> {}, lines |-> {},
            ledger |-> 0, warned |-> FALSE, swept |-> {}])

AccountLinesMeta ==
    LET entries == AccountMeta(request.ask.account, request.ask.to) IN
    /\ At("account_lines", "meta")
    /\ Become([request EXCEPT
            !.at = "coverage",
            !.entries = entries,
            !.lines = AccountLines(entries, request.ask.account),
            !.swept = {p \in Issuances \X (0 .. LastLedger) : Swept(p[1], p[2])}])

(* asOfLedger. *)
AccountLinesLedger ==
    LET coverageOf == AccountCoverage(request.ask.account)
        read == {LedgerOf[t] : t \in request.entries}
    IN
    /\ At("account_lines", "coverage")
    /\ Done([request EXCEPT
            !.ledger = IF coverageOf # <<>> THEN coverageOf[2]
                       ELSE IF read # {} THEN UpTo(read) ELSE LatestLedger,
            !.warned = coverageOf = <<>>])

(***************************************************************************)
(* Reconciler.runMpt, runIou: the summed deltas, the reconstruction, the   *)
(* members, and the comparison.  `derivedFrom` are the transactions whose  *)
(* deltas were summed, `entries` those reconstructed from.                 *)
(***************************************************************************)
AskTieOut(r) ==
    /\ r.kind = "tie_out"
    /\ Ask([kind |-> r.kind, ask |-> r, at |-> "derived", derived |-> <<>>,
            derivedFrom |-> {}, entries |-> {}, reconstructed |-> {}, discrepancies |-> {}])

TieOutDerived ==
    LET i == request.ask.issuance IN
    /\ At("tie_out", "derived")
    /\ Become([request EXCEPT !.at = "entries",
                              !.derived = [h \in Accounts |-> Derived(<<i, h>>)],
                              !.derivedFrom = {t \in Tx : \E h \in Accounts : <<t, i, h>> \in deltas}])

TieOutEntries ==
    LET i == request.ask.issuance IN
    /\ At("tie_out", "entries")
    /\ Become([request EXCEPT !.at = "scope",
                              !.entries = IssuanceTx(i),
                              !.reconstructed = Reconstructed(IssuanceTx(i), i)])

TieOutCompare ==
    LET r == request
        found(h) == {e.amount : e \in {x \in r.reconstructed : x.holder = h}}
        agrees(h) == r.derived[h] = IF found(h) = {} THEN 0 ELSE CHOOSE a \in found(h) : TRUE
    IN
    /\ At("tie_out", "scope")
    /\ Done([r EXCEPT !.discrepancies =
                {h \in Accounts : <<r.ask.issuance, h>> \in holders /\ ~agrees(h)}])

-----------------------------------------------------------------------------
Ingest ==
    \/ \E i \in Issuances : SweepPage(i) \/ Rederive(i)
    \/ \E j \in jobs : HolderPage(j)
    \/ CloseLedger
    \/ \E t \in Tx : StreamTransaction(t)
    \/ \E i \in Issuances, h \in Accounts : TrackHolder(i, h)
    \/ EnsureLedgerCloseTimes

Serve ==
    \/ AccountTxCoverage \/ AccountTxPage
    \/ MptHoldersPage \/ MptHoldersLedger
    \/ GatewayLedger \/ \E i \in Issuances : GatewayCoverage(i) \/ GatewaySum(i)
    \/ ReportLedger \/ SearchBounds \/ Probe \/ ProbeFails \/ SearchEnds
    \/ ReportItems \/ BalanceSum \/ BalanceCoverage
    \/ AccountLinesMeta \/ AccountLinesLedger
    \/ TieOutDerived \/ TieOutEntries \/ TieOutCompare
    \/ Leave

AskAny ==
    \E r \in Requests :
        \/ AskAccountTx(r) \/ AskMptHolders(r) \/ AskGateway(r)
        \/ AskReport(r) \/ AskAccountLines(r) \/ AskTieOut(r)

Next == Ingest \/ AskAny \/ Serve

Spec == Init /\ [][Next]_vars

-----------------------------------------------------------------------------
TypeOK ==
    /\ ArchiveTypeOK
    /\ holders \subseteq Balance /\ jobs \subseteq Balance
    /\ cursor \in [Balance -> Tx \cup {0}]
    /\ ledgers \subseteq 1 .. LastLedger /\ tip \in StartTip .. LastLedger
    /\ request.kind # "none" => /\ request.ask \in Requests
                                /\ request.kind = request.ask.kind

(***************************************************************************)
(* account_tx, paged with its keyset cursor while rows are being stored    *)
(* and coverage claimed, gives each transaction once, in order, and leaves *)
(* out none that was in the window from the first page to the last, even   *)
(* among transactions of one ledger (accountTx.ts, parseMarker: "stable    *)
(* under concurrent ingest").                                              *)
(***************************************************************************)
PagesComplete ==
    request.kind = "account_tx" =>
        /\ \A k, l \in 1 .. Len(request.got) :
              k < l => Beyond(request.got[l], request.got[k], request.ask.forward)
        /\ request.at = "done" => request.steady \subseteq ToSet(request.got)

(***************************************************************************)
(* mpt_holders, paged: no holder twice and none missed that every page's   *)
(* query saw; and at a past ledger the issuance's sweep had claimed, the   *)
(* listing is what the ledger held, the holders met since notwithstanding. *)
(***************************************************************************)
ListingExact ==
    At("mpt_holders", "done") =>
        LET got == request.got
            i == request.ask.issuance
            l == request.ask.to
            touched == {h \in Accounts : \E t \in Tx : LedgerOf[t] <= l /\ h \in HoldersIn(t, i)}
            live == {h \in touched : State({t \in Tx : LedgerOf[t] <= l}, <<i, h>>) # Gone}
        IN
        /\ \A k, n \in 1 .. Len(got) : got[k].holder = got[n].holder => k = n
        /\ request.steady \subseteq {e.holder : e \in ToSet(got)}
        /\ l # NoBound /\ request.swept =>
              ToSet(got) = {[holder |-> h, amount |-> LedgerBalance(<<i, h>>, l)] : h \in live}

(* No change of balance up to ledger l that a delta gets wrong. *)
Countable(o, l) ==
    \A t \in Tx : o \in Touches[t] /\ LedgerOf[t] <= l => ~Miscounted(t, o)

(***************************************************************************)
(* gateway_balances, where it answers at all: once the sweep of an IOU has *)
(* claimed the ledger it reports, the obligations are what the ledger's    *)
(* trust lines add up to, on whichever side their holders are and whatever *)
(* was stored between its queries.                                         *)
(***************************************************************************)
GatewayExact ==
    At("gateway_balances", "done") =>
        \A i \in Ious(request.ask.account) :
            LET l == request.ledger
                balance == [h \in Accounts |-> LedgerBalance(<<i, h>>, l)]
            IN  i \in request.swept /\ (\A h \in Accounts : Countable(<<i, h>>, l)) =>
                    request.total[i] = SumFunction(balance)

(***************************************************************************)
(* A balance as of a ledger or a date, and the items of a range: once the  *)
(* sweep of the issuance has claimed the ledger, they are what the ledger  *)
(* held then, and what changed it since the start of the range             *)
(* (reporting.ts: "Exact", "traces every balance change").                 *)
(***************************************************************************)
ReportExact ==
    request.kind \in Reporting /\ request.at = "done" =>
        LET o == <<request.ask.issuance, request.ask.account>>
            l == request.ledger
            before == request.ask.from - 1
            change == [e \in request.items |-> e.delta]
        IN  request.swept /\ Countable(o, LastLedger) =>
                IF request.kind = "archive_balance_at"
                THEN request.balance = LedgerBalance(o, l)
                ELSE request.ask.from <= l =>
                        SumFunction(change)
                            = LedgerBalance(o, l) - LedgerBalance(o, before)

(***************************************************************************)
(* A date resolves to the last ledger within the bounds that had closed by *)
(* then, if the close times of all are known; never to a later one.        *)
(***************************************************************************)
ResolverExact ==
    request.kind \in Reporting /\ request.at \in {"sum", "done"} /\ request.ask.date # NoBound =>
        LET closed == {l \in request.first .. request.last : CloseTime[l] <= request.ask.date} IN
        /\ request.ledger \in closed
        /\ Untimed \cap (request.first .. request.last) = {} => request.ledger = Max(closed)

(***************************************************************************)
(* account_lines at the latest ledger: with the sweeps of the account's    *)
(* IOUs claimed up to the ledger it reports before the metadata was read,  *)
(* and nothing read beyond it, its lines are the ledger's.                 *)
(***************************************************************************)
LinesExact ==
    At("account_lines", "done") /\ request.ask.to = NoBound =>
        LET l == request.ledger
            a == request.ask.account
            live == {o \in Balance : /\ o[1] \notin Mpts
                                     /\ State({t \in Tx : LedgerOf[t] <= l}, o) # Gone}
        IN  /\ \A i \in Issuances \ Mpts : <<i, l>> \in request.swept
            /\ \A t \in request.entries : LedgerOf[t] <= l
            => request.lines =
                 {[currency |-> o[1], peer |-> IssuerOf[o[1]], balance |-> LedgerBalance(o, l)] :
                    o \in {x \in live : x[2] = a}} \cup
                 {[currency |-> o[1], peer |-> o[2], balance |-> 0 - LedgerBalance(o, l)] :
                    o \in {x \in live : IssuerOf[x[1]] = a}}

(***************************************************************************)
(* The tie-out of an issuance disagrees about a holder only for a cause    *)
(* that can be named: a transaction that one of its two reads saw and the  *)
(* other did not (stored in between, or stored by the sweep of another     *)
(* issuance and not derived yet), a hole in the stored history of that     *)
(* balance, or a change that no delta records.                             *)
(***************************************************************************)
TieOutAgrees ==
    At("tie_out", "done") =>
        \A h \in request.discrepancies :
            LET o == <<request.ask.issuance, h>>
                of(S) == {t \in S : o \in Touches[t]}
                from == of(request.derivedFrom)
            IN  \/ of(request.entries) # from
                \/ \E s \in of(Tx) \ from : \E t \in from : s < t
                \/ \E t \in from : Miscounted(t, o)

(***************************************************************************)
(* The search for a date narrows with every probe, so it ends, close times *)
(* that Clio does not know included.                                       *)
(***************************************************************************)
SearchNarrows ==
    [][request.kind \in Reporting /\ request.at = "probe" /\ request'.at = "probe" =>
            request'.hi - request'.lo < request.hi - request.lo]_request

(***************************************************************************)
(* gatewayBalances.ts: "never a silently under-counted total".             *)
(***************************************************************************)
NeverUnderCounted ==
    At("gateway_balances", "done") =>
        \A i \in Ious(request.ask.account) :
            LET balance == [h \in Accounts |-> LedgerBalance(<<i, h>>, request.ledger)] IN
            (\A h \in Accounts : Countable(<<i, h>>, request.ledger)) =>
                request.total[i] >= SumFunction(balance)

(***************************************************************************)
(* mptDeltas.ts: "summing an account's deltas over all its transactions    *)
(* reproduces its balance".                                                *)
(***************************************************************************)
DeltasReproduceBalance ==
    \A o \in Balance :
        (\A t \in Tx : o \in Touches[t] => <<t, o[1], o[2]>> \in deltas) =>
            Derived(o) = LedgerBalance(o, LastLedger)
=============================================================================
