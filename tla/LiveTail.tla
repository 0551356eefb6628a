------------------------------ MODULE LiveTail ------------------------------
(***************************************************************************)
(* The live tail (src/livetail): the subscription and its per-transaction  *)
(* fetch (xrplSource.ts), the event loop (liveTail.ts), gap detection and  *)
(* gap heal (gapTracker.ts, gapFill.ts), the restart that anchors it, and  *)
(* the registration of an issuance while the tail runs (src/server.ts).    *)
(*                                                                         *)
(* The sweep of a registration is one step here: Backfill.tla is about it. *)
(***************************************************************************)
EXTENDS Archive, Sequences

CONSTANTS
    Initial,        \* issuances registered and swept when the model starts
    StartTip,       \* the validated ledger then, up to which they are stored
    LastLedger,     \* bound: the last ledger that closes
    MaxDrops,       \* bound: connection losses
    MaxFetchFaults, \* bound: failed `tx` fetches
    MaxCrashes      \* bound: restarts, by a crash or a heal that fails

ASSUME LiveTailAssumption ==
    /\ Initial \subseteq Issuances
    /\ StartTip \in Nat \ {0} /\ LastLedger \in Nat
    /\ MaxDrops \in Nat /\ MaxFetchFaults \in Nat /\ MaxCrashes \in Nat

VARIABLES
    recorded,   \* max(ledger_index) of the table `ledgers`, 0 when it is empty
    rows,       \* the table `issuances`
    tracked,    \* server.ts `tracked`
    listed,     \* the issuances whose issuers XrplTailSource subscribes to
    live,       \* the subscription is up
    wire,       \* messages of the subscription under way
    fetching,   \* streamed transactions whose `tx` fetch is under way
    queue,      \* the EventQueue
    last,       \* GapTracker.#last, 0 for null
    healing,    \* the heal the tail waits for: what it has left, per issuer
    reg,        \* how far the registration of each issuance has come
    tip,        \* the last validated ledger upstream
    faults,     \* how often each kind of fault happened
    lost        \* never stored, in a ledger the tail never looks at again

tailVars == <<recorded, live, wire, fetching, queue, last, healing>>
serverVars == <<rows, tracked, listed, reg>>
envVars == <<tip, faults, lost>>
vars == <<archiveVars, tailVars, serverVars, envVars>>

Issuers == {IssuerOf[i] : i \in Issuances}
LargerOf(m, n) == IF m <= n THEN n ELSE m

(***************************************************************************)
(* The issuances of `listed` whose activity the subscription covers:       *)
(* subscribing to an issuer covers every token it issues.                  *)
(***************************************************************************)
Covered == {i \in Issuances : IssuerOf[i] \in IssuersOf(listed)}

(***************************************************************************)
(* The fields of a message swapped.                                        *)
(***************************************************************************)
MessageSwapped(ledger, t) == [ledger |-> t, tx |-> ledger]

(***************************************************************************)
(* A message: the close of a ledger (no transaction, 0), or a transaction. *)
(* An event: the same, with the issuances tracked when it was received.    *)
(***************************************************************************)
Message(ledger, t) == [ledger |-> ledger, tx |-> t]
Event(ledger, t, scope) == [ledger |-> ledger, tx |-> t, scope |-> scope]

NoHeal == [x \in Issuers |-> {}]
IsHealing == healing.on

Init ==
    /\ txRows = {t \in Tx : LedgerOf[t] <= StartTip /\ InScope(t, Initial)}
    /\ links = UNION {SweepLinks({t \in txRows : InScope(t, {i})}, {i}, IssuerOf[i]) :
                         i \in Initial}
    /\ deltas = DeltaRows(txRows, Initial)
    /\ coverage = {[address |-> IssuerOf[i], from |-> 1, to |-> StartTip,
                    job |-> <<i, IssuerOf[i]>>] : i \in Initial}
    /\ recorded = 0 /\ rows = Initial /\ tracked = Initial /\ listed = Initial
    /\ live = TRUE /\ wire = {} /\ fetching = {} /\ queue = <<>>
    /\ last = IF Initial = {} THEN 0 ELSE StartTip
    /\ healing = [on |-> FALSE, rest |-> NoHeal]
    /\ reg = [i \in Issuances |-> [pc |-> IF i \in Initial THEN "done" ELSE "none",
                                   hi |-> 0, rest |-> {}]]
    /\ tip = StartTip
    /\ faults = [drops |-> 0, fetches |-> 0, crashes |-> 0]
    /\ lost = {}

-----------------------------------------------------------------------------
(***************************************************************************)
(* Upstream, and the connection to it.                                     *)
(***************************************************************************)

(***************************************************************************)
(* A ledger is validated.  A live subscription is sent its close and then  *)
(* its transactions that touch a subscribed account.                       *)
(***************************************************************************)
CloseLedger ==
    /\ tip < LastLedger
    /\ tip' = tip + 1
    /\ wire' = IF live
               THEN wire \cup {Message(tip', 0)} \cup
                    {Message(tip', t) : t \in {s \in Tx : /\ LedgerOf[s] = tip'
                                                          /\ InScope(s, Covered)}}
               ELSE wire
    /\ UNCHANGED <<archiveVars, recorded, live, fetching, queue, last, healing,
                   serverVars, faults, lost>>

(***************************************************************************)
(* The socket drops, and with it what was on the wire.  A transaction is   *)
(* lost if the close of its ledger had got through: no gap will show.      *)
(***************************************************************************)
Disconnect ==
    /\ live
    /\ faults.drops < MaxDrops
    /\ faults' = [faults EXCEPT !.drops = @ + 1]
    /\ live' = FALSE
    /\ wire' = {}
    /\ lost' = lost \cup {m.tx : m \in {n \in wire : Message(n.ledger, 0) \notin wire}}
    /\ UNCHANGED <<archiveVars, recorded, fetching, queue, last, healing, serverVars, tip>>

(***************************************************************************)
(* The client reconnects by itself and subscribes again.  A subscribe that *)
(* fails is only logged: the tail stays quiet until the next one.          *)
(***************************************************************************)
Reconnect ==
    /\ ~live
    /\ live' = TRUE
    /\ UNCHANGED <<archiveVars, recorded, wire, fetching, queue, last, healing,
                   serverVars, envVars>>

-----------------------------------------------------------------------------
(***************************************************************************)
(* The source: messages become events.                                     *)
(***************************************************************************)

(***************************************************************************)
(* The next message arrives.  A ledger close is an event at once; of a     *)
(* transaction that touches a tracked issuance the binary is fetched.      *)
(***************************************************************************)
Receive ==
    \E m \in wire :
        /\ \A n \in wire : m.ledger < n.ledger \/ (m.ledger = n.ledger /\ m.tx <= n.tx)
        /\ wire' = wire \ {m}
        /\ IF m.tx = 0
           THEN queue' = Append(queue, Event(m.ledger, 0, {})) /\ UNCHANGED fetching
           ELSE /\ fetching' = IF InScope(m.tx, tracked)
                               THEN fetching \cup {Event(m.ledger, m.tx, tracked)}
                               ELSE fetching
                /\ UNCHANGED queue
        /\ UNCHANGED <<archiveVars, recorded, live, last, healing, serverVars, envVars>>

(* The fetch returns, in any order, and the transaction joins the queue.    *)
FetchReturns ==
    \E f \in fetching :
        /\ fetching' = fetching \ {f}
        /\ queue' = Append(queue, f)
        /\ UNCHANGED <<archiveVars, recorded, live, wire, last, healing, serverVars, envVars>>

(* The fetch fails after its retries: an error is logged, nothing is queued. *)
FetchFails ==
    \E f \in fetching :
        /\ faults.fetches < MaxFetchFaults
        /\ faults' = [faults EXCEPT !.fetches = @ + 1]
        /\ fetching' = fetching \ {f}
        /\ lost' = lost \cup {f.tx}
        /\ UNCHANGED <<archiveVars, recorded, live, wire, queue, last, healing,
                       serverVars, tip>>

-----------------------------------------------------------------------------
(***************************************************************************)
(* The event loop.  It takes no event while it waits for a heal.           *)
(***************************************************************************)
NextEvent == queue # <<>> /\ ~IsHealing

(***************************************************************************)
(* A transaction: row, links to the accounts in scope when it was          *)
(* received (holders and their issuers) and deltas of what is tracked now. *)
(***************************************************************************)
IngestTransaction ==
    /\ NextEvent
    /\ LET ev == Head(queue) IN
       /\ ev.tx # 0
       /\ txRows' = txRows \cup {ev.tx}
       /\ links' = links \cup TouchedLinks(ev.tx, ev.scope)
       /\ deltas' = deltas \cup DeltaRows({ev.tx}, tracked)
    /\ queue' = Tail(queue)
    /\ UNCHANGED <<coverage, recorded, live, wire, fetching, last, healing,
                   serverVars, envVars>>

(***************************************************************************)
(* A gap that starts one ledger late.                                      *)
(***************************************************************************)
GapOfOpen(issuer, from, to) == AccountTx(issuer, from + 1, to, 0)

(***************************************************************************)
(* What a heal has to page: account_tx of an issuer over the gap.          *)
(***************************************************************************)
GapOf(issuer, from, to) == AccountTx(issuer, from, to, 0)

(***************************************************************************)
(* A ledger close: recorded, then observed by the gap tracker, which moves *)
(* on before the gap it reveals is healed.                                 *)
(***************************************************************************)
ObserveLedger ==
    /\ NextEvent
    /\ LET n == Head(queue).ledger IN
       /\ Head(queue).tx = 0
       /\ recorded' = LargerOf(recorded, n)
       /\ last' = LargerOf(last, n)
       /\ healing' = IF last # 0 /\ n > last + 1
                     THEN [on |-> TRUE,
                           rest |-> [x \in Issuers |-> IF x \in IssuersOf(tracked)
                                                       THEN GapOf(x, last + 1, n - 1) ELSE {}]]
                     ELSE healing
    /\ queue' = Tail(queue)
    /\ UNCHANGED <<archiveVars, live, wire, fetching, serverVars, envVars>>

(***************************************************************************)
(* A page of a heal of `issuer`: of what it lists, what touches an         *)
(* issuance tracked now is stored, linked and derived.                     *)
(***************************************************************************)
StorePage(page, issuer) ==
    LET kept == {t \in page : InScope(t, tracked)} IN
    /\ txRows' = txRows \cup kept
    /\ links' = links \cup SweepLinks(kept, tracked, issuer)
    /\ deltas' = deltas \cup DeltaRows(kept, tracked)

(* A page that never holds the last entry.                                  *)
PagesShort(rest) == {{t \in rest : t < upto} : upto \in rest}

(* The first entries of what is left, in ledger order.                      *)
Pages(rest) == {{t \in rest : t <= upto} : upto \in rest}

HealPage ==
    /\ IsHealing
    /\ \E x \in Issuers : \E page \in Pages(healing.rest[x]) :
          /\ StorePage(page, x)
          /\ healing' = [healing EXCEPT !.rest[x] = @ \ page]
    /\ UNCHANGED <<coverage, recorded, live, wire, fetching, queue, last,
                   serverVars, envVars>>

HealEnds ==
    /\ IsHealing
    /\ healing.rest = NoHeal
    /\ healing' = [healing EXCEPT !.on = FALSE]
    /\ UNCHANGED <<archiveVars, recorded, live, wire, fetching, queue, last,
                   serverVars, envVars>>

-----------------------------------------------------------------------------
(***************************************************************************)
(* Registration: sweep, track, subscribe, heal the window the sweep left.  *)
(***************************************************************************)
Step(i, from, to) ==
    /\ reg[i].pc = from
    /\ reg' = [reg EXCEPT ![i].pc = to]

Register(i) ==
    /\ Step(i, "none", "sweep")
    /\ rows' = rows \cup {i}
    /\ UNCHANGED <<archiveVars, tailVars, tracked, listed, envVars>>

(***************************************************************************)
(* The sweep completes: the issuance's history up to now is stored and     *)
(* covered up to the last ledger that touched it, its high-water mark.  A  *)
(* resumed sweep has nothing after it: only a registration goes on.        *)
(***************************************************************************)
Sweep(i) ==
    LET kept == {t \in AccountTx(IssuerOf[i], 0, tip, 0) : InScope(t, {i})} IN
    /\ reg[i].pc \in {"sweep", "resume"}
    /\ txRows' = txRows \cup kept
    /\ links' = links \cup SweepLinks(kept, {i}, IssuerOf[i])
    /\ deltas' = deltas \cup DeltaRows(kept, {i})
    /\ \E hi \in {0} \cup {LedgerOf[t] : t \in kept} :
          /\ \A t \in kept : LedgerOf[t] <= hi
          /\ coverage' = coverage \cup {[address |-> IssuerOf[i], from |-> 0, to |-> hi,
                                         job |-> <<i, IssuerOf[i]>>]}
          /\ reg' = [reg EXCEPT ![i].pc = IF @ = "sweep" THEN "swept" ELSE "done", ![i].hi = hi]
    /\ UNCHANGED <<tailVars, rows, tracked, listed, envVars>>

(* refreshTracked: every issuance of the table, this one included.          *)
Track(i) ==
    /\ Step(i, "swept", "tracked")
    /\ tracked' = rows
    /\ UNCHANGED <<archiveVars, tailVars, rows, listed, envVars>>

(* setAccounts: the issuers of what is tracked join the subscription.       *)
Subscribe(i) ==
    /\ Step(i, "tracked", "subscribed")
    /\ listed' = tracked
    /\ UNCHANGED <<archiveVars, tailVars, rows, tracked, envVars>>

(***************************************************************************)
(* healPostBackfill: from the sweep's high-water mark to the last recorded *)
(* ledger, if the tail has recorded one after it.                          *)
(***************************************************************************)
HealPostBackfill(i) ==
    /\ reg[i].pc = "subscribed"
    /\ reg' = IF recorded <= reg[i].hi
              THEN [reg EXCEPT ![i].pc = "done"]
              ELSE [reg EXCEPT ![i].pc = "heal",
                               ![i].rest = GapOf(IssuerOf[i], reg[i].hi, recorded)]
    /\ UNCHANGED <<archiveVars, tailVars, rows, tracked, listed, envVars>>

PostHealPage(i) ==
    /\ reg[i].pc = "heal"
    /\ \E page \in Pages(reg[i].rest) :
          /\ StorePage(page, IssuerOf[i])
          /\ reg' = [reg EXCEPT ![i].rest = @ \ page]
    /\ UNCHANGED <<coverage, tailVars, rows, tracked, listed, envVars>>

PostHealEnds(i) ==
    /\ reg[i].rest = {}
    /\ Step(i, "heal", "done")
    /\ UNCHANGED <<archiveVars, tailVars, rows, tracked, listed, envVars>>

(***************************************************************************)
(* The end of an hourly re-discovery, with its two awaits.                 *)
(***************************************************************************)
RefreshTracked ==
    /\ tracked' = rows
    /\ UNCHANGED <<archiveVars, tailVars, rows, listed, reg, envVars>>

RefreshSubscription ==
    /\ listed' = tracked
    /\ UNCHANGED <<archiveVars, tailVars, rows, tracked, reg, envVars>>

-----------------------------------------------------------------------------
(***************************************************************************)
(* Close times are filled in for ledgers of stored transactions, on demand *)
(* (src/api/ledgerTime.ts): `ledgers` is not written by the tail alone.    *)
(***************************************************************************)
ProbeCloseTime ==
    \E t \in txRows :
        /\ LedgerOf[t] > recorded
        /\ recorded' = LedgerOf[t]
        /\ UNCHANGED <<archiveVars, live, wire, fetching, queue, last, healing,
                       serverVars, envVars>>

(***************************************************************************)
(* The transactions the tail still has in hand.                            *)
(***************************************************************************)
InHand ==
    {m.tx : m \in {n \in wire : n.tx # 0}} \cup {f.tx : f \in fetching}
    \cup {queue[n].tx : n \in {k \in DOMAIN queue : queue[k].tx # 0}}
    \cup UNION {healing.rest[x] : x \in Issuers}

(***************************************************************************)
(* The anchor of a restart: the highest ledger covered or recorded.        *)
(***************************************************************************)
IsAnchor(n) ==
    LET seen == {row.to : row \in coverage} \cup {recorded, 0} IN
    n \in seen /\ \A l \in seen : l <= n

(***************************************************************************)
(* The process ends and the service manager starts it again.  What the     *)
(* anchor is past is not looked at again: what was in hand, and what the   *)
(* tail had not come to.                                                   *)
(***************************************************************************)
Restart ==
    /\ \E anchor \in 0 .. LastLedger :
          /\ IsAnchor(anchor)
          /\ last' = anchor
          /\ lost' = lost \cup {t \in Tx : LedgerOf[t] <= anchor
                                          /\ (t \in InHand \/ last < LedgerOf[t])}
    /\ live' = FALSE /\ wire' = {} /\ fetching' = {} /\ queue' = <<>>
    /\ healing' = [on |-> FALSE, rest |-> NoHeal]
    /\ tracked' = rows /\ listed' = rows
    /\ reg' = [i \in Issuances |->
                 [reg[i] EXCEPT !.rest = {},
                                !.pc = CASE @ = "none" -> "none"
                                         [] @ \in {"sweep", "resume"} -> "resume"
                                         [] OTHER -> "done"]]
    /\ UNCHANGED <<archiveVars, recorded, rows, tip>>

(***************************************************************************)
(* A crash, in any state, or a heal that failed: nobody catches it.        *)
(***************************************************************************)
Crash ==
    /\ faults.crashes < MaxCrashes
    /\ faults' = [faults EXCEPT !.crashes = @ + 1]
    /\ Restart

-----------------------------------------------------------------------------
TailStep == IngestTransaction \/ ObserveLedger \/ HealPage \/ HealEnds
SourceStep == Reconnect \/ Receive \/ FetchReturns

RegStep(i) ==
    \/ Register(i) \/ Sweep(i) \/ Track(i) \/ Subscribe(i)
    \/ HealPostBackfill(i) \/ PostHealPage(i) \/ PostHealEnds(i)

Next ==
    \/ CloseLedger \/ Disconnect \/ FetchFails \/ ProbeCloseTime \/ Crash
    \/ TailStep \/ SourceStep \/ RefreshTracked \/ RefreshSubscription
    \/ \E i \in Issuances : RegStep(i)

Spec == Init /\ [][Next]_vars

(***************************************************************************)
(* Messages arrive, fetches return or fail, and the loop goes on with the  *)
(* event or the heal at hand.  Nothing says that a dropped socket comes    *)
(* back, or that a ledger closes.                                          *)
(***************************************************************************)
Fairness == WF_vars(TailStep) /\ WF_vars(Receive) /\ WF_vars(FetchReturns)

LiveSpec == Spec /\ Fairness

-----------------------------------------------------------------------------
(***************************************************************************)
(* Properties.                                                             *)
(***************************************************************************)
MessageSet == [ledger : Nat, tx : Tx \cup {0}]
EventSet == [ledger : Nat, tx : Tx \cup {0}, scope : SUBSET Issuances]

(***************************************************************************)
(* Tables, source, queue, heals and registrations have their types.        *)
(***************************************************************************)
TypeOK ==
    /\ ArchiveTypeOK
    /\ recorded \in Nat /\ last \in Nat /\ tip \in Nat /\ live \in BOOLEAN
    /\ rows \subseteq Issuances /\ tracked \subseteq rows /\ listed \subseteq rows
    /\ wire \subseteq MessageSet
    /\ fetching \subseteq EventSet
    /\ queue \in Seq(EventSet)
    /\ healing \in [on : BOOLEAN, rest : [Issuers -> SUBSET Tx]]
    /\ reg \in [Issuances ->
                  [pc : {"none", "sweep", "resume", "swept", "tracked", "subscribed", "heal", "done"},
                   hi : Nat, rest : SUBSET Tx]]
    /\ faults \in [drops : 0 .. MaxDrops, fetches : 0 .. MaxFetchFaults,
                   crashes : 0 .. MaxCrashes]
    /\ lost \subseteq Tx

(***************************************************************************)
(* The archive holds transaction t for issuance i: for each holder it      *)
(* names, and for the issuer.                                              *)
(***************************************************************************)
Complete(t, i) ==
    \A h \in HoldersIn(t, i) : Held(t, i, h, h) /\ Held(t, i, h, IssuerOf[i])

(***************************************************************************)
(* Nothing slips through: of an issuance tracked from the start, whatever  *)
(* a ledger up to the tracker's position touched is complete, or in hand,  *)
(* or was lost: its fetch failed, the socket dropped between its ledger's  *)
(* close and it, or a restart anchored past it before it was stored.       *)
(* Dropped connections themselves, slow or reordered fetches and ledgers closing   *)
(* during a heal lose nothing (gapTracker.ts, liveTail.ts 82-110).         *)
(***************************************************************************)
NothingSlips ==
    \A i \in Initial : \A t \in Tx :
        LedgerOf[t] <= last /\ t \notin InHand \cup lost => Complete(t, i)

(***************************************************************************)
(* And it arrives: what the tracker has passed is complete in the end.     *)
(***************************************************************************)
TailCatchesUp ==
    \A i \in Initial : \A t \in Tx :
        LedgerOf[t] <= last ~> Complete(t, i) \/ t \in lost

(***************************************************************************)
(* gapTracker.ts 12-14, 19-20: the tracker is anchored "at a known-complete *)
(* ledger"; server.ts 287-292: so "a restart heals only the small recent   *)
(* gap".                                                                   *)
(***************************************************************************)
AnchorKnownComplete ==
    [][Crash => \A i \in Initial : \A t \in Tx : LedgerOf[t] <= last' => Complete(t, i)]_vars

(***************************************************************************)
(* server.ts 447-451, 508-511: the heal after a registration closes "the   *)
(* window that opened while the (possibly long) backfill ran".  So without *)
(* any fault, what happened while it was swept is complete or in hand.     *)
(***************************************************************************)
RegistrationWindowClosed ==
    \A i \in Issuances : reg[i].pc = "done" =>
        \A t \in Tx :
            LedgerOf[t] <= last /\ t \notin InHand \cup lost => Complete(t, i)
=============================================================================
