--------------------------- MODULE LiveTailProofs ---------------------------
(***************************************************************************)
(* Theorems about LiveTail, for any history, issuances, accounts, initial  *)
(* registrations, dropped connections, failed fetches and restarts.        *)
(***************************************************************************)
EXTENDS LiveTail, SequenceTheorems, TLAPS

-----------------------------------------------------------------------------
(***************************************************************************)
(* The inductive invariant.                                                *)
(***************************************************************************)

(***************************************************************************)
(* The events that wait, and those of them that are closes.                *)
(***************************************************************************)
Queued == {queue[k] : k \in DOMAIN queue}
Closed == {e.ledger : e \in {f \in Queued : f.tx = 0}}

(***************************************************************************)
(* An issuance tracked from the start stays tracked and subscribed to.     *)
(***************************************************************************)
Watched == Initial \subseteq tracked \cap listed

(***************************************************************************)
(* A transaction travels with its own ledger, and its event with a scope   *)
(* that has the issuances tracked from the start.                          *)
(***************************************************************************)
OwnLedgers ==
    /\ \A m \in wire : m.tx # 0 => m.ledger = LedgerOf[m.tx]
    /\ \A f \in fetching \cup Queued : f.tx # 0 => Initial \subseteq f.scope
    /\ \A f \in fetching : f.tx # 0

(***************************************************************************)
(* Nothing the tail or the archive knows is ahead of the last ledger.      *)
(***************************************************************************)
Past ==
    /\ last <= tip /\ recorded <= tip
    /\ \A m \in wire : m.ledger <= tip
    /\ \A n \in Closed : n <= tip
    /\ \A row \in coverage : row.to <= tip
    /\ \A t \in txRows : LedgerOf[t] <= tip
    /\ \A f \in fetching \cup Queued : f.tx # 0 => LedgerOf[f.tx] <= tip
    /\ \A x \in Issuers : \A t \in healing.rest[x] : LedgerOf[t] <= tip
    /\ \A i \in Issuances : \A t \in reg[i].rest : LedgerOf[t] <= tip

(***************************************************************************)
(* A close still on the wire is followed by the transactions of its        *)
(* ledger, and the tail has heard of no ledger as late.                    *)
(***************************************************************************)
Touching(i) == {t \in Tx : HoldersIn(t, i) # {}}

WireWhole ==
    \A m \in wire : m.tx = 0 =>
        /\ last < m.ledger /\ \A n \in Closed : n < m.ledger
        /\ \A i \in Initial : \A t \in Touching(i) :
              LedgerOf[t] = m.ledger => Message(m.ledger, t) \in wire

(***************************************************************************)
(* What a heal has left is empty when there is none.                       *)
(***************************************************************************)
HealClean == ~IsHealing => healing.rest = NoHeal

(***************************************************************************)
(* The tracker is anchored when something is tracked from the start: what  *)
(* the sweep of that covered is an anchor after a restart.                 *)
(***************************************************************************)
Anchored == Initial # {} => last # 0 /\ \E row \in coverage : row.to # 0

(***************************************************************************)
(* What the tail has in hand of issuance i: a heal pages the issuer of i.  *)
(***************************************************************************)
InHandOf(i) ==
    {m.tx : m \in wire} \cup {f.tx : f \in fetching \cup Queued} \cup healing.rest[IssuerOf[i]]

(***************************************************************************)
(* What the tracker has passed, or will with the closes that wait, is      *)
(* complete, in hand or lost.                                              *)
(***************************************************************************)
Accounted ==
    \A i \in Initial : \A t \in Touching(i) :
        LedgerOf[t] <= last \/ LedgerOf[t] \in Closed =>
            t \in InHandOf(i) \/ t \in lost \/ Complete(t, i)

IInv ==
    /\ TypeOK
    /\ Watched /\ OwnLedgers /\ Past
    /\ WireWhole /\ HealClean /\ Anchored /\ Accounted

-----------------------------------------------------------------------------
(***************************************************************************)
(* What the operators of the model return.                                 *)
(***************************************************************************)

(***************************************************************************)
(* The history and the constants, as SMT wants to see them.                *)
(***************************************************************************)
LEMMA HistoryFacts ==
    /\ Tx \subseteq Nat \ {0} /\ 0 \notin Tx
    /\ \A t \in Tx : LedgerOf[t] \in Nat \ {0} /\ Touches[t] \subseteq Issuances \X Accounts
    /\ \A i \in Issuances : IssuerOf[i] \in Accounts /\ IssuerOf[i] \in Issuers
    /\ \A x \in Issuers : x \in Accounts /\ IndexOf[x] \subseteq Tx
    /\ \A x \in Accounts : IndexOf[x] \subseteq Tx
<1>1. /\ IssuerOf \in [Issuances -> Accounts] /\ Tx \subseteq Nat \ {0}
      /\ LedgerOf \in [Tx -> Nat \ {0}] /\ IndexOf \in [Accounts -> SUBSET Tx]
      /\ Touches \in [Tx -> SUBSET (Issuances \X Accounts)]
  BY HistoryAssumption DEF HistoryAssumption
<1> QED  BY <1>1 DEF Issuers

(***************************************************************************)
(* The rows of a page and of a streamed transaction are rows.              *)
(***************************************************************************)
LEMMA RowTypes ==
    /\ \A page, I, x : SweepLinks(page, I, x) \subseteq Tx \X Accounts
    /\ \A page, I : DeltaRows(page, I) \subseteq Tx \X Issuances \X Accounts
    /\ \A t \in Tx, I \in SUBSET Issuances : TouchedLinks(t, I) \subseteq Tx \X Accounts
<1>1. \A page, I, x : SweepLinks(page, I, x) \subseteq Tx \X Accounts  BY DEF SweepLinks
<1>2. \A page, I : DeltaRows(page, I) \subseteq Tx \X Issuances \X Accounts  BY DEF DeltaRows
<1>3. ASSUME NEW t \in Tx, NEW I \in SUBSET Issuances
      PROVE  TouchedLinks(t, I) \subseteq Tx \X Accounts
  BY HistoryFacts DEF TouchedLinks, IssuersOf
<1> QED  BY <1>1, <1>2, <1>3

(***************************************************************************)
(* A gap lists transactions of its ledgers, and all that touch an issuance *)
(* of the issuer paged.                                                    *)
(***************************************************************************)
LEMMA GapFacts ==
    ASSUME NEW x \in Accounts, NEW from \in Nat, NEW to \in Nat
    PROVE  /\ GapOf(x, from, to) \subseteq Tx
           /\ \A t \in GapOf(x, from, to) : LedgerOf[t] <= to
           /\ \A i \in Issuances : \A t \in Touching(i) :
                 IssuerOf[i] = x /\ from <= LedgerOf[t] /\ LedgerOf[t] <= to => t \in GapOf(x, from, to)
<1>1. GapOf(x, from, to) = {t \in IndexOf[x] : t > 0 /\ from <= LedgerOf[t] /\ LedgerOf[t] <= to}
  BY DEF GapOf, AccountTx
<1>2. \A i \in Issuances : \A t \in Touching(i) : t \in Tx /\ t > 0 /\ t \in IndexOf[IssuerOf[i]]
  <2> SUFFICES ASSUME NEW i \in Issuances, NEW t \in Touching(i)
               PROVE  t \in Tx /\ t > 0 /\ t \in IndexOf[IssuerOf[i]]
    OBVIOUS
  <2>1. t \in Tx /\ t > 0  BY HistoryFacts DEF Touching
  <2>2. PICK h \in Accounts : <<i, h>> \in Touches[t]  BY DEF Touching, HoldersIn
  <2> QED  BY <2>1, <2>2, HistoryAssumption DEF HistoryAssumption
<1> QED  BY <1>1, <1>2, HistoryFacts

(***************************************************************************)
(* A page is a part of what is left.                                       *)
(***************************************************************************)
LEMMA PageFacts ==
    ASSUME NEW rest, NEW page \in Pages(rest)
    PROVE  page \subseteq rest
BY DEF Pages

(***************************************************************************)
(* The queue as a set of events.                                           *)
(***************************************************************************)
LEMMA AppendQueued ==
    ASSUME TypeOK, NEW e \in EventSet, queue' = Append(queue, e)
    PROVE  queue' \in Seq(EventSet) /\ Queued' = Queued \cup {e}
<1>1. queue \in Seq(EventSet)  BY DEF TypeOK
<1>2. /\ queue' \in Seq(EventSet) /\ Len(queue') = Len(queue) + 1 /\ Len(queue) \in Nat
      /\ \A k \in 1 .. Len(queue) : queue'[k] = queue[k]
      /\ queue'[Len(queue) + 1] = e
      /\ DOMAIN queue = 1 .. Len(queue) /\ DOMAIN queue' = 1 .. Len(queue) + 1
  BY <1>1, AppendProperties, LenProperties
<1> QED  BY <1>2 DEF Queued

LEMMA TailQueued ==
    ASSUME TypeOK, queue # <<>>, queue' = Tail(queue)
    PROVE  /\ queue' \in Seq(EventSet) /\ Head(queue) \in Queued /\ Head(queue) \in EventSet
           /\ Queued = Queued' \cup {Head(queue)}
<1>1. queue \in Seq(EventSet)  BY DEF TypeOK
<1>2. /\ queue' \in Seq(EventSet) /\ Len(queue') = Len(queue) - 1 /\ Len(queue) \in Nat \ {0}
      /\ \A k \in 1 .. Len(queue') : queue'[k] = queue[k + 1]
      /\ DOMAIN queue = 1 .. Len(queue) /\ DOMAIN queue' = 1 .. Len(queue')
      /\ Head(queue) = queue[1] /\ Head(queue) \in EventSet
  BY <1>1, HeadTailProperties, LenProperties, EmptySeq
<1>3. Head(queue) \in Queued  BY <1>2 DEF Queued
<1>4. Queued' \subseteq Queued  BY <1>2 DEF Queued
<1>5. ASSUME NEW e \in Queued, e # Head(queue) PROVE e \in Queued'
  <2>1. PICK k \in 1 .. Len(queue) : e = queue[k]  BY <1>2 DEF Queued
  <2>2. k # 1 /\ k - 1 \in 1 .. Len(queue') /\ queue'[k - 1] = e  BY <1>2, <1>5, <2>1
  <2> QED  BY <1>2, <2>2 DEF Queued
<1> QED  BY <1>2, <1>3, <1>4, <1>5

LEMMA QueuedEvents ==
    ASSUME TypeOK
    PROVE  Queued \subseteq EventSet
<1>1. queue \in Seq(EventSet)  BY DEF TypeOK
<1> QED  BY <1>1, ElementOfSeq, LenProperties DEF Queued

-----------------------------------------------------------------------------
(***************************************************************************)
(* Type correctness.                                                       *)
(***************************************************************************)
RegSet == [pc : {"none", "sweep", "resume", "swept", "tracked", "subscribed", "heal", "done"},
           hi : Nat, rest : SUBSET Tx]

(***************************************************************************)
(* The parts of the state, for the actions that change one of them.        *)
(***************************************************************************)
ServerType ==
    /\ rows \subseteq Issuances /\ tracked \subseteq rows /\ listed \subseteq rows
    /\ reg \in [Issuances -> RegSet]
TailType ==
    /\ recorded \in Nat /\ last \in Nat /\ live \in BOOLEAN
    /\ wire \subseteq MessageSet /\ fetching \subseteq EventSet /\ queue \in Seq(EventSet)
    /\ healing \in [on : BOOLEAN, rest : [Issuers -> SUBSET Tx]]
EnvType ==
    /\ tip \in Nat /\ lost \subseteq Tx
    /\ faults \in [drops : 0 .. MaxDrops, fetches : 0 .. MaxFetchFaults, crashes : 0 .. MaxCrashes]

LEMMA TypeParts == TypeOK <=> ArchiveTypeOK /\ ServerType /\ TailType /\ EnvType
BY DEF TypeOK, ServerType, TailType, EnvType, RegSet

LEMMA TypePartsNext == TypeOK' <=> ArchiveTypeOK' /\ ServerType' /\ TailType' /\ EnvType'
BY DEF TypeOK, ServerType, TailType, EnvType, RegSet

(***************************************************************************)
(* What a step leaves alone keeps its type.                                *)
(***************************************************************************)
LEMMA TypeKept ==
    ASSUME TypeOK
    PROVE  /\ UNCHANGED archiveVars => ArchiveTypeOK'
           /\ UNCHANGED serverVars => ServerType'
           /\ UNCHANGED tailVars => TailType'
           /\ UNCHANGED envVars => EnvType'
BY TypeParts DEF ArchiveTypeOK, ServerType, TailType, EnvType,
                 archiveVars, serverVars, tailVars, envVars

LEMMA InitType == Init => TypeOK
<1> SUFFICES ASSUME Init PROVE TypeOK
  OBVIOUS
<1>1. StartTip \in Nat /\ Initial \subseteq Issuances /\ MaxDrops \in Nat
      /\ MaxFetchFaults \in Nat /\ MaxCrashes \in Nat
  BY LiveTailAssumption DEF LiveTailAssumption
<1>2. ArchiveTypeOK
  <2>1. txRows \subseteq Tx  BY DEF Init
  <2>2. links \subseteq Tx \X Accounts
    <3> DEFINE linksOf(i) == SweepLinks({t \in txRows : InScope(t, {i})}, {i}, IssuerOf[i])
    <3>1. links = UNION {linksOf(i) : i \in Initial}  BY DEF Init
    <3>2. \A i \in Initial : linksOf(i) \subseteq Tx \X Accounts  BY RowTypes
    <3> HIDE DEF linksOf
    <3> QED  BY <3>1, <3>2
  <2>5. deltas \subseteq Tx \X Issuances \X Accounts
    BY RowTypes DEF Init
  <2>3. coverage \subseteq [address : Accounts, from : Nat, to : Nat, job : Issuances \X Accounts]
    BY <1>1, HistoryFacts DEF Init
  <2> QED  BY <2>1, <2>2, <2>3, <2>5 DEF ArchiveTypeOK
<1>3. ServerType
  BY <1>1 DEF Init, ServerType, RegSet
<1>4. TailType
  <2>1. queue \in Seq(EventSet)  BY EmptySeq DEF Init
  <2> QED  BY <1>1, <2>1 DEF Init, TailType, NoHeal
<1>5. EnvType
  BY <1>1 DEF Init, EnvType
<1> QED  BY <1>2, <1>3, <1>4, <1>5, TypeParts

(***************************************************************************)
(* A page of a heal keeps the archive's types.                             *)
(***************************************************************************)
LEMMA StoreType ==
    ASSUME TypeOK, NEW page \in SUBSET Tx, NEW x, StorePage(page, x), UNCHANGED coverage
    PROVE  ArchiveTypeOK'
BY RowTypes, TypeParts DEF StorePage, ArchiveTypeOK

LEMMA UpstreamType ==
    ASSUME TypeOK, CloseLedger \/ Disconnect \/ Reconnect
    PROVE  TypeOK'
<1> USE TypeParts DEF TailType, EnvType
<1>1. CASE CloseLedger
  <2>1. tip' = tip + 1 /\ tip' \in Nat /\ UNCHANGED <<archiveVars, serverVars, faults, lost>>
        /\ UNCHANGED <<recorded, live, fetching, queue, last, healing>>
    BY <1>1 DEF CloseLedger
  <2>2. \A t \in Tx \cup {0} : Message(tip', t) \in MessageSet
    BY <2>1 DEF Message, MessageSet
  <2>3. wire' \subseteq MessageSet  BY <1>1, <2>2 DEF CloseLedger
  <2> QED  BY <2>1, <2>3, TypeKept, TypePartsNext
<1>2. CASE Disconnect
  <2>1. UNCHANGED <<archiveVars, serverVars, tip, recorded, fetching, queue, last, healing>>
        /\ live' = FALSE /\ wire' = {}
    BY <1>2 DEF Disconnect
  <2>2. faults' \in [drops : 0 .. MaxDrops, fetches : 0 .. MaxFetchFaults, crashes : 0 .. MaxCrashes]
    BY <1>2, LiveTailAssumption DEF Disconnect, LiveTailAssumption
  <2>3. ASSUME NEW n \in wire, Message(n.ledger, 0) \notin wire
        PROVE  n.tx \in Tx
    <3>1. n.ledger \in Nat /\ n.tx \in Tx \cup {0} /\ n = [ledger |-> n.ledger, tx |-> n.tx]
      BY DEF MessageSet
    <3> QED  BY <2>3, <3>1 DEF Message
  <2>4. lost' \subseteq Tx  BY <1>2, <2>3 DEF Disconnect
  <2> QED  BY <2>1, <2>2, <2>4, TypeKept, TypePartsNext
<1>3. CASE Reconnect
  <2>1. UNCHANGED <<archiveVars, serverVars, envVars, recorded, wire, fetching, queue, last, healing>>
        /\ live' = TRUE
    BY <1>3 DEF Reconnect
  <2> QED  BY <2>1, TypeKept, TypePartsNext
<1> QED  BY <1>1, <1>2, <1>3

LEMMA SourceType ==
    ASSUME TypeOK, OwnLedgers, Receive \/ FetchReturns \/ FetchFails
    PROVE  TypeOK'
<1> USE TypeParts DEF TailType, EnvType
<1>1. CASE Receive
  <2>1. PICK m \in wire :
           /\ wire' = wire \ {m}
           /\ IF m.tx = 0
              THEN queue' = Append(queue, Event(m.ledger, 0, {})) /\ UNCHANGED fetching
              ELSE /\ fetching' = IF InScope(m.tx, tracked)
                                  THEN fetching \cup {Event(m.ledger, m.tx, tracked)}
                                  ELSE fetching
                   /\ UNCHANGED queue
           /\ UNCHANGED <<archiveVars, recorded, live, last, healing, serverVars, envVars>>
    BY <1>1 DEF Receive
  <2>2. m.ledger \in Nat /\ m.tx \in Tx \cup {0} /\ tracked \in SUBSET Issuances
    BY DEF MessageSet, ServerType
  <2>3. Event(m.ledger, 0, {}) \in EventSet /\ Event(m.ledger, m.tx, tracked) \in EventSet
    BY <2>2 DEF Event, EventSet
  <2>4. queue' \in Seq(EventSet) /\ fetching' \subseteq EventSet
    BY <2>1, <2>3, AppendQueued
  <2> QED  BY <2>1, <2>4, TypeKept, TypePartsNext
<1>2. CASE FetchReturns
  <2>1. PICK f \in fetching :
           /\ fetching' = fetching \ {f} /\ queue' = Append(queue, f)
           /\ UNCHANGED <<archiveVars, recorded, live, wire, last, healing, serverVars, envVars>>
    BY <1>2 DEF FetchReturns
  <2>2. queue' \in Seq(EventSet)  BY <2>1, AppendQueued
  <2> QED  BY <2>1, <2>2, TypeKept, TypePartsNext
<1>3. CASE FetchFails
  <2>1. PICK f \in fetching :
           /\ faults.fetches < MaxFetchFaults
           /\ faults' = [faults EXCEPT !.fetches = @ + 1]
           /\ fetching' = fetching \ {f} /\ lost' = lost \cup {f.tx}
           /\ UNCHANGED <<archiveVars, recorded, live, wire, queue, last, healing, serverVars, tip>>
    BY <1>3 DEF FetchFails
  <2>2. faults' \in [drops : 0 .. MaxDrops, fetches : 0 .. MaxFetchFaults, crashes : 0 .. MaxCrashes]
    BY <2>1, LiveTailAssumption DEF LiveTailAssumption
  <2>3. f.tx \in Tx  BY DEF OwnLedgers, EventSet
  <2> QED  BY <2>1, <2>2, <2>3, TypeKept, TypePartsNext
<1> QED  BY <1>1, <1>2, <1>3

LEMMA LoopType ==
    ASSUME TypeOK, IngestTransaction \/ ObserveLedger \/ HealPage \/ HealEnds \/ ProbeCloseTime
    PROVE  TypeOK'
<1> USE TypeParts DEF TailType, EnvType
<1>1. CASE IngestTransaction
  <2>1. /\ queue # <<>> /\ queue' = Tail(queue) /\ Head(queue).tx # 0
        /\ txRows' = txRows \cup {Head(queue).tx}
        /\ links' = links \cup TouchedLinks(Head(queue).tx, Head(queue).scope)
        /\ deltas' = deltas \cup DeltaRows({Head(queue).tx}, tracked)
        /\ UNCHANGED <<coverage, recorded, live, wire, fetching, last, healing, serverVars, envVars>>
    BY <1>1 DEF IngestTransaction, NextEvent
  <2>2. queue' \in Seq(EventSet) /\ Head(queue) \in EventSet  BY <2>1, TailQueued
  <2>3. Head(queue).tx \in Tx /\ Head(queue).scope \in SUBSET Issuances  BY <2>1, <2>2 DEF EventSet
  <2>4. /\ TouchedLinks(Head(queue).tx, Head(queue).scope) \subseteq Tx \X Accounts
        /\ DeltaRows({Head(queue).tx}, tracked) \subseteq Tx \X Issuances \X Accounts
    BY <2>3, RowTypes
  <2>5. ArchiveTypeOK'
    BY <2>1, <2>3, <2>4 DEF ArchiveTypeOK
  <2> QED  BY <2>1, <2>2, <2>5, TypeKept, TypePartsNext
<1>2. CASE ObserveLedger
  <2>1. /\ queue # <<>> /\ queue' = Tail(queue)
        /\ recorded' = LargerOf(recorded, Head(queue).ledger)
        /\ last' = LargerOf(last, Head(queue).ledger)
        /\ UNCHANGED <<archiveVars, live, wire, fetching, serverVars, envVars>>
    BY <1>2 DEF ObserveLedger, NextEvent
  <2>2. queue' \in Seq(EventSet) /\ Head(queue) \in EventSet  BY <2>1, TailQueued
  <2>3. Head(queue).ledger \in Nat  BY <2>2 DEF EventSet
  <2>4. recorded' \in Nat /\ last' \in Nat  BY <2>1, <2>3 DEF LargerOf
  <2>5. healing' \in [on : BOOLEAN, rest : [Issuers -> SUBSET Tx]]
    <3>1. CASE last # 0 /\ Head(queue).ledger > last + 1
      <4>1. \A x \in Issuers : GapOf(x, last + 1, Head(queue).ledger - 1) \subseteq Tx
        BY <2>3, <3>1, GapFacts, HistoryFacts
      <4>2. healing' = [on |-> TRUE, rest |-> [x \in Issuers |->
                          IF x \in IssuersOf(tracked)
                          THEN GapOf(x, last + 1, Head(queue).ledger - 1) ELSE {}]]
        BY <1>2, <3>1 DEF ObserveLedger
      <4> QED  BY <4>1, <4>2
    <3>2. CASE ~(last # 0 /\ Head(queue).ledger > last + 1)
      BY <1>2, <3>2 DEF ObserveLedger
    <3> QED  BY <3>1, <3>2
  <2> QED  BY <2>1, <2>2, <2>4, <2>5, TypeKept, TypePartsNext
<1>3. CASE HealPage
  <2>0. PICK x \in Issuers : \E page \in Pages(healing.rest[x]) :
           StorePage(page, x) /\ healing' = [healing EXCEPT !.rest[x] = @ \ page]
    BY <1>3 DEF HealPage
  <2>1. PICK page \in Pages(healing.rest[x]) :
           StorePage(page, x) /\ healing' = [healing EXCEPT !.rest[x] = @ \ page]
    BY <2>0
  <2>2. UNCHANGED <<coverage, recorded, live, wire, fetching, queue, last, serverVars, envVars>>
    BY <1>3 DEF HealPage
  <2>3. page \subseteq healing.rest[x] /\ page \subseteq Tx  BY PageFacts
  <2>4. ArchiveTypeOK'  BY <2>1, <2>2, <2>3, StoreType
  <2>5. healing' \in [on : BOOLEAN, rest : [Issuers -> SUBSET Tx]]  BY <2>1, <2>3
  <2> QED  BY <2>2, <2>4, <2>5, TypeKept, TypePartsNext
<1>4. CASE HealEnds
  <2>1. healing' = [healing EXCEPT !.on = FALSE]
        /\ UNCHANGED <<archiveVars, recorded, live, wire, fetching, queue, last, serverVars, envVars>>
    BY <1>4 DEF HealEnds
  <2> QED  BY <2>1, TypeKept, TypePartsNext
<1>5. CASE ProbeCloseTime
  <2>1. PICK t \in txRows :
           /\ recorded' = LedgerOf[t]
           /\ UNCHANGED <<archiveVars, live, wire, fetching, queue, last, healing, serverVars, envVars>>
    BY <1>5 DEF ProbeCloseTime
  <2>2. recorded' \in Nat  BY <2>1, HistoryFacts DEF ArchiveTypeOK
  <2> QED  BY <2>1, <2>2, TypeKept, TypePartsNext
<1> QED  BY <1>1, <1>2, <1>3, <1>4, <1>5

(***************************************************************************)
(* A registration's record changes as a whole.                             *)
(***************************************************************************)
LEMMA RegisterType ==
    ASSUME TypeOK, NEW i \in Issuances, RegStep(i)
    PROVE  TypeOK'
<1> USE TypeParts DEF ServerType, RegSet
<1>1. CASE Register(i)
  <2>1. UNCHANGED <<archiveVars, tailVars, tracked, listed, envVars>> /\ rows' = rows \cup {i}
        /\ reg' = [reg EXCEPT ![i].pc = "sweep"]
    BY <1>1 DEF Register, Step
  <2> QED  BY <2>1, TypeKept, TypePartsNext
<1>2. CASE Sweep(i)
  <2> DEFINE kept == {t \in AccountTx(IssuerOf[i], 0, tip, 0) : InScope(t, {i})}
  <2>1. kept \subseteq Tx  BY HistoryFacts DEF AccountTx
  <2>2. PICK hi \in {0} \cup {LedgerOf[t] : t \in kept} :
           /\ coverage' = coverage \cup {[address |-> IssuerOf[i], from |-> 0, to |-> hi,
                                          job |-> <<i, IssuerOf[i]>>]}
           /\ reg' = [reg EXCEPT ![i].pc = IF @ = "sweep" THEN "swept" ELSE "done", ![i].hi = hi]
    BY <1>2 DEF Sweep
  <2>4. /\ txRows' = txRows \cup kept
        /\ links' = links \cup SweepLinks(kept, {i}, IssuerOf[i])
        /\ deltas' = deltas \cup DeltaRows(kept, {i})
        /\ UNCHANGED <<tailVars, rows, tracked, listed, envVars>>
    BY <1>2 DEF Sweep
  <2> HIDE DEF kept
  <2>3. hi \in Nat  BY <2>1, HistoryFacts
  <2>5. ArchiveTypeOK'  BY <2>1, <2>2, <2>3, <2>4, RowTypes, HistoryFacts DEF ArchiveTypeOK
  <2>6. reg' \in [Issuances -> RegSet]  BY <2>2, <2>3
  <2> QED  BY <2>4, <2>5, <2>6, TypeKept, TypePartsNext
<1>3. CASE Track(i) \/ Subscribe(i) \/ PostHealEnds(i)
  <2>1. /\ UNCHANGED <<archiveVars, tailVars, rows, envVars>>
        /\ \E to \in {"tracked", "subscribed", "done"} : reg' = [reg EXCEPT ![i].pc = to]
        /\ tracked' \in {rows, tracked} /\ listed' \in {tracked, listed}
        /\ (UNCHANGED listed \/ UNCHANGED tracked)
    BY <1>3 DEF Track, Subscribe, PostHealEnds, Step
  <2>2. reg' \in [Issuances -> RegSet]  BY <2>1
  <2> QED  BY <2>1, <2>2, TypeKept, TypePartsNext
<1>4. CASE HealPostBackfill(i)
  <2>1. UNCHANGED <<archiveVars, tailVars, rows, tracked, listed, envVars>>
    BY <1>4 DEF HealPostBackfill
  <2>2. GapOf(IssuerOf[i], reg[i].hi, recorded) \subseteq Tx
    BY GapFacts, HistoryFacts DEF TailType
  <2>3. reg' \in [Issuances -> RegSet]
    <3>1. CASE recorded <= reg[i].hi
      <4>1. reg' = [reg EXCEPT ![i].pc = "done"]  BY <1>4, <3>1 DEF HealPostBackfill
      <4> QED  BY <4>1
    <3>2. CASE ~(recorded <= reg[i].hi)
      <4>1. reg' = [reg EXCEPT ![i].pc = "heal",
                               ![i].rest = GapOf(IssuerOf[i], reg[i].hi, recorded)]
        BY <1>4, <3>2 DEF HealPostBackfill
      <4> QED  BY <2>2, <4>1
    <3> QED  BY <3>1, <3>2
  <2> QED  BY <2>1, <2>3, TypeKept, TypePartsNext
<1>5. CASE PostHealPage(i)
  <2>1. PICK page \in Pages(reg[i].rest) :
           StorePage(page, IssuerOf[i]) /\ reg' = [reg EXCEPT ![i].rest = @ \ page]
    BY <1>5 DEF PostHealPage
  <2>2. UNCHANGED <<coverage, tailVars, rows, tracked, listed, envVars>>
    BY <1>5 DEF PostHealPage
  <2>3. page \subseteq Tx  BY PageFacts
  <2>4. ArchiveTypeOK'  BY <2>1, <2>2, <2>3, StoreType
  <2>5. reg' \in [Issuances -> RegSet]  BY <2>1
  <2> QED  BY <2>2, <2>4, <2>5, TypeKept, TypePartsNext
<1> QED  BY <1>1, <1>2, <1>3, <1>4, <1>5 DEF RegStep

LEMMA RefreshType ==
    ASSUME TypeOK, RefreshTracked \/ RefreshSubscription
    PROVE  TypeOK'
<1>1. UNCHANGED <<archiveVars, tailVars, envVars, rows, reg>>
      /\ tracked' \in {rows, tracked} /\ listed' \in {tracked, listed}
      /\ (UNCHANGED listed \/ UNCHANGED tracked)
  BY DEF RefreshTracked, RefreshSubscription
<1> QED  BY <1>1, TypeKept, TypeParts, TypePartsNext DEF ServerType

LEMMA CrashType ==
    ASSUME TypeOK, Crash
    PROVE  TypeOK'
<1> USE TypeParts DEF TailType, EnvType, ServerType
<1>1. faults' \in [drops : 0 .. MaxDrops, fetches : 0 .. MaxFetchFaults, crashes : 0 .. MaxCrashes]
  BY LiveTailAssumption DEF Crash, LiveTailAssumption
<1>2. UNCHANGED <<archiveVars, recorded, rows, tip>> /\ tracked' = rows /\ listed' = rows
  BY DEF Crash, Restart
<1>3. /\ live' = FALSE /\ wire' = {} /\ fetching' = {} /\ queue' = <<>>
      /\ healing' = [on |-> FALSE, rest |-> NoHeal]
  BY DEF Crash, Restart
<1>8. PICK anchor \in 0 .. LastLedger :
         /\ last' = anchor
         /\ lost' = lost \cup {t \in Tx : LedgerOf[t] <= anchor /\ (t \in InHand \/ last < LedgerOf[t])}
  BY DEF Crash, Restart
<1>9. last' \in Nat /\ lost' \subseteq Tx  BY <1>8
<1>4. reg' \in [Issuances -> RegSet]
  <2>1. reg' = [i \in Issuances |->
                 [reg[i] EXCEPT !.rest = {},
                                !.pc = CASE @ = "none" -> "none"
                                         [] @ \in {"sweep", "resume"} -> "resume"
                                         [] OTHER -> "done"]]
    BY DEF Crash, Restart
  <2> QED  BY <2>1 DEF RegSet
<1>5. queue' \in Seq(EventSet)  BY <1>3, EmptySeq
<1>6. ServerType' /\ EnvType'  BY <1>1, <1>2, <1>4, <1>9
<1>7. TailType'  BY <1>2, <1>3, <1>5, <1>9 DEF NoHeal
<1> QED  BY <1>2, <1>6, <1>7, TypeKept, TypePartsNext

-----------------------------------------------------------------------------
(***************************************************************************)
(* What makes a transaction complete.                                      *)
(***************************************************************************)

(***************************************************************************)
(* A page of an issuer's history holds its transactions of an issuance     *)
(* tracked then for every holder and for the issuer.                       *)
(***************************************************************************)
LEMMA PagedIsComplete ==
    ASSUME NEW i \in Issuances, NEW I, i \in I, NEW page \in SUBSET Tx, NEW t \in page,
           NEW h \in HoldersIn(t, i)
    PROVE  /\ <<t, h>> \in SweepLinks(page, I, IssuerOf[i])
           /\ <<t, IssuerOf[i]>> \in SweepLinks(page, I, IssuerOf[i])
           /\ <<t, i, h>> \in DeltaRows(page, I)
<1>1. h \in Accounts /\ <<i, h>> \in Touches[t] /\ IssuerOf[i] \in Accounts /\ t \in Tx
  BY HistoryFacts DEF HoldersIn
<1> QED  BY <1>1 DEF SweepLinks, DeltaRows

(***************************************************************************)
(* So do the rows of a streamed transaction, of what was in its scope and  *)
(* is tracked.                                                             *)
(***************************************************************************)
LEMMA StreamedIsComplete ==
    ASSUME NEW i \in Issuances, NEW t \in Tx, NEW h \in HoldersIn(t, i),
           NEW S, i \in S, NEW I, i \in I
    PROVE  /\ <<t, h>> \in TouchedLinks(t, S)
           /\ <<t, IssuerOf[i]>> \in TouchedLinks(t, S)
           /\ <<t, i, h>> \in DeltaRows({t}, I)
<1>1. h \in Accounts /\ <<i, h>> \in Touches[t]
  BY DEF HoldersIn
<1>2. IssuerOf[i] \in IssuersOf({j \in S : HoldersIn(t, j) # {}})
  BY DEF IssuersOf
<1> QED  BY <1>1, <1>2 DEF TouchedLinks, DeltaRows

(***************************************************************************)
(* Nothing is taken from the archive.                                      *)
(***************************************************************************)
Grows == txRows \subseteq txRows' /\ links \subseteq links' /\ deltas \subseteq deltas'

LEMMA CompleteStays ==
    ASSUME Grows, NEW t, NEW i, Complete(t, i)
    PROVE  Complete(t, i)'
BY DEF Grows, Complete, Held

LEMMA StorePageGrows ==
    ASSUME NEW page, NEW x, StorePage(page, x)
    PROVE  Grows
BY DEF StorePage, Grows

(***************************************************************************)
(* A page stored completes what touches an issuance of the issuer paged.   *)
(***************************************************************************)
LEMMA StorePageCompletes ==
    ASSUME NEW i \in Issuances, i \in tracked, NEW page \in SUBSET Tx, NEW t \in page,
           StorePage(page, IssuerOf[i]), t \in Touching(i)
    PROVE  Complete(t, i)'
<1> DEFINE kept == {s \in page : InScope(s, tracked)}
<1>1. t \in kept /\ kept \in SUBSET Tx  BY DEF InScope, Touching
<1>2. /\ txRows' = txRows \cup kept
      /\ links' = links \cup SweepLinks(kept, tracked, IssuerOf[i])
      /\ deltas' = deltas \cup DeltaRows(kept, tracked)
  BY DEF StorePage
<1> HIDE DEF kept
<1> QED  BY <1>1, <1>2, PagedIsComplete DEF Complete, Held

-----------------------------------------------------------------------------
(***************************************************************************)
(* Steps that leave the tail alone.                                        *)
(***************************************************************************)

(***************************************************************************)
(* The server's steps only add to the archive, and track and list at least *)
(* what was tracked from the start.                                        *)
(***************************************************************************)
LEMMA Steady ==
    ASSUME IInv, TypeOK', Grows, coverage \subseteq coverage',
           UNCHANGED <<wire, fetching, queue, last, healing, tip, lost>>,
           recorded' <= tip, Initial \subseteq tracked' \cap listed',
           \A t \in txRows' : LedgerOf[t] <= tip,
           \A row \in coverage' : row.to <= tip,
           \A i \in Issuances : \A t \in reg'[i].rest : LedgerOf[t] <= tip
    PROVE  IInv'
<1> USE DEF IInv
<1>1. Queued' = Queued /\ Closed' = Closed  BY DEF Queued, Closed
<1>2. \A i \in Initial : InHandOf(i)' = InHandOf(i)  BY <1>1 DEF InHandOf
<1>3. Watched' /\ OwnLedgers' /\ WireWhole' /\ HealClean' /\ Anchored'
  BY <1>1 DEF Watched, OwnLedgers, WireWhole, HealClean, IsHealing, Anchored
<1>4. Past'  BY <1>1 DEF Past
<1>5. Accounted'  BY <1>1, <1>2, CompleteStays DEF Accounted
<1> QED  BY <1>3, <1>4, <1>5

LEMMA RegisterKeeps ==
    ASSUME IInv, NEW i \in Issuances, RegStep(i)
    PROVE  IInv'
<1> USE DEF IInv
<1>0. TypeOK'  BY RegisterType
<1>T. /\ reg \in [Issuances -> RegSet] /\ Initial \subseteq rows /\ Initial \subseteq tracked
      /\ recorded <= tip /\ \A t \in txRows : LedgerOf[t] <= tip
      /\ \A row \in coverage : row.to <= tip
      /\ \A j \in Issuances : \A t \in reg[j].rest : LedgerOf[t] <= tip
      /\ tip \in Nat /\ recorded \in Nat
  BY DEF TypeOK, RegSet, Watched, Past
<1>1. CASE Register(i) \/ Track(i) \/ Subscribe(i) \/ PostHealEnds(i)
  <2>1. /\ UNCHANGED <<archiveVars, tailVars, envVars>>
        /\ \E to : reg' = [reg EXCEPT ![i].pc = to]
        /\ rows \subseteq rows' /\ tracked' \in {rows, tracked} /\ listed' \in {tracked, listed}
    BY <1>1 DEF Register, Track, Subscribe, PostHealEnds, Step
  <2>2. \A j \in Issuances : reg'[j].rest = reg[j].rest  BY <1>T, <2>1 DEF RegSet
  <2>3. Initial \subseteq tracked' \cap listed'  BY <1>T, <2>1 DEF Watched
  <2> QED  BY <1>0, <1>T, <2>1, <2>2, <2>3, Steady DEF Grows, archiveVars, tailVars, envVars
<1>2. CASE Sweep(i)
  <2> DEFINE kept == {t \in AccountTx(IssuerOf[i], 0, tip, 0) : InScope(t, {i})}
  <2>1. \A t \in kept : t \in Tx /\ LedgerOf[t] <= tip  BY HistoryFacts DEF AccountTx
  <2>2. PICK hi \in {0} \cup {LedgerOf[t] : t \in kept} :
           /\ coverage' = coverage \cup {[address |-> IssuerOf[i], from |-> 0, to |-> hi,
                                          job |-> <<i, IssuerOf[i]>>]}
           /\ reg' = [reg EXCEPT ![i].pc = IF @ = "sweep" THEN "swept" ELSE "done", ![i].hi = hi]
    BY <1>2 DEF Sweep
  <2>3. /\ txRows' = txRows \cup kept
        /\ links' = links \cup SweepLinks(kept, {i}, IssuerOf[i])
        /\ deltas' = deltas \cup DeltaRows(kept, {i})
        /\ UNCHANGED <<tailVars, rows, tracked, listed, envVars>>
    BY <1>2 DEF Sweep
  <2> HIDE DEF kept
  <2>4. hi <= tip  BY <1>T, <2>1
  <2>5. \A j \in Issuances : reg'[j].rest = reg[j].rest  BY <1>T, <2>2 DEF RegSet
  <2>6. coverage \subseteq coverage' /\ \A row \in coverage' : row.to <= tip
    BY <1>T, <2>2, <2>4
  <2>7. \A t \in txRows' : LedgerOf[t] <= tip  BY <1>T, <2>1, <2>3
  <2>8. Initial \subseteq tracked' \cap listed'  BY <2>3 DEF Watched
  <2> QED  BY <1>0, <1>T, <2>3, <2>5, <2>6, <2>7, <2>8, Steady DEF Grows, tailVars, envVars
<1>3. CASE HealPostBackfill(i)
  <2>1. UNCHANGED <<archiveVars, tailVars, rows, tracked, listed, envVars>>
    BY <1>3 DEF HealPostBackfill
  <2>2. \A t \in GapOf(IssuerOf[i], reg[i].hi, recorded) : LedgerOf[t] <= tip
    <3>1. reg[i].hi \in Nat /\ IssuerOf[i] \in Accounts  BY <1>T, HistoryFacts DEF RegSet
    <3>2. \A t \in GapOf(IssuerOf[i], reg[i].hi, recorded) : t \in Tx /\ LedgerOf[t] <= recorded
      BY <1>T, <3>1, GapFacts
    <3>3. \A t \in Tx : LedgerOf[t] \in Nat  BY HistoryFacts
    <3>4. \A n \in Nat : n <= recorded => n <= tip  BY <1>T
    <3> QED  BY <3>2, <3>3, <3>4
  <2>3. \A j \in Issuances : \A t \in reg'[j].rest : LedgerOf[t] <= tip
    <3>1. CASE recorded <= reg[i].hi
      <4>1. reg' = [reg EXCEPT ![i].pc = "done"]  BY <1>3, <3>1 DEF HealPostBackfill
      <4>2. \A j \in Issuances : reg'[j].rest = reg[j].rest  BY <1>T, <4>1 DEF RegSet
      <4> QED  BY <1>T, <4>2
    <3>2. CASE ~(recorded <= reg[i].hi)
      <4>1. reg' = [reg EXCEPT ![i].pc = "heal",
                               ![i].rest = GapOf(IssuerOf[i], reg[i].hi, recorded)]
        BY <1>3, <3>2 DEF HealPostBackfill
      <4>2. \A j \in Issuances : reg'[j].rest = IF j = i THEN GapOf(IssuerOf[i], reg[i].hi, recorded)
                                                ELSE reg[j].rest
        BY <1>T, <4>1 DEF RegSet
      <4> QED  BY <1>T, <2>2, <4>2
    <3> QED  BY <3>1, <3>2
  <2>4. Initial \subseteq tracked' \cap listed'  BY <2>1 DEF Watched
  <2> QED  BY <1>0, <1>T, <2>1, <2>3, <2>4, Steady DEF Grows, archiveVars, tailVars, envVars
<1>4. CASE PostHealPage(i)
  <2>1. PICK page \in Pages(reg[i].rest) :
           StorePage(page, IssuerOf[i]) /\ reg' = [reg EXCEPT ![i].rest = @ \ page]
    BY <1>4 DEF PostHealPage
  <2>2. UNCHANGED <<coverage, tailVars, rows, tracked, listed, envVars>>
    BY <1>4 DEF PostHealPage
  <2>3. \A t \in page : LedgerOf[t] <= tip  BY <1>T, PageFacts
  <2>4. \A j \in Issuances : reg'[j].rest \subseteq reg[j].rest  BY <1>T, <2>1 DEF RegSet
  <2>5. \A t \in txRows' : LedgerOf[t] <= tip  BY <1>T, <2>1, <2>3 DEF StorePage
  <2>6. Initial \subseteq tracked' \cap listed'  BY <2>2 DEF Watched
  <2>7. \A j \in Issuances : \A t \in reg'[j].rest : LedgerOf[t] <= tip  BY <1>T, <2>4
  <2> QED  BY <1>0, <1>T, <2>1, <2>2, <2>5, <2>6, <2>7, StorePageGrows, Steady DEF tailVars, envVars
<1> QED  BY <1>1, <1>2, <1>3, <1>4 DEF RegStep

LEMMA RefreshKeeps ==
    ASSUME IInv, RefreshTracked \/ RefreshSubscription \/ Reconnect \/ ProbeCloseTime
    PROVE  IInv'
<1> USE DEF IInv
<1>0. TypeOK'  BY RefreshType, UpstreamType, LoopType
<1>1. /\ UNCHANGED <<archiveVars, wire, fetching, queue, last, healing, tip, lost, reg>>
      /\ tracked' \in {rows, tracked} /\ listed' \in {tracked, listed}
  BY DEF RefreshTracked, RefreshSubscription, Reconnect, ProbeCloseTime, tailVars, serverVars, envVars
<1>2. recorded' <= tip
  <2>1. CASE UNCHANGED recorded  BY <2>1 DEF Past
  <2>2. CASE ProbeCloseTime  BY <2>2 DEF ProbeCloseTime, Past
  <2> QED  BY <2>1, <2>2 DEF RefreshTracked, RefreshSubscription, Reconnect, tailVars
<1>3. Initial \subseteq tracked' \cap listed'  BY <1>1 DEF Watched, TypeOK
<1> QED  BY <1>0, <1>1, <1>2, <1>3, Steady DEF Past, Grows, archiveVars

-----------------------------------------------------------------------------
(***************************************************************************)
(* Steps of upstream and of the source.                                    *)
(***************************************************************************)
LEMMA CloseLedgerKeeps ==
    ASSUME IInv, CloseLedger
    PROVE  IInv'
<1> USE DEF IInv
<1>0. TypeOK'  BY UpstreamType
<1>1. /\ tip' = tip + 1 /\ tip \in Nat
      /\ UNCHANGED <<archiveVars, recorded, live, fetching, queue, last, healing, serverVars, faults, lost>>
  BY DEF CloseLedger, TypeOK
<1> DEFINE sent == {s \in Tx : LedgerOf[s] = tip' /\ InScope(s, Covered)}
<1>2. wire' = wire \/ wire' = wire \cup {Message(tip', 0)} \cup {Message(tip', t) : t \in sent}
  BY DEF CloseLedger
<1>3. Queued' = Queued /\ Closed' = Closed  BY <1>1 DEF Queued, Closed
<1>4. ASSUME NEW i \in Initial, NEW t \in Touching(i), LedgerOf[t] = tip'
      PROVE  t \in sent
  <2>1. i \in Issuances /\ IssuerOf[i] \in IssuersOf(listed)
    BY LiveTailAssumption DEF LiveTailAssumption, Watched, IssuersOf
  <2>2. i \in Covered  BY <2>1 DEF Covered
  <2> QED  BY <1>4, <2>2 DEF Touching, InScope
<1>5. \A s \in sent : s \in Tx /\ s # 0 /\ LedgerOf[s] = tip'  BY HistoryFacts
<1> HIDE DEF sent
<1>6. \A m \in wire' : m \in wire \/ (m.ledger = tip' /\ (m.tx = 0 \/ (m.tx # 0 /\ LedgerOf[m.tx] = tip')))
  BY <1>2, <1>5 DEF Message
<1>7. wire \subseteq wire' /\ (wire' # wire => \A t \in sent : Message(tip', t) \in wire')
  BY <1>2
<1>8. Watched' /\ HealClean' /\ Anchored'
  BY <1>1 DEF Watched, HealClean, IsHealing, Anchored, serverVars, archiveVars
<1>9. OwnLedgers'  BY <1>1, <1>3, <1>6 DEF OwnLedgers
<1>10. Past'
  <2>1. \A n : n \in Int /\ n <= tip => n <= tip'  BY <1>1
  <2>2. /\ last \in Int /\ recorded \in Int
        /\ \A m \in wire : m.ledger \in Int
        /\ \A n \in Closed : n \in Int
        /\ \A row \in coverage : row.to \in Int
    BY QueuedEvents DEF TypeOK, MessageSet, Closed, EventSet, ArchiveTypeOK
  <2>3. \A t \in Tx : LedgerOf[t] \in Int  BY HistoryFacts
  <2>4. tip' <= tip'  BY <1>1
  <2>5. last' <= tip' /\ recorded' <= tip'  BY <1>1, <2>1, <2>2 DEF Past
  <2>6. \A m \in wire' : m.ledger <= tip'  BY <1>6, <2>1, <2>2, <2>4 DEF Past
  <2>7. \A n \in Closed' : n <= tip'  BY <1>3, <2>1, <2>2 DEF Past
  <2>8. \A row \in coverage' : row.to <= tip'  BY <1>1, <2>1, <2>2 DEF Past, archiveVars
  <2>9. \A t \in txRows' : LedgerOf[t] <= tip'
    BY <1>1, <2>1, <2>3 DEF Past, archiveVars, TypeOK, ArchiveTypeOK
  <2>10. \A f \in (fetching \cup Queued)' : f.tx # 0 => LedgerOf[f.tx] <= tip'
    <3>1. \A f \in fetching \cup Queued : f.tx # 0 => f.tx \in Tx
      BY QueuedEvents DEF TypeOK, EventSet
    <3> QED  BY <1>1, <1>3, <2>1, <2>3, <3>1 DEF Past
  <2>11. \A x \in Issuers : \A t \in healing'.rest[x] : LedgerOf[t] <= tip'
    <3>1. \A x \in Issuers : healing.rest[x] \subseteq Tx  BY DEF TypeOK
    <3> QED  BY <1>1, <2>1, <2>3, <3>1 DEF Past
  <2>12. \A i \in Issuances : \A t \in reg'[i].rest : LedgerOf[t] <= tip'
    <3>1. \A i \in Issuances : reg[i].rest \subseteq Tx  BY DEF TypeOK
    <3> QED  BY <1>1, <2>1, <2>3, <3>1 DEF Past, serverVars
  <2> QED  BY <2>5, <2>6, <2>7, <2>8, <2>9, <2>10, <2>11, <2>12 DEF Past
<1>11. WireWhole'
  <2> SUFFICES ASSUME NEW m \in wire', m.tx = 0
               PROVE  /\ last < m.ledger /\ \A n \in Closed : n < m.ledger
                      /\ \A i \in Initial : \A t \in Touching(i) :
                            LedgerOf[t] = m.ledger => Message(m.ledger, t) \in wire'
    BY <1>1, <1>3 DEF WireWhole
  <2>1. CASE m \in wire  BY <1>7, <2>1 DEF WireWhole
  <2>2. CASE m \notin wire
    <3>1. m.ledger = tip' /\ wire' # wire  BY <1>6, <2>2
    <3>2. last < tip' /\ \A n \in Closed : n < tip'
      <4>1. last \in Nat /\ \A n \in Closed : n \in Nat
        BY QueuedEvents DEF TypeOK, Closed, EventSet
      <4> QED  BY <1>1, <4>1 DEF Past
    <3> QED  BY <1>4, <1>7, <3>1, <3>2
  <2> QED  BY <2>1, <2>2
<1>12. Accounted'
  <2>1. \A i \in Initial : InHandOf(i) \subseteq InHandOf(i)'
    BY <1>1, <1>3, <1>7 DEF InHandOf
  <2>2. Grows  BY <1>1 DEF Grows, archiveVars
  <2> QED  BY <1>1, <1>3, <2>1, <2>2, CompleteStays DEF Accounted
<1> QED  BY <1>0, <1>8, <1>9, <1>10, <1>11, <1>12

LEMMA DisconnectKeeps ==
    ASSUME IInv, Disconnect
    PROVE  IInv'
<1> USE DEF IInv
<1>0. TypeOK'  BY UpstreamType
<1>1. /\ wire' = {}
      /\ UNCHANGED <<archiveVars, recorded, fetching, queue, last, healing, serverVars, tip>>
      /\ lost' = lost \cup {m.tx : m \in {n \in wire : Message(n.ledger, 0) \notin wire}}
  BY DEF Disconnect
<1>2. Queued' = Queued /\ Closed' = Closed  BY <1>1 DEF Queued, Closed
<1>3. Watched' /\ OwnLedgers' /\ WireWhole' /\ HealClean' /\ Anchored'
  BY <1>1, <1>2 DEF Watched, OwnLedgers, WireWhole, HealClean, IsHealing, Anchored, serverVars, archiveVars
<1>4. Past'  BY <1>1, <1>2 DEF Past, serverVars, archiveVars
<1>5. Accounted'
  <2> SUFFICES ASSUME NEW i \in Initial, NEW t \in Touching(i),
                      LedgerOf[t] <= last \/ LedgerOf[t] \in Closed
               PROVE  t \in InHandOf(i)' \/ t \in lost' \/ Complete(t, i)'
    BY <1>1, <1>2 DEF Accounted
  <2>1. CASE \E m \in wire : m.tx = t
    <3>1. PICK m \in wire : m.tx = t  BY <2>1
    <3>2. t \in Tx /\ t # 0 /\ m.ledger = LedgerOf[t]  BY <3>1, HistoryFacts DEF Touching, OwnLedgers
    <3>3. Message(m.ledger, 0) \notin wire
      <4> SUFFICES ASSUME Message(m.ledger, 0) \in wire PROVE FALSE
        OBVIOUS
      <4> DEFINE c == Message(m.ledger, 0)
      <4>1. c \in wire /\ c.tx = 0 /\ c.ledger = m.ledger  BY DEF Message
      <4>2. last < c.ledger /\ \A n \in Closed : n < c.ledger  BY <4>1 DEF WireWhole
      <4>3. last \in Nat /\ c.ledger \in Nat  BY <4>1 DEF TypeOK, MessageSet
      <4> HIDE DEF c
      <4> QED  BY <3>2, <4>1, <4>2, <4>3
    <3> QED  BY <1>1, <3>1, <3>3
  <2>2. CASE ~\E m \in wire : m.tx = t
    <3>1. t \in InHandOf(i) => t \in InHandOf(i)'  BY <1>1, <1>2, <2>2 DEF InHandOf
    <3>2. Grows  BY <1>1 DEF Grows, archiveVars
    <3> QED  BY <1>1, <3>1, <3>2, CompleteStays DEF Accounted
  <2> QED  BY <2>1, <2>2
<1> QED  BY <1>0, <1>3, <1>4, <1>5

(***************************************************************************)
(* A fetch's event is queued, or lost.                                     *)
(***************************************************************************)
LEMMA FetchKeeps ==
    ASSUME IInv, FetchReturns \/ FetchFails
    PROVE  IInv'
<1> USE DEF IInv
<1>0. TypeOK'  BY SourceType
<1>1. PICK f \in fetching :
         /\ fetching' = fetching \ {f}
         /\ UNCHANGED <<archiveVars, recorded, live, wire, last, healing, serverVars, tip>>
         /\ \/ queue' = Append(queue, f) /\ UNCHANGED lost
            \/ UNCHANGED queue /\ lost' = lost \cup {f.tx}
  BY DEF FetchReturns, FetchFails, envVars
<1>2. f.tx # 0 /\ f \in EventSet  BY DEF OwnLedgers, TypeOK
<1>3. \/ Queued' = Queued \cup {f} /\ UNCHANGED lost
      \/ Queued' = Queued /\ lost' = lost \cup {f.tx}
  <2>1. CASE queue' = Append(queue, f) /\ UNCHANGED lost  BY <1>2, <2>1, AppendQueued
  <2>2. CASE UNCHANGED queue /\ lost' = lost \cup {f.tx}  BY <2>2 DEF Queued
  <2> QED  BY <1>1, <2>1, <2>2
<1>4. Closed' = Closed  BY <1>2, <1>3 DEF Closed
<1>5. (fetching \cup Queued)' \subseteq fetching \cup Queued  BY <1>1, <1>3
<1>6. Watched' /\ OwnLedgers' /\ WireWhole' /\ HealClean' /\ Anchored'
  BY <1>1, <1>4, <1>5 DEF Watched, OwnLedgers, WireWhole, HealClean, IsHealing, Anchored, serverVars, archiveVars
<1>7. Past'  BY <1>1, <1>4, <1>5 DEF Past, serverVars, archiveVars
<1>8. Accounted'
  <2>1. \A i \in Initial : InHandOf(i) \subseteq InHandOf(i)' \cup lost'
    BY <1>1, <1>3 DEF InHandOf
  <2>2. Grows /\ lost \subseteq lost'  BY <1>1, <1>3 DEF Grows, archiveVars
  <2> QED  BY <1>1, <1>4, <2>1, <2>2, CompleteStays DEF Accounted
<1> QED  BY <1>0, <1>6, <1>7, <1>8

(***************************************************************************)
(* The first message of the wire becomes an event, or nothing.             *)
(***************************************************************************)
LEMMA ReceiveKeeps ==
    ASSUME IInv, Receive
    PROVE  IInv'
<1> USE DEF IInv
<1>0. TypeOK'  BY SourceType
<1>1. PICK m \in wire :
         /\ \A n \in wire : m.ledger < n.ledger \/ (m.ledger = n.ledger /\ m.tx <= n.tx)
         /\ wire' = wire \ {m}
         /\ IF m.tx = 0
            THEN queue' = Append(queue, Event(m.ledger, 0, {})) /\ UNCHANGED fetching
            ELSE /\ fetching' = IF InScope(m.tx, tracked)
                                THEN fetching \cup {Event(m.ledger, m.tx, tracked)}
                                ELSE fetching
                 /\ UNCHANGED queue
         /\ UNCHANGED <<archiveVars, recorded, live, last, healing, serverVars, envVars>>
  BY DEF Receive
<1>2. /\ m.ledger \in Nat /\ m.tx \in Tx \cup {0} /\ m = Message(m.ledger, m.tx)
      /\ \A n \in wire : n.ledger \in Nat /\ n.tx \in Nat /\ n = Message(n.ledger, n.tx)
  <2>1. wire \subseteq MessageSet  BY DEF TypeOK
  <2>2. ASSUME NEW n \in MessageSet
        PROVE  n.ledger \in Nat /\ n.tx \in Tx \cup {0} /\ n = Message(n.ledger, n.tx)
    BY DEF MessageSet, Message
  <2>3. Tx \cup {0} \subseteq Nat  BY HistoryFacts
  <2> QED  BY <2>1, <2>2, <2>3
<1>3. Watched' /\ HealClean' /\ Anchored' /\ Grows /\ UNCHANGED lost
  BY <1>1 DEF Watched, HealClean, IsHealing, Anchored, serverVars, archiveVars, Grows, envVars
<1>4. CASE m.tx = 0
  <2> DEFINE e == Event(m.ledger, 0, {})
  <2>1. e \in EventSet /\ e.tx = 0 /\ e.ledger = m.ledger  BY <1>2 DEF Event, EventSet
  <2>2. queue' = Append(queue, e) /\ UNCHANGED fetching  BY <1>1, <1>4
  <2> HIDE DEF e
  <2>3. Queued' = Queued \cup {e}  BY <2>1, <2>2, AppendQueued
  <2>4. Closed' = Closed \cup {m.ledger}  BY <2>1, <2>3 DEF Closed
  <2>5. OwnLedgers'  BY <1>1, <2>1, <2>2, <2>3 DEF OwnLedgers
  <2>6. Past'  BY <1>1, <2>1, <2>2, <2>3, <2>4 DEF Past, serverVars, archiveVars, envVars
  <2>7. WireWhole'
    <3> SUFFICES ASSUME NEW n \in wire', n.tx = 0
                 PROVE  /\ last < n.ledger /\ \A k \in Closed' : k < n.ledger
                        /\ \A i \in Initial : \A t \in Touching(i) :
                              LedgerOf[t] = n.ledger => Message(n.ledger, t) \in wire'
      BY <1>1 DEF WireWhole
    <3>1. n \in wire /\ n # m /\ m.ledger < n.ledger  BY <1>1, <1>2, <1>4
    <3>2. last < n.ledger /\ \A k \in Closed : k < n.ledger  BY <3>1 DEF WireWhole
    <3>3. ASSUME NEW i \in Initial, NEW t \in Touching(i), LedgerOf[t] = n.ledger
          PROVE  Message(n.ledger, t) \in wire'
      <4>1. Message(n.ledger, t) \in wire  BY <3>1, <3>3 DEF WireWhole
      <4>2. t # 0 /\ Message(n.ledger, t).tx = t  BY HistoryFacts DEF Touching, Message
      <4> QED  BY <1>1, <1>4, <4>1, <4>2
    <3> QED  BY <2>4, <3>1, <3>2, <3>3
  <2>8. Accounted'
    <3> SUFFICES ASSUME NEW i \in Initial, NEW t \in Touching(i),
                        LedgerOf[t] <= last \/ LedgerOf[t] \in Closed'
                 PROVE  t \in InHandOf(i)' \/ t \in lost' \/ Complete(t, i)'
      BY <1>1 DEF Accounted
    <3>0. t \in Tx /\ t # 0  BY HistoryFacts DEF Touching
    <3>1. CASE LedgerOf[t] = m.ledger
      <4>1. Message(m.ledger, t) \in wire  BY <1>4, <3>1 DEF WireWhole
      <4>2. Message(m.ledger, t).tx = t  BY DEF Message
      <4>3. Message(m.ledger, t) \in wire'  BY <1>1, <1>4, <3>0, <4>1, <4>2
      <4> QED  BY <4>2, <4>3 DEF InHandOf
    <3>2. CASE LedgerOf[t] <= last \/ LedgerOf[t] \in Closed
      <4>1. t \in InHandOf(i) => t \in InHandOf(i)'
        BY <1>1, <1>4, <2>2, <2>3, <3>0 DEF InHandOf
      <4> QED  BY <1>3, <3>2, <4>1, CompleteStays DEF Accounted
    <3> QED  BY <2>4, <3>1, <3>2
  <2> QED  BY <1>0, <1>3, <2>5, <2>6, <2>7, <2>8
<1>5. CASE m.tx # 0
  <2> DEFINE e == Event(m.ledger, m.tx, tracked)
  <2>1. e.tx = m.tx /\ e.scope = tracked /\ LedgerOf[m.tx] = m.ledger /\ m.ledger <= tip
    BY <1>5 DEF Event, OwnLedgers, Past
  <2>2. UNCHANGED queue /\ fetching' = IF InScope(m.tx, tracked) THEN fetching \cup {e} ELSE fetching
    BY <1>1, <1>5
  <2> HIDE DEF e
  <2>3. Queued' = Queued /\ Closed' = Closed  BY <2>2 DEF Queued, Closed
  <2>4. OwnLedgers'  BY <1>1, <1>5, <2>1, <2>2, <2>3 DEF OwnLedgers, Watched, serverVars
  <2>5. Past'  BY <1>1, <2>1, <2>2, <2>3 DEF Past, serverVars, archiveVars, envVars
  <2>6. WireWhole'
    <3> SUFFICES ASSUME NEW n \in wire', n.tx = 0
                 PROVE  \A i \in Initial : \A t \in Touching(i) :
                              LedgerOf[t] = n.ledger => Message(n.ledger, t) \in wire'
      BY <1>1, <2>3 DEF WireWhole
    <3>1. n \in wire /\ m.ledger < n.ledger  BY <1>1, <1>2, <1>5, HistoryFacts
    <3> TAKE i \in Initial
    <3> TAKE t \in Touching(i)
    <3> HAVE LedgerOf[t] = n.ledger
    <3>2. Message(n.ledger, t) \in wire /\ Message(n.ledger, t).ledger = n.ledger
      BY <3>1 DEF WireWhole, Message
    <3>3. Message(n.ledger, t) # m  BY <1>2, <3>1, <3>2
    <3> QED  BY <1>1, <3>2, <3>3
  <2>7. Accounted'
    <3> SUFFICES ASSUME NEW i \in Initial, NEW t \in Touching(i),
                        LedgerOf[t] <= last \/ LedgerOf[t] \in Closed
                 PROVE  t \in InHandOf(i)' \/ t \in lost' \/ Complete(t, i)'
      BY <1>1, <2>3 DEF Accounted
    <3>1. t = m.tx => e \in fetching'
      BY <2>2 DEF Touching, InScope, Watched
    <3>2. t \in InHandOf(i) => t \in InHandOf(i)'
      BY <1>1, <2>1, <2>2, <2>3, <3>1 DEF InHandOf
    <3> QED  BY <1>3, <3>2, CompleteStays DEF Accounted
  <2> QED  BY <1>0, <1>3, <2>4, <2>5, <2>6, <2>7
<1> QED  BY <1>4, <1>5
-----------------------------------------------------------------------------
(***************************************************************************)
(* Steps of the event loop.                                                *)
(***************************************************************************)

(***************************************************************************)
(* A page of a heal: what it lists of an issuance tracked from the start   *)
(* is complete, and what it does not list is left.                         *)
(***************************************************************************)
LEMMA HealPageKeeps ==
    ASSUME IInv, HealPage
    PROVE  IInv'
<1> USE DEF IInv
<1>0. TypeOK'  BY LoopType
<1>1. PICK x \in Issuers : \E page \in Pages(healing.rest[x]) :
         StorePage(page, x) /\ healing' = [healing EXCEPT !.rest[x] = @ \ page]
  BY DEF HealPage
<1>2. PICK page \in Pages(healing.rest[x]) :
         StorePage(page, x) /\ healing' = [healing EXCEPT !.rest[x] = @ \ page]
  BY <1>1
<1>3. /\ UNCHANGED <<coverage, recorded, live, wire, fetching, queue, last, serverVars, envVars>>
      /\ IsHealing
  BY DEF HealPage
<1>4. page \subseteq healing.rest[x] /\ page \in SUBSET Tx  BY PageFacts DEF TypeOK
<1>5. /\ healing'.on = healing.on
      /\ \A y \in Issuers : healing'.rest[y] = IF y = x THEN healing.rest[x] \ page ELSE healing.rest[y]
  BY <1>2 DEF TypeOK
<1>6. Queued' = Queued /\ Closed' = Closed  BY <1>3 DEF Queued, Closed
<1>7. Grows  BY <1>2, StorePageGrows
<1>8. Watched' /\ OwnLedgers' /\ WireWhole' /\ HealClean' /\ Anchored'
  BY <1>3, <1>5, <1>6 DEF Watched, OwnLedgers, WireWhole, HealClean, IsHealing, Anchored, serverVars
<1>9. Past'
  <2>1. \A t \in txRows' : LedgerOf[t] <= tip
    BY <1>2, <1>4 DEF Past, StorePage
  <2>2. \A y \in Issuers : \A t \in healing'.rest[y] : LedgerOf[t] <= tip
    BY <1>5 DEF Past
  <2> QED  BY <1>3, <1>6, <2>1, <2>2 DEF Past, serverVars, envVars
<1>10. Accounted'
  <2> SUFFICES ASSUME NEW i \in Initial, NEW t \in Touching(i),
                      LedgerOf[t] <= last \/ LedgerOf[t] \in Closed
               PROVE  t \in InHandOf(i)' \/ t \in lost' \/ Complete(t, i)'
    BY <1>3, <1>6 DEF Accounted
  <2>0. i \in Issuances /\ i \in tracked /\ IssuerOf[i] \in Issuers
    BY HistoryFacts, LiveTailAssumption DEF LiveTailAssumption, Watched
  <2>1. CASE t \in page /\ IssuerOf[i] = x
    BY <1>2, <1>4, <2>0, <2>1, StorePageCompletes
  <2>2. CASE ~(t \in page /\ IssuerOf[i] = x)
    <3>1. t \in healing.rest[IssuerOf[i]] => t \in healing'.rest[IssuerOf[i]]
      BY <1>5, <2>0, <2>2
    <3>2. t \in InHandOf(i) => t \in InHandOf(i)'
      BY <1>3, <1>6, <3>1 DEF InHandOf
    <3> QED  BY <1>3, <1>7, <3>2, CompleteStays DEF Accounted, envVars
  <2> QED  BY <2>1, <2>2
<1> QED  BY <1>0, <1>8, <1>9, <1>10

LEMMA HealEndsKeeps ==
    ASSUME IInv, HealEnds
    PROVE  IInv'
<1> USE DEF IInv
<1>0. TypeOK'  BY LoopType
<1>1. /\ UNCHANGED <<archiveVars, recorded, live, wire, fetching, queue, last, serverVars, envVars>>
      /\ healing'.rest = healing.rest /\ healing.rest = NoHeal
  BY DEF HealEnds, TypeOK
<1>2. Queued' = Queued /\ Closed' = Closed  BY <1>1 DEF Queued, Closed
<1>3. Watched' /\ OwnLedgers' /\ WireWhole' /\ HealClean' /\ Anchored'
  BY <1>1, <1>2 DEF Watched, OwnLedgers, WireWhole, HealClean, IsHealing, Anchored, serverVars, archiveVars
<1>4. Past'  BY <1>1, <1>2 DEF Past, serverVars, archiveVars, envVars
<1>5. Accounted'
  <2>1. \A i \in Initial : InHandOf(i)' = InHandOf(i)  BY <1>1, <1>2 DEF InHandOf
  <2>2. Grows  BY <1>1 DEF Grows, archiveVars
  <2> QED  BY <1>1, <1>2, <2>1, <2>2, CompleteStays DEF Accounted, envVars
<1> QED  BY <1>0, <1>3, <1>4, <1>5

(***************************************************************************)
(* A streamed transaction is complete for every issuance of its scope that *)
(* is tracked still: those tracked from the start are.                     *)
(***************************************************************************)
LEMMA IngestKeeps ==
    ASSUME IInv, IngestTransaction
    PROVE  IInv'
<1> USE DEF IInv
<1>0. TypeOK'  BY LoopType
<1> DEFINE ev == Head(queue)
<1>1. /\ queue # <<>> /\ queue' = Tail(queue) /\ ev.tx # 0
      /\ txRows' = txRows \cup {ev.tx}
      /\ links' = links \cup TouchedLinks(ev.tx, ev.scope)
      /\ deltas' = deltas \cup DeltaRows({ev.tx}, tracked)
      /\ UNCHANGED <<coverage, recorded, live, wire, fetching, last, healing, serverVars, envVars>>
  BY DEF IngestTransaction, NextEvent
<1>2. ev \in Queued /\ ev \in EventSet /\ Queued = Queued' \cup {ev}
  BY <1>1, TailQueued
<1>3. ev.tx \in Tx /\ Initial \subseteq ev.scope /\ LedgerOf[ev.tx] <= tip
  BY <1>1, <1>2 DEF EventSet, OwnLedgers, Past
<1> HIDE DEF ev
<1>4. Closed' = Closed  BY <1>1, <1>2 DEF Closed
<1>5. Grows  BY <1>1 DEF Grows
<1>6. Watched' /\ OwnLedgers' /\ WireWhole' /\ HealClean' /\ Anchored'
  BY <1>1, <1>2, <1>4 DEF Watched, OwnLedgers, WireWhole, HealClean, IsHealing, Anchored, serverVars
<1>7. Past'  BY <1>1, <1>2, <1>3, <1>4 DEF Past, serverVars, envVars
<1>8. Accounted'
  <2> SUFFICES ASSUME NEW i \in Initial, NEW t \in Touching(i),
                      LedgerOf[t] <= last \/ LedgerOf[t] \in Closed
               PROVE  t \in InHandOf(i)' \/ t \in lost' \/ Complete(t, i)'
    BY <1>1, <1>4 DEF Accounted
  <2>1. CASE t = ev.tx
    <3>1. i \in Issuances /\ i \in tracked /\ i \in ev.scope
      BY <1>3, LiveTailAssumption DEF LiveTailAssumption, Watched
    <3>2. \A h \in HoldersIn(t, i) : /\ <<t, h>> \in links' /\ <<t, IssuerOf[i]>> \in links'
                                     /\ <<t, i, h>> \in deltas'
      BY <1>1, <1>3, <2>1, <3>1, StreamedIsComplete
    <3> QED  BY <1>1, <2>1, <3>2 DEF Complete, Held
  <2>2. CASE t # ev.tx
    <3>1. t \in InHandOf(i) => t \in InHandOf(i)'
      BY <1>1, <1>2, <2>2 DEF InHandOf
    <3> QED  BY <1>1, <1>5, <3>1, CompleteStays DEF Accounted, envVars
  <2> QED  BY <2>1, <2>2
<1> QED  BY <1>0, <1>6, <1>7, <1>8
(***************************************************************************)
(* A close moves the tracker on: what touches an issuance tracked from the *)
(* start in a ledger passed over is in the heal, for its issuer is paged.  *)
(***************************************************************************)
LEMMA ObserveLedgerKeeps ==
    ASSUME IInv, ObserveLedger
    PROVE  IInv'
<1> USE DEF IInv
<1>0. TypeOK'  BY LoopType
<1> DEFINE n == Head(queue).ledger
           gap == last # 0 /\ n > last + 1
<1>1. /\ queue # <<>> /\ queue' = Tail(queue) /\ Head(queue).tx = 0 /\ ~IsHealing
      /\ recorded' = LargerOf(recorded, n)
      /\ last' = LargerOf(last, n)
      /\ UNCHANGED <<archiveVars, live, wire, fetching, serverVars, envVars>>
  BY DEF ObserveLedger, NextEvent
<1>2. /\ gap => healing' = [on |-> TRUE, rest |-> [x \in Issuers |->
                               IF x \in IssuersOf(tracked) THEN GapOf(x, last + 1, n - 1) ELSE {}]]
      /\ ~gap => healing' = healing
  BY DEF ObserveLedger
<1>3. /\ Head(queue) \in Queued /\ Head(queue) \in EventSet
      /\ Queued = Queued' \cup {Head(queue)}
  BY <1>1, TailQueued
<1>4. n \in Nat /\ n \in Closed /\ Closed = Closed' \cup {n}
  BY <1>1, <1>3 DEF EventSet, Closed
<1>5. /\ \A k \in Closed : k \in Nat
      /\ last \in Nat /\ recorded \in Nat /\ tip \in Nat
      /\ \A m \in wire : m.ledger \in Nat
  BY QueuedEvents DEF TypeOK, Closed, EventSet, MessageSet
<1>6. n <= tip /\ last <= tip /\ recorded <= tip  BY <1>4 DEF Past
<1>7. last' = (IF last <= n THEN n ELSE last) /\ recorded' = (IF recorded <= n THEN n ELSE recorded)
  BY <1>1 DEF LargerOf
<1>8. healing.rest = NoHeal  BY <1>1 DEF HealClean
<1> HIDE DEF n
<1>9. Watched' /\ OwnLedgers'
  BY <1>1, <1>3 DEF Watched, OwnLedgers, serverVars
<1>10. WireWhole'
  <2> SUFFICES ASSUME NEW m \in wire, m.tx = 0
               PROVE  last' < m.ledger /\ \A k \in Closed' : k < m.ledger
    BY <1>1 DEF WireWhole
  <2>1. last < m.ledger /\ \A k \in Closed : k < m.ledger  BY DEF WireWhole
  <2> QED  BY <1>4, <1>7, <2>1
<1>11. HealClean'
  <2>1. CASE gap  BY <1>2, <2>1 DEF HealClean, IsHealing
  <2>2. CASE ~gap  BY <1>2, <2>2 DEF HealClean, IsHealing
  <2> QED  BY <2>1, <2>2
<1>12. Anchored'
  BY <1>1, <1>4, <1>5, <1>7 DEF Anchored, archiveVars
<1>13. Past'
  <2>1. last' <= tip /\ recorded' <= tip  BY <1>6, <1>7
  <2>2. \A x \in Issuers : \A t \in healing'.rest[x] : LedgerOf[t] <= tip
    <3>1. CASE gap
      <4>1. \A x \in Issuers : \A t \in GapOf(x, last + 1, n - 1) : t \in Tx /\ LedgerOf[t] <= n - 1
        BY <1>4, <1>5, <3>1, GapFacts, HistoryFacts
      <4>2. \A x \in Issuers : \A t \in GapOf(x, last + 1, n - 1) : LedgerOf[t] <= tip
        <5>1. \A t \in Tx : LedgerOf[t] \in Nat  BY HistoryFacts
        <5>2. \A l \in Nat : l <= n - 1 => l <= tip  BY <1>4, <1>5, <1>6
        <5> QED  BY <4>1, <5>1, <5>2
      <4>3. \A x \in Issuers : healing'.rest[x] \subseteq GapOf(x, last + 1, n - 1)
        BY <1>2, <3>1
      <4> QED  BY <4>2, <4>3
    <3>2. CASE ~gap  BY <1>2, <3>2 DEF Past
    <3> QED  BY <3>1, <3>2
  <2> QED  BY <1>1, <1>3, <1>4, <2>1, <2>2 DEF Past, archiveVars, serverVars, envVars
<1>14. Accounted'
  <2> SUFFICES ASSUME NEW i \in Initial, NEW t \in Touching(i),
                      LedgerOf[t] <= last' \/ LedgerOf[t] \in Closed'
               PROVE  t \in InHandOf(i)' \/ t \in lost' \/ Complete(t, i)'
    BY DEF Accounted
  <2>0. /\ i \in Issuances /\ i \in tracked /\ IssuerOf[i] \in Issuers /\ IssuerOf[i] \in Accounts
        /\ IssuerOf[i] \in IssuersOf(tracked)
        /\ t \in Tx /\ t # 0 /\ LedgerOf[t] \in Nat
    BY HistoryFacts, LiveTailAssumption DEF LiveTailAssumption, Watched, Touching, IssuersOf
  <2>1. CASE LedgerOf[t] <= last \/ LedgerOf[t] \in Closed
    <3>1. healing.rest[IssuerOf[i]] = {}  BY <1>8, <2>0 DEF NoHeal
    <3>2. t \in InHandOf(i) => t \in InHandOf(i)'
      BY <1>1, <1>3, <2>0, <3>1 DEF InHandOf
    <3>3. Grows  BY <1>1 DEF Grows, archiveVars
    <3> QED  BY <1>1, <2>1, <3>2, <3>3, CompleteStays DEF Accounted, envVars
  <2>2. CASE ~(LedgerOf[t] <= last \/ LedgerOf[t] \in Closed)
    <3>1. LedgerOf[t] <= last' /\ LedgerOf[t] # n  BY <1>4, <2>2
    <3>2. last + 1 <= LedgerOf[t] /\ LedgerOf[t] <= n - 1 /\ n > last + 1
      BY <1>4, <1>5, <1>7, <2>0, <2>2, <3>1
    <3>3. gap  BY <3>2 DEF Anchored
    <3>4. t \in GapOf(IssuerOf[i], last + 1, n - 1)
      BY <1>4, <1>5, <2>0, <3>2, GapFacts
    <3>5. t \in healing'.rest[IssuerOf[i]]  BY <1>2, <2>0, <3>3, <3>4
    <3> QED  BY <3>5 DEF InHandOf
  <2> QED  BY <2>1, <2>2
<1> QED  BY <1>0, <1>9, <1>10, <1>11, <1>12, <1>13, <1>14

-----------------------------------------------------------------------------
(***************************************************************************)
(* A restart anchors at a ledger that is not ahead.  What it passes over   *)
(* that is not complete is lost.                                           *)
(***************************************************************************)
LEMMA CrashKeeps ==
    ASSUME IInv, Crash
    PROVE  IInv'
<1> USE DEF IInv
<1>0. TypeOK'  BY CrashType
<1>1. PICK anchor \in 0 .. LastLedger :
         /\ IsAnchor(anchor)
         /\ last' = anchor
         /\ lost' = lost \cup {t \in Tx : LedgerOf[t] <= anchor /\ (t \in InHand \/ last < LedgerOf[t])}
  BY DEF Crash, Restart
<1>2. /\ wire' = {} /\ fetching' = {} /\ queue' = <<>>
      /\ healing' = [on |-> FALSE, rest |-> NoHeal]
      /\ tracked' = rows /\ listed' = rows
      /\ UNCHANGED <<archiveVars, recorded, rows, tip>>
  BY DEF Crash, Restart
<1>3. \A i \in Issuances : reg'[i].rest = {}
  BY DEF Crash, Restart, TypeOK
<1>4. Queued' = {} /\ Closed' = {}  BY <1>2 DEF Queued, Closed
<1>5. healing'.rest = NoHeal /\ \A x \in Issuers : healing'.rest[x] = {}  BY <1>2 DEF NoHeal
<1>6. Watched' /\ OwnLedgers' /\ WireWhole' /\ HealClean'
  BY <1>2, <1>4, <1>5 DEF Watched, OwnLedgers, WireWhole, HealClean, TypeOK
<1>7. anchor <= tip
  BY <1>1 DEF IsAnchor, Past, TypeOK
<1>8. Past'
  BY <1>1, <1>2, <1>3, <1>4, <1>5, <1>7 DEF Past, archiveVars
<1>9. Anchored'
  <2> SUFFICES ASSUME Initial # {}
               PROVE  anchor # 0 /\ \E row \in coverage : row.to # 0
    BY <1>1, <1>2 DEF Anchored, archiveVars
  <2>1. PICK row \in coverage : row.to # 0  BY DEF Anchored
  <2>2. row.to \in Nat  BY DEF TypeOK, ArchiveTypeOK
  <2>3. row.to <= anchor  BY <1>1 DEF IsAnchor
  <2> QED  BY <1>1, <2>1, <2>2, <2>3
<1>10. Accounted'
  <2> SUFFICES ASSUME NEW i \in Initial, NEW t \in Touching(i), LedgerOf[t] <= anchor
               PROVE  t \in lost' \/ Complete(t, i)'
    BY <1>1, <1>4 DEF Accounted
  <2>0. i \in Issuances /\ IssuerOf[i] \in Issuers /\ t \in Tx /\ t # 0
        /\ LedgerOf[t] \in Nat /\ last \in Nat
    BY HistoryFacts, LiveTailAssumption DEF LiveTailAssumption, Touching, TypeOK
  <2>1. Grows  BY <1>2 DEF Grows, archiveVars
  <2>2. CASE last < LedgerOf[t]  BY <1>1, <2>0, <2>2
  <2>3. CASE t \in InHandOf(i)
    <3>1. t \in InHand  BY <2>0, <2>3 DEF InHandOf, InHand, Queued
    <3> QED  BY <1>1, <2>0, <3>1
  <2>4. CASE LedgerOf[t] <= last /\ t \notin InHandOf(i)
    BY <1>1, <2>1, <2>4, CompleteStays DEF Accounted
  <2> QED  BY <2>0, <2>2, <2>3, <2>4
<1> QED  BY <1>0, <1>6, <1>8, <1>9, <1>10

-----------------------------------------------------------------------------
(***************************************************************************)
(* At the start the history up to the validated ledger is swept.           *)
(***************************************************************************)
LEMMA InitHolds == Init => IInv
<1> SUFFICES ASSUME Init PROVE IInv
  OBVIOUS
<1> USE DEF IInv
<1>0. TypeOK  BY InitType
<1>1. /\ wire = {} /\ fetching = {} /\ queue = <<>> /\ recorded = 0 /\ tip = StartTip
      /\ last = (IF Initial = {} THEN 0 ELSE StartTip)
      /\ tracked = Initial /\ listed = Initial
      /\ healing = [on |-> FALSE, rest |-> NoHeal]
      /\ \A i \in Issuances : reg[i].rest = {}
      /\ txRows = {t \in Tx : LedgerOf[t] <= StartTip /\ InScope(t, Initial)}
      /\ deltas = DeltaRows(txRows, Initial)
      /\ coverage = {[address |-> IssuerOf[i], from |-> 1, to |-> StartTip,
                      job |-> <<i, IssuerOf[i]>>] : i \in Initial}
  BY DEF Init
<1>2. StartTip \in Nat \ {0} /\ Initial \subseteq Issuances
  BY LiveTailAssumption DEF LiveTailAssumption
<1>3. Queued = {} /\ Closed = {}  BY <1>1 DEF Queued, Closed
<1>4. Watched /\ OwnLedgers /\ WireWhole /\ HealClean
  BY <1>1, <1>3 DEF Watched, OwnLedgers, WireWhole, HealClean, IsHealing
<1>5. Past  BY <1>1, <1>2, <1>3 DEF Past, NoHeal
<1>6. Anchored
  <2> SUFFICES ASSUME NEW i \in Initial
               PROVE  last # 0 /\ \E row \in coverage : row.to # 0
    BY DEF Anchored
  <2> DEFINE row == [address |-> IssuerOf[i], from |-> 1, to |-> StartTip,
                     job |-> <<i, IssuerOf[i]>>]
  <2>1. row \in coverage /\ row.to = StartTip  BY <1>1
  <2> QED  BY <1>1, <1>2, <2>1
<1>7. Accounted
  <2> SUFFICES ASSUME NEW i \in Initial, NEW t \in Touching(i), LedgerOf[t] <= last
               PROVE  Complete(t, i)
    BY <1>3 DEF Accounted
  <2>1. i \in Issuances /\ t \in Tx /\ t \in txRows
    BY <1>1, <1>2 DEF Touching, InScope
  <2> DEFINE page == {s \in txRows : InScope(s, {i})}
             linksOf(j) == SweepLinks({s \in txRows : InScope(s, {j})}, {j}, IssuerOf[j])
  <2>2. t \in page /\ page \in SUBSET Tx /\ txRows \in SUBSET Tx
    BY <1>1, <2>1 DEF Touching, InScope
  <2>3. links = UNION {linksOf(j) : j \in Initial}  BY DEF Init
  <2>4. linksOf(i) \subseteq links  BY <2>3
  <2>5. linksOf(i) = SweepLinks(page, {i}, IssuerOf[i])  OBVIOUS
  <2> HIDE DEF page, linksOf
  <2>6. \A h \in HoldersIn(t, i) : /\ <<t, h>> \in links /\ <<t, IssuerOf[i]>> \in links
                                   /\ <<t, i, h>> \in deltas
    BY <1>1, <2>1, <2>2, <2>4, <2>5, PagedIsComplete
  <2> QED  BY <2>1, <2>6 DEF Complete, Held
<1> QED  BY <1>0, <1>4, <1>5, <1>6, <1>7

LEMMA NextKeeps == IInv /\ [Next]_vars => IInv'
<1> SUFFICES ASSUME IInv, [Next]_vars PROVE IInv'
  OBVIOUS
<1>1. CASE UNCHANGED vars
  <2>1. /\ UNCHANGED <<archiveVars, coverage, wire, fetching, queue, last, healing, tip, lost>>
        /\ UNCHANGED <<recorded, tracked, listed, reg, txRows>> /\ Grows /\ TypeOK'
    BY <1>1, TypeKept, TypePartsNext
       DEF IInv, vars, archiveVars, tailVars, serverVars, envVars, Grows
  <2>2. /\ recorded <= tip /\ Initial \subseteq tracked \cap listed
        /\ \A t \in txRows : LedgerOf[t] <= tip
        /\ \A row \in coverage : row.to <= tip
        /\ \A i \in Issuances : \A t \in reg[i].rest : LedgerOf[t] <= tip
    BY DEF IInv, Past, Watched
  <2> QED  BY <2>1, <2>2, Steady
<1>2. CASE Next
  BY <1>2, CloseLedgerKeeps, DisconnectKeeps, FetchKeeps, RefreshKeeps, CrashKeeps, IngestKeeps,
     ObserveLedgerKeeps, HealPageKeeps, HealEndsKeeps, ReceiveKeeps, RegisterKeeps
     DEF Next, TailStep, SourceStep
<1> QED  BY <1>1, <1>2

-----------------------------------------------------------------------------
(***************************************************************************)
(* The invariant holds of every run: whatever drops, fails or restarts.    *)
(***************************************************************************)
THEOREM Invariance == Spec => []IInv
<1>1. Init => IInv  BY InitHolds
<1>2. IInv /\ [Next]_vars => IInv'  BY NextKeeps
<1> QED  BY <1>1, <1>2, PTL DEF Spec

(***************************************************************************)
(* The tail's tables, queue, heals and registrations keep their types      *)
(* (liveTail.ts, xrplSource.ts, gapTracker.ts and registration in          *)
(* server.ts).                                                             *)
(***************************************************************************)
THEOREM TypeCorrect == Spec => []TypeOK
<1>1. IInv => TypeOK  BY DEF IInv
<1> QED  BY <1>1, Invariance, PTL

(***************************************************************************)
(* What a ledger the tracker has passed did to an issuance tracked from    *)
(* the start is complete, in hand, or accounted for as lost: however slow  *)
(* or reordered the fetches, often the socket drops, long the heals, and   *)
(* whatever is registered meanwhile (liveTail.ts, gapTracker.ts).          *)
(***************************************************************************)
THEOREM NothingSlipsHolds == Spec => []NothingSlips
<1>1. ASSUME IInv PROVE NothingSlips
  <2> SUFFICES ASSUME NEW i \in Initial, NEW t \in Tx, LedgerOf[t] <= last,
                      t \notin InHand, t \notin lost
               PROVE  Complete(t, i)
    BY DEF NothingSlips
  <2>1. CASE t \in Touching(i)
    <3>1. i \in Issuances /\ IssuerOf[i] \in Issuers /\ t # 0
      BY HistoryFacts, LiveTailAssumption DEF LiveTailAssumption
    <3>2. t \notin InHandOf(i)  BY <3>1 DEF InHandOf, InHand, Queued
    <3> QED  BY <1>1, <2>1, <3>2 DEF IInv, Accounted
  <2>2. CASE t \notin Touching(i)  BY <2>2 DEF Touching, Complete
  <2> QED  BY <2>1, <2>2
<1> QED  BY <1>1, Invariance, PTL
=============================================================================
