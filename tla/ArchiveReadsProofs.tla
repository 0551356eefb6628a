------------------------- MODULE ArchiveReadsProofs -------------------------
(***************************************************************************)
(* Theorems about ArchiveReads: what clients are told while the archive    *)
(* moves, for any history, any requests and any interleaving of their      *)
(* queries with what sweeps, holder jobs and the tail store.               *)
(***************************************************************************)
EXTENDS ArchiveReads, FoldLemmas, SequenceTheorems

-----------------------------------------------------------------------------
(***************************************************************************)
(* The history.                                                            *)
(***************************************************************************)
LEMMA TxFacts ==
    /\ IsFiniteSet(Tx) /\ Tx \subseteq Nat /\ 0 \notin Tx
    /\ \A t \in Tx : /\ LedgerOf[t] \in Nat /\ LedgerOf[t] # 0 /\ LedgerOf[t] <= LastLedger
                     /\ Touches[t] \subseteq Balance
    /\ \A s, t \in Tx : s <= t => LedgerOf[s] <= LedgerOf[t]
BY HistoryAssumption, ReadsAssumption DEF Balance

(* Any set of transactions is finite. *)
LEMMA SomeTx == \A S \in SUBSET Tx : IsFiniteSet(S)
BY TxFacts, FS_Subset

(***************************************************************************)
(* The newest of some transactions that touches a balance.                 *)
(***************************************************************************)
LEMMA NewestNone ==
    ASSUME NEW S \in SUBSET Tx, NEW o, \A t \in S : o \notin Touches[t]
    PROVE  Newest(S, o) = 0
BY DEF Newest

(* Where one touches the balance, it is a member, and none that touches it is newer. *)
LEMMA NewestSome ==
    ASSUME NEW S \in SUBSET Tx, NEW o, NEW s \in S, o \in Touches[s]
    PROVE  /\ Newest(S, o) \in S /\ Newest(S, o) # 0 /\ Newest(S, o) \in Nat
           /\ o \in Touches[Newest(S, o)]
           /\ \A t \in S : o \in Touches[t] => t <= Newest(S, o)
<1> DEFINE touching == {t \in S : o \in Touches[t]}
<1>1. touching \in SUBSET Tx /\ touching # {} /\ touching \in SUBSET Int
  <2>1. touching \in SUBSET Tx /\ touching # {}
    OBVIOUS
  <2> HIDE DEF touching
  <2>2. \A t \in touching : t \in Int
    BY <2>1, TxFacts
  <2> QED BY <2>1, <2>2
<1>2. IsFiniteSet(touching)
  BY <1>1, SomeTx
<1>3. Max(touching) \in touching /\ \A t \in touching : Max(touching) >= t
  <2> HIDE DEF touching
  <2> QED BY <1>1, <1>2, MaxOf
<1>4. Newest(S, o) = Max(touching)
  BY <1>1 DEF Newest
<1>5. Max(touching) \in Tx
  BY <1>1, <1>3
<1> HIDE DEF touching
<1>6. \A t \in touching : t \in Nat /\ t <= Max(touching)
  BY <1>1, <1>3, <1>5, TxFacts
<1> USE DEF touching
<1> QED BY <1>3, <1>4, <1>5, <1>6, TxFacts

(* Sets that agree on what touches a balance agree on its state. *)
LEMMA NewestSame ==
    ASSUME NEW S \in SUBSET Tx, NEW Z \in SUBSET Tx, NEW o,
           \A t \in Tx : o \in Touches[t] => (t \in S <=> t \in Z)
    PROVE  Newest(S, o) = Newest(Z, o) /\ State(S, o) = State(Z, o)
<1>1. {t \in S : o \in Touches[t]} = {t \in Z : o \in Touches[t]}
  OBVIOUS
<1>2. Newest(S, o) = Newest(Z, o)
  BY <1>1 DEF Newest
<1> QED BY <1>2 DEF State

(***************************************************************************)
(* Amounts are natural numbers.                                            *)
(***************************************************************************)
LEMMA AfterType ==
    ASSUME NEW t \in Tx, NEW o \in Touches[t]
    PROVE  After[t][o] \in Nat \cup {Gone} /\ Amount(After[t][o]) \in Nat
BY ObjectsAssumption DEF Amount

(* What an object is after some transactions: an amount, or gone. *)
LEMMA StateType ==
    ASSUME NEW S \in SUBSET Tx, NEW o
    PROVE  State(S, o) \in Nat \cup {Gone} /\ Amount(State(S, o)) \in Nat
<1>1. CASE \A t \in S : o \notin Touches[t]
  BY <1>1, NewestNone DEF State, Amount
<1>2. CASE \E t \in S : o \in Touches[t]
  <2>1. Newest(S, o) \in Tx /\ o \in Touches[Newest(S, o)] /\ Newest(S, o) # 0
    BY <1>2, NewestSome
  <2> QED BY <2>1, AfterType DEF State
<1> QED BY <1>1, <1>2

(* The same, just before a transaction. *)
LEMMA BeforeType ==
    ASSUME NEW t \in Tx, NEW o
    PROVE  Before(t, o) \in Nat \cup {Gone} /\ Amount(Before(t, o)) \in Nat
BY StateType DEF Before

(* A balance of the ledger is a natural number. *)
LEMMA BalanceType ==
    ASSUME NEW o, NEW l
    PROVE  LedgerBalance(o, l) \in Nat
BY StateType DEF LedgerBalance

(***************************************************************************)
(* A delta is the change of the balance, but for the two changes that      *)
(* Miscounted names.                                                       *)
(***************************************************************************)
LEMMA DeltaType ==
    ASSUME NEW t \in Tx, NEW o \in Touches[t]
    PROVE  Delta(t, o) \in Int
<1> DEFINE before == Before(t, o)  after == After[t][o]
<1>1. before \in Nat \cup {Gone} /\ after \in Nat \cup {Gone}
  BY BeforeType, AfterType
<1>2. Sign(o) \in {1, -1}
  BY DEF Sign
<1>3. Gone \notin Nat /\ Absent \notin Int
  BY ObjectsAssumption
<1>4. ASSUME NEW x \in Nat \cup {Gone} PROVE Amount(x) \in Nat
  BY <1>4 DEF Amount
<1>5. ASSUME NEW x \in Nat PROVE Sign(o) * x \in Int
  BY <1>2
<1>6. ASSUME NEW x \in Int PROVE Sign(o) * x \in Int
  BY <1>2
<1>7. /\ Node(t, o).final \in Int /\ Node(t, o).prev \in Int \cup {Absent}
      /\ Node(t, o).kind \in {"created", "modified", "deleted"}
  BY <1>1, <1>4, <1>5 DEF Node
<1>8. MptDelta(Node(t, o)) \in Int
  <2> HIDE DEF before, after
  <2> QED BY <1>3, <1>7 DEF MptDelta
<1>9. IouDelta(o, Node(t, o)) \in Int
  <2> HIDE DEF before, after
  <2> QED BY <1>3, <1>6, <1>7 DEF IouDelta, HolderBalance
<1> QED BY <1>8, <1>9 DEF Delta

(* The delta that mptDeltas and iouDeltas compute is what the balance changed by. *)
LEMMA DeltaCounts ==
    ASSUME NEW t \in Tx, NEW o \in Touches[t], ~Miscounted(t, o)
    PROVE  Delta(t, o) = Amount(After[t][o]) - Amount(Before(t, o))
<1> DEFINE before == Before(t, o)  after == After[t][o]
           b == Amount(before)  a == Amount(after)
<1>1. before \in Nat \cup {Gone} /\ after \in Nat \cup {Gone} /\ b \in Nat /\ a \in Nat
  BY BeforeType, AfterType
<1>2. Sign(o) \in {1, -1} /\ (o[1] \in Mpts => Sign(o) = 1)
  BY DEF Sign
<1>3. Gone \notin Nat /\ Absent \notin Int
  BY ObjectsAssumption
<1>4. /\ before = Gone => b = 0
      /\ after = Gone => a = 0
      /\ before # Gone => b = before
      /\ after # Gone => a = after
  BY DEF Amount
<1>5. b = 0 \/ (after # Gone /\ (o[1] \in Mpts => after # before))
  BY DEF Miscounted
<1>6. Sign(o) * a \in Int /\ Sign(o) * b \in Int
  BY <1>1, <1>2
<1>7. Sign(o) * (Sign(o) * a) = a /\ Sign(o) * (Sign(o) * b) = b
  BY <1>1, <1>2
<1>8. /\ Node(t, o).final = Sign(o) * a
      /\ Node(t, o).prev = IF before = Gone \/ before = after \/ (o[1] \in Mpts /\ before = 0)
                           THEN Absent ELSE Sign(o) * b
      /\ Node(t, o).kind = IF before = Gone THEN "created"
                           ELSE IF after = Gone THEN "deleted" ELSE "modified"
  BY DEF Node
<1> HIDE DEF before, after, b, a
<1>9. CASE o[1] \in Mpts
  <2>1. /\ Sign(o) * a = a /\ Sign(o) * b = b
    BY <1>1, <1>2, <1>9
  <2>2. MptDelta(Node(t, o)) = a - b
    <3>1. CASE before = Gone
      BY <1>1, <1>4, <1>8, <2>1, <3>1 DEF MptDelta
    <3>2. CASE before # Gone /\ after = Gone
      BY <1>1, <1>4, <1>5, <1>8, <2>1, <3>2 DEF MptDelta
    <3>3. CASE before # Gone /\ after # Gone
      <4>1. CASE Node(t, o).prev = Absent
        <5>1. b = 0
          BY <1>1, <1>3, <1>4, <1>5, <1>6, <1>8, <1>9, <3>3, <4>1
        <5> QED BY <1>1, <1>8, <2>1, <3>3, <4>1, <5>1 DEF MptDelta
      <4>2. CASE Node(t, o).prev # Absent
        <5>1. Node(t, o).prev = b
          BY <1>8, <2>1, <4>2
        <5> QED BY <1>1, <1>8, <2>1, <3>3, <4>2, <5>1 DEF MptDelta
      <4> QED BY <4>1, <4>2
    <3> QED BY <3>1, <3>2, <3>3
  <2> QED BY <1>9, <2>2 DEF Delta, a, b, before, after
<1>10. CASE o[1] \notin Mpts
  <2>1. IouDelta(o, Node(t, o)) = a - b
    <3>1. CASE before = Gone
      BY <1>1, <1>4, <1>7, <1>8, <3>1 DEF IouDelta, HolderBalance
    <3>2. CASE before # Gone /\ after = Gone
      BY <1>1, <1>4, <1>5, <1>7, <1>8, <3>2 DEF IouDelta, HolderBalance
    <3>3. CASE before # Gone /\ after # Gone
      <4>1. CASE Node(t, o).prev = Absent
        <5>1. b = a
          BY <1>1, <1>3, <1>4, <1>6, <1>8, <1>10, <3>3, <4>1
        <5> QED BY <1>1, <1>8, <3>3, <4>1, <5>1 DEF IouDelta
      <4>2. CASE Node(t, o).prev # Absent
        <5>1. Node(t, o).prev = Sign(o) * b
          BY <1>8, <4>2
        <5> QED BY <1>1, <1>7, <1>8, <3>3, <4>2, <5>1 DEF IouDelta, HolderBalance
      <4> QED BY <4>1, <4>2
    <3> QED BY <3>1, <3>2, <3>3
  <2> QED BY <1>10, <2>1 DEF Delta, a, b, before, after
<1> QED BY <1>9, <1>10

(***************************************************************************)
(* The deltas of the first transactions to touch a balance add up to what  *)
(* the last of them left.                                                  *)
(***************************************************************************)
LEMMA DeltasAddUp ==
    ASSUME NEW o, NEW Q \in SUBSET Tx,
           \A t \in Q : o \in Touches[t] /\ ~Miscounted(t, o),
           \A t \in Q : \A s \in Tx : o \in Touches[s] /\ s < t => s \in Q,
           NEW f, \A t \in Q : f[t] = Delta(t, o)
    PROVE  SumFunctionOnSet(f, Q) = Amount(State(Q, o))
<1> DEFINE Sum(Z) == SumFunctionOnSet(f, Z)
           First(Z) == \A t \in Z : \A s \in Tx : o \in Touches[s] /\ s < t => s \in Z
           C == {Z \in SUBSET Q : First(Z) /\ Sum(Z) # Amount(State(Z, o))}
<1>1. SUFFICES ASSUME C # {} PROVE FALSE
  <2>1. Q \notin C
    BY <1>1
  <2> QED BY <2>1
<1>2. \A Z \in SUBSET Q : IsFiniteSet(Z) /\ Z \in SUBSET Tx
  BY SomeTx
<1>3. PICK Z \in C : \A Y \in C : Cardinality(Z) <= Cardinality(Y)
  <2>1. \A Y \in C : IsFiniteSet(Y)
    BY <1>2
  <2> HIDE DEF C
  <2> QED BY <1>1, <2>1, SmallestSet
<1>4. Z \in SUBSET Q /\ Z \in SUBSET Tx /\ IsFiniteSet(Z) /\ First(Z)
      /\ Sum(Z) # Amount(State(Z, o))
  BY <1>2, <1>3
<1>5. Z # {}
  <2>1. Newest({}, o) = 0
    BY NewestNone
  <2>2. Amount(State({}, o)) = 0
    BY <2>1 DEF State, Amount
  <2>3. Sum({}) = 0
    BY SumEmpty
  <2> HIDE DEF Sum, First
  <2> QED BY <1>4, <2>2, <2>3
<1> DEFINE m == Newest(Z, o)
<1>6. /\ m \in Z /\ m \in Nat /\ m # 0 /\ o \in Touches[m]
      /\ \A t \in Z : t <= m
  <2>1. \A t \in Z : o \in Touches[t]
    BY <1>4
  <2> QED BY <1>4, <1>5, <2>1, NewestSome
<1> HIDE DEF m
<1>7. m \in Tx /\ m \in Q /\ ~Miscounted(m, o)
  BY <1>4, <1>6
<1>8. First(Z \ {m})
  <2>1. ASSUME NEW t \in Z \ {m}, NEW s \in Tx, o \in Touches[s], s < t
        PROVE  s \in Z \ {m}
    <3>1. s \in Z
      BY <1>4, <2>1
    <3>2. t <= m /\ t \in Nat /\ s \in Nat
      BY <1>4, <1>6, TxFacts
    <3>3. s # m
      BY <1>6, <2>1, <3>2
    <3> QED BY <3>1, <3>3
  <2> QED BY <2>1
<1>9. Z \ {m} \notin C
  BY <1>3, <1>4, <1>6, OneLess
<1>10. Sum(Z \ {m}) = Amount(State(Z \ {m}, o))
  BY <1>4, <1>8, <1>9
<1>11. State(Z \ {m}, o) = Before(m, o)
  <2> DEFINE B == {s \in Tx : s < m}
  <2>1. \A t \in Tx : o \in Touches[t] => (t \in Z \ {m} <=> t \in B)
    <3>1. ASSUME NEW t \in Tx, o \in Touches[t], t \in Z \ {m} PROVE t < m
      <4>1. t <= m /\ t # m /\ t \in Nat
        BY <1>6, <3>1, TxFacts
      <4> QED BY <1>6, <4>1
    <3>2. ASSUME NEW t \in Tx, o \in Touches[t], t < m PROVE t \in Z \ {m}
      <4>1. t \in Z
        BY <1>4, <1>6, <3>2
      <4>2. t # m
        BY <1>6, <3>2
      <4> QED BY <4>1, <4>2
    <3> QED BY <3>1, <3>2
  <2>2. Z \ {m} \in SUBSET Tx /\ B \in SUBSET Tx
    BY <1>4
  <2>3. State(Z \ {m}, o) = State(B, o)
    <3> HIDE DEF B
    <3> QED BY <2>1, <2>2, NewestSame
  <2> QED BY <2>3 DEF Before
<1>12. State(Z, o) = After[m][o]
  BY <1>6 DEF State, m
<1>13. f[m] = Amount(After[m][o]) - Amount(Before(m, o))
  BY <1>6, <1>7, DeltaCounts
<1>14. Sum(Z) = f[m] + Sum(Z \ {m})
  <2>1. \A t \in Q : f[t] \in Int
    <3>1. \A t \in Q : t \in Tx /\ o \in Touches[t]
      OBVIOUS
    <3> QED BY <3>1, DeltaType
  <2>2. IsFiniteSet(Q)
    BY SomeTx
  <2>3. \A S \in SUBSET Q : \A x \in S :
           SumFunctionOnSet(f, S) = f[x] + SumFunctionOnSet(f, S \ {x})
    BY <2>1, <2>2, SumRemoves
  <2>4. Z \in SUBSET Q
    BY <1>4
  <2> HIDE DEF C, First
  <2> QED BY <1>6, <2>3, <2>4
<1>15. Amount(After[m][o]) \in Nat /\ Amount(Before(m, o)) \in Nat
  BY <1>6, <1>7, AfterType, BeforeType
<1>16. Sum(Z) = Amount(After[m][o])
  <2> HIDE DEF Sum, First
  <2> QED BY <1>10, <1>11, <1>13, <1>14, <1>15
<1> QED BY <1>4, <1>12, <1>16

-----------------------------------------------------------------------------
(***************************************************************************)
(* The store: what an issuance's sweep claims is there.                    *)
(***************************************************************************)

(* All of transaction t that is about issuance i. *)
AllStored(i, t) ==
    \A h \in HoldersIn(t, i) :
        <<i, h>> \in holders /\ Held(t, i, h, h) /\ Held(t, i, h, IssuerOf[i])

(* Every change of issuance i up to ledger l. *)
StoredUpTo(i, l) == \A t \in Tx : LedgerOf[t] <= l => AllStored(i, t)

(***************************************************************************)
(* A delta is of a stored transaction that touches the balance, and stored *)
(* with those of the issuance's other holders; the sweep of i has stored   *)
(* all that lies behind its cursor, and all that it claims.                *)
(***************************************************************************)
DeltasSound ==
    \A t \in Tx, i \in Issuances, h \in Accounts :
        <<t, i, h>> \in deltas =>
            /\ t \in txRows /\ h \in HoldersIn(t, i)
            /\ \A g \in HoldersIn(t, i) : <<t, i, g>> \in deltas
Walked ==
    \A i \in Issuances : \A t \in Tx : t <= cursor[SweepJob(i)] => AllStored(i, t)
ClaimsSound ==
    \A row \in coverage : \A i \in Issuances :
        row.job = SweepJob(i) => StoredUpTo(i, row.to)

StoreOK ==
    /\ ArchiveTypeOK
    /\ holders \subseteq Balance /\ jobs \subseteq Balance
    /\ cursor \in [Balance -> Tx \cup {0}]
    /\ ledgers \subseteq 1 .. LastLedger /\ tip \in StartTip .. LastLedger
StoreInv == StoreOK /\ DeltasSound /\ Walked /\ ClaimsSound

(***************************************************************************)
(* Ranges of ledgers.                                                      *)
(***************************************************************************)
LEMMA SomeLedgers == \A S \in SUBSET (0 .. LastLedger) : IsFiniteSet(S)
<1>1. IsFiniteSet(0 .. LastLedger)
  BY ReadsAssumption, FS_Interval
<1> QED BY <1>1, FS_Subset

(* The first and last of the ledgers a job has seen. *)
LEMMA RangeFacts ==
    ASSUME NEW seen \in SUBSET (0 .. LastLedger)
    PROVE  /\ From(seen) \in Nat /\ UpTo(seen) \in Nat
           /\ \A l \in seen : l <= UpTo(seen)
           /\ seen # {} => UpTo(seen) \in seen
           /\ seen = {} => UpTo(seen) = 0
<1>1. \A l \in seen : l \in Nat
  OBVIOUS
<1>2. CASE seen = {}
  BY <1>2 DEF From, UpTo
<1>3. CASE seen # {}
  <2>1. seen \in SUBSET Nat /\ seen \in SUBSET Int
    BY <1>1
  <2>2. Min(seen) \in seen
    BY <1>3, <2>1, MinOf
  <2>3. Max(seen) \in seen /\ \A l \in seen : Max(seen) >= l
    BY <1>3, <2>1, SomeLedgers, MaxOf
  <2>4. \A l \in seen : l <= Max(seen)
    BY <1>1, <2>3
  <2> QED BY <1>1, <1>3, <2>2, <2>3, <2>4 DEF From, UpTo
<1> QED BY <1>2, <1>3

(* The ledgers of transactions are within the bound. *)
LEMMA TxLedgersFacts ==
    ASSUME NEW S \in SUBSET Tx
    PROVE  {LedgerOf[t] : t \in S} \in SUBSET (0 .. LastLedger)
<1>1. \A t \in S : LedgerOf[t] \in 0 .. LastLedger
  BY TxFacts, ReadsAssumption
<1> QED BY <1>1

(***************************************************************************)
(* The store only grows.                                                   *)
(***************************************************************************)
Grows ==
    /\ txRows \subseteq txRows' /\ links \subseteq links' /\ deltas \subseteq deltas'
    /\ coverage \subseteq coverage' /\ holders \subseteq holders'

(* No step of ingest takes a row away or answers a request. *)
LEMMA IngestGrows == ASSUME Ingest PROVE Grows /\ request' = request
<1> USE DEF Grows
<1>1. ASSUME NEW i \in Issuances, SweepPage(i) PROVE Grows /\ request' = request
  BY <1>1 DEF SweepPage, Store
<1>2. ASSUME NEW i \in Issuances, Rederive(i) PROVE Grows /\ request' = request
  BY <1>2 DEF Rederive
<1>3. ASSUME NEW j \in jobs, HolderPage(j) PROVE Grows /\ request' = request
  BY <1>3 DEF HolderPage, Store
<1>4. CASE CloseLedger
  BY <1>4 DEF CloseLedger, archiveVars
<1>5. ASSUME NEW t \in Tx, StreamTransaction(t) PROVE Grows /\ request' = request
  BY <1>5 DEF StreamTransaction, Store
<1>6. ASSUME NEW i \in Issuances, NEW h \in Accounts, TrackHolder(i, h)
      PROVE  Grows /\ request' = request
  BY <1>6 DEF TrackHolder, archiveVars
<1>7. CASE EnsureLedgerCloseTimes
  BY <1>7 DEF EnsureLedgerCloseTimes, archiveVars
<1> QED BY <1>1, <1>2, <1>3, <1>4, <1>5, <1>6, <1>7 DEF Ingest

(* A transaction stored for an issuance stays stored ... *)
LEMMA StoredStays ==
    ASSUME Grows, NEW i, NEW t, AllStored(i, t)
    PROVE  AllStored(i, t)'
BY DEF Grows, AllStored, Held

(* ... and so does its history up to a ledger. *)
LEMMA StoredUpToStays ==
    ASSUME Grows, NEW i, NEW l, StoredUpTo(i, l)
    PROVE  StoredUpTo(i, l)'
BY StoredStays DEF StoredUpTo

(* A page's deltas come with the page, for all the holders it names. *)
LEMMA DeltasAdded ==
    ASSUME DeltasSound, Grows, NEW page \in SUBSET Tx, NEW I,
           deltas' = deltas \cup DeltaRows(page, I), page \subseteq txRows'
    PROVE  DeltasSound'
<1> SUFFICES ASSUME NEW t \in Tx, NEW i \in Issuances, NEW h \in Accounts,
                    <<t, i, h>> \in deltas'
             PROVE  /\ t \in txRows' /\ h \in HoldersIn(t, i)
                    /\ \A g \in HoldersIn(t, i) : <<t, i, g>> \in deltas'
  BY DEF DeltasSound
<1>1. CASE <<t, i, h>> \in deltas
  BY <1>1 DEF DeltasSound, Grows
<1>2. CASE <<t, i, h>> \in DeltaRows(page, I)
  <2>1. t \in page /\ i \in I /\ <<i, h>> \in Touches[t]
    BY <1>2 DEF DeltaRows
  <2>2. \A g \in HoldersIn(t, i) : <<t, i, g>> \in DeltaRows(page, I)
    BY <2>1 DEF DeltaRows, HoldersIn
  <2> QED BY <2>1, <2>2 DEF HoldersIn
<1> QED BY <1>1, <1>2

(* Steps that derive nothing. *)
LEMMA DeltasKept ==
    ASSUME DeltasSound, Grows, deltas' = deltas
    PROVE  DeltasSound'
BY DEF DeltasSound, Grows

(* Steps that move no sweep's cursor. *)
LEMMA WalkedKept ==
    ASSUME Walked, Grows, \A i \in Issuances : cursor'[SweepJob(i)] = cursor[SweepJob(i)]
    PROVE  Walked'
BY StoredStays DEF Walked, SweepJob

(* Steps that claim nothing for a sweep. *)
LEMMA ClaimsKept ==
    ASSUME ClaimsSound, Grows,
           \A row \in coverage' \ coverage : \A i \in Issuances : row.job # SweepJob(i)
    PROVE  ClaimsSound'
<1> SUFFICES ASSUME NEW row \in coverage', NEW i \in Issuances, row.job = SweepJob(i)
             PROVE  StoredUpTo(i, row.to)'
  BY DEF ClaimsSound, SweepJob
<1>1. row \in coverage
  OBVIOUS
<1>2. StoredUpTo(i, row.to)
  BY <1>1 DEF ClaimsSound
<1> QED BY <1>2, StoredUpToStays

(***************************************************************************)
(* The pages.                                                              *)
(***************************************************************************)
LEMMA JobFacts ==
    ASSUME NEW i \in Issuances
    PROVE  /\ SweepJob(i) \in Balance
           /\ SweepJob(i)[1] = i /\ SweepJob(i)[2] = IssuerOf[i] /\ IssuerOf[i] \in Accounts
           /\ \A k \in Issuances : k # i => SweepJob(k) # SweepJob(i)
BY HistoryAssumption DEF SweepJob, Balance

(* A page moves the cursor of its job on, within what the tip has reached. *)
LEMMA PageFacts ==
    ASSUME StoreInv, NEW j \in Balance, NEW upto \in Tx \cup {0}, NEW final,
           IsPage(j, upto, final)
    PROVE  /\ cursor' = [cursor EXCEPT ![j] = upto] /\ cursor' \in [Balance -> Tx \cup {0}]
           /\ cursor[j] \in Nat /\ upto \in Nat /\ cursor[j] <= upto
           /\ \A t \in Tx : t <= upto /\ t > cursor[j] => LedgerOf[t] <= tip
           /\ final => \A t \in AccountTx(j[2], 1, tip, cursor[j]) : t <= upto
<1>1. \A n \in Tx \cup {0} : n \in Nat
  BY TxFacts
<1>2. cursor \in [Balance -> Tx \cup {0}] /\ tip \in Nat
  BY ReadsAssumption DEF StoreInv, StoreOK
<1>3. cursor[j] \in Tx \cup {0}
  BY <1>2
<1>4. cursor[j] \in Nat /\ upto \in Nat
  BY <1>1, <1>3, Zenon
<1>5. /\ cursor' = [cursor EXCEPT ![j] = upto]
      /\ upto \in AccountTx(j[2], 1, tip, cursor[j]) \cup {cursor[j]}
      /\ final => \A t \in AccountTx(j[2], 1, tip, cursor[j]) : t <= upto
  BY DEF IsPage
<1>6. cursor' \in [Balance -> Tx \cup {0}]
  BY <1>2, <1>5
<1>7. upto = cursor[j] \/ (upto \in Tx /\ upto > cursor[j] /\ LedgerOf[upto] <= tip)
  <2>1. j[2] \in Accounts /\ IndexOf[j[2]] \subseteq Tx
    BY HistoryAssumption DEF Balance
  <2> QED BY <1>5, <2>1 DEF AccountTx
<1>8. ASSUME NEW t \in Tx, t <= upto, t > cursor[j] PROVE LedgerOf[t] <= tip
  <2>1. t \in Nat /\ upto # cursor[j]
    BY <1>4, <1>8, TxFacts
  <2>2. upto \in Tx /\ LedgerOf[upto] <= tip /\ LedgerOf[t] <= LedgerOf[upto]
    BY <1>7, <1>8, <2>1, TxFacts
  <2>3. LedgerOf[t] \in Nat /\ LedgerOf[upto] \in Nat
    BY <2>2, TxFacts
  <2> QED BY <1>2, <2>2, <2>3
<1> QED BY <1>4, <1>5, <1>6, <1>7, <1>8

(* The ledgers seen by a job are ledgers that have closed. *)
LEMMA SeenFacts ==
    ASSUME StoreInv, NEW j \in Balance, NEW upto, NEW I
    PROVE  /\ SeenLedgers(j, upto, I) \in SUBSET (0 .. LastLedger)
           /\ \A l \in SeenLedgers(j, upto, I) : l <= tip
           /\ {LedgerOf[t] : t \in {s \in AccountTx(j[2], 1, tip, 0) : s <= upto}}
                 \in SUBSET (0 .. LastLedger)
<1>1. AccountTx(j[2], 1, tip, 0) \in SUBSET Tx
  BY HistoryAssumption DEF AccountTx, Balance
<1>2. \A t \in AccountTx(j[2], 1, tip, 0) : LedgerOf[t] <= tip
  BY DEF AccountTx
<1> DEFINE A == AccountTx(j[2], 1, tip, 0)
<1> HIDE DEF A
<1>3. {s \in A : s <= upto} \in SUBSET Tx /\ {s \in A : s <= upto /\ InScope(s, I)} \in SUBSET Tx
  BY <1>1 DEF A
<1>4. \A l \in {LedgerOf[t] : t \in {s \in A : s <= upto /\ InScope(s, I)}} : l <= tip
  BY <1>2 DEF A
<1>5. SeenLedgers(j, upto, I) = {LedgerOf[t] : t \in {s \in A : s <= upto /\ InScope(s, I)}}
  BY DEF SeenLedgers, A
<1>6. {LedgerOf[t] : t \in {s \in A : s <= upto /\ InScope(s, I)}} \in SUBSET (0 .. LastLedger)
  BY <1>3, TxLedgersFacts
<1>7. {LedgerOf[t] : t \in {s \in A : s <= upto}} \in SUBSET (0 .. LastLedger)
  BY <1>3, TxLedgersFacts
<1> QED BY <1>4, <1>5, <1>6, <1>7 DEF A

(* What Store adds has the types of the tables. *)
LEMMA StoredRows ==
    ASSUME ArchiveTypeOK, NEW page \in SUBSET Tx, NEW new \in SUBSET (Tx \X Accounts), NEW I,
           Store(page, new, I)
    PROVE  /\ txRows' \subseteq Tx /\ links' \subseteq Tx \X Accounts
           /\ deltas' \subseteq Tx \X Issuances \X Accounts /\ page \subseteq txRows'
           /\ deltas' = deltas \cup DeltaRows(page, I)
BY DEF ArchiveTypeOK, Store, DeltaRows

(* What is kept of a page are transactions. *)
LEMMA KeptFacts ==
    ASSUME NEW j \in Balance, NEW upto, NEW I
    PROVE  Kept(j, upto, I) \in SUBSET Tx
BY HistoryAssumption DEF Kept, AccountTx, Balance

(***************************************************************************)
(* A sweep's page.                                                         *)
(***************************************************************************)
LEMMA SweepWalks ==
    ASSUME StoreInv, Grows, NEW i \in Issuances, NEW upto \in Tx \cup {0}, NEW final,
           IsPage(SweepJob(i), upto, final),
           LET kept == Kept(SweepJob(i), upto, {i}) IN
              /\ Store(kept, SweepLinks(kept, {i}, SweepJob(i)[2]), {i})
              /\ holders' = holders \cup UNION {{i} \X HoldersIn(t, i) : t \in kept}
    PROVE  Walked'
<1> DEFINE j == SweepJob(i)  kept == Kept(j, upto, {i})
<1>1. /\ j \in Balance /\ j[1] = i /\ j[2] = IssuerOf[i] /\ IssuerOf[i] \in Accounts
      /\ \A k \in Issuances : k # i => SweepJob(k) # j
  BY JobFacts
<1>2. /\ cursor' = [cursor EXCEPT ![j] = upto] /\ cursor[j] \in Nat /\ upto \in Nat
      /\ \A t \in Tx : t <= upto /\ t > cursor[j] => LedgerOf[t] <= tip
  BY <1>1, PageFacts
<1>3. cursor \in [Balance -> Tx \cup {0}]
  BY DEF StoreInv, StoreOK
<1>4. ASSUME NEW t \in Tx, t <= upto PROVE AllStored(i, t)'
  <2>1. CASE t <= cursor[j]
    <3>1. AllStored(i, t)
      BY <2>1 DEF StoreInv, Walked
    <3> QED BY <3>1, StoredStays
  <2>2. CASE ~(t <= cursor[j])
    <3>1. t > cursor[j]
      BY <1>2, <2>2, TxFacts
    <3>2. LedgerOf[t] <= tip /\ 1 <= LedgerOf[t]
      BY <1>2, <1>4, <3>1, TxFacts
    <3>3. ASSUME NEW h \in HoldersIn(t, i)
          PROVE  <<i, h>> \in holders' /\ Held(t, i, h, h)' /\ Held(t, i, h, IssuerOf[i])'
      <4>1. h \in Accounts /\ <<i, h>> \in Touches[t] /\ t \in IndexOf[IssuerOf[i]]
        BY HistoryAssumption DEF HoldersIn
      <4>2. t \in AccountTx(j[2], 1, tip, cursor[j])
        BY <1>1, <3>1, <3>2, <4>1 DEF AccountTx
      <4>3. t \in kept
        BY <1>4, <3>3, <4>2 DEF Kept, InScope
      <4>4. t \in txRows' /\ <<t, i, h>> \in deltas' /\ <<t, h>> \in links'
            /\ <<t, IssuerOf[i]>> \in links'
        BY <1>1, <4>1, <4>3 DEF Store, SweepLinks, DeltaRows
      <4>5. <<i, h>> \in holders'
        BY <3>3, <4>3
      <4> QED BY <4>4, <4>5 DEF Held
    <3> QED BY <3>3 DEF AllStored, Held, HoldersIn
  <2> QED BY <2>1, <2>2
<1>5. ASSUME NEW k \in Issuances, k # i, NEW t \in Tx, t <= cursor'[SweepJob(k)]
      PROVE  AllStored(k, t)'
  <2>1. cursor'[SweepJob(k)] = cursor[SweepJob(k)]
    BY <1>1, <1>2, <1>3, <1>5, JobFacts
  <2>2. AllStored(k, t)
    BY <1>5, <2>1 DEF StoreInv, Walked
  <2> QED BY <2>2, StoredStays
<1>6. cursor'[j] = upto
  BY <1>1, <1>2, <1>3
<1> HIDE DEF kept
<1> QED BY <1>4, <1>5, <1>6 DEF Walked, SweepJob

(* The claim on a sweep's last page is honoured: nothing of the issuance is beyond it. *)
LEMMA SweepClaims ==
    ASSUME StoreInv, Grows, Walked', NEW i \in Issuances, NEW upto \in Tx \cup {0},
           IsPage(SweepJob(i), upto, TRUE), NEW row,
           row.to = UpTo(SeenLedgers(SweepJob(i), upto, {i}))
    PROVE  StoredUpTo(i, row.to)'
<1> DEFINE j == SweepJob(i)  seen == SeenLedgers(j, upto, {i})
<1>1. /\ j \in Balance /\ j[1] = i /\ j[2] = IssuerOf[i] /\ IssuerOf[i] \in Accounts
  BY JobFacts
<1>2. /\ cursor' = [cursor EXCEPT ![j] = upto] /\ cursor[j] \in Nat /\ upto \in Nat
      /\ cursor[j] <= upto
      /\ \A t \in AccountTx(j[2], 1, tip, cursor[j]) : t <= upto
  BY <1>1, PageFacts
<1>3. cursor \in [Balance -> Tx \cup {0}] /\ tip \in Nat
  BY ReadsAssumption DEF StoreInv, StoreOK
<1>4. /\ seen \in SUBSET (0 .. LastLedger) /\ \A l \in seen : l <= tip
  BY <1>1, SeenFacts
<1>5. UpTo(seen) \in Nat /\ UpTo(seen) <= tip
  <2> HIDE DEF seen
  <2> QED BY <1>3, <1>4, RangeFacts
<1>6. cursor'[j] = upto
  BY <1>1, <1>2, <1>3
<1>7. ASSUME NEW t \in Tx, LedgerOf[t] <= row.to, NEW h \in HoldersIn(t, i)
      PROVE  t <= upto
  <2>1. LedgerOf[t] <= tip /\ 1 <= LedgerOf[t]
    <3> HIDE DEF seen
    <3>1. row.to = UpTo(seen)
      BY DEF seen
    <3> QED BY <1>3, <1>5, <1>7, <3>1, TxFacts
  <2>2. t \in IndexOf[IssuerOf[i]]
    BY HistoryAssumption DEF HoldersIn
  <2>3. CASE t <= cursor[j]
    BY <1>2, <2>3, TxFacts
  <2>4. CASE ~(t <= cursor[j])
    <3>1. t > cursor[j]
      BY <1>2, <2>4, TxFacts
    <3>2. t \in AccountTx(j[2], 1, tip, cursor[j])
      BY <1>1, <2>1, <2>2, <3>1 DEF AccountTx
    <3> QED BY <1>2, <3>2
  <2> QED BY <2>3, <2>4
<1>8. ASSUME NEW t \in Tx, LedgerOf[t] <= row.to PROVE AllStored(i, t)'
  <2>1. CASE HoldersIn(t, i) = {}
    BY <2>1 DEF AllStored, HoldersIn
  <2>2. CASE HoldersIn(t, i) # {}
    <3>1. t <= cursor'[SweepJob(i)]
      BY <1>6, <1>7, <1>8, <2>2
    <3> QED BY <3>1 DEF Walked, SweepJob
  <2> QED BY <2>1, <2>2
<1> QED BY <1>8 DEF StoredUpTo

(* A page of a sweep keeps the store what its claims say. *)
LEMMA SweepPageStep ==
    ASSUME StoreInv, Grows, NEW i \in Issuances, SweepPage(i)
    PROVE  StoreInv'
<1> DEFINE j == SweepJob(i)
<1>1. PICK upto \in Tx \cup {0}, final \in BOOLEAN :
        LET kept == Kept(j, upto, {i})
            members == {h \in Accounts : <<i, h>> \in holders'} \cup {j[2]}
            seen == SeenLedgers(j, upto, {i})
        IN
        /\ IsPage(j, upto, final)
        /\ Store(kept, SweepLinks(kept, {i}, j[2]), {i})
        /\ holders' = holders \cup UNION {{i} \X HoldersIn(t, i) : t \in kept}
        /\ coverage' = IF ~final THEN coverage
                       ELSE coverage \cup {Row(a, From(seen), UpTo(seen), j) : a \in members}
        /\ UNCHANGED <<jobs, ledgers, tip, request>>
  BY DEF SweepPage
<1> DEFINE kept == Kept(j, upto, {i})
           members == {h \in Accounts : <<i, h>> \in holders'} \cup {j[2]}
           seen == SeenLedgers(j, upto, {i})
<1>2. j \in Balance /\ j[2] = IssuerOf[i] /\ IssuerOf[i] \in Accounts /\ j = <<i, IssuerOf[i]>>
  BY JobFacts DEF SweepJob
<1>3. kept \in SUBSET Tx
  BY <1>2, KeptFacts
<1>4. IsPage(j, upto, final)
  BY <1>1
<1>5. Store(kept, SweepLinks(kept, {i}, j[2]), {i})
  BY <1>1
<1>6. holders' = holders \cup UNION {{i} \X HoldersIn(t, i) : t \in kept}
  BY <1>1
<1>7. jobs' = jobs /\ ledgers' = ledgers /\ tip' = tip
  BY <1>1
<1>8. coverage' = IF ~final THEN coverage
                  ELSE coverage \cup {Row(a, From(seen), UpTo(seen), j) : a \in members}
  BY <1>1
<1>9. SweepLinks(kept, {i}, j[2]) \in SUBSET (Tx \X Accounts)
  BY DEF SweepLinks
<1>10. Walked'
  <2> HIDE DEF kept
  <2> QED BY <1>4, <1>5, <1>6, SweepWalks DEF kept
<1> HIDE DEF kept
<1>11. /\ txRows' \subseteq Tx /\ links' \subseteq Tx \X Accounts
       /\ deltas' \subseteq Tx \X Issuances \X Accounts /\ kept \subseteq txRows'
       /\ deltas' = deltas \cup DeltaRows(kept, {i})
  BY <1>3, <1>5, <1>9, StoredRows DEF StoreInv, StoreOK
<1>12. DeltasSound'
  BY <1>3, <1>11, DeltasAdded DEF StoreInv
<1>13. cursor' \in [Balance -> Tx \cup {0}]
  BY <1>2, <1>4, PageFacts
<1>14. holders' \subseteq Balance
  BY <1>6 DEF StoreInv, StoreOK, Balance, HoldersIn
<1>15. coverage' \subseteq [address : Accounts, from : Nat, to : Nat, job : Issuances \X Accounts]
  <2>1. From(seen) \in Nat /\ UpTo(seen) \in Nat
    BY <1>2, SeenFacts, RangeFacts
  <2>2. \A a \in members : a \in Accounts
    BY <1>2
  <2>3. coverage \subseteq [address : Accounts, from : Nat, to : Nat, job : Issuances \X Accounts]
    BY DEF StoreInv, StoreOK, ArchiveTypeOK
  <2> HIDE DEF seen, members
  <2> QED BY <1>2, <1>8, <2>1, <2>2, <2>3 DEF Row
<1>16. ClaimsSound'
  <2>1. SUFFICES ASSUME NEW row \in coverage', NEW k \in Issuances, row.job = SweepJob(k)
                 PROVE  StoredUpTo(k, row.to)'
    BY DEF ClaimsSound, SweepJob
  <2>2. CASE row \in coverage
    <3>1. StoredUpTo(k, row.to)
      BY <2>1, <2>2 DEF StoreInv, ClaimsSound
    <3> QED BY <3>1, StoredUpToStays
  <2>3. CASE row \notin coverage
    <3>1. final /\ row.to = UpTo(seen) /\ row.job = j
      <4> HIDE DEF seen, members, j
      <4>1. final /\ \E a \in members : row = Row(a, From(seen), UpTo(seen), j)
        BY <1>8, <2>3
      <4> QED BY <4>1 DEF Row
    <3>2. k = i
      BY <2>1, <3>1, JobFacts
    <3>3. IsPage(j, upto, TRUE)
      BY <1>4, <3>1 DEF IsPage
    <3>4. StoredUpTo(i, row.to)'
      BY <1>10, <3>1, <3>3, SweepClaims
    <3> QED BY <3>2, <3>4
  <2> QED BY <2>2, <2>3
<1> QED BY <1>7, <1>10, <1>11, <1>12, <1>13, <1>14, <1>15, <1>16
        DEF StoreInv, StoreOK, ArchiveTypeOK

(* A page of a holder's job: its claims are no sweep's. *)
LEMMA HolderPageStep ==
    ASSUME StoreInv, Grows, NEW j \in jobs, HolderPage(j)
    PROVE  StoreInv'
<1>1. PICK upto \in Tx \cup {0}, final \in BOOLEAN :
        LET kept == Kept(j, upto, Issuances)
            listed == {LedgerOf[t] : t \in {s \in AccountTx(j[2], 1, tip, 0) : s <= upto}}
        IN
        /\ j[2] # IssuerOf[j[1]]
        /\ IsPage(j, upto, final)
        /\ Store(kept, AccountLinks(kept, j[2]), Issuances)
        /\ coverage' = IF final THEN coverage \cup {Row(j[2], 0, UpTo(listed), j)}
                                ELSE coverage
        /\ UNCHANGED <<holders, jobs, ledgers, tip, request>>
  BY DEF HolderPage
<1> DEFINE kept == Kept(j, upto, Issuances)
           listed == {LedgerOf[t] : t \in {s \in AccountTx(j[2], 1, tip, 0) : s <= upto}}
<1>2. j \in Balance /\ j[2] \in Accounts /\ \A i \in Issuances : SweepJob(i) # j
  BY <1>1 DEF StoreInv, StoreOK, Balance, SweepJob
<1>3. kept \in SUBSET Tx
  BY <1>2, KeptFacts
<1>4. IsPage(j, upto, final)
  BY <1>1
<1>5. Store(kept, AccountLinks(kept, j[2]), Issuances)
  BY <1>1
<1>6. coverage' = IF final THEN coverage \cup {Row(j[2], 0, UpTo(listed), j)} ELSE coverage
  BY <1>1
<1>7. holders' = holders /\ jobs' = jobs /\ ledgers' = ledgers /\ tip' = tip
  BY <1>1
<1>8. AccountLinks(kept, j[2]) \in SUBSET (Tx \X Accounts)
  BY DEF AccountLinks
<1> HIDE DEF kept
<1>9. /\ txRows' \subseteq Tx /\ links' \subseteq Tx \X Accounts
      /\ deltas' \subseteq Tx \X Issuances \X Accounts /\ kept \subseteq txRows'
      /\ deltas' = deltas \cup DeltaRows(kept, Issuances)
  BY <1>3, <1>5, <1>8, StoredRows DEF StoreInv, StoreOK
<1>10. DeltasSound'
  BY <1>3, <1>9, DeltasAdded DEF StoreInv
<1>11. cursor' = [cursor EXCEPT ![j] = upto] /\ cursor' \in [Balance -> Tx \cup {0}]
  BY <1>2, <1>4, PageFacts
<1>12. Walked'
  <2>1. \A i \in Issuances : cursor'[SweepJob(i)] = cursor[SweepJob(i)]
    BY <1>2, <1>11, JobFacts DEF StoreInv, StoreOK
  <2> QED BY <2>1, WalkedKept DEF StoreInv
<1>13. UpTo(listed) \in Nat
  BY <1>2, SeenFacts, RangeFacts
<1> HIDE DEF listed
<1>14. coverage' \subseteq [address : Accounts, from : Nat, to : Nat, job : Issuances \X Accounts]
  BY <1>2, <1>6, <1>13 DEF Row, StoreInv, StoreOK, ArchiveTypeOK, Balance
<1>15. ClaimsSound'
  <2>1. \A row \in coverage' \ coverage : \A i \in Issuances : row.job # SweepJob(i)
    BY <1>2, <1>6 DEF Row
  <2> QED BY <2>1, ClaimsKept DEF StoreInv
<1> QED BY <1>7, <1>9, <1>10, <1>11, <1>12, <1>14, <1>15 DEF StoreInv, StoreOK, ArchiveTypeOK

(* Every step of ingest keeps the store what its claims say. *)
LEMMA IngestStep ==
    ASSUME StoreInv, Ingest
    PROVE  StoreInv'
<1>1. Grows
  BY IngestGrows
<1>2. ASSUME NEW i \in Issuances, SweepPage(i) PROVE StoreInv'
  BY <1>1, <1>2, SweepPageStep
<1>3. ASSUME NEW j \in jobs, HolderPage(j) PROVE StoreInv'
  BY <1>1, <1>3, HolderPageStep
<1>4. ASSUME NEW i \in Issuances, Rederive(i) PROVE StoreInv'
  <2>1. /\ deltas' = deltas \cup DeltaRows(IssuanceTx(i), {i})
        /\ txRows' = txRows /\ links' = links /\ coverage' = coverage /\ holders' = holders
        /\ jobs' = jobs /\ cursor' = cursor /\ ledgers' = ledgers /\ tip' = tip
    BY <1>4 DEF Rederive
  <2>2. IssuanceTx(i) \in SUBSET Tx /\ IssuanceTx(i) \subseteq txRows'
    BY <2>1 DEF IssuanceTx, StoreInv, StoreOK, ArchiveTypeOK
  <2>3. DeltasSound'
    BY <1>1, <2>1, <2>2, DeltasAdded DEF StoreInv
  <2>4. Walked' /\ ClaimsSound'
    BY <1>1, <2>1, WalkedKept, ClaimsKept DEF StoreInv
  <2>5. deltas' \subseteq Tx \X Issuances \X Accounts
    BY <2>1 DEF DeltaRows, StoreInv, StoreOK, ArchiveTypeOK
  <2> QED BY <2>1, <2>3, <2>4, <2>5 DEF StoreInv, StoreOK, ArchiveTypeOK
<1>5. CASE CloseLedger
  <2>1. /\ txRows' = txRows /\ links' = links /\ coverage' = coverage /\ holders' = holders
        /\ jobs' = jobs /\ cursor' = cursor /\ deltas' = deltas
        /\ tip < LastLedger /\ tip' = tip + 1 /\ ledgers' = ledgers \cup {tip + 1}
    BY <1>5 DEF CloseLedger, archiveVars
  <2>2. DeltasSound' /\ Walked' /\ ClaimsSound'
    BY <1>1, <2>1, DeltasKept, WalkedKept, ClaimsKept DEF StoreInv
  <2>3. ledgers' \subseteq 1 .. LastLedger /\ tip' \in StartTip .. LastLedger
    BY <2>1, ReadsAssumption DEF StoreInv, StoreOK
  <2> QED BY <2>1, <2>2, <2>3 DEF StoreInv, StoreOK, ArchiveTypeOK
<1>6. ASSUME NEW t \in Tx, StreamTransaction(t) PROVE StoreInv'
  <2>1. /\ Store({t}, TouchedLinks(t, Issuances), Issuances)
        /\ coverage' = coverage /\ holders' = holders
        /\ jobs' = jobs /\ cursor' = cursor /\ ledgers' = ledgers /\ tip' = tip
    BY <1>6 DEF StreamTransaction
  <2>2. TouchedLinks(t, Issuances) \in SUBSET (Tx \X Accounts)
    BY HistoryAssumption DEF TouchedLinks, IssuersOf
  <2>3. /\ txRows' \subseteq Tx /\ links' \subseteq Tx \X Accounts
        /\ deltas' \subseteq Tx \X Issuances \X Accounts /\ {t} \subseteq txRows'
        /\ deltas' = deltas \cup DeltaRows({t}, Issuances)
    BY <2>1, <2>2, StoredRows DEF StoreInv, StoreOK
  <2>4. DeltasSound'
    BY <1>1, <2>3, DeltasAdded DEF StoreInv
  <2>5. Walked' /\ ClaimsSound'
    BY <1>1, <2>1, WalkedKept, ClaimsKept DEF StoreInv
  <2> QED BY <2>1, <2>3, <2>4, <2>5 DEF StoreInv, StoreOK, ArchiveTypeOK
<1>7. ASSUME NEW i \in Issuances, NEW h \in Accounts, TrackHolder(i, h) PROVE StoreInv'
  <2>1. /\ txRows' = txRows /\ links' = links /\ coverage' = coverage /\ deltas' = deltas
        /\ cursor' = cursor /\ ledgers' = ledgers /\ tip' = tip
        /\ holders' = holders \cup {<<i, h>>} /\ jobs' = jobs \cup {<<i, h>>}
    BY <1>7 DEF TrackHolder, archiveVars
  <2>2. DeltasSound' /\ Walked' /\ ClaimsSound'
    BY <1>1, <2>1, DeltasKept, WalkedKept, ClaimsKept DEF StoreInv
  <2> QED BY <2>1, <2>2 DEF StoreInv, StoreOK, ArchiveTypeOK, Balance
<1>8. CASE EnsureLedgerCloseTimes
  <2>1. /\ txRows' = txRows /\ links' = links /\ coverage' = coverage /\ holders' = holders
        /\ jobs' = jobs /\ cursor' = cursor /\ deltas' = deltas /\ tip' = tip
        /\ ledgers' = ledgers \cup ({LedgerOf[t] : t \in txRows} \ Untimed)
    BY <1>8 DEF EnsureLedgerCloseTimes, archiveVars
  <2>2. DeltasSound' /\ Walked' /\ ClaimsSound'
    BY <1>1, <2>1, DeltasKept, WalkedKept, ClaimsKept DEF StoreInv
  <2>3. \A t \in txRows : LedgerOf[t] \in 1 .. LastLedger
    BY TxFacts, ReadsAssumption DEF StoreInv, StoreOK, ArchiveTypeOK
  <2>4. ledgers' \subseteq 1 .. LastLedger
    BY <2>1, <2>3 DEF StoreInv, StoreOK
  <2> QED BY <2>1, <2>2, <2>4 DEF StoreInv, StoreOK, ArchiveTypeOK
<1> QED BY <1>2, <1>3, <1>4, <1>5, <1>6, <1>7, <1>8 DEF Ingest

-----------------------------------------------------------------------------
(***************************************************************************)
(* Pages of rows in order.                                                 *)
(***************************************************************************)

(***************************************************************************)
(* A list in an irreflexive order holds each row once.                     *)
(***************************************************************************)
LEMMA ListsOnce ==
    ASSUME NEW S, IsFiniteSet(S), NEW R, NEW s, Lists(s, S, R), \A x \in S : <<x, x>> \notin R
    PROVE  s \in Bijection(1 .. Cardinality(S), S)
<1> DEFINE n == Cardinality(S)
<1>1. n \in Nat
  BY FS_CardinalityType
<1>2. /\ s \in [1 .. n -> S]
      /\ \A x \in S : \E k \in 1 .. n : s[k] = x
      /\ \A k, l \in 1 .. n : k < l => <<s[k], s[l]>> \in R
  BY DEF Lists
<1> HIDE DEF n
<1>3. ASSUME NEW k \in 1 .. n, NEW l \in 1 .. n, s[k] = s[l] PROVE k = l
  <2>1. s[k] \in S /\ <<s[k], s[k]>> \notin R
    BY <1>2
  <2>2. ~(k < l) /\ ~(l < k)
    BY <1>2, <1>3, <2>1
  <2> QED BY <1>1, <2>2
<1>4. s \in Injection(1 .. n, S)
  BY <1>2, <1>3 DEF Injection, IsInjective
<1>5. s \in Surjection(1 .. n, S)
  BY <1>2 DEF Surjection
<1> QED BY <1>4, <1>5 DEF Bijection, n

(***************************************************************************)
(* The first rows of a list, as many as the page may hold.                 *)
(***************************************************************************)
FirstRows(page, rows, S, R) ==
    /\ rows \in Seq(S) /\ page \in Seq(S)
    /\ Len(rows) = Cardinality(S) /\ Len(rows) \in Nat
    /\ \A k, l \in 1 .. Len(page) : k < l => <<page[k], page[l]>> \in R
    /\ ~(Len(rows) > PageLimit) => \A x \in S : \E k \in 1 .. Len(page) : page[k] = x
    /\ Len(rows) > PageLimit =>
          /\ Len(page) > 0 /\ Last(page) = page[Len(page)] /\ Last(page) \in S
          /\ \A k \in 1 .. Len(page) :
                page[k] = Last(page) \/ <<page[k], Last(page)>> \in R
          /\ \A x \in S : (\E k \in 1 .. Len(page) : page[k] = x)
                          \/ <<Last(page), x>> \in R

(* The first rows of an ordered result: all of it, or up to a last one that bounds the rest. *)
LEMMA PageOfRows ==
    ASSUME NEW S, IsFiniteSet(S), NEW R, NEW rows, Lists(rows, S, R),
           NEW page, page = SubSeq(rows, 1, Min({PageLimit, Len(rows)}))
    PROVE  FirstRows(page, rows, S, R)
<1> DEFINE n == Cardinality(S)  m == Min({PageLimit, Len(rows)})
<1>1. n \in Nat /\ PageLimit \in Nat \ {0}
  BY FS_CardinalityType, ReadsAssumption
<1>2. /\ rows \in [1 .. n -> S]
      /\ \A x \in S : \E k \in 1 .. n : rows[k] = x
      /\ \A k, l \in 1 .. n : k < l => <<rows[k], rows[l]>> \in R
  BY DEF Lists
<1> HIDE DEF n
<1>3. rows \in Seq(S) /\ Len(rows) = n
  BY <1>1, <1>2
<1>4. m \in Nat /\ m <= n /\ m <= PageLimit /\ (m = n \/ m = PageLimit)
  <2>1. {PageLimit, Len(rows)} \in SUBSET Nat /\ {PageLimit, Len(rows)} # {}
    BY <1>1, <1>3
  <2>2. m \in {PageLimit, Len(rows)} /\ \A x \in {PageLimit, Len(rows)} : m <= x
    BY <2>1, MinOf
  <2> HIDE DEF m
  <2> QED BY <1>1, <1>3, <2>2
<1> HIDE DEF m
<1>5. page \in Seq(S) /\ Len(page) = m /\ \A k \in 1 .. m : page[k] = rows[k]
  <2>1. page = SubSeq(rows, 1, m)
    BY DEF m
  <2>2. \A k \in 1 .. m : rows[k] \in S
    BY <1>1, <1>2, <1>4
  <2>3. /\ SubSeq(rows, 1, m) \in Seq(S)
        /\ Len(SubSeq(rows, 1, m)) = IF 1 <= m THEN m - 1 + 1 ELSE 0
        /\ \A k \in 1 .. m - 1 + 1 : SubSeq(rows, 1, m)[k] = rows[1 + k - 1]
    BY <1>4, <2>2, SubSeqProperties
  <2>4. Len(page) = m
    <3>1. (IF 1 <= m THEN m - 1 + 1 ELSE 0) = m
      BY <1>4
    <3> QED BY <2>1, <2>3, <3>1, Zenon
  <2>5. \A k \in 1 .. m : page[k] = rows[k]
    <3>1. \A k \in 1 .. m : k \in 1 .. m - 1 + 1 /\ 1 + k - 1 = k
      BY <1>4
    <3> QED BY <2>1, <2>3, <3>1
  <2> QED BY <2>1, <2>3, <2>4, <2>5
<1>6. \A k \in 1 .. m : k \in 1 .. n
  BY <1>1, <1>4
<1>7. \A k, l \in 1 .. Len(page) : k < l => <<page[k], page[l]>> \in R
  BY <1>2, <1>5, <1>6
<1>8. ASSUME ~(n > PageLimit), NEW x \in S PROVE \E k \in 1 .. Len(page) : page[k] = x
  <2>1. m = n
    BY <1>1, <1>4, <1>8
  <2> QED BY <1>2, <1>5, <2>1
<1>9. ASSUME n > PageLimit
      PROVE  /\ Len(page) > 0 /\ Last(page) = page[Len(page)] /\ Last(page) \in S
             /\ \A k \in 1 .. Len(page) : page[k] = Last(page) \/ <<page[k], Last(page)>> \in R
             /\ \A x \in S : (\E k \in 1 .. Len(page) : page[k] = x) \/ <<Last(page), x>> \in R
  <2>1. m = PageLimit /\ m > 0 /\ m \in 1 .. m /\ m \in 1 .. n
    BY <1>1, <1>4, <1>9
  <2>2. Len(page) > 0 /\ Last(page) = page[m] /\ page[m] \in S
    <3>1. page[m] \in S
      BY <1>2, <1>5, <2>1
    <3> QED BY <1>5, <2>1, <3>1 DEF Last
  <2>3. ASSUME NEW k \in 1 .. m PROVE page[k] = page[m] \/ <<page[k], page[m]>> \in R
    <3>1. k = m \/ k < m
      BY <1>4
    <3> QED BY <1>5, <1>7, <2>1, <3>1
  <2>4. ASSUME NEW x \in S PROVE (\E k \in 1 .. m : page[k] = x) \/ <<page[m], x>> \in R
    <3>1. PICK k \in 1 .. n : rows[k] = x
      BY <1>2
    <3>2. CASE k <= m
      <4>1. k \in 1 .. m
        BY <1>1, <1>4, <3>2
      <4> QED BY <1>5, <3>1, <4>1
    <3>3. CASE ~(k <= m)
      <4>1. m < k
        BY <1>1, <1>4, <3>3
      <4> QED BY <1>2, <1>5, <2>1, <3>1, <4>1
    <3> QED BY <3>2, <3>3
  <2> QED BY <1>5, <2>2, <2>3, <2>4
<1> QED BY <1>1, <1>3, <1>5, <1>7, <1>8, <1>9 DEF n, FirstRows

(***************************************************************************)
(* The order of account_tx, ledger and hash, is total: no two transactions *)
(* have the same hash.                                                     *)
(***************************************************************************)
Later(forward) == {p \in Tx \X Tx : Beyond(p[2], p[1], forward)}

(* (ledger, hash) orders transactions totally, as no two share a hash. *)
LEMMA BeyondOrders ==
    ASSUME NEW forward \in BOOLEAN
    PROVE  /\ \A s \in Tx : ~Beyond(s, s, forward)
           /\ \A s, t \in Tx : s # t => Beyond(s, t, forward) \/ Beyond(t, s, forward)
           /\ \A r, s, t \in Tx : Beyond(s, r, forward) /\ Beyond(t, s, forward) => Beyond(t, r, forward)
<1>1. \A t \in Tx : LedgerOf[t] \in Nat /\ HashRank[t] \in Nat
  BY TxFacts, ReadsAssumption
<1>2. \A s, t \in Tx : HashRank[s] = HashRank[t] => s = t
  BY ReadsAssumption DEF IsInjective
<1> QED BY <1>1, <1>2 DEF Beyond

(* The rows of account_tx come in that order. *)
LEMMA RowsInOrder ==
    ASSUME NEW forward \in BOOLEAN, NEW rest \in SUBSET Tx
    PROVE  Lists(Ordered(rest, LAMBDA s, t : Beyond(t, s, forward)), rest, Later(forward))
<1> DEFINE R == Later(forward)
           InOrder(s) == \A k, l \in 1 .. Cardinality(rest) : k < l => ~Beyond(s[k], s[l], forward)
           rows == CHOOSE s \in Bijection(1 .. Cardinality(rest), rest) : InOrder(s)
<1>1. /\ \A x, y \in Tx : x # y => <<x, y>> \in R \/ <<y, x>> \in R
      /\ \A x, y, z \in Tx : <<x, y>> \in R /\ <<y, z>> \in R => <<x, z>> \in R
      /\ \A x \in Tx : <<x, x>> \notin R
  BY BeyondOrders DEF Later
<1>2. IsFiniteSet(rest) /\ IsFiniteSet(Tx)
  BY SomeTx
<1>3. PICK s : Lists(s, rest, R)
  <2> HIDE DEF R
  <2>1. \A S \in SUBSET Tx : \E s : Lists(s, S, R)
    BY <1>1, <1>2, ListExists
  <2> QED BY <2>1
<1>4. s \in Bijection(1 .. Cardinality(rest), rest)
  <2> HIDE DEF R
  <2>1. \A x \in rest : <<x, x>> \notin R
    BY <1>1
  <2> QED BY <1>2, <1>3, <2>1, ListsOnce
<1>5. InOrder(s)
  <2>1. \A x, y \in Tx : Beyond(y, x, forward) => ~Beyond(x, y, forward)
    BY BeyondOrders
  <2> QED BY <1>3, <2>1 DEF Lists, Later
<1>6. rows \in Bijection(1 .. Cardinality(rest), rest) /\ InOrder(rows)
  <2> HIDE DEF InOrder
  <2> QED BY <1>4, <1>5
<1>7. Ordered(rest, LAMBDA x, y : Beyond(y, x, forward)) = rows
  BY Zenon DEF Ordered
<1>8. Lists(rows, rest, R)
  <2> HIDE DEF rows
  <2>1. /\ rows \in [1 .. Cardinality(rest) -> rest]
        /\ \A x \in rest : \E k \in 1 .. Cardinality(rest) : rows[k] = x
    BY <1>6 DEF Bijection, Injection, Surjection
  <2>2. \A k, l \in 1 .. Cardinality(rest) : k < l => <<rows[k], rows[l]>> \in R
    <3>1. ASSUME NEW k \in 1 .. Cardinality(rest), NEW l \in 1 .. Cardinality(rest), k < l
          PROVE  <<rows[k], rows[l]>> \in R
      <4>1. k # l
        BY <1>2, <3>1, FS_CardinalityType
      <4>2. rows[k] # rows[l] /\ rows[k] \in Tx /\ rows[l] \in Tx
        BY <1>6, <2>1, <4>1 DEF Bijection, Injection, IsInjective
      <4>3. ~Beyond(rows[k], rows[l], forward)
        BY <1>6, <3>1
      <4> QED BY <4>2, <4>3, BeyondOrders DEF Later
    <3> QED BY <3>1
  <2> QED BY <2>1, <2>2 DEF Lists
<1> QED BY <1>7, <1>8

-----------------------------------------------------------------------------
(***************************************************************************)
(* What the sums of deltas come to.                                        *)
(***************************************************************************)
TouchedUpTo(o, l) == {t \in Tx : o \in Touches[t] /\ LedgerOf[t] <= l}

(* Without a miscounted change, the deltas up to a ledger add up to its balance. *)
LEMMA BalanceIsSum ==
    ASSUME NEW o, NEW l \in Int, Countable(o, l),
           NEW f, \A t \in TouchedUpTo(o, l) : f[t] = Delta(t, o)
    PROVE  SumFunctionOnSet(f, TouchedUpTo(o, l)) = LedgerBalance(o, l)
<1> DEFINE Q == TouchedUpTo(o, l)  B == {t \in Tx : LedgerOf[t] <= l}
<1>1. Q \in SUBSET Tx /\ B \in SUBSET Tx
  BY DEF TouchedUpTo
<1>2. \A t \in Q : o \in Touches[t] /\ ~Miscounted(t, o)
  BY DEF TouchedUpTo, Countable
<1>3. \A t \in Q : \A s \in Tx : o \in Touches[s] /\ s < t => s \in Q
  <2> SUFFICES ASSUME NEW t \in Q, NEW s \in Tx, o \in Touches[s], s < t
               PROVE  LedgerOf[s] <= l
    BY DEF TouchedUpTo
  <2>1. t \in Tx /\ LedgerOf[t] <= l /\ s \in Nat /\ t \in Nat
    BY TxFacts DEF TouchedUpTo
  <2>2. LedgerOf[s] <= LedgerOf[t] /\ LedgerOf[s] \in Nat /\ LedgerOf[t] \in Nat
    BY <2>1, TxFacts
  <2> QED BY <2>1, <2>2
<1>4. SumFunctionOnSet(f, Q) = Amount(State(Q, o))
  <2> HIDE DEF Q
  <2>1. \A t \in Q : f[t] = Delta(t, o)
    BY DEF Q
  <2> QED BY <1>1, <1>2, <1>3, <2>1, DeltasAddUp
<1>5. State(Q, o) = State(B, o)
  <2>1. \A t \in Tx : o \in Touches[t] => (t \in Q <=> t \in B)
    BY DEF TouchedUpTo
  <2> HIDE DEF Q, B
  <2> QED BY <1>1, <2>1, NewestSame
<1> QED BY <1>4, <1>5 DEF LedgerBalance

(***************************************************************************)
(* DeltaSum, over rows of balance_deltas, as a sum over transactions.      *)
(***************************************************************************)
DeltaTx(o, lo, hi) ==
    {t \in Tx : <<t, o[1], o[2]>> \in deltas /\ lo <= LedgerOf[t] /\ LedgerOf[t] <= hi}

(* The transactions summed are finitely many, their deltas integers. *)
LEMMA DeltaTxFacts ==
    ASSUME StoreInv, NEW o \in Balance, NEW lo, NEW hi
    PROVE  /\ DeltaTx(o, lo, hi) \in SUBSET Tx /\ IsFiniteSet(DeltaTx(o, lo, hi))
           /\ \A t \in DeltaTx(o, lo, hi) : Delta(t, o) \in Int
<1>1. DeltaTx(o, lo, hi) \in SUBSET Tx
  BY DEF DeltaTx
<1>2. \A t \in DeltaTx(o, lo, hi) : o \in Touches[t]
  BY DEF StoreInv, DeltasSound, HoldersIn, Balance, DeltaTx
<1> QED BY <1>1, <1>2, SomeTx, DeltaType

(* sum(delta) over the rows of a balance is a sum over its transactions. *)
LEMMA DeltaSumIs ==
    ASSUME StoreInv, NEW o \in Balance, NEW lo, NEW hi
    PROVE  DeltaSum(o, lo, hi)
             = SumFunctionOnSet([t \in DeltaTx(o, lo, hi) |-> Delta(t, o)], DeltaTx(o, lo, hi))
<1> DEFINE Q == DeltaTx(o, lo, hi)
           rows == {d \in deltas : /\ <<d[2], d[3]>> = o
                                   /\ lo <= LedgerOf[d[1]] /\ LedgerOf[d[1]] <= hi}
           f == [t \in Q |-> Delta(t, o)]
           g == [d \in rows |-> Delta(d[1], o)]
           b == [t \in Q |-> <<t, o[1], o[2]>>]
<1>1. o = <<o[1], o[2]>> /\ o[1] \in Issuances /\ o[2] \in Accounts
  BY DEF Balance
<1>2. IsFiniteSet(Q)
  BY DeltaTxFacts
<1>3. \A t \in Q : f[t] \in Int
  BY DeltaTxFacts
<1>4. \A s, t \in Q : b[s] = b[t] => s = t
  OBVIOUS
<1>5. rows = {b[t] : t \in Q}
  <2>1. deltas \subseteq Tx \X Issuances \X Accounts
    BY DEF StoreInv, StoreOK, ArchiveTypeOK
  <2>2. ASSUME NEW d \in rows PROVE d[1] \in Q /\ d = b[d[1]]
    <3>1. d \in deltas /\ d = <<d[1], d[2], d[3]>> /\ d[1] \in Tx /\ <<d[2], d[3]>> = o
          /\ lo <= LedgerOf[d[1]] /\ LedgerOf[d[1]] <= hi
      BY <2>1, <2>2
    <3>2. d[2] = o[1] /\ d[3] = o[2]
      BY <3>1
    <3>3. d[1] \in Q
      BY <3>1, <3>2 DEF DeltaTx
    <3> QED BY <3>1, <3>2, <3>3
  <2>3. ASSUME NEW t \in Q PROVE b[t] \in rows
    <3>1. b[t] = <<t, o[1], o[2]>> /\ b[t][1] = t /\ <<b[t][2], b[t][3]>> = o
      BY <1>1
    <3> QED BY <3>1 DEF DeltaTx
  <2> HIDE DEF rows, b, Q
  <2> QED BY <2>2, <2>3
<1>6. \A t \in Q : g[b[t]] = f[t]
  <2>1. \A t \in Q : b[t] \in rows /\ b[t][1] = t
    BY <1>5
  <2> HIDE DEF rows, b, Q
  <2> QED BY <2>1
<1>7. SumFunctionOnSet(g, rows) = SumFunctionOnSet(f, Q)
  <2>1. (\A t \in Q : b[t] \in rows) /\ \A d \in rows : \E t \in Q : b[t] = d
    BY <1>5
  <2> HIDE DEF g, b, f, Q, rows
  <2>2. Carries(b, f, Q, g, rows)
    BY <1>4, <1>6, <2>1 DEF Carries
  <2> QED BY <1>2, <1>3, <2>2, SumCarried
<1>8. DOMAIN g = rows
  OBVIOUS
<1>9. DeltaSum(o, lo, hi) = SumFunctionOnSet(g, rows)
  <2>1. DeltaSum(o, lo, hi) = SumFunction(g)
    BY Zenon DEF DeltaSum
  <2> HIDE DEF g
  <2> QED BY <1>8, <2>1 DEF SumFunction
<1>10. DeltaSum(o, lo, hi) = SumFunctionOnSet(f, Q)
  <2> HIDE DEF g, b, rows, f, Q
  <2> QED BY <1>7, <1>9
<1> QED BY <1>10

(* Hence an integer. *)
LEMMA DeltaSumType ==
    ASSUME StoreInv, NEW o \in Balance, NEW lo, NEW hi
    PROVE  DeltaSum(o, lo, hi) \in Int
<1> DEFINE Q == DeltaTx(o, lo, hi)
           f == [t \in Q |-> Delta(t, o)]
<1>1. IsFiniteSet(Q) /\ \A t \in Q : f[t] \in Int
  BY DeltaTxFacts
<1>2. DeltaSum(o, lo, hi) = SumFunctionOnSet(f, Q)
  BY DeltaSumIs
<1>3. SumFunctionOnSet(f, Q) \in Int
  <2> HIDE DEF f, Q
  <2>1. \A S \in SUBSET Q : SumFunctionOnSet(f, S) \in Int
    BY <1>1, SumType
  <2> QED BY <2>1
<1> QED BY <1>2, <1>3

(***************************************************************************)
(* Where the archive holds every change of a balance up to a ledger, the   *)
(* deltas it holds up to there are those that touch the balance.           *)
(***************************************************************************)
LEMMA StoredDeltas ==
    ASSUME StoreInv, NEW o \in Balance, NEW l, StoredUpTo(o[1], l), NEW t \in Tx, LedgerOf[t] <= l
    PROVE  <<t, o[1], o[2]>> \in deltas <=> o \in Touches[t]
<1>1. o = <<o[1], o[2]>> /\ o[1] \in Issuances /\ o[2] \in Accounts
  BY DEF Balance
<1>2. AllStored(o[1], t)
  BY DEF StoredUpTo
<1>3. o \in Touches[t] => <<t, o[1], o[2]>> \in deltas
  BY <1>1, <1>2 DEF AllStored, HoldersIn, Held
<1>4. <<t, o[1], o[2]>> \in deltas => o \in Touches[t]
  BY <1>1 DEF StoreInv, DeltasSound, HoldersIn
<1> QED BY <1>3, <1>4

(* Where the whole history is stored, sum(delta) up to a ledger is the ledger's balance. *)
LEMMA StoredSum ==
    ASSUME StoreInv, NEW o \in Balance, NEW l \in Nat, StoredUpTo(o[1], l), Countable(o, l)
    PROVE  DeltaSum(o, 0, l) = LedgerBalance(o, l)
<1> DEFINE Q == DeltaTx(o, 0, l)
           f == [t \in Q |-> Delta(t, o)]
<1>1. Q = TouchedUpTo(o, l)
  <2>1. \A t \in Tx : LedgerOf[t] <= l =>
           (<<t, o[1], o[2]>> \in deltas <=> o \in Touches[t])
    BY StoredDeltas
  <2>2. \A t \in Tx : 0 <= LedgerOf[t]
    BY TxFacts
  <2> QED BY <2>1, <2>2 DEF TouchedUpTo, DeltaTx
<1>2. \A t \in Q : f[t] = Delta(t, o)
  OBVIOUS
<1>3. DeltaSum(o, 0, l) = SumFunctionOnSet(f, Q)
  BY DeltaSumIs
<1>4. SumFunctionOnSet(f, Q) = LedgerBalance(o, l)
  <2> HIDE DEF f, Q
  <2> QED BY <1>1, <1>2, BalanceIsSum
<1> QED BY <1>3, <1>4

-----------------------------------------------------------------------------
(***************************************************************************)
(* Paging: one more page, beyond all that went before it.                  *)
(***************************************************************************)
Joined(got, page, rows, rest, U, R) ==
    /\ got \o page \in Seq(U) /\ Len(rows) \in Nat
    /\ \A k, l \in 1 .. Len(got \o page) :
          k < l => <<(got \o page)[k], (got \o page)[l]>> \in R
    /\ \A k \in 1 .. Len(got) : \E l \in 1 .. Len(got \o page) : (got \o page)[l] = got[k]
    /\ \A k \in 1 .. Len(got \o page) :
          (\E l \in 1 .. Len(got) : (got \o page)[k] = got[l]) \/ (got \o page)[k] \in rest
    /\ Len(rows) > PageLimit =>
          /\ Last(page) \in rest
          /\ \A k \in 1 .. Len(got \o page) :
                (got \o page)[k] = Last(page) \/ <<(got \o page)[k], Last(page)>> \in R
          /\ \A x \in rest : \/ \E k \in 1 .. Len(got \o page) : (got \o page)[k] = x
                             \/ <<Last(page), x>> \in R
    /\ ~(Len(rows) > PageLimit) =>
          \A x \in rest : \E k \in 1 .. Len(got \o page) : (got \o page)[k] = x

(* A page joined to the pages before it: still in order, nothing repeated. *)
LEMMA PageJoins ==
    ASSUME NEW U, NEW R,
           \A x, y, z \in U : <<x, y>> \in R /\ <<y, z>> \in R => <<x, z>> \in R,
           NEW got \in Seq(U), \A k, l \in 1 .. Len(got) : k < l => <<got[k], got[l]>> \in R,
           NEW rest \in SUBSET U, IsFiniteSet(rest),
           \A k \in 1 .. Len(got) : \A x \in rest : <<got[k], x>> \in R,
           NEW rows, Lists(rows, rest, R),
           NEW page, page = SubSeq(rows, 1, Min({PageLimit, Len(rows)}))
    PROVE  Joined(got, page, rows, rest, U, R)
<1> DEFINE n == Len(got)  m == Len(page)  all == got \o page
<1>1. /\ rows \in Seq(rest) /\ page \in Seq(rest) /\ Len(rows) \in Nat
      /\ \A k, l \in 1 .. m : k < l => <<page[k], page[l]>> \in R
      /\ ~(Len(rows) > PageLimit) => \A x \in rest : \E k \in 1 .. m : page[k] = x
      /\ Len(rows) > PageLimit =>
            /\ Last(page) \in rest
            /\ \A k \in 1 .. m : page[k] = Last(page) \/ <<page[k], Last(page)>> \in R
            /\ \A x \in rest : (\E k \in 1 .. m : page[k] = x) \/ <<Last(page), x>> \in R
  <2>1. FirstRows(page, rows, rest, R)
    BY PageOfRows
  <2> QED BY <2>1 DEF FirstRows
<1>2. /\ page \in Seq(U) /\ n \in Nat /\ m \in Nat
      /\ \A k \in 1 .. m : page[k] \in rest
      /\ \A k \in 1 .. n : got[k] \in U
  <2>1. page \in [1 .. m -> rest] /\ m \in Nat
    BY <1>1, LenProperties
  <2>2. got \in [1 .. n -> U] /\ n \in Nat
    BY LenProperties
  <2>3. page \in Seq(U)
    <3>1. page \in [1 .. m -> U]
      BY <2>1
    <3> QED BY <2>1, <3>1, SeqDef
  <2> QED BY <2>1, <2>2, <2>3
<1>3. /\ all \in Seq(U) /\ Len(all) = n + m
      /\ \A k \in 1 .. n + m : all[k] = IF k <= n THEN got[k] ELSE page[k - n]
  BY <1>2, ConcatProperties
<1>4. \A k \in 1 .. n : k \in 1 .. n + m /\ all[k] = got[k]
  BY <1>2, <1>3
<1>5. \A k \in 1 .. m : k + n \in 1 .. n + m /\ all[k + n] = page[k]
  BY <1>2, <1>3
<1>6. \A k \in 1 .. n + m : ~(k <= n) => k - n \in 1 .. m /\ all[k] = page[k - n]
  BY <1>2, <1>3
<1> HIDE DEF all, n, m
<1>7. ASSUME NEW k \in 1 .. n + m, NEW l \in 1 .. n + m, k < l PROVE <<all[k], all[l]>> \in R
  <2>1. CASE l <= n
    <3>1. k \in 1 .. n /\ l \in 1 .. n
      BY <1>2, <1>7, <2>1
    <3> QED BY <1>4, <1>7, <3>1 DEF n
  <2>2. CASE k <= n /\ ~(l <= n)
    <3>1. k \in 1 .. n
      BY <1>2, <2>2
    <3>2. all[l] \in rest
      BY <1>2, <1>6, <2>2
    <3> QED BY <1>4, <3>1, <3>2 DEF n
  <2>3. CASE ~(k <= n) /\ ~(l <= n)
    <3>1. k - n \in 1 .. m /\ l - n \in 1 .. m /\ k - n < l - n
      BY <1>2, <1>6, <1>7, <2>3
    <3> QED BY <1>1, <1>6, <2>3, <3>1
  <2>4. (k <= n \/ ~(k <= n)) /\ (l <= n => k <= n)
    BY <1>2, <1>7
  <2> QED BY <2>1, <2>2, <2>3, <2>4
<1>8. ASSUME NEW k \in 1 .. n + m PROVE (\E l \in 1 .. n : all[k] = got[l]) \/ all[k] \in rest
  <2>1. CASE k <= n
    <3>1. k \in 1 .. n
      BY <1>2, <2>1
    <3> QED BY <1>4, <3>1
  <2>2. CASE ~(k <= n)
    BY <1>2, <1>6, <2>2
  <2> QED BY <2>1, <2>2
<1>9. ASSUME Len(rows) > PageLimit, NEW k \in 1 .. n + m
      PROVE  all[k] = Last(page) \/ <<all[k], Last(page)>> \in R
  <2>1. CASE k <= n
    <3>1. k \in 1 .. n
      BY <1>2, <2>1
    <3> QED BY <1>1, <1>4, <1>9, <3>1 DEF n
  <2>2. CASE ~(k <= n)
    BY <1>1, <1>6, <1>9, <2>2
  <2> QED BY <2>1, <2>2
<1>10. ASSUME NEW x, \E k \in 1 .. m : page[k] = x PROVE \E k \in 1 .. n + m : all[k] = x
  BY <1>5, <1>10
<1>11. \A k \in 1 .. n : \E l \in 1 .. n + m : all[l] = got[k]
  BY <1>4
<1>12. all = got \o page /\ Len(all) = n + m /\ n = Len(got)
  BY <1>3 DEF all, n
<1> QED BY <1>1, <1>3, <1>7, <1>8, <1>9, <1>10, <1>11, <1>12 DEF Joined

-----------------------------------------------------------------------------
(***************************************************************************)
(* Requests: the fields of each kind, and what holds between its queries.  *)
(***************************************************************************)
HasFields(F) == request = [f \in F |-> request[f]]

Asked == request.ask \in Requests /\ request.kind = request.ask.kind

(* The parameters a request comes with. *)
LEMMA AskFacts ==
    ASSUME NEW r \in Requests
    PROVE  /\ r.issuance \in Issuances /\ r.account \in Accounts /\ r.forward \in BOOLEAN
           /\ r.from \in Nat /\ r.to \in Nat /\ r.date \in Nat
BY ReadsAssumption

(***************************************************************************)
(* account_tx: the pages so far are in order, up to the cursor; what was   *)
(* in every window is in a page, or past the cursor.                       *)
(***************************************************************************)
AccountTxOK ==
    LET got == request.got
        after == request.after
        steady == request.steady
        forward == request.ask.forward
    IN
    /\ HasFields({"kind", "ask", "at", "lo", "hi", "after", "got", "steady"})
    /\ Asked
    /\ request.at \in {"coverage", "rows", "done", "refused"}
    /\ got \in Seq(Tx) /\ steady \subseteq Tx /\ after \in Tx \cup {NoBound}
    /\ \A k, l \in 1 .. Len(got) : k < l => Beyond(got[l], got[k], forward)
    /\ request.at \in {"coverage", "rows"} =>
          /\ after = NoBound => got = <<>> /\ steady = {}
          /\ after # NoBound =>
                /\ \A k \in 1 .. Len(got) : got[k] = after \/ Beyond(after, got[k], forward)
                /\ \A t \in steady :
                      (\E k \in 1 .. Len(got) : got[k] = t) \/ Beyond(t, after, forward)
    /\ request.at = "done" => \A t \in steady : \E k \in 1 .. Len(got) : got[k] = t

(* A client asks. *)
LEMMA AccountTxAsked ==
    ASSUME NEW r \in Requests, AskAccountTx(r)
    PROVE  AccountTxOK' /\ request'.kind = "account_tx"
<1>1. /\ r.kind = "account_tx"
      /\ request' = [kind |-> r.kind, ask |-> r, at |-> "coverage", lo |-> 0, hi |-> 0,
                     after |-> NoBound, got |-> <<>>, steady |-> {}]
  BY DEF AskAccountTx, Ask, Become
<1>2. /\ request'.kind = "account_tx" /\ request'.ask = r /\ request'.at = "coverage"
      /\ request'.after = NoBound /\ request'.got = <<>> /\ request'.steady = {}
  BY <1>1
<1>3. HasFields({"kind", "ask", "at", "lo", "hi", "after", "got", "steady"})'
  BY <1>1 DEF HasFields
<1> QED BY <1>1, <1>2, <1>3 DEF AccountTxOK, Asked

(* The window is read; no page is touched. *)
LEMMA AccountTxCoverageStep ==
    ASSUME AccountTxOK, AccountTxCoverage
    PROVE  AccountTxOK' /\ request'.kind = "account_tx"
<1> DEFINE F == {"kind", "ask", "at", "lo", "hi", "after", "got", "steady"}
<1>1. PICK lo, hi : request' = [request EXCEPT !.at = "rows", !.lo = lo, !.hi = hi]
  BY DEF AccountTxCoverage, Become
<1>2. request = [f \in F |-> request[f]] /\ request.kind = "account_tx" /\ request.at = "coverage"
  BY DEF AccountTxOK, HasFields, AccountTxCoverage, At
<1>3. /\ request' = [f \in F |-> request'[f]] /\ request'.at = "rows"
      /\ request'.kind = request.kind /\ request'.ask = request.ask
      /\ request'.after = request.after /\ request'.got = request.got
      /\ request'.steady = request.steady
  BY <1>1, <1>2
<1> QED BY <1>2, <1>3 DEF AccountTxOK, HasFields, Asked

(* A page is read: past the cursor, up to the next one. *)
LEMMA AccountTxPageStep ==
    ASSUME StoreInv, AccountTxOK, AccountTxPage
    PROVE  AccountTxOK' /\ request'.kind = "account_tx"
<1> DEFINE F == {"kind", "ask", "at", "lo", "hi", "after", "got", "steady"}
           r == request
           forward == r.ask.forward
           R == Later(forward)
           window == {t \in AccountMeta(r.ask.account, r.hi) : r.lo <= LedgerOf[t]}
           rest == {t \in window : r.after = NoBound \/ Beyond(t, r.after, r.ask.forward)}
           rows == Ordered(rest, LAMBDA s, t : Beyond(t, s, r.ask.forward))
           page == SubSeq(rows, 1, Min({PageLimit, Len(rows)}))
           joined == r.got \o page
           steady == IF r.after = NoBound THEN window ELSE r.steady \cap window
           more == Len(rows) > PageLimit
<1>1. /\ HasFields(F) /\ r.kind = "account_tx" /\ r.at = "rows" /\ Asked
      /\ r.got \in Seq(Tx) /\ r.steady \subseteq Tx /\ r.after \in Tx \cup {NoBound}
      /\ \A k, l \in 1 .. Len(r.got) : k < l => Beyond(r.got[l], r.got[k], forward)
      /\ r.after = NoBound => r.got = <<>> /\ r.steady = {}
      /\ r.after # NoBound =>
            /\ \A k \in 1 .. Len(r.got) : r.got[k] = r.after \/ Beyond(r.after, r.got[k], forward)
            /\ \A t \in r.steady :
                  (\E k \in 1 .. Len(r.got) : r.got[k] = t) \/ Beyond(t, r.after, forward)
  BY DEF AccountTxOK, AccountTxPage, At
<1>2. window \in SUBSET Tx /\ rest \in SUBSET Tx /\ forward \in BOOLEAN
  BY <1>1, AskFacts DEF AccountMeta, StoreInv, StoreOK, ArchiveTypeOK, Asked
<1>3. Lists(rows, rest, R) /\ IsFiniteSet(rest)
  BY <1>2, RowsInOrder, SomeTx
<1>4. /\ request' = [r EXCEPT !.got = joined, !.steady = steady,
                              !.at = IF more THEN "coverage" ELSE "done",
                              !.after = IF more THEN Last(page) ELSE r.after]
      /\ UNCHANGED storeVars
  <2>1. HasFields(F)
    BY <1>1
  <2> DEFINE next == [r EXCEPT !.got = joined, !.steady = steady]
  <2>2. IF more THEN request' = [next EXCEPT !.at = "coverage", !.after = Last(page)]
                ELSE request' = [next EXCEPT !.at = "done"]
    BY Zenon DEF AccountTxPage, Become, Done
  <2>3. UNCHANGED storeVars
    BY DEF AccountTxPage, Become, Done
  <2> HIDE DEF joined, steady, more, page
  <2> QED BY <2>1, <2>2, <2>3 DEF HasFields
<1>5. \A x, y, z \in Tx : <<x, y>> \in R /\ <<y, z>> \in R => <<x, z>> \in R
  BY <1>2, BeyondOrders DEF Later
<1>6. \A x, y \in Tx : <<x, y>> \in R <=> Beyond(y, x, forward)
  BY DEF Later
<1>7. \A k \in 1 .. Len(r.got) : r.got[k] \in Tx
  BY <1>1
<1>8. \A x \in rest : x \in window /\ (r.after # NoBound => Beyond(x, r.after, forward))
  OBVIOUS
<1>9. \A x \in window : r.after = NoBound \/ Beyond(x, r.after, forward) => x \in rest
  OBVIOUS
<1>10. ASSUME NEW k \in 1 .. Len(r.got), NEW x \in rest
       PROVE  <<r.got[k], x>> \in R
  <2>1. r.after # NoBound
    <3>1. r.got # <<>>
      BY <1>1, <1>7
    <3> QED BY <1>1, <3>1
  <2>2. r.after \in Tx /\ x \in Tx /\ r.got[k] \in Tx
    BY <1>1, <1>2, <1>7, <2>1
  <2>3. <<r.after, x>> \in R
    BY <1>6, <1>8, <2>1, <2>2
  <2>4. r.got[k] = r.after \/ <<r.got[k], r.after>> \in R
    BY <1>1, <1>6, <2>1, <2>2
  <2> HIDE DEF R, rest
  <2> QED BY <1>5, <2>2, <2>3, <2>4
<1>11. Joined(r.got, page, rows, rest, Tx, R)
  <2>1. \A k, l \in 1 .. Len(r.got) : k < l => <<r.got[k], r.got[l]>> \in R
    BY <1>1, <1>6, <1>7
  <2>2. r.got \in Seq(Tx) /\ page = SubSeq(rows, 1, Min({PageLimit, Len(rows)}))
    BY <1>1
  <2> HIDE DEF R, rest, rows, page
  <2> QED BY <1>2, <1>3, <1>5, <1>10, <2>1, <2>2, PageJoins
<1>12. /\ joined \in Seq(Tx) /\ \A k \in 1 .. Len(joined) : joined[k] \in Tx
       /\ \A k, l \in 1 .. Len(joined) : k < l => Beyond(joined[l], joined[k], forward)
  <2>1. /\ joined \in Seq(Tx)
        /\ \A k, l \in 1 .. Len(joined) : k < l => <<joined[k], joined[l]>> \in R
    BY <1>11 DEF Joined
  <2> HIDE DEF joined, R
  <2>2. \A k \in 1 .. Len(joined) : joined[k] \in Tx
    BY <2>1
  <2> QED BY <1>6, <2>1, <2>2
<1>13. ASSUME NEW t \in steady
       PROVE  (\E k \in 1 .. Len(joined) : joined[k] = t) \/ t \in rest
  <2>1. CASE r.after = NoBound
    BY <1>9, <1>13, <2>1
  <2>2. CASE r.after # NoBound
    <3>1. t \in r.steady /\ t \in window
      BY <1>13, <2>2
    <3>2. CASE Beyond(t, r.after, forward)
      BY <1>9, <3>1, <3>2
    <3>3. CASE \E k \in 1 .. Len(r.got) : r.got[k] = t
      BY <1>11, <3>3 DEF Joined
    <3> QED BY <1>1, <2>2, <3>1, <3>2, <3>3
  <2> QED BY <2>1, <2>2
<1>14. steady \in SUBSET Tx
  BY <1>1, <1>2
<1>15. ASSUME more
       PROVE  /\ Last(page) \in Tx /\ Last(page) # NoBound
              /\ \A k \in 1 .. Len(joined) :
                    joined[k] = Last(page) \/ Beyond(Last(page), joined[k], forward)
              /\ \A t \in steady : (\E k \in 1 .. Len(joined) : joined[k] = t)
                                   \/ Beyond(t, Last(page), forward)
  <2>1. /\ Last(page) \in rest
        /\ \A k \in 1 .. Len(joined) :
              joined[k] = Last(page) \/ <<joined[k], Last(page)>> \in R
        /\ \A x \in rest : \/ \E k \in 1 .. Len(joined) : joined[k] = x
                           \/ <<Last(page), x>> \in R
    BY <1>11, <1>15 DEF Joined
  <2>2. Last(page) \in Tx /\ Last(page) # NoBound
    BY <1>2, <2>1, TxFacts DEF NoBound
  <2> HIDE DEF joined, R, rest, page, steady
  <2> QED BY <1>2, <1>6, <1>12, <1>13, <2>1, <2>2
<1>16. ASSUME ~more
       PROVE  \A t \in steady : \E k \in 1 .. Len(joined) : joined[k] = t
  <2>1. \A x \in rest : \E k \in 1 .. Len(joined) : joined[k] = x
    BY <1>11, <1>16 DEF Joined
  <2> HIDE DEF joined, rest, steady
  <2> QED BY <1>13, <2>1
<1>17. /\ HasFields(F)' /\ request'.kind = r.kind /\ request'.ask = r.ask
       /\ request'.got = joined /\ request'.steady = steady
       /\ request'.at = IF more THEN "coverage" ELSE "done"
       /\ request'.after = IF more THEN Last(page) ELSE r.after
  <2> HIDE DEF joined, steady, more, page
  <2>1. request = [f \in F |-> request[f]]
    BY <1>1 DEF HasFields
  <2> QED BY <1>4, <2>1 DEF HasFields
<1> HIDE DEF joined, steady, more, page
<1> QED BY <1>1, <1>12, <1>14, <1>15, <1>16, <1>17 DEF AccountTxOK, Asked

-----------------------------------------------------------------------------
(***************************************************************************)
(* The reconstruction: the node of the newest transaction met is there, or *)
(* is deleted, as the object is, and holds its balance.                    *)
(***************************************************************************)
LEMMA LatestNode ==
    ASSUME NEW S \in SUBSET Tx, NEW o, Newest(S, o) # 0
    PROVE  LET node == Node(Newest(S, o), o) IN
           /\ node.kind # "deleted" <=> State(S, o) # Gone
           /\ node.final = Sign(o) * Amount(State(S, o))
           /\ node.final \in Int /\ HolderBalance(o, node.final) = Amount(State(S, o))
<1> DEFINE t == Newest(S, o)  node == Node(t, o)
<1>1. t \in Tx /\ o \in Touches[t]
  <2>1. \E s \in S : o \in Touches[s]
    BY NewestNone
  <2> QED BY <2>1, NewestSome
<1>2. State(S, o) = After[t][o]
  BY DEF State
<1>3. Before(t, o) = Gone => After[t][o] # Gone
  BY <1>1, NodesAssumption
<1>4. Amount(After[t][o]) \in Nat /\ Sign(o) \in {1, -1}
  BY <1>1, AfterType DEF Sign
<1> DEFINE a == Amount(After[t][o])  sign == Sign(o)
<1>5. node.final = sign * a /\ (node.kind # "deleted" <=> After[t][o] # Gone)
  BY <1>3 DEF Node
<1>6. sign * a \in Int /\ sign * (sign * a) = a
  <2>1. a \in Nat /\ (sign = 1 \/ sign = -1)
    BY <1>4
  <2> HIDE DEF a, sign
  <2>2. CASE sign = 1
    BY <2>1, <2>2
  <2>3. CASE sign = -1
    BY <2>1, <2>3
  <2> QED BY <2>1, <2>2, <2>3
<1> QED BY <1>2, <1>5, <1>6 DEF HolderBalance

Holding(S, i) ==
    {[holder |-> h, amount |-> Amount(State(S, <<i, h>>))] :
        h \in {g \in Accounts : State(S, <<i, g>>) # Gone}}

(* toMptHolders and toIouBalances give the live holders and what they hold. *)
LEMMA ReconstructedIs ==
    ASSUME NEW S \in SUBSET Tx, NEW i \in Issuances
    PROVE  Reconstructed(S, i) = Holding(S, i)
<1> DEFINE entry(h) == [holder |-> h, amount |-> Amount(State(S, <<i, h>>))]
           of(o) == [object |-> o, node |-> Node(Newest(S, o), o)]
<1>1. Reconstructed(S, i)
        = {[holder |-> r.object[2], amount |-> HolderBalance(r.object, r.node.final)] :
             r \in Live(S, {i} \X Accounts)}
  BY DEF Reconstructed
<1>2. \A o : Newest(S, o) = 0 => State(S, o) = Gone
  BY DEF State
<1>3. ASSUME NEW r \in Live(S, {i} \X Accounts)
      PROVE  /\ [holder |-> r.object[2], amount |-> HolderBalance(r.object, r.node.final)]
                   = entry(r.object[2])
             /\ r.object[2] \in Accounts /\ State(S, <<i, r.object[2]>>) # Gone
  <2>1. PICK o \in {i} \X Accounts : Newest(S, o) # 0 /\ r = of(o) /\ r.node.kind # "deleted"
    BY DEF Live, LatestObjects
  <2>2. r.object = o /\ r.node = Node(Newest(S, o), o) /\ o = <<i, o[2]>> /\ o[2] \in Accounts
    BY <2>1
  <2>3. State(S, o) # Gone /\ HolderBalance(o, r.node.final) = Amount(State(S, o))
    BY <2>1, <2>2, LatestNode
  <2> QED BY <2>2, <2>3
<1>4. ASSUME NEW h \in Accounts, State(S, <<i, h>>) # Gone
      PROVE  \E r \in Live(S, {i} \X Accounts) : r.object[2] = h
  <2> DEFINE o == <<i, h>>
  <2>1. Newest(S, o) # 0
    BY <1>2, <1>4
  <2>2. of(o).node.kind # "deleted" /\ of(o).object = o
    BY <1>4, <2>1, LatestNode
  <2>3. of(o) \in Live(S, {i} \X Accounts)
    <3>1. o \in {i} \X Accounts
      OBVIOUS
    <3>2. of(o) \in LatestObjects(S, {i} \X Accounts)
      BY <2>1, <3>1 DEF LatestObjects
    <3> QED BY <2>2, <3>2 DEF Live
  <2> QED BY <2>2, <2>3
<1>5. ASSUME NEW e PROVE e \in Reconstructed(S, i) <=> e \in Holding(S, i)
  <2>1. ASSUME e \in Reconstructed(S, i) PROVE e \in Holding(S, i)
    <3>1. PICK r \in Live(S, {i} \X Accounts) :
             e = [holder |-> r.object[2], amount |-> HolderBalance(r.object, r.node.final)]
      BY <1>1, <2>1
    <3> DEFINE h == r.object[2]
    <3>2. e = entry(h) /\ h \in Accounts /\ State(S, <<i, h>>) # Gone
      BY <1>3, <3>1
    <3> HIDE DEF h
    <3> QED BY <3>2 DEF Holding
  <2>2. ASSUME e \in Holding(S, i) PROVE e \in Reconstructed(S, i)
    <3>1. PICK h \in Accounts : State(S, <<i, h>>) # Gone /\ e = entry(h)
      BY <2>2 DEF Holding
    <3>2. PICK r \in Live(S, {i} \X Accounts) : r.object[2] = h
      BY <1>4, <3>1
    <3>3. e = [holder |-> r.object[2], amount |-> HolderBalance(r.object, r.node.final)]
      BY <1>3, <3>1, <3>2
    <3> QED BY <1>1, <3>3
  <2> QED BY <2>1, <2>2
<1> QED BY <1>5

-----------------------------------------------------------------------------
(* A ledger up to which the sweep of an issuance has claimed is stored. *)
LEMMA SweptStored ==
    ASSUME StoreInv, NEW i \in Issuances, NEW l \in Nat, Swept(i, l)
    PROVE  StoredUpTo(i, l)
<1>1. PICK row \in coverage : row.job = SweepJob(i) /\ l <= row.to
  BY DEF Swept
<1>2. StoredUpTo(i, row.to) /\ row.to \in Nat
  BY <1>1 DEF StoreInv, ClaimsSound, StoreOK, ArchiveTypeOK
<1> DEFINE reach == row.to
<1>3. reach \in Nat /\ l <= reach /\ \A t \in Tx : LedgerOf[t] \in Nat
  BY <1>1, <1>2, TxFacts
<1>4. \A t \in Tx : LedgerOf[t] <= l => LedgerOf[t] <= reach
  <2> HIDE DEF reach
  <2> QED BY <1>3
<1> QED BY <1>2, <1>4 DEF StoredUpTo

(***************************************************************************)
(* mpt_holders.  Once the sweep has claimed a ledger, the transactions     *)
(* read for the issuance up to there leave every balance as the ledger     *)
(* did.                                                                    *)
(***************************************************************************)
LEMMA IssuanceRead ==
    ASSUME StoreInv, NEW i \in Issuances, NEW l, StoredUpTo(i, l), NEW h \in Accounts
    PROVE  State({t \in IssuanceTx(i) : LedgerOf[t] <= l}, <<i, h>>)
             = State({t \in Tx : LedgerOf[t] <= l}, <<i, h>>)
<1> DEFINE S == {t \in IssuanceTx(i) : LedgerOf[t] <= l}
           Z == {t \in Tx : LedgerOf[t] <= l}
           o == <<i, h>>
<1>1. S \in SUBSET Tx /\ Z \in SUBSET Tx /\ S \subseteq Z
  BY DEF IssuanceTx, StoreInv, StoreOK, ArchiveTypeOK
<1>2. ASSUME NEW t \in Tx, o \in Touches[t], t \in Z PROVE t \in S
  <2>1. h \in HoldersIn(t, i) /\ AllStored(i, t)
    BY <1>2 DEF HoldersIn, StoredUpTo
  <2>2. <<i, h>> \in holders /\ t \in txRows /\ <<t, h>> \in links
    BY <2>1 DEF AllStored, Held
  <2> QED BY <1>2, <2>2 DEF IssuanceTx
<1> HIDE DEF S, Z
<1>3. \A t \in Tx : o \in Touches[t] => (t \in S <=> t \in Z)
  BY <1>1, <1>2
<1>4. State(S, o) = State(Z, o)
  <2> HIDE DEF o
  <2> QED BY <1>1, <1>3, NewestSame
<1> QED BY <1>4 DEF S, Z

Entry == [holder : Accounts, amount : Int]
ByRank == {p \in Entry \X Entry : ObjectRank[p[1].holder] < ObjectRank[p[2].holder]}

(* MPToken ids identify their holders. *)
LEMMA RankFacts ==
    /\ \A h \in Accounts : ObjectRank[h] \in Nat /\ ObjectRank[h] # 0
    /\ \A h, g \in Accounts : ObjectRank[h] = ObjectRank[g] => h = g
BY ReadsAssumption DEF IsInjective

(* They order the entries of a listing totally. *)
LEMMA ByRankOrders ==
    /\ \A x, y, z \in Entry : <<x, y>> \in ByRank /\ <<y, z>> \in ByRank => <<x, z>> \in ByRank
    /\ \A x \in Entry : <<x, x>> \notin ByRank
    /\ \A x, y \in Entry : x.holder # y.holder => <<x, y>> \in ByRank \/ <<y, x>> \in ByRank
    /\ \A x, y \in Entry : <<x, y>> \in ByRank <=> ObjectRank[x.holder] < ObjectRank[y.holder]
<1>1. \A x \in Entry : x.holder \in Accounts /\ ObjectRank[x.holder] \in Nat
  BY RankFacts DEF Entry
<1>2. \A x, y \in Entry : <<x, y>> \in ByRank <=> ObjectRank[x.holder] < ObjectRank[y.holder]
  BY DEF ByRank
<1> HIDE DEF ByRank, Entry
<1> QED BY <1>1, <1>2, RankFacts

(* The entries of a listing, one for each holder. *)
LEMMA HoldingFacts ==
    ASSUME NEW S \in SUBSET Tx, NEW i
    PROVE  /\ Holding(S, i) \in SUBSET Entry /\ IsFiniteSet(Holding(S, i))
           /\ \A x, y \in Holding(S, i) : x.holder = y.holder => x = y
<1> DEFINE some == {g \in Accounts : State(S, <<i, g>>) # Gone}
           f == [h \in some |-> [holder |-> h, amount |-> Amount(State(S, <<i, h>>))]]
<1>1. \A o : Amount(State(S, o)) \in Int
  BY StateType
<1> DEFINE entry(h) == [holder |-> h, amount |-> Amount(State(S, <<i, h>>))]
<1>2. ASSUME NEW x \in Holding(S, i)
      PROVE  x.holder \in Accounts /\ x = entry(x.holder) /\ x \in Entry
  <2>1. PICK h \in Accounts : x = entry(h)
    BY DEF Holding
  <2>2. x.holder = h /\ entry(h) \in Entry
    BY <1>1, <2>1 DEF Entry
  <2> HIDE DEF entry
  <2> QED BY <2>1, <2>2
<1>3. \A x, y \in Holding(S, i) : x.holder = y.holder => x = y
  <2> HIDE DEF entry
  <2> QED BY <1>2
<1>4. IsFiniteSet(some)
  BY ReadsAssumption, FS_Subset
<1>5. f \in Surjection(some, Holding(S, i))
  <2>1. \A x \in Holding(S, i) : \E h \in some : f[h] = x
    BY DEF Holding
  <2>2. \A h \in some : f[h] \in Holding(S, i)
    BY DEF Holding
  <2>3. f \in [some -> Holding(S, i)]
    <3>1. f = [h \in some |-> f[h]]
      OBVIOUS
    <3> HIDE DEF f, some
    <3> QED BY <2>2, <3>1
  <2> HIDE DEF f, some
  <2> QED BY <2>1, <2>3 DEF Surjection
<1>6. IsFiniteSet(Holding(S, i))
  <2> HIDE DEF f, some
  <2> QED BY <1>4, <1>5, FS_Surjection
<1> QED BY <1>2, <1>3, <1>6

(* The rows of mpt_holders come in the order of the ids. *)
LEMMA EntriesInOrder ==
    ASSUME NEW all \in SUBSET Entry, IsFiniteSet(all),
           \A x, y \in all : x.holder = y.holder => x = y
    PROVE  Lists(Ordered(all, LAMBDA e, f : ObjectRank[e.holder] < ObjectRank[f.holder]),
                 all, ByRank)
<1> DEFINE InOrder(s) == \A k, l \in 1 .. Cardinality(all) :
                            k < l => ~(ObjectRank[s[l].holder] < ObjectRank[s[k].holder])
           rows == CHOOSE s \in Bijection(1 .. Cardinality(all), all) : InOrder(s)
<1>1. PICK s : Lists(s, all, ByRank)
  <2>1. /\ \A x, y \in all : x # y => <<x, y>> \in ByRank \/ <<y, x>> \in ByRank
        /\ \A x, y, z \in all : <<x, y>> \in ByRank /\ <<y, z>> \in ByRank => <<x, z>> \in ByRank
    BY ByRankOrders
  <2>2. \A S \in SUBSET all : \E s : Lists(s, S, ByRank)
    BY <2>1, ListExists
  <2> QED BY <2>2
<1>2. s \in Bijection(1 .. Cardinality(all), all)
  BY <1>1, ByRankOrders, ListsOnce
<1>3. InOrder(s)
  <2>1. \A x, y \in all : <<x, y>> \in ByRank => ~(ObjectRank[y.holder] < ObjectRank[x.holder])
    BY ByRankOrders
  <2> QED BY <1>1, <2>1 DEF Lists
<1>4. rows \in Bijection(1 .. Cardinality(all), all) /\ InOrder(rows)
  <2> HIDE DEF InOrder
  <2> QED BY <1>2, <1>3
<1>5. Ordered(all, LAMBDA x, y : ObjectRank[x.holder] < ObjectRank[y.holder]) = rows
  BY Zenon DEF Ordered
<1>6. Lists(rows, all, ByRank)
  <2> HIDE DEF rows
  <2>1. /\ rows \in [1 .. Cardinality(all) -> all]
        /\ \A x \in all : \E k \in 1 .. Cardinality(all) : rows[k] = x
    BY <1>4 DEF Bijection, Injection, Surjection
  <2>2. \A k, l \in 1 .. Cardinality(all) : k < l => <<rows[k], rows[l]>> \in ByRank
    <3>1. ASSUME NEW k \in 1 .. Cardinality(all), NEW l \in 1 .. Cardinality(all), k < l
          PROVE  <<rows[k], rows[l]>> \in ByRank
      <4>1. k # l
        BY <3>1, FS_CardinalityType
      <4>2. rows[k] # rows[l] /\ rows[k] \in all /\ rows[l] \in all
        BY <1>4, <2>1, <4>1 DEF Bijection, Injection, IsInjective
      <4>3. ~(ObjectRank[rows[l].holder] < ObjectRank[rows[k].holder])
        BY <1>4, <3>1
      <4> QED BY <4>2, <4>3, ByRankOrders
    <3> QED BY <3>1
  <2> QED BY <2>1, <2>2 DEF Lists
<1> QED BY <1>5, <1>6

(***************************************************************************)
(* The entries so far are in order, up to the cursor; a holder every page  *)
(* saw is listed, or past the cursor; and once the issuance's sweep had    *)
(* claimed the ledger asked for, so is every holder the ledger had then,   *)
(* and nothing else is listed.                                             *)
(***************************************************************************)
ListingFields == {"kind", "ask", "at", "after", "ledger", "got", "steady", "swept", "more"}

Paging == request.at = "rows" \/ (request.at = "ledger" /\ request.more)

ListedExactly(got, i, l, rest(_)) ==
    LET held == Holding({t \in Tx : LedgerOf[t] <= l}, i) IN
    /\ StoredUpTo(i, l)
    /\ \A k \in 1 .. Len(got) : got[k] \in held
    /\ \A e \in held : (\E k \in 1 .. Len(got) : got[k] = e) \/ rest(e.holder)

ListingOK ==
    LET got == request.got
        ahead(h) == Paging /\ ObjectRank[h] > request.after
    IN
    /\ HasFields(ListingFields) /\ Asked
    /\ request.at \in {"rows", "ledger", "done"} /\ request.more \in BOOLEAN
    /\ got \in Seq(Entry) /\ request.steady \subseteq Accounts /\ request.after \in Nat
    /\ \A k, l \in 1 .. Len(got) : k < l => <<got[k], got[l]>> \in ByRank
    /\ Paging => \A k \in 1 .. Len(got) : ObjectRank[got[k].holder] <= request.after
    /\ \A h \in request.steady : (\E k \in 1 .. Len(got) : got[k].holder = h) \/ ahead(h)
    /\ request.swept /\ request.ask.to # NoBound =>
          ListedExactly(got, request.ask.issuance, request.ask.to, ahead)

(* A client asks. *)
LEMMA ListingAsked ==
    ASSUME NEW r \in Requests, AskMptHolders(r)
    PROVE  ListingOK' /\ request'.kind = "mpt_holders"
<1>1. /\ r.kind = "mpt_holders"
      /\ request' = [kind |-> r.kind, ask |-> r, at |-> "rows", after |-> NoBound,
                     ledger |-> r.to, got |-> <<>>, steady |-> {}, swept |-> FALSE,
                     more |-> FALSE]
  BY DEF AskMptHolders, Ask, Become
<1>2. /\ request'.kind = "mpt_holders" /\ request'.ask = r /\ request'.at = "rows"
      /\ request'.after = NoBound /\ request'.got = <<>> /\ request'.steady = {}
      /\ request'.swept = FALSE /\ request'.more = FALSE
  BY <1>1
<1>3. HasFields(ListingFields)'
  BY <1>1 DEF HasFields, ListingFields
<1> QED BY <1>1, <1>2, <1>3 DEF ListingOK, Asked, Paging, NoBound

(* The ledger to report is read; the pages are not touched. *)
LEMMA ListingLedgerStep ==
    ASSUME ListingOK, MptHoldersLedger
    PROVE  ListingOK' /\ request'.kind = "mpt_holders"
<1> DEFINE F == ListingFields
<1>1. PICK ledger : request' = [[request EXCEPT !.ledger = ledger]
                                  EXCEPT !.at = IF request.more THEN "rows" ELSE "done"]
  <2> DEFINE ledger == IF request.ask.to = NoBound THEN LatestLedger ELSE request.ask.to
             next == [request EXCEPT !.ledger = ledger]
  <2>1. request = [f \in F |-> request[f]]
    BY DEF ListingOK, HasFields
  <2>2. IF next.more THEN request' = [next EXCEPT !.at = "rows"]
                     ELSE request' = [next EXCEPT !.at = "done"]
    BY Zenon DEF MptHoldersLedger, Become, Done
  <2> HIDE DEF ledger
  <2>3. next.more = request.more
    BY <2>1 DEF ListingFields
  <2> QED BY <2>2, <2>3
<1>2. /\ request = [f \in F |-> request[f]] /\ request.kind = "mpt_holders"
      /\ request.at = "ledger" /\ request.more \in BOOLEAN
  BY DEF ListingOK, HasFields, MptHoldersLedger, At
<1>3. /\ HasFields(F)' /\ request'.at = IF request.more THEN "rows" ELSE "done"
      /\ request'.kind = request.kind /\ request'.ask = request.ask
      /\ request'.after = request.after /\ request'.got = request.got
      /\ request'.steady = request.steady /\ request'.swept = request.swept
      /\ request'.more = request.more
  BY <1>1, <1>2 DEF ListingFields, HasFields
<1>4. Paging' <=> Paging
  BY <1>2, <1>3 DEF Paging
<1>5. StoredUpTo(request.ask.issuance, request.ask.to)'
        <=> StoredUpTo(request.ask.issuance, request.ask.to)
  <2>1. UNCHANGED storeVars
    BY DEF MptHoldersLedger, Become, Done
  <2> QED BY <1>3, <2>1 DEF StoredUpTo, AllStored, Held, storeVars, archiveVars
<1> QED BY <1>2, <1>3, <1>4, <1>5 DEF ListingOK, Asked, ListedExactly

(* A page is read; the first says whether the sweep had claimed the ledger. *)
LEMMA ListingPageStep ==
    ASSUME StoreInv, ListingOK, MptHoldersPage
    PROVE  ListingOK' /\ request'.kind = "mpt_holders"
<1> DEFINE F == ListingFields
           r == request
           i == r.ask.issuance
           upTo == IF r.ask.to = NoBound THEN LastLedger ELSE r.ask.to
           S == {t \in IssuanceTx(i) : LedgerOf[t] <= upTo}
           all == Reconstructed(S, i)
           rest == {e \in all : ObjectRank[e.holder] > r.after}
           rows == Ordered(rest, LAMBDA e, f : ObjectRank[e.holder] < ObjectRank[f.holder])
           page == SubSeq(rows, 1, Min({PageLimit, Len(rows)}))
           joined == r.got \o page
           first == r.after = NoBound
           steady == {e.holder : e \in all} \cap (IF first THEN Accounts ELSE r.steady)
           swept == IF first THEN Swept(i, r.ask.to) ELSE r.swept
           more == Len(rows) > PageLimit
           after == IF more THEN ObjectRank[Last(page).holder] ELSE r.after
           held == Holding({t \in Tx : LedgerOf[t] <= r.ask.to}, i)
<1>1. /\ HasFields(F) /\ r.kind = "mpt_holders" /\ r.at = "rows" /\ Asked /\ Paging
      /\ r.got \in Seq(Entry) /\ r.steady \subseteq Accounts /\ r.after \in Nat
      /\ \A k, l \in 1 .. Len(r.got) : k < l => <<r.got[k], r.got[l]>> \in ByRank
      /\ \A k \in 1 .. Len(r.got) : ObjectRank[r.got[k].holder] <= r.after
      /\ \A h \in r.steady :
            (\E k \in 1 .. Len(r.got) : r.got[k].holder = h) \/ ObjectRank[h] > r.after
  BY DEF ListingOK, MptHoldersPage, At, Paging
<1>2. r.swept /\ r.ask.to # NoBound =>
         /\ StoredUpTo(i, r.ask.to)
         /\ \A k \in 1 .. Len(r.got) : r.got[k] \in held
         /\ \A e \in held : (\E k \in 1 .. Len(r.got) : r.got[k] = e)
                            \/ ObjectRank[e.holder] > r.after
  BY <1>1 DEF ListingOK, ListedExactly
<1>3. i \in Issuances /\ r.ask.to \in Nat
  BY <1>1, AskFacts DEF Asked
<1>4. S \in SUBSET Tx /\ all = Holding(S, i)
  <2>1. S \in SUBSET Tx
    BY DEF IssuanceTx, StoreInv, StoreOK, ArchiveTypeOK
  <2> HIDE DEF S
  <2> QED BY <1>3, <2>1, ReconstructedIs
<1>5. /\ all \in SUBSET Entry /\ IsFiniteSet(all)
      /\ \A x, y \in all : x.holder = y.holder => x = y
  <2> HIDE DEF S, all
  <2> QED BY <1>4, HoldingFacts, Zenon
<1>6. /\ rest \in SUBSET Entry /\ IsFiniteSet(rest)
      /\ \A x, y \in rest : x.holder = y.holder => x = y
  <2>1. rest \in SUBSET all
    OBVIOUS
  <2> HIDE DEF all, rest
  <2> QED BY <1>5, <2>1, FS_Subset
<1>7. Lists(rows, rest, ByRank)
  <2> HIDE DEF rest
  <2> QED BY <1>6, EntriesInOrder
<1>8. /\ \A k \in 1 .. Len(r.got) : r.got[k] \in Entry /\ ObjectRank[r.got[k].holder] \in Nat
      /\ \A e \in all : e \in Entry /\ e.holder \in Accounts
      /\ \A h \in Accounts : ObjectRank[h] \in Nat /\ ObjectRank[h] > 0
  <2>1. \A h \in Accounts : ObjectRank[h] \in Nat /\ ObjectRank[h] > 0
    BY RankFacts
  <2>2. \A e \in Entry : e.holder \in Accounts
    BY DEF Entry
  <2>3. \A k \in 1 .. Len(r.got) : r.got[k] \in Entry
    BY <1>1
  <2> HIDE DEF all
  <2> QED BY <1>5, <2>1, <2>2, <2>3
<1>9. \A k \in 1 .. Len(r.got) : \A x \in rest : <<r.got[k], x>> \in ByRank
  <2>1. \A x \in rest : x \in all /\ ObjectRank[x.holder] > r.after
    OBVIOUS
  <2> HIDE DEF all, rest
  <2> QED BY <1>1, <1>8, <2>1, ByRankOrders
<1>10. Joined(r.got, page, rows, rest, Entry, ByRank)
  <2>1. page = SubSeq(rows, 1, Min({PageLimit, Len(rows)}))
    OBVIOUS
  <2> HIDE DEF rest, rows, page
  <2> QED BY <1>1, <1>6, <1>7, <1>9, <2>1, ByRankOrders, PageJoins
<1>11. /\ HasFields(F)' /\ request'.kind = r.kind /\ request'.ask = r.ask
       /\ request'.at = "ledger" /\ request'.got = joined /\ request'.steady = steady
       /\ request'.swept = swept /\ request'.more = more /\ request'.after = after
       /\ UNCHANGED storeVars
  <2>1. request = [f \in F |-> request[f]]
    BY <1>1 DEF HasFields
  <2>2. /\ request' = [r EXCEPT !.at = "ledger", !.got = joined, !.steady = steady,
                                !.swept = swept, !.more = more, !.after = after]
        /\ UNCHANGED storeVars
    BY Zenon DEF MptHoldersPage, Become
  <2> HIDE DEF joined, steady, swept, more, after
  <2> QED BY <2>1, <2>2 DEF HasFields, ListingFields
<1>12. /\ joined \in Seq(Entry) /\ \A k \in 1 .. Len(joined) : joined[k] \in Entry
       /\ \A k, l \in 1 .. Len(joined) : k < l => <<joined[k], joined[l]>> \in ByRank
       /\ \A k \in 1 .. Len(r.got) : \E l \in 1 .. Len(joined) : joined[l] = r.got[k]
       /\ \A k \in 1 .. Len(joined) :
             (\E l \in 1 .. Len(r.got) : joined[k] = r.got[l]) \/ joined[k] \in rest
  <2>1. /\ joined \in Seq(Entry)
        /\ \A k, l \in 1 .. Len(joined) : k < l => <<joined[k], joined[l]>> \in ByRank
        /\ \A k \in 1 .. Len(r.got) : \E l \in 1 .. Len(joined) : joined[l] = r.got[k]
        /\ \A k \in 1 .. Len(joined) :
              (\E l \in 1 .. Len(r.got) : joined[k] = r.got[l]) \/ joined[k] \in rest
    BY <1>10 DEF Joined
  <2> HIDE DEF joined
  <2>2. \A k \in 1 .. Len(joined) : joined[k] \in Entry
    BY <2>1
  <2> QED BY <2>1, <2>2
<1>13. Paging' <=> more
  BY <1>11 DEF Paging
<1>14. ASSUME more
       PROVE  /\ Last(page).holder \in Accounts /\ after = ObjectRank[Last(page).holder]
              /\ after \in Nat
              /\ \A k \in 1 .. Len(joined) : ObjectRank[joined[k].holder] <= after
              /\ \A e \in rest : (\E k \in 1 .. Len(joined) : joined[k] = e)
                                 \/ ObjectRank[e.holder] > after
  <2>1. /\ Last(page) \in rest
        /\ \A k \in 1 .. Len(joined) :
              joined[k] = Last(page) \/ <<joined[k], Last(page)>> \in ByRank
        /\ \A x \in rest : \/ \E k \in 1 .. Len(joined) : joined[k] = x
                           \/ <<Last(page), x>> \in ByRank
    BY <1>10, <1>14 DEF Joined
  <2>2. after = ObjectRank[Last(page).holder]
    BY <1>14
  <2> HIDE DEF joined, rest, page, all, after
  <2>3. \A x \in Entry : x.holder \in Accounts
    BY DEF Entry
  <2>4. Last(page) \in Entry /\ Last(page).holder \in Accounts /\ after \in Nat
    BY <1>6, <1>8, <2>1, <2>2, <2>3
  <2>5. ASSUME NEW k \in 1 .. Len(joined) PROVE ObjectRank[joined[k].holder] <= after
    <3>1. joined[k] \in Entry /\ ObjectRank[joined[k].holder] \in Nat
      BY <1>8, <1>12, <2>3
    <3>2. CASE joined[k] = Last(page)
      BY <2>2, <2>4, <3>2
    <3>3. CASE <<joined[k], Last(page)>> \in ByRank
      <4>1. ObjectRank[joined[k].holder] < ObjectRank[Last(page).holder]
        BY <2>4, <3>1, <3>3, ByRankOrders
      <4> QED BY <2>2, <2>4, <3>1, <4>1
    <3> QED BY <2>1, <3>2, <3>3
  <2>6. ASSUME NEW e \in rest, <<Last(page), e>> \in ByRank PROVE ObjectRank[e.holder] > after
    <3>1. e \in Entry /\ ObjectRank[e.holder] \in Nat
      BY <1>6, <1>8, <2>3
    <3> QED BY <2>2, <2>4, <2>6, <3>1, ByRankOrders
  <2> QED BY <2>1, <2>2, <2>4, <2>5, <2>6
<1>15. \A e \in rest : \/ \E k \in 1 .. Len(joined) : joined[k] = e
                       \/ more /\ ObjectRank[e.holder] > after
  <2>1. ~more => \A e \in rest : \E k \in 1 .. Len(joined) : joined[k] = e
    BY <1>10 DEF Joined
  <2> HIDE DEF joined, rest, more, after
  <2> QED BY <1>14, <2>1
<1>16. /\ \A e \in all : ObjectRank[e.holder] > r.after => e \in rest
       /\ \A e \in rest : e \in all
  OBVIOUS
<1>17. ASSUME NEW h \in steady
       PROVE  \/ \E k \in 1 .. Len(joined) : joined[k].holder = h
              \/ more /\ ObjectRank[h] > after
  <2>1. PICK e \in all : e.holder = h
    OBVIOUS
  <2>2. CASE e \in rest
    <3> HIDE DEF joined, rest, more, after, all
    <3> QED BY <1>15, <2>1, <2>2
  <2>3. CASE e \notin rest
    <3>1. ~first /\ ~(ObjectRank[h] > r.after)
      BY <1>8, <1>16, <2>1, <2>3 DEF NoBound
    <3>2. h \in r.steady
      BY <3>1
    <3>3. PICK k \in 1 .. Len(r.got) : r.got[k].holder = h
      BY <1>1, <3>1, <3>2
    <3> HIDE DEF joined
    <3> QED BY <1>12, <3>3
  <2> QED BY <2>2, <2>3
<1>18. ASSUME swept, r.ask.to # NoBound
       PROVE  /\ StoredUpTo(i, r.ask.to)
              /\ \A k \in 1 .. Len(joined) : joined[k] \in held
              /\ \A e \in held : \/ \E k \in 1 .. Len(joined) : joined[k] = e
                                 \/ more /\ ObjectRank[e.holder] > after
  <2>1. StoredUpTo(i, r.ask.to)
    <3>1. CASE first
      <4>1. Swept(i, r.ask.to)
        BY <1>18, <3>1
      <4> QED BY <1>3, <4>1, SweptStored
    <3>2. CASE ~first
      BY <1>2, <1>18, <3>2
    <3> QED BY <3>1, <3>2
  <2>2. all = held
    <3>1. upTo = r.ask.to
      BY <1>18
    <3>2. \A h \in Accounts : State(S, <<i, h>>) = State({t \in Tx : LedgerOf[t] <= r.ask.to}, <<i, h>>)
      BY <1>3, <2>1, <3>1, IssuanceRead
    <3> HIDE DEF S
    <3> QED BY <1>4, <3>2 DEF Holding
  <2>3. ~first => r.swept
    BY <1>18
  <2>4. first => \A k \in 1 .. Len(r.got) : FALSE
    <3> SUFFICES ASSUME first, NEW k \in 1 .. Len(r.got) PROVE FALSE
      OBVIOUS
    <3>1. ObjectRank[r.got[k].holder] <= 0
      BY <1>1 DEF NoBound
    <3>2. r.got[k].holder \in Accounts
      BY <1>8 DEF Entry
    <3> QED BY <1>8, <3>1, <3>2
  <2>5. \A k \in 1 .. Len(r.got) : r.got[k] \in held
    BY <1>2, <1>18, <2>3, <2>4
  <2>6. \A k \in 1 .. Len(joined) : joined[k] \in held
    <3> HIDE DEF joined, rest, all, held
    <3> QED BY <1>12, <1>16, <2>2, <2>5
  <2>7. ASSUME NEW e \in held
        PROVE  \/ \E k \in 1 .. Len(joined) : joined[k] = e
               \/ more /\ ObjectRank[e.holder] > after
    <3>1. CASE ObjectRank[e.holder] > r.after
      <4>1. e \in rest
        BY <1>16, <2>2, <3>1
      <4> HIDE DEF joined, rest, more, after
      <4> QED BY <1>15, <4>1
    <3>2. CASE ~(ObjectRank[e.holder] > r.after)
      <4>1. ~first
        <5>1. e \in all
          BY <2>2
        <5> HIDE DEF all, held
        <5> QED BY <1>8, <3>2, <5>1 DEF NoBound
      <4>2. \E k \in 1 .. Len(r.got) : r.got[k] = e
        BY <1>2, <1>18, <2>3, <3>2, <4>1
      <4> HIDE DEF joined
      <4> QED BY <1>12, <4>2
    <3> QED BY <3>1, <3>2
  <2> HIDE DEF joined, held, more, after
  <2> QED BY <2>1, <2>6, <2>7
<1>19. StoredUpTo(i, r.ask.to)' <=> StoredUpTo(i, r.ask.to)
  BY <1>11 DEF StoredUpTo, AllStored, Held, storeVars, archiveVars
<1>20. steady \subseteq Accounts /\ more \in BOOLEAN /\ after \in Nat
  <2>1. steady \subseteq Accounts
    BY <1>8
  <2>2. after \in Nat
    BY <1>1, <1>14
  <2>3. more \in BOOLEAN
    <3>1. Len(rows) \in Nat /\ PageLimit \in Nat
      BY <1>10, ReadsAssumption DEF Joined
    <3> HIDE DEF rows
    <3> QED BY <3>1
  <2> QED BY <2>1, <2>2, <2>3
<1> HIDE DEF joined, steady, swept, more, after
<1>21. request'.swept /\ request'.ask.to # NoBound =>
          /\ StoredUpTo(i, r.ask.to)'
          /\ \A k \in 1 .. Len(joined) : joined[k] \in held
          /\ \A e \in held : \/ \E k \in 1 .. Len(joined) : joined[k] = e
                             \/ Paging' /\ ObjectRank[e.holder] > after
  BY <1>11, <1>13, <1>18, <1>19
<1>22. Asked' /\ Paging' => \A k \in 1 .. Len(joined) : ObjectRank[joined[k].holder] <= after
  BY <1>13, <1>14
<1>23. Asked'
  BY <1>1, <1>11 DEF Asked
<1>24. \A h \in steady : (\E k \in 1 .. Len(joined) : joined[k].holder = h)
                         \/ (Paging' /\ ObjectRank[h] > after)
  BY <1>13, <1>17
<1> QED BY <1>1, <1>11, <1>12, <1>20, <1>21, <1>22, <1>23, <1>24 DEF ListingOK, ListedExactly

-----------------------------------------------------------------------------
(***************************************************************************)
(* gateway_balances: the deltas of every holder but the issuer, who holds  *)
(* nothing of its own.                                                     *)
(***************************************************************************)
GatewayTotal(i, account, l) ==
    SumFunction([h \in Accounts \ {account} |-> DeltaSum(<<i, h>>, 0, l)])

Obligations(i, l) == SumFunction([h \in Accounts |-> LedgerBalance(<<i, h>>, l)])

(* An obligation is an integer. *)
LEMMA GatewayTotalType ==
    ASSUME StoreInv, NEW i \in Issuances, NEW account, NEW l
    PROVE  GatewayTotal(i, account, l) \in Int
<1> DEFINE U == Accounts \ {account}
           f == [h \in U |-> DeltaSum(<<i, h>>, 0, l)]
<1>1. IsFiniteSet(U) /\ U \in SUBSET U
  BY ReadsAssumption, FS_Subset
<1>2. \A h \in U : f[h] \in Int
  <2>1. \A h \in U : <<i, h>> \in Balance
    BY DEF Balance
  <2> QED BY <2>1, DeltaSumType
<1>3. DOMAIN f = U
  OBVIOUS
<1>4. SumFunctionOnSet(f, U) \in Int
  <2> HIDE DEF f, U
  <2> QED BY <1>1, <1>2, SumType
<1>5. GatewayTotal(i, account, l) = SumFunctionOnSet(f, U)
  <2>1. GatewayTotal(i, account, l) = SumFunction(f)
    BY Zenon DEF GatewayTotal
  <2> HIDE DEF f
  <2> QED BY <1>3, <2>1 DEF SumFunction
<1> QED BY <1>4, <1>5

(* Over a stored history it is what the trust lines add up to; the issuer has none to itself. *)
LEMMA GatewayTotalExact ==
    ASSUME StoreInv, NEW i \in Issuances, NEW l \in Nat, StoredUpTo(i, l),
           \A h \in Accounts : Countable(<<i, h>>, l)
    PROVE  GatewayTotal(i, IssuerOf[i], l) = Obligations(i, l)
<1> DEFINE U == Accounts \ {IssuerOf[i]}
           f == [h \in U |-> DeltaSum(<<i, h>>, 0, l)]
           g == [h \in Accounts |-> LedgerBalance(<<i, h>>, l)]
           Z == {IssuerOf[i]}
<1>1. IsFiniteSet(Accounts) /\ IsFiniteSet(U)
  BY ReadsAssumption, FS_Subset
<1>2. \A h \in Accounts : g[h] \in Int
  BY BalanceType
<1>3. \A h \in U : f[h] = g[h]
  <2>1. ASSUME NEW h \in U PROVE DeltaSum(<<i, h>>, 0, l) = LedgerBalance(<<i, h>>, l)
    <3> DEFINE o == <<i, h>>
    <3>1. o \in Balance /\ o[1] = i /\ Countable(o, l)
      BY DEF Balance
    <3> HIDE DEF o
    <3>2. DeltaSum(o, 0, l) = LedgerBalance(o, l)
      BY <3>1, StoredSum
    <3> QED BY <3>2 DEF o
  <2> QED BY <2>1
<1>4. \A h \in Z : g[h] = 0
  <2> DEFINE o == <<i, IssuerOf[i]>>
  <2>1. \A t \in Tx : o \notin Touches[t]
    BY HistoryAssumption
  <2>2. LedgerBalance(o, l) = 0
    <3> HIDE DEF o
    <3> QED BY <2>1, NewestNone DEF LedgerBalance, State, Amount
  <2> QED BY <2>2, HistoryAssumption
<1>5. SumFunctionOnSet(g, Accounts) = SumFunctionOnSet(g, Accounts \ Z)
  <2>1. \A h \in Z \cap Accounts : g[h] = 0
    BY <1>4
  <2> HIDE DEF g, Z
  <2>2. \A S \in SUBSET Accounts : SumFunctionOnSet(g, S) = SumFunctionOnSet(g, S \ Z)
    BY <1>1, <1>2, <2>1, SumWithoutZeros
  <2> QED BY <2>2
<1>6. SumFunctionOnSet(f, U) = SumFunctionOnSet(g, U)
  <2>1. \A h \in U : g[h] \in Int
    BY <1>2
  <2> HIDE DEF f, g, U
  <2>2. \A S \in SUBSET U : SumFunctionOnSet(f, S) = SumFunctionOnSet(g, S)
    BY <1>1, <1>3, <2>1, SumAgrees
  <2> QED BY <2>2
<1>7. GatewayTotal(i, IssuerOf[i], l) = SumFunctionOnSet(f, U)
  <2>1. GatewayTotal(i, IssuerOf[i], l) = SumFunction(f) /\ DOMAIN f = U
    BY Zenon DEF GatewayTotal
  <2> HIDE DEF f
  <2> QED BY <2>1 DEF SumFunction
<1>8. Obligations(i, l) = SumFunctionOnSet(g, Accounts)
  <2>1. Obligations(i, l) = SumFunction(g)
    BY Zenon DEF Obligations
  <2>2. DOMAIN g = Accounts
    OBVIOUS
  <2> HIDE DEF g
  <2> QED BY <2>1, <2>2 DEF SumFunction
<1> HIDE DEF f, g
<1> QED BY <1>5, <1>6, <1>7, <1>8

(***************************************************************************)
(* The issuances summed once swept are not summed again, and the ledger    *)
(* reported does not change after the first query.                         *)
(***************************************************************************)
GatewayFields == {"kind", "ask", "at", "ledger", "todo", "total", "swept"}

GatewayOK ==
    LET mine == Ious(request.ask.account)
        l == request.ledger
    IN
    /\ HasFields(GatewayFields) /\ Asked
    /\ request.at \in {"latest", "coverage", "sums", "done", "refused"}
    /\ l \in Nat /\ request.todo \subseteq mine /\ request.swept \subseteq mine
    /\ request.total \in [mine -> Int]
    /\ request.at \in {"latest", "coverage"} => request.swept = {}
    /\ request.swept \cap request.todo = {}
    /\ \A i \in request.swept : (\A h \in Accounts : Countable(<<i, h>>, l)) =>
          request.total[i] = Obligations(i, l)

(* The latest ledgers are numbers. *)
LEMMA LatestLedgerType ==
    ASSUME StoreInv
    PROVE  /\ LatestLedger \in Nat /\ LatestTxLedger \in Nat
           /\ TxLedgers \in SUBSET (0 .. LastLedger)
<1>1. TxLedgers \in SUBSET (0 .. LastLedger)
  BY TxLedgersFacts DEF TxLedgers, StoreInv, StoreOK, ArchiveTypeOK
<1>2. ledgers \in SUBSET (0 .. LastLedger)
  BY ReadsAssumption DEF StoreInv, StoreOK
<1>3. TxLedgers \cup ledgers \in SUBSET (0 .. LastLedger)
  BY <1>1, <1>2
<1> QED BY <1>1, <1>3, RangeFacts DEF LatestLedger, LatestTxLedger

(* A client asks. *)
LEMMA GatewayAsked ==
    ASSUME NEW r \in Requests, AskGateway(r)
    PROVE  GatewayOK' /\ request'.kind = "gateway_balances"
<1>1. /\ r.kind = "gateway_balances"
      /\ request' = [kind |-> r.kind, ask |-> r, at |-> "latest", ledger |-> r.to, todo |-> {},
                     total |-> [i \in Ious(r.account) |-> 0], swept |-> {}]
  BY DEF AskGateway, Ask, Become
<1>2. /\ request'.kind = "gateway_balances" /\ request'.ask = r /\ request'.at = "latest"
      /\ request'.ledger = r.to /\ request'.todo = {} /\ request'.swept = {}
      /\ request'.total = [i \in Ious(r.account) |-> 0]
  BY <1>1
<1>3. HasFields(GatewayFields)'
  BY <1>1 DEF HasFields, GatewayFields
<1>4. r.to \in Nat
  BY AskFacts
<1> QED BY <1>1, <1>2, <1>3, <1>4 DEF GatewayOK, Asked, Ious

(* The ledger to report is read. *)
LEMMA GatewayLedgerStep ==
    ASSUME StoreInv, GatewayOK, GatewayLedger
    PROVE  GatewayOK' /\ request'.kind = "gateway_balances"
<1> DEFINE ledger == IF request.ask.to = NoBound THEN LatestLedger ELSE request.ask.to
           mine == Ious(request.ask.account)
<1>1. /\ request = [f \in GatewayFields |-> request[f]] /\ request.kind = "gateway_balances"
      /\ request.at = "latest" /\ request.swept = {} /\ Asked /\ request.total \in [mine -> Int]
  BY DEF GatewayOK, HasFields, GatewayLedger, At
<1>2. request' = [request EXCEPT !.at = "coverage", !.todo = mine, !.ledger = ledger]
  BY Zenon DEF GatewayLedger, Become
<1>3. ledger \in Nat
  BY <1>1, LatestLedgerType, AskFacts DEF Asked
<1> HIDE DEF ledger
<1>4. /\ HasFields(GatewayFields)' /\ request'.kind = request.kind /\ request'.ask = request.ask
      /\ request'.at = "coverage" /\ request'.todo = mine /\ request'.ledger = ledger
      /\ request'.total = request.total /\ request'.swept = {}
  BY <1>1, <1>2 DEF GatewayFields, HasFields
<1> QED BY <1>1, <1>3, <1>4 DEF GatewayOK, Asked, Ious

(* The coverage of an issuance is read, or the request refused. *)
LEMMA GatewayCoverageStep ==
    ASSUME GatewayOK, NEW i \in Issuances, GatewayCoverage(i)
    PROVE  GatewayOK' /\ request'.kind = "gateway_balances"
<1> DEFINE mine == Ious(request.ask.account)
<1>1. /\ request = [f \in GatewayFields |-> request[f]] /\ request.kind = "gateway_balances"
      /\ request.at = "coverage" /\ request.swept = {} /\ Asked /\ request.total \in [mine -> Int]
      /\ request.ledger \in Nat /\ request.todo \subseteq mine
  BY DEF GatewayOK, HasFields, GatewayCoverage, At
<1>2. PICK at \in {"sums", "coverage", "refused"}, todo \in SUBSET mine :
         \/ request' = [request EXCEPT !.at = at, !.todo = todo]
         \/ request' = [request EXCEPT !.at = at]
  <2> DEFINE rest == request.todo \ {i}
  <2>1. \/ request' = [request EXCEPT !.at = IF rest = {} THEN "sums" ELSE "coverage",
                                      !.todo = IF rest = {} THEN mine ELSE rest]
        \/ request' = [request EXCEPT !.at = "refused"]
    BY Zenon DEF GatewayCoverage, Become, Refuse
  <2>2. rest \in SUBSET mine
    BY <1>1
  <2> HIDE DEF rest, mine
  <2> QED BY <2>1, <2>2
<1>3. /\ HasFields(GatewayFields)' /\ request'.kind = request.kind /\ request'.ask = request.ask
      /\ request'.at = at /\ request'.ledger = request.ledger
      /\ request'.todo \in SUBSET mine
      /\ request'.total = request.total /\ request'.swept = {}
  <2> HIDE DEF mine
  <2> QED BY <1>1, <1>2 DEF GatewayFields, HasFields
<1> QED BY <1>1, <1>3 DEF GatewayOK, Asked, Ious

(* The deltas of an issuance are summed. *)
LEMMA GatewaySumStep ==
    ASSUME StoreInv, GatewayOK, NEW i \in Issuances, GatewaySum(i)
    PROVE  GatewayOK' /\ request'.kind = "gateway_balances"
<1> DEFINE mine == Ious(request.ask.account)
           l == request.ledger
           rest == request.todo \ {i}
           sum == GatewayTotal(i, request.ask.account, l)
           swept == IF Swept(i, l) THEN request.swept \cup {i} ELSE request.swept
<1>1. /\ request = [f \in GatewayFields |-> request[f]] /\ request.kind = "gateway_balances"
      /\ request.at = "sums" /\ Asked /\ request.total \in [mine -> Int]
      /\ l \in Nat /\ request.todo \subseteq mine /\ request.swept \subseteq mine
      /\ request.swept \cap request.todo = {} /\ i \in request.todo
      /\ \A k \in request.swept : (\A h \in Accounts : Countable(<<k, h>>, l)) =>
            request.total[k] = Obligations(k, l)
  BY DEF GatewayOK, HasFields, GatewaySum, At
<1>2. request' = [request EXCEPT !.at = IF rest = {} THEN "done" ELSE "sums",
                                 !.todo = rest,
                                 !.total[i] = sum,
                                 !.swept = IF Swept(i, l) THEN @ \cup {i} ELSE @]
  BY Zenon DEF GatewaySum, Become, GatewayTotal
<1>3. i \in mine /\ i \in Issuances /\ IssuerOf[i] = request.ask.account
  BY <1>1 DEF Ious
<1>4. sum \in Int
  BY <1>3, GatewayTotalType
<1>5. Swept(i, l) /\ (\A h \in Accounts : Countable(<<i, h>>, l)) => sum = Obligations(i, l)
  <2> SUFFICES ASSUME Swept(i, l), \A h \in Accounts : Countable(<<i, h>>, l)
               PROVE  sum = Obligations(i, l)
    OBVIOUS
  <2>1. StoredUpTo(i, l)
    BY <1>1, SweptStored
  <2> QED BY <1>1, <1>3, <2>1, GatewayTotalExact
<1> HIDE DEF sum, rest, mine
<1>6. /\ HasFields(GatewayFields)' /\ request'.kind = request.kind /\ request'.ask = request.ask
      /\ request'.at \in {"done", "sums"} /\ request'.ledger = l
      /\ request'.todo = rest /\ request'.swept = swept
      /\ request'.total = [request.total EXCEPT ![i] = sum]
  BY <1>1, <1>2 DEF GatewayFields, HasFields
<1>7. /\ rest \subseteq mine /\ i \notin rest /\ rest \subseteq request.todo
      /\ swept \subseteq mine /\ swept \cap rest = {}
  BY <1>1, <1>3 DEF rest
<1>8. request'.total \in [mine -> Int]
  BY <1>1, <1>4, <1>6
<1>9. ASSUME NEW k \in swept, \A h \in Accounts : Countable(<<k, h>>, l)
      PROVE  request'.total[k] = Obligations(k, l)
  <2>1. CASE k = i
    <3>1. Swept(i, l)
      BY <1>1, <1>9, <2>1
    <3>2. request'.total[i] = sum
      BY <1>1, <1>3, <1>6
    <3> QED BY <1>5, <1>9, <2>1, <3>1, <3>2
  <2>2. CASE k # i
    <3>1. k \in request.swept /\ k \in mine
      BY <1>9, <2>2, <1>7
    <3>2. request'.total[k] = request.total[k]
      BY <1>1, <1>6, <2>2, <3>1
    <3> QED BY <1>1, <1>9, <3>1, <3>2
  <2> QED BY <2>1, <2>2
<1> HIDE DEF swept
<1> QED BY <1>1, <1>6, <1>7, <1>8, <1>9 DEF GatewayOK, Asked, Ious, mine

-----------------------------------------------------------------------------
(***************************************************************************)
(* archive_transactions: the items of a range, zero deltas left out, add   *)
(* up to what the balance changed by.                                      *)
(***************************************************************************)
Items(o, from, l) ==
    LET rows == {d \in deltas : /\ d[2] = o[1] /\ d[3] = o[2]
                                /\ from <= LedgerOf[d[1]] /\ LedgerOf[d[1]] <= l}
        items == {[tx |-> d[1], delta |-> Delta(d[1], <<d[2], d[3]>>)] : d \in rows}
    IN  {e \in items : e.delta # 0}

(* The items of a range: one for each transaction that changed the balance. *)
LEMMA ItemsAre ==
    ASSUME StoreInv, NEW o \in Balance, NEW from, NEW l
    PROVE  Items(o, from, l) = {[tx |-> t, delta |-> Delta(t, o)] :
                                    t \in {s \in DeltaTx(o, from, l) : Delta(s, o) # 0}}
<1> DEFINE rows == {d \in deltas : /\ d[2] = o[1] /\ d[3] = o[2]
                                   /\ from <= LedgerOf[d[1]] /\ LedgerOf[d[1]] <= l}
           items == {[tx |-> d[1], delta |-> Delta(d[1], <<d[2], d[3]>>)] : d \in rows}
           item(t) == [tx |-> t, delta |-> Delta(t, o)]
           some == {s \in DeltaTx(o, from, l) : Delta(s, o) # 0}
<1>1. deltas \subseteq Tx \X Issuances \X Accounts
  BY DEF StoreInv, StoreOK, ArchiveTypeOK
<1>2. o = <<o[1], o[2]>>
  BY DEF Balance
<1>3. ASSUME NEW d \in rows PROVE /\ d[1] \in DeltaTx(o, from, l)
                                  /\ [tx |-> d[1], delta |-> Delta(d[1], <<d[2], d[3]>>)] = item(d[1])
  <2>1. d \in deltas /\ d = <<d[1], d[2], d[3]>> /\ d[1] \in Tx /\ d[2] = o[1] /\ d[3] = o[2]
        /\ from <= LedgerOf[d[1]] /\ LedgerOf[d[1]] <= l
    BY <1>1, <1>3
  <2>2. <<d[2], d[3]>> = o
    BY <1>2, <2>1
  <2>3. d[1] \in DeltaTx(o, from, l)
    BY <2>1 DEF DeltaTx
  <2> QED BY <2>2, <2>3
<1>4. ASSUME NEW t \in DeltaTx(o, from, l) PROVE \E d \in rows : d[1] = t
  <2>1. <<t, o[1], o[2]>> \in rows
    BY <1>4 DEF DeltaTx
  <2> QED BY <2>1
<1>5. Items(o, from, l) = {e \in items : e.delta # 0}
  BY DEF Items
<1>6. ASSUME NEW e PROVE e \in Items(o, from, l) <=> \E t \in some : e = item(t)
  <2>1. ASSUME e \in Items(o, from, l) PROVE \E t \in some : e = item(t)
    <3>1. PICK d \in rows : e = item(d[1])
      <4>1. e \in items
        BY <1>5, <2>1
      <4> HIDE DEF rows, item
      <4> QED BY <1>3, <4>1
    <3> DEFINE t == d[1]
    <3>2. t \in DeltaTx(o, from, l) /\ e = item(t)
      BY <1>3, <3>1
    <3>3. e.delta # 0
      BY <1>5, <2>1
    <3>4. Delta(t, o) # 0
      <4> HIDE DEF t
      <4> QED BY <3>2, <3>3
    <3> HIDE DEF t
    <3> QED BY <3>2, <3>4
  <2>2. ASSUME NEW t \in some, e = item(t) PROVE e \in Items(o, from, l)
    <3>1. PICK d \in rows : d[1] = t
      BY <1>4
    <3>2. e \in items
      BY <1>3, <2>2, <3>1
    <3>3. e.delta # 0
      BY <2>2
    <3> QED BY <1>5, <3>2, <3>3
  <2> QED BY <2>1, <2>2
<1> QED BY <1>6

(* What holds of all changes holds of those up to a ledger. *)
LEMMA CountableUpTo ==
    ASSUME NEW o, Countable(o, LastLedger), NEW l
    PROVE  Countable(o, l)
BY TxFacts DEF Countable

(* Over a stored history they add up to the change of the balance. *)
LEMMA ItemsExact ==
    ASSUME StoreInv, NEW o \in Balance, NEW from \in Nat, NEW l \in Nat, from <= l,
           StoredUpTo(o[1], l), Countable(o, LastLedger)
    PROVE  SumFunction([e \in Items(o, from, l) |-> e.delta])
             = LedgerBalance(o, l) - LedgerBalance(o, from - 1)
<1> DEFINE U == TouchedUpTo(o, l)
           P == TouchedUpTo(o, from - 1)
           Q == DeltaTx(o, from, l)
           f == [t \in U |-> Delta(t, o)]
           Z == {t \in Q : f[t] = 0}
           some == Q \ Z
           item == [t \in some |-> [tx |-> t, delta |-> Delta(t, o)]]
           change == [e \in Items(o, from, l) |-> e.delta]
<1>1. /\ U \in SUBSET Tx /\ IsFiniteSet(U) /\ \A t \in U : o \in Touches[t]
      /\ \A t \in U : f[t] \in Int /\ f[t] = Delta(t, o)
  <2>1. U \in SUBSET Tx /\ \A t \in U : o \in Touches[t]
    BY DEF TouchedUpTo
  <2> HIDE DEF U
  <2> QED BY <2>1, SomeTx, DeltaType
<1>2. /\ \A t \in Tx : t \in U <=> o \in Touches[t] /\ LedgerOf[t] <= l
      /\ \A t \in Tx : t \in P <=> o \in Touches[t] /\ LedgerOf[t] <= from - 1
      /\ \A t \in Tx : t \in Q <=> o \in Touches[t] /\ from <= LedgerOf[t] /\ LedgerOf[t] <= l
      /\ U \subseteq Tx /\ P \subseteq Tx /\ Q \subseteq Tx
  <2>1. \A t \in Tx : LedgerOf[t] <= l => (<<t, o[1], o[2]>> \in deltas <=> o \in Touches[t])
    BY StoredDeltas
  <2> QED BY <2>1 DEF TouchedUpTo, DeltaTx
<1>3. U = Q \cup P /\ P \in SUBSET U /\ Q \in SUBSET (U \ P) /\ Q \in SUBSET U
  <2>1. \A t \in Tx : LedgerOf[t] \in Nat
    BY TxFacts
  <2>2. \A t \in Tx : /\ LedgerOf[t] <= l <=> (LedgerOf[t] <= from - 1 \/ (from <= LedgerOf[t] /\ LedgerOf[t] <= l))
                      /\ ~(LedgerOf[t] <= from - 1 /\ from <= LedgerOf[t])
    BY <2>1
  <2> HIDE DEF U, P, Q
  <2> QED BY <1>2, <2>2
<1>4. SumFunctionOnSet(f, Q \cup P) = SumFunctionOnSet(f, Q) + SumFunctionOnSet(f, P)
  <2> HIDE DEF U, P, Q, f
  <2>1. \A S \in SUBSET (U \ P) :
           SumFunctionOnSet(f, S \cup P) = SumFunctionOnSet(f, S) + SumFunctionOnSet(f, P)
    BY <1>1, <1>3, SumSplits
  <2> QED BY <1>3, <2>1
<1>5. SumFunctionOnSet(f, U) = LedgerBalance(o, l)
  <2>1. Countable(o, l)
    BY CountableUpTo
  <2> HIDE DEF f
  <2> QED BY <1>1, <2>1, BalanceIsSum
<1>6. SumFunctionOnSet(f, P) = LedgerBalance(o, from - 1)
  <2>1. Countable(o, from - 1)
    BY CountableUpTo
  <2>2. \A t \in P : f[t] = Delta(t, o)
    BY <1>1, <1>3
  <2>3. from - 1 \in Int
    OBVIOUS
  <2> HIDE DEF f
  <2> QED BY <2>1, <2>2, <2>3, BalanceIsSum
<1>7. SumFunctionOnSet(f, Q) = SumFunctionOnSet(f, some)
  <2>1. \A t \in Z \cap U : f[t] = 0
    OBVIOUS
  <2> HIDE DEF f, U, Z, Q
  <2>2. \A S \in SUBSET U : SumFunctionOnSet(f, S) = SumFunctionOnSet(f, S \ Z)
    BY <1>1, <2>1, SumWithoutZeros
  <2> QED BY <1>3, <2>2
<1>8. SumFunctionOnSet(change, Items(o, from, l)) = SumFunctionOnSet(f, some)
  <2>1. Items(o, from, l) = {[tx |-> t, delta |-> Delta(t, o)] :
                                 t \in {s \in Q : Delta(s, o) # 0}}
    BY ItemsAre
  <2>2. some = {s \in Q : Delta(s, o) # 0} /\ some \in SUBSET U
    <3> HIDE DEF U, Q, f
    <3> QED BY <1>1, <1>3
  <2>3. \A t \in some : item[t].tx = t /\ item[t].delta = f[t] /\ item[t] \in Items(o, from, l)
    BY <1>1, <2>1, <2>2
  <2>4. \A e \in Items(o, from, l) : \E t \in some : item[t] = e
    BY <2>1, <2>2
  <2>5. IsFiniteSet(some) /\ \A t \in some : f[t] \in Int
    <3> HIDE DEF U, some, f
    <3> QED BY <1>1, <2>2, FS_Subset
  <2>6. \A e \in Items(o, from, l) : change[e] = e.delta
    OBVIOUS
  <2> HIDE DEF some, item, f, change
  <2>7. Carries(item, f, some, change, Items(o, from, l))
    BY <2>3, <2>4, <2>6 DEF Carries
  <2> QED BY <2>5, <2>7, SumCarried
<1>9. SumFunction(change) = SumFunctionOnSet(change, Items(o, from, l))
  <2>1. DOMAIN change = Items(o, from, l)
    OBVIOUS
  <2> HIDE DEF change
  <2> QED BY <2>1 DEF SumFunction
<1>10. LedgerBalance(o, l) \in Int /\ LedgerBalance(o, from - 1) \in Int
       /\ SumFunctionOnSet(f, Q) \in Int
  <2>1. LedgerBalance(o, l) \in Int /\ LedgerBalance(o, from - 1) \in Int
    BY BalanceType
  <2> HIDE DEF f, U, Q
  <2>2. \A S \in SUBSET U : SumFunctionOnSet(f, S) \in Int
    BY <1>1, SumType
  <2> QED BY <1>3, <2>1, <2>2
<1>11. SumFunction(change) = LedgerBalance(o, l) - LedgerBalance(o, from - 1)
  <2> HIDE DEF f, U, Q, P, change, some
  <2> QED BY <1>3, <1>4, <1>5, <1>6, <1>7, <1>8, <1>9, <1>10
<1> QED BY <1>11

(***************************************************************************)
(* The search for a date: the ledgers before lo had closed by then, as far *)
(* as the one kept shows, and those after hi had not, if all are known.    *)
(***************************************************************************)
Closed(first, last, date) == {l \in first .. last : CloseTime[l] <= date}

Searching(r) ==
    /\ r.lo \in Int /\ r.hi \in Int /\ r.first \in Int /\ r.last \in Int
    /\ 1 <= r.first /\ r.first <= r.lo /\ r.lo <= r.hi + 1 /\ r.hi <= r.last /\ r.last <= LastLedger
    /\ \/ r.ledger = NoBound
       \/ r.ledger = r.lo - 1 /\ r.ledger \in Closed(r.first, r.last, r.ask.date)
    /\ Untimed \cap (r.first .. r.last) = {} =>
          \A l \in r.first .. r.last : l > r.hi => CloseTime[l] > r.ask.date

Resolved(r) ==
    /\ r.ledger \in Closed(r.first, r.last, r.ask.date)
    /\ Untimed \cap (r.first .. r.last) = {} =>
          r.ledger = Max(Closed(r.first, r.last, r.ask.date))

(* The bounds of the search. *)
LEMMA SearchStarts ==
    ASSUME StoreInv, txRows # {}, NEW r, r.ledger = NoBound,
           r.lo = Min(TxLedgers), r.hi = Max(TxLedgers),
           r.first = Min(TxLedgers), r.last = Max(TxLedgers)
    PROVE  Searching(r)
<1>1. /\ TxLedgers \in SUBSET (0 .. LastLedger) /\ TxLedgers # {}
      /\ \A l \in TxLedgers : l \in Nat /\ l # 0 /\ l <= LastLedger
  <2>1. txRows \subseteq Tx
    BY DEF StoreInv, StoreOK, ArchiveTypeOK
  <2> QED BY <2>1, TxFacts, LatestLedgerType DEF TxLedgers
<1>2. /\ Min(TxLedgers) \in TxLedgers /\ \A l \in TxLedgers : Min(TxLedgers) <= l
      /\ Max(TxLedgers) \in TxLedgers /\ \A l \in TxLedgers : Max(TxLedgers) >= l
  <2>1. TxLedgers \in SUBSET Nat /\ TxLedgers \in SUBSET Int /\ IsFiniteSet(TxLedgers)
    BY <1>1, SomeLedgers
  <2> QED BY <1>1, <2>1, MinOf, MaxOf
<1> DEFINE low == Min(TxLedgers)  high == Max(TxLedgers)
<1>3. low \in Int /\ high \in Int /\ 1 <= low /\ low <= high /\ high <= LastLedger
  <2>1. low \in Nat /\ low # 0 /\ high \in Nat /\ high <= LastLedger /\ low <= high
    BY <1>1, <1>2
  <2> HIDE DEF low, high
  <2> QED BY <2>1
<1>4. \A l \in low .. high : ~(l > high)
  BY <1>3
<1> QED BY <1>3, <1>4, ReadsAssumption DEF Searching

(* A probe keeps what the search knows, and narrows it. *)
LEMMA SearchProbes ==
    ASSUME NEW r, Searching(r), r.lo <= r.hi, NEW known \in BOOLEAN, NEW mid,
           mid = r.lo + (r.hi - r.lo) \div 2, known \/ mid \in Untimed,
           NEW s, s.ask = r.ask, s.first = r.first, s.last = r.last,
           IF known /\ CloseTime[mid] <= r.ask.date
           THEN s.ledger = mid /\ s.lo = mid + 1 /\ s.hi = r.hi
           ELSE s.ledger = r.ledger /\ s.lo = r.lo /\ s.hi = mid - 1,
           r.ask.date \in Nat
    PROVE  Searching(s) /\ mid \in 1 .. LastLedger /\ s.hi - s.lo < r.hi - r.lo
<1> DEFINE lo == r.lo  hi == r.hi  first == r.first  last == r.last  date == r.ask.date
<1>1. /\ lo \in Int /\ hi \in Int /\ first \in Int /\ last \in Int /\ date \in Nat
      /\ 1 <= first /\ first <= lo /\ lo <= hi /\ hi <= last /\ last <= LastLedger
      /\ LastLedger \in Nat
  BY ReadsAssumption DEF Searching
<1>2. mid \in Int /\ lo <= mid /\ mid <= hi
  <2> HIDE DEF lo, hi
  <2>1. mid = lo + (hi - lo) \div 2
    BY DEF lo, hi
  <2> QED BY <1>1, <2>1
<1>3. /\ \A k \in 1 .. LastLedger : CloseTime[k] \in Nat
      /\ \A k, l \in 1 .. LastLedger : k < l => CloseTime[k] < CloseTime[l]
  BY ReadsAssumption
<1>4. /\ r.ledger = NoBound \/ (r.ledger = lo - 1 /\ r.ledger \in Closed(first, last, date))
      /\ Untimed \cap (first .. last) = {} =>
            \A l \in first .. last : l > hi => CloseTime[l] > date
  BY DEF Searching
<1>5. mid \in first .. last /\ mid \in 1 .. LastLedger
  <2> HIDE DEF lo, hi, first, last
  <2> QED BY <1>1, <1>2
<1>6. CASE known /\ CloseTime[mid] <= date
  <2>1. s.ledger = mid /\ s.lo = mid + 1 /\ s.hi = hi /\ s.first = first /\ s.last = last
        /\ s.ask.date = date
    BY <1>6
  <2>2. mid \in Closed(first, last, date)
    BY <1>5, <1>6 DEF Closed
  <2> HIDE DEF lo, hi, first, last, date
  <2>3. Searching(s)
    BY <1>1, <1>2, <1>4, <2>1, <2>2 DEF Searching
  <2>4. s.hi - s.lo < hi - lo
    BY <1>1, <1>2, <2>1
  <2> QED BY <1>5, <2>3, <2>4 DEF lo, hi
<1>7. CASE ~(known /\ CloseTime[mid] <= date)
  <2>1. s.ledger = r.ledger /\ s.lo = lo /\ s.hi = mid - 1 /\ s.first = first /\ s.last = last
        /\ s.ask.date = date
    BY <1>7
  <2>2. ASSUME Untimed \cap (first .. last) = {}, NEW l \in first .. last, l > mid - 1
        PROVE  CloseTime[l] > date
    <3>1. CloseTime[mid] > date
      <4>1. known
        BY <1>5, <2>2
      <4> QED BY <1>1, <1>3, <1>5, <1>7, <4>1
    <3>2. l \in 1 .. LastLedger /\ (l = mid \/ mid < l)
      <4> HIDE DEF first, last
      <4> QED BY <1>1, <1>2, <2>2
    <3> HIDE DEF date
    <3> QED BY <1>1, <1>3, <1>5, <3>1, <3>2
  <2> HIDE DEF lo, hi, first, last, date
  <2>3. Searching(s)
    BY <1>1, <1>2, <1>4, <2>1, <2>2 DEF Searching
  <2>4. s.hi - s.lo < hi - lo
    BY <1>1, <1>2, <2>1
  <2> QED BY <1>5, <2>3, <2>4 DEF lo, hi
<1> QED BY <1>6, <1>7

(* Where the search ends, it has found what it was for. *)
LEMMA SearchResolves ==
    ASSUME NEW r, Searching(r), r.lo > r.hi, r.ledger # NoBound, r.ask.date \in Nat
    PROVE  Resolved(r) /\ r.ledger \in Nat
<1> DEFINE closed == Closed(r.first, r.last, r.ask.date)
<1>1. r.ledger = r.hi /\ r.ledger \in closed
  BY DEF Searching
<1>2. closed \in SUBSET (0 .. LastLedger)
  <2> DEFINE first == r.first  last == r.last
  <2>1. first \in Int /\ last \in Int /\ 1 <= first /\ last <= LastLedger /\ LastLedger \in Nat
    BY ReadsAssumption DEF Searching
  <2>2. closed \subseteq first .. last
    BY DEF Closed
  <2> HIDE DEF first, last, closed
  <2>3. \A l \in first .. last : l \in 0 .. LastLedger
    BY <2>1
  <2> QED BY <2>2, <2>3
<1>3. ASSUME Untimed \cap (r.first .. r.last) = {} PROVE r.ledger = Max(closed)
  <2>1. closed \in SUBSET Int /\ IsFiniteSet(closed)
    BY <1>2, SomeLedgers
  <2>2. Max(closed) \in closed /\ \A l \in closed : Max(closed) >= l
    BY <1>1, <2>1, MaxOf
  <2>3. \A l \in closed : l <= r.ledger
    <3> SUFFICES ASSUME NEW l \in closed, ~(l <= r.ledger) PROVE FALSE
      OBVIOUS
    <3>1. l \in r.first .. r.last /\ CloseTime[l] <= r.ask.date
      BY DEF Closed
    <3>2. l > r.hi
      BY <1>1, <3>1 DEF Searching
    <3>3. CloseTime[l] > r.ask.date
      BY <1>3, <3>1, <3>2 DEF Searching
    <3>4. CloseTime[l] \in Nat
      BY <3>1, ReadsAssumption DEF Searching
    <3> QED BY <3>1, <3>3, <3>4
  <2>4. Max(closed) \in Int /\ r.ledger \in Int
    BY <1>1, <2>1, <2>2
  <2> HIDE DEF closed
  <2> QED BY <1>1, <2>2, <2>3, <2>4
<1>4. r.ledger \in Nat
  BY <1>1, <1>2
<1> QED BY <1>1, <1>3, <1>4 DEF Resolved

ReportFields ==
    {"kind", "ask", "at", "ledger", "lo", "hi", "first", "last", "items", "balance",
     "warned", "swept"}

(* What a report says, once it is there. *)
Reported(r) ==
    LET o == <<r.ask.issuance, r.ask.account>> IN
    r.swept /\ Countable(o, LastLedger) =>
        /\ r.kind = "archive_balance_at" /\ r.at \in {"coverage", "done"} =>
              r.balance = LedgerBalance(o, r.ledger)
        /\ r.kind = "archive_transactions" /\ r.at = "done" /\ r.ask.from <= r.ledger =>
              SumFunction([e \in r.items |-> e.delta])
                  = LedgerBalance(o, r.ledger) - LedgerBalance(o, r.ask.from - 1)

ReportOK ==
    /\ HasFields(ReportFields) /\ Asked
    /\ request.at \in {"bounds", "latest", "probe", "sum", "coverage", "done", "refused"}
    /\ request.ledger \in Nat
    /\ request.at = "latest" => request.ask.date = NoBound
    /\ request.at \in {"bounds", "latest"} => request.ledger = NoBound
    /\ request.at = "probe" => Searching(request)
    /\ request.at \in {"sum", "coverage", "done"} /\ request.ask.date # NoBound =>
          Resolved(request)
    /\ Reported(request)

(* A client asks. *)
LEMMA ReportAsked ==
    ASSUME NEW r \in Requests, AskReport(r)
    PROVE  ReportOK' /\ request'.kind \in Reporting
<1>1. /\ r.kind \in Reporting
      /\ request' = [kind |-> r.kind, ask |-> r,
                     at |-> IF r.date # NoBound THEN "bounds" ELSE "latest", ledger |-> NoBound,
                     lo |-> 0, hi |-> 0, first |-> 0, last |-> 0,
                     items |-> {}, balance |-> 0, warned |-> FALSE, swept |-> FALSE]
  BY DEF AskReport, Ask, Become
<1>2. /\ request'.kind = r.kind /\ request'.ask = r /\ request'.ledger = NoBound
      /\ request'.at = IF r.date # NoBound THEN "bounds" ELSE "latest"
      /\ request'.swept = FALSE
  BY <1>1
<1>3. HasFields(ReportFields)'
  BY <1>1 DEF HasFields, ReportFields
<1> QED BY <1>1, <1>2, <1>3 DEF ReportOK, Asked, Reported, NoBound

(***************************************************************************)
(* A step that only moves a report on, or refuses it.                      *)
(***************************************************************************)
LEMMA ReportLedgerStep ==
    ASSUME StoreInv, ReportOK, ReportLedger
    PROVE  ReportOK' /\ request'.kind \in Reporting
<1> DEFINE ledger == IF request.ask.to = NoBound THEN LatestTxLedger ELSE request.ask.to
<1>1. /\ request = [f \in ReportFields |-> request[f]] /\ request.kind \in Reporting
      /\ request.at = "latest" /\ Asked /\ request.ask.date = NoBound /\ request.ledger = NoBound
  BY DEF ReportOK, HasFields, ReportLedger
<1>2. \/ request' = [request EXCEPT !.at = "refused"]
      \/ request' = [request EXCEPT !.at = "sum", !.ledger = ledger]
  BY Zenon DEF ReportLedger, Become, Refuse
<1>3. ledger \in Nat
  BY <1>1, LatestLedgerType, AskFacts DEF Asked
<1> HIDE DEF ledger
<1>4. /\ HasFields(ReportFields)' /\ request'.kind = request.kind /\ request'.ask = request.ask
      /\ request'.at \in {"refused", "sum"} /\ request'.ledger \in Nat
  <2>1. CASE request' = [request EXCEPT !.at = "refused"]
    BY <1>1, <2>1 DEF ReportFields, HasFields, NoBound
  <2>2. CASE request' = [request EXCEPT !.at = "sum", !.ledger = ledger]
    BY <1>1, <1>3, <2>2 DEF ReportFields, HasFields
  <2> QED BY <1>2, <2>1, <2>2
<1> QED BY <1>1, <1>4 DEF ReportOK, Asked, Reported

(* The bounds of the search are read, or the request refused. *)
LEMMA SearchBoundsStep ==
    ASSUME StoreInv, ReportOK, SearchBounds
    PROVE  ReportOK' /\ request'.kind \in Reporting
<1> DEFINE low == Min(TxLedgers)  high == Max(TxLedgers)
<1>1. /\ request = [f \in ReportFields |-> request[f]] /\ request.kind \in Reporting
      /\ request.at = "bounds" /\ Asked /\ request.ledger = NoBound
  BY DEF ReportOK, HasFields, SearchBounds
<1>2. CASE txRows = {}
  <2>1. request' = [request EXCEPT !.at = "refused"]
    BY <1>2 DEF SearchBounds, Refuse, Become
  <2>2. /\ HasFields(ReportFields)' /\ request'.kind = request.kind /\ request'.ask = request.ask
        /\ request'.at = "refused" /\ request'.ledger = NoBound
    BY <1>1, <2>1 DEF ReportFields, HasFields
  <2> QED BY <1>1, <2>2 DEF ReportOK, Asked, Reported, NoBound
<1>3. CASE txRows # {}
  <2>1. request' = [request EXCEPT !.at = "probe", !.lo = low, !.hi = high,
                                   !.first = low, !.last = high]
    BY <1>3 DEF SearchBounds, Become
  <2>2. /\ HasFields(ReportFields)' /\ request'.kind = request.kind /\ request'.ask = request.ask
        /\ request'.at = "probe" /\ request'.ledger = NoBound
        /\ request'.lo = low /\ request'.hi = high /\ request'.first = low /\ request'.last = high
    <3> HIDE DEF low, high
    <3> QED BY <1>1, <2>1 DEF ReportFields, HasFields
  <2>3. Searching(request')
    BY <1>3, <2>2, SearchStarts
  <2> QED BY <1>1, <2>2, <2>3 DEF ReportOK, Asked, Reported, Searching, NoBound
<1> QED BY <1>2, <1>3

(* A probe, which may record the close time it asked for. *)
LEMMA ProbeStep ==
    ASSUME StoreInv, ReportOK, Probe
    PROVE  /\ ReportOK' /\ request'.kind \in Reporting
           /\ request'.hi - request'.lo < request.hi - request.lo
           /\ UNCHANGED <<archiveVars, holders, jobs, cursor, tip>>
           /\ ledgers' \subseteq 1 .. LastLedger
<1> DEFINE mid == request.lo + (request.hi - request.lo) \div 2
           known == mid \in ledgers \/ mid \notin Untimed
<1>1. /\ request = [f \in ReportFields |-> request[f]] /\ request.kind \in Reporting
      /\ request.at = "probe" /\ Asked /\ request.ledger \in Nat /\ Searching(request)
      /\ request.lo <= request.hi
  BY DEF ReportOK, HasFields, Probe
<1>2. /\ request' = Narrowed(request, mid, known)
      /\ ledgers' = IF known THEN ledgers \cup {mid} ELSE ledgers
      /\ UNCHANGED <<archiveVars, holders, jobs, cursor, tip>>
  BY Zenon DEF Probe
<1>3. request.ask.date \in Nat
  BY <1>1, AskFacts DEF Asked
<1>4. (known \/ mid \in Untimed) /\ known \in BOOLEAN
      /\ mid = request.lo + (request.hi - request.lo) \div 2
  OBVIOUS
<1> HIDE DEF mid, known
<1>5. /\ HasFields(ReportFields)' /\ request'.kind = request.kind /\ request'.ask = request.ask
      /\ request'.at = "probe" /\ request'.first = request.first /\ request'.last = request.last
      /\ IF known /\ CloseTime[mid] <= request.ask.date
         THEN request'.ledger = mid /\ request'.lo = mid + 1 /\ request'.hi = request.hi
         ELSE request'.ledger = request.ledger /\ request'.lo = request.lo /\ request'.hi = mid - 1
  BY <1>1, <1>2 DEF ReportFields, HasFields, Narrowed
<1>6. Searching(request') /\ mid \in 1 .. LastLedger
      /\ request'.hi - request'.lo < request.hi - request.lo
  BY <1>1, <1>3, <1>4, <1>5, SearchProbes
<1>7. request'.ledger \in Nat
  BY <1>1, <1>5, <1>6
<1>8. ledgers' \subseteq 1 .. LastLedger
  BY <1>2, <1>6 DEF StoreInv, StoreOK
<1> QED BY <1>1, <1>2, <1>5, <1>6, <1>7, <1>8 DEF ReportOK, Asked, Reported

(* A probe fails. *)
LEMMA ProbeFailsStep ==
    ASSUME ReportOK, ProbeFails
    PROVE  ReportOK' /\ request'.kind \in Reporting
<1>1. /\ request = [f \in ReportFields |-> request[f]] /\ request.kind \in Reporting /\ Asked
      /\ request.ledger \in Nat
  BY DEF ReportOK, HasFields, ProbeFails
<1>2. request' = [request EXCEPT !.at = "refused"]
  BY DEF ProbeFails, Refuse, Become
<1>3. /\ HasFields(ReportFields)' /\ request'.kind = request.kind /\ request'.ask = request.ask
      /\ request'.at = "refused" /\ request'.ledger = request.ledger
  BY <1>1, <1>2 DEF ReportFields, HasFields
<1> QED BY <1>1, <1>3 DEF ReportOK, Asked, Reported

(* The search ends, with a ledger or without. *)
LEMMA SearchEndsStep ==
    ASSUME ReportOK, SearchEnds
    PROVE  ReportOK' /\ request'.kind \in Reporting
<1>1. /\ request = [f \in ReportFields |-> request[f]] /\ request.kind \in Reporting /\ Asked
      /\ request.at = "probe" /\ request.ledger \in Nat /\ Searching(request)
      /\ request.lo > request.hi
  BY DEF ReportOK, HasFields, SearchEnds
<1>2. IF request.ledger = NoBound THEN request' = [request EXCEPT !.at = "refused"]
                                  ELSE request' = [request EXCEPT !.at = "sum"]
  BY DEF SearchEnds, Refuse, Become
<1>3. /\ HasFields(ReportFields)' /\ request'.kind = request.kind /\ request'.ask = request.ask
      /\ request'.at = IF request.ledger = NoBound THEN "refused" ELSE "sum"
      /\ request'.ledger = request.ledger
      /\ request'.first = request.first /\ request'.last = request.last
  BY <1>1, <1>2 DEF ReportFields, HasFields
<1>4. request.ledger # NoBound => Resolved(request)
  BY <1>1, AskFacts, SearchResolves DEF Asked
<1>5. request'.at = "sum" => Resolved(request')
  BY <1>3, <1>4 DEF Resolved
<1> QED BY <1>1, <1>3, <1>5 DEF ReportOK, Asked, Reported

(* The items of the range are read. *)
LEMMA ReportItemsStep ==
    ASSUME StoreInv, ReportOK, ReportItems
    PROVE  ReportOK' /\ request'.kind \in Reporting
<1> DEFINE o == <<request.ask.issuance, request.ask.account>>
           l == request.ledger
           from == request.ask.from
           items == Items(o, from, l)
           swept == Swept(request.ask.issuance, l)
<1>1. /\ request = [f \in ReportFields |-> request[f]] /\ request.kind = "archive_transactions"
      /\ Asked /\ request.at = "sum" /\ l \in Nat
      /\ request.ask.date # NoBound => Resolved(request)
  BY DEF ReportOK, HasFields, ReportItems, At
<1>2. /\ request' = [[request EXCEPT !.items = items, !.swept = swept] EXCEPT !.at = "done"]
  <2>1. o[1] = request.ask.issuance /\ o[2] = request.ask.account
    OBVIOUS
  <2> DEFINE rows == {d \in deltas : /\ d[2] = request.ask.issuance /\ d[3] = request.ask.account
                                     /\ from <= LedgerOf[d[1]] /\ LedgerOf[d[1]] <= l}
             found == {e \in {[tx |-> d[1], delta |-> Delta(d[1], <<d[2], d[3]>>)] : d \in rows} :
                          e.delta # 0}
  <2>2. request' = [[request EXCEPT !.items = found, !.swept = swept] EXCEPT !.at = "done"]
    BY Zenon DEF ReportItems, Become, Done
  <2>3. found = items
    <3>1. items = {e \in {[tx |-> d[1], delta |-> Delta(d[1], <<d[2], d[3]>>)] :
                            d \in {x \in deltas : /\ x[2] = o[1] /\ x[3] = o[2]
                                                  /\ from <= LedgerOf[x[1]] /\ LedgerOf[x[1]] <= l}} :
                      e.delta # 0}
      BY Zenon DEF Items
    <3> HIDE DEF o
    <3> QED BY <2>1, <3>1, Zenon
  <2> QED BY <2>2, <2>3, Zenon
<1>3. o \in Balance /\ o[1] = request.ask.issuance /\ from \in Nat
  BY <1>1, AskFacts DEF Asked, Balance
<1>4. swept /\ Countable(o, LastLedger) /\ from <= l =>
         SumFunction([e \in items |-> e.delta])
             = LedgerBalance(o, l) - LedgerBalance(o, from - 1)
  <2> SUFFICES ASSUME swept, Countable(o, LastLedger), from <= l
               PROVE  SumFunction([e \in items |-> e.delta])
                        = LedgerBalance(o, l) - LedgerBalance(o, from - 1)
    OBVIOUS
  <2>1. StoredUpTo(o[1], l)
    BY <1>1, <1>3, SweptStored DEF Balance
  <2> HIDE DEF o
  <2> QED BY <1>1, <1>3, <2>1, ItemsExact
<1> HIDE DEF items, swept
<1>5. /\ HasFields(ReportFields)' /\ request'.kind = request.kind /\ request'.ask = request.ask
      /\ request'.at = "done" /\ request'.ledger = l
      /\ request'.first = request.first /\ request'.last = request.last
      /\ request'.items = items /\ request'.swept = swept
  BY <1>1, <1>2 DEF ReportFields, HasFields
<1>6. Resolved(request) => Resolved(request')
  BY <1>5 DEF Resolved
<1>7. Reported(request')
  BY <1>1, <1>4, <1>5 DEF Reported
<1> QED BY <1>1, <1>5, <1>6, <1>7 DEF ReportOK, Asked, Reporting

(* The balance is summed. *)
LEMMA BalanceSumStep ==
    ASSUME StoreInv, ReportOK, BalanceSum
    PROVE  ReportOK' /\ request'.kind \in Reporting
<1> DEFINE o == <<request.ask.issuance, request.ask.account>>
           l == request.ledger
           swept == Swept(o[1], l)
           balance == DeltaSum(o, 0, l)
<1>1. /\ request = [f \in ReportFields |-> request[f]] /\ request.kind = "archive_balance_at"
      /\ Asked /\ request.at = "sum" /\ l \in Nat
      /\ request.ask.date # NoBound => Resolved(request)
  BY DEF ReportOK, HasFields, BalanceSum, At
<1>2. \/ request' = [request EXCEPT !.at = "refused"]
      \/ request' = [request EXCEPT !.at = "coverage", !.balance = balance, !.swept = swept]
  BY Zenon DEF BalanceSum, Become, Refuse
<1>3. o \in Balance /\ o[1] = request.ask.issuance /\ o[1] \in Issuances
  BY <1>1, AskFacts DEF Asked, Balance
<1>4. swept /\ Countable(o, LastLedger) => balance = LedgerBalance(o, l)
  <2> SUFFICES ASSUME swept, Countable(o, LastLedger) PROVE balance = LedgerBalance(o, l)
    OBVIOUS
  <2>1. StoredUpTo(o[1], l) /\ Countable(o, l)
    BY <1>1, <1>3, SweptStored, CountableUpTo
  <2> HIDE DEF o
  <2> QED BY <1>1, <1>3, <2>1, StoredSum
<1> HIDE DEF swept, balance
<1>5. CASE request' = [request EXCEPT !.at = "refused"]
  <2>1. /\ HasFields(ReportFields)' /\ request'.kind = request.kind /\ request'.ask = request.ask
        /\ request'.at = "refused" /\ request'.ledger = l
    BY <1>1, <1>5 DEF ReportFields, HasFields
  <2> QED BY <1>1, <2>1 DEF ReportOK, Asked, Reported, Reporting
<1>6. CASE request' = [request EXCEPT !.at = "coverage", !.balance = balance, !.swept = swept]
  <2>1. /\ HasFields(ReportFields)' /\ request'.kind = request.kind /\ request'.ask = request.ask
        /\ request'.at = "coverage" /\ request'.ledger = l
        /\ request'.first = request.first /\ request'.last = request.last
        /\ request'.balance = balance /\ request'.swept = swept
    BY <1>1, <1>6 DEF ReportFields, HasFields
  <2>2. Resolved(request) => Resolved(request')
    BY <2>1 DEF Resolved
  <2>3. Reported(request')
    BY <1>1, <1>4, <2>1 DEF Reported
  <2> QED BY <1>1, <2>1, <2>2, <2>3 DEF ReportOK, Asked, Reporting
<1> QED BY <1>2, <1>5, <1>6

(* The coverage is read for the warning. *)
LEMMA BalanceCoverageStep ==
    ASSUME ReportOK, BalanceCoverage
    PROVE  ReportOK' /\ request'.kind \in Reporting
<1>1. /\ request = [f \in ReportFields |-> request[f]] /\ request.kind = "archive_balance_at"
      /\ Asked /\ request.at = "coverage" /\ request.ledger \in Nat /\ Reported(request)
      /\ request.ask.date # NoBound => Resolved(request)
  BY DEF ReportOK, HasFields, BalanceCoverage, At
<1>2. PICK warned : request' = [[request EXCEPT !.warned = warned] EXCEPT !.at = "done"]
  BY Zenon DEF BalanceCoverage, Become, Done
<1>3. /\ HasFields(ReportFields)' /\ request'.kind = request.kind /\ request'.ask = request.ask
      /\ request'.at = "done" /\ request'.ledger = request.ledger
      /\ request'.first = request.first /\ request'.last = request.last
      /\ request'.balance = request.balance /\ request'.swept = request.swept
  BY <1>1, <1>2 DEF ReportFields, HasFields
<1>4. Resolved(request) => Resolved(request')
  BY <1>3 DEF Resolved
<1>5. Reported(request')
  BY <1>1, <1>3 DEF Reported
<1> QED BY <1>1, <1>3, <1>4, <1>5 DEF ReportOK, Asked, Reporting

-----------------------------------------------------------------------------
(***************************************************************************)
(* account_lines: the account's own lines, and those of its IOUs from the  *)
(* other side.                                                             *)
(***************************************************************************)
LiveLines(S) == {o \in Balance : o[1] \notin Mpts /\ State(S, o) # Gone}

HeldLine(S, o) ==
    [currency |-> o[1], peer |-> IssuerOf[o[1]], balance |-> Amount(State(S, o))]
OwedLine(S, o) ==
    [currency |-> o[1], peer |-> o[2], balance |-> 0 - Amount(State(S, o))]

LinesOf(S, a) ==
    {HeldLine(S, o) : o \in {x \in LiveLines(S) : x[2] = a}} \cup
    {OwedLine(S, o) : o \in {x \in LiveLines(S) : IssuerOf[x[1]] = a}}

(* Nobody has a trust line to itself. *)
LEMMA OneSide ==
    ASSUME NEW S \in SUBSET Tx, NEW o \in LiveLines(S)
    PROVE  o[2] # IssuerOf[o[1]]
<1>1. SUFFICES ASSUME o[2] = IssuerOf[o[1]] PROVE FALSE
  OBVIOUS
<1>2. o = <<o[1], o[2]>> /\ o[1] \in Issuances /\ o[2] \in Accounts /\ State(S, o) # Gone
  BY DEF LiveLines, Balance
<1>3. \A t \in S : o \notin Touches[t]
  BY <1>1, <1>2, HistoryAssumption
<1> QED BY <1>2, <1>3, NewestNone DEF State

(* toAccountLines gives an account's live lines as it sees them. *)
LEMMA LinesAre ==
    ASSUME NEW S \in SUBSET Tx, NEW a \in Accounts
    PROVE  AccountLines(S, a) = LinesOf(S, a)
<1> DEFINE mine == {o \in Balance : o[1] \notin Mpts /\ a \in {o[2], IssuerOf[o[1]]}}
           isLow(o) == (o[2] \in LowSide) = (a = o[2])
           line(r) == [currency |-> r.object[1],
                       peer     |-> IF a = r.object[2] THEN IssuerOf[r.object[1]] ELSE r.object[2],
                       balance  |-> IF isLow(r.object) THEN r.node.final ELSE 0 - r.node.final]
           of(o) == [object |-> o, node |-> Node(Newest(S, o), o)]
<1>1. AccountLines(S, a) = {line(r) : r \in Live(S, mine)}
  BY DEF AccountLines
<1>2. ASSUME NEW o \in LiveLines(S), a \in {o[2], IssuerOf[o[1]]}
      PROVE  /\ of(o) \in Live(S, mine)
             /\ a = o[2] => line(of(o)) = HeldLine(S, o)
             /\ a # o[2] => line(of(o)) = OwedLine(S, o)
  <2>1. Newest(S, o) # 0 /\ State(S, o) # Gone /\ o \in mine /\ o[1] \notin Mpts
    BY <1>2 DEF LiveLines, State
  <2>2. /\ of(o).node.kind # "deleted" /\ of(o).object = o
        /\ of(o).node.final = Sign(o) * Amount(State(S, o))
    BY <2>1, LatestNode
  <2>3. of(o) \in Live(S, mine)
    BY <2>1, <2>2 DEF Live, LatestObjects
  <2> DEFINE amount == Amount(State(S, o))  final == of(o).node.final
  <2>4. amount \in Nat /\ final = Sign(o) * amount
    BY <2>2, StateType
  <2>5. Sign(o) = IF o[2] \in LowSide THEN 1 ELSE -1
    BY <2>1 DEF Sign
  <2>6. ((IF isLow(o) THEN final ELSE 0 - final) = amount) \/ a # o[2]
    <3> HIDE DEF amount, final
    <3> QED BY <2>4, <2>5
  <2>7. ((IF isLow(o) THEN final ELSE 0 - final) = 0 - amount) \/ a = o[2]
    <3> HIDE DEF amount, final
    <3> QED BY <2>4, <2>5
  <2>8. line(of(o)) = [currency |-> o[1],
                       peer     |-> IF a = o[2] THEN IssuerOf[o[1]] ELSE o[2],
                       balance  |-> IF isLow(o) THEN final ELSE 0 - final]
    OBVIOUS
  <2> HIDE DEF line, of, final
  <2> QED BY <2>3, <2>6, <2>7, <2>8 DEF HeldLine, OwedLine
<1>3. ASSUME NEW r \in Live(S, mine)
      PROVE  \E o \in LiveLines(S) : r = of(o) /\ a \in {o[2], IssuerOf[o[1]]}
  <2>1. PICK o \in mine : Newest(S, o) # 0 /\ r = of(o) /\ r.node.kind # "deleted"
    BY DEF Live, LatestObjects
  <2>2. r.node = Node(Newest(S, o), o)
    BY <2>1
  <2>3. State(S, o) # Gone
    BY <2>1, <2>2, LatestNode
  <2> QED BY <2>1, <2>3 DEF LiveLines
<1> HIDE DEF line, of, mine
<1>4. ASSUME NEW e PROVE e \in AccountLines(S, a) <=> e \in LinesOf(S, a)
  <2>1. ASSUME e \in AccountLines(S, a) PROVE e \in LinesOf(S, a)
    <3>1. PICK r \in Live(S, mine) : e = line(r)
      BY <1>1, <2>1
    <3>2. PICK o \in LiveLines(S) : r = of(o) /\ a \in {o[2], IssuerOf[o[1]]}
      BY <1>3
    <3>3. CASE a = o[2]
      BY <1>2, <3>1, <3>2, <3>3 DEF LinesOf
    <3>4. CASE a # o[2]
      BY <1>2, <3>1, <3>2, <3>4 DEF LinesOf
    <3> QED BY <3>3, <3>4
  <2>2. ASSUME e \in LinesOf(S, a) PROVE e \in AccountLines(S, a)
    <3>1. CASE \E o \in LiveLines(S) : o[2] = a /\ e = HeldLine(S, o)
      BY <1>1, <1>2, <3>1
    <3>2. CASE \E o \in LiveLines(S) : IssuerOf[o[1]] = a /\ e = OwedLine(S, o)
      <4>1. PICK o \in LiveLines(S) : IssuerOf[o[1]] = a /\ e = OwedLine(S, o)
        BY <3>2
      <4>2. a # o[2]
        BY <4>1, OneSide
      <4> QED BY <1>1, <1>2, <4>1, <4>2
    <3> QED BY <2>2, <3>1, <3>2 DEF LinesOf
  <2> QED BY <2>1, <2>2
<1> QED BY <1>4

(* Sets that agree on every line of an account give the same lines. *)
LEMMA LinesSame ==
    ASSUME NEW S, NEW Z, NEW a,
           \A o \in Balance : o[1] \notin Mpts /\ a \in {o[2], IssuerOf[o[1]]} =>
              State(S, o) = State(Z, o)
    PROVE  LinesOf(S, a) = LinesOf(Z, a)
<1>1. {x \in LiveLines(S) : x[2] = a} = {x \in LiveLines(Z) : x[2] = a}
  BY DEF LiveLines
<1>2. {x \in LiveLines(S) : IssuerOf[x[1]] = a} = {x \in LiveLines(Z) : IssuerOf[x[1]] = a}
  BY DEF LiveLines
<1>3. \A o \in {x \in LiveLines(S) : x[2] = a} : HeldLine(S, o) = HeldLine(Z, o)
  BY DEF HeldLine, LiveLines
<1>4. \A o \in {x \in LiveLines(S) : IssuerOf[x[1]] = a} : OwedLine(S, o) = OwedLine(Z, o)
  BY DEF OwedLine, LiveLines
<1> DEFINE held(X) == {x \in LiveLines(X) : x[2] = a}
           owed(X) == {x \in LiveLines(X) : IssuerOf[x[1]] = a}
<1> HIDE DEF held, owed
<1>5. held(S) = held(Z) /\ owed(S) = owed(Z)
  BY <1>1, <1>2 DEF held, owed
<1>6. /\ \A o \in held(S) : HeldLine(S, o) = HeldLine(Z, o)
      /\ \A o \in owed(S) : OwedLine(S, o) = OwedLine(Z, o)
  BY <1>3, <1>4 DEF held, owed
<1>7. ASSUME NEW e PROVE e \in LinesOf(S, a) <=> e \in LinesOf(Z, a)
  <2>1. (\E o \in held(S) : e = HeldLine(S, o)) <=> \E o \in held(Z) : e = HeldLine(Z, o)
    BY <1>5, <1>6
  <2>2. (\E o \in owed(S) : e = OwedLine(S, o)) <=> \E o \in owed(Z) : e = OwedLine(Z, o)
    BY <1>5, <1>6
  <2>3. /\ e \in LinesOf(S, a) <=> \/ \E o \in held(S) : e = HeldLine(S, o)
                                  \/ \E o \in owed(S) : e = OwedLine(S, o)
        /\ e \in LinesOf(Z, a) <=> \/ \E o \in held(Z) : e = HeldLine(Z, o)
                                  \/ \E o \in owed(Z) : e = OwedLine(Z, o)
    BY DEF LinesOf, held, owed
  <2> QED BY <2>1, <2>2, <2>3
<1> QED BY <1>7

(***************************************************************************)
(* What was read holds all that the sweeps had claimed by then.            *)
(***************************************************************************)
LineFields == {"kind", "ask", "at", "entries", "lines", "ledger", "warned", "swept"}

ReadUpTo(entries, a, i, l) ==
    \A t \in Tx : LedgerOf[t] <= l =>
        \A h \in HoldersIn(t, i) : a \in {h, IssuerOf[i]} => t \in entries

LinesOK ==
    LET a == request.ask.account IN
    /\ HasFields(LineFields) /\ Asked
    /\ request.at \in {"meta", "coverage", "done"}
    /\ request.entries \subseteq Tx
    /\ request.swept \subseteq Issuances \X (0 .. LastLedger)
    /\ request.at # "meta" =>
          /\ request.lines = AccountLines(request.entries, a)
          /\ request.ask.to = NoBound =>
                \A i \in Issuances, l \in Nat :
                    <<i, l>> \in request.swept => ReadUpTo(request.entries, a, i, l)

(* A client asks. *)
LEMMA LinesAsked ==
    ASSUME NEW r \in Requests, AskAccountLines(r)
    PROVE  LinesOK' /\ request'.kind = "account_lines"
<1>1. /\ r.kind = "account_lines"
      /\ request' = [kind |-> r.kind, ask |-> r, at |-> "meta", entries |-> {}, lines |-> {},
                     ledger |-> 0, warned |-> FALSE, swept |-> {}]
  BY DEF AskAccountLines, Ask, Become
<1>2. /\ request'.kind = "account_lines" /\ request'.ask = r /\ request'.at = "meta"
      /\ request'.entries = {} /\ request'.swept = {}
  BY <1>1
<1>3. HasFields(LineFields)'
  BY <1>1 DEF HasFields, LineFields
<1> QED BY <1>1, <1>2, <1>3 DEF LinesOK, Asked

(* The account's metadata is read, the issuer's side of its lines included. *)
LEMMA LinesMetaStep ==
    ASSUME StoreInv, LinesOK, AccountLinesMeta
    PROVE  LinesOK' /\ request'.kind = "account_lines"
<1> DEFINE a == request.ask.account
           entries == AccountMeta(a, request.ask.to)
           lines == AccountLines(entries, a)
           swept == {p \in Issuances \X (0 .. LastLedger) : Swept(p[1], p[2])}
<1>1. /\ request = [f \in LineFields |-> request[f]] /\ request.kind = "account_lines" /\ Asked
      /\ request.at = "meta"
  BY DEF LinesOK, HasFields, AccountLinesMeta, At
<1>2. request' = [request EXCEPT !.at = "coverage", !.entries = entries, !.lines = lines,
                                 !.swept = swept]
  BY Zenon DEF AccountLinesMeta, Become
<1>3. entries \subseteq Tx /\ swept \subseteq Issuances \X (0 .. LastLedger)
  BY DEF AccountMeta, StoreInv, StoreOK, ArchiveTypeOK
<1>4. ASSUME request.ask.to = NoBound, NEW i \in Issuances, NEW l \in Nat, <<i, l>> \in swept
      PROVE  ReadUpTo(entries, a, i, l)
  <2>1. StoredUpTo(i, l)
    <3>1. Swept(i, l)
      BY <1>4
    <3> QED BY <3>1, SweptStored
  <2>2. ASSUME NEW t \in Tx, LedgerOf[t] <= l, NEW h \in HoldersIn(t, i), a \in {h, IssuerOf[i]}
        PROVE  t \in entries
    <3>1. Held(t, i, h, a)
      BY <2>1, <2>2 DEF StoredUpTo, AllStored
    <3> QED BY <1>4, <3>1 DEF Held, AccountMeta
  <2> QED BY <2>2 DEF ReadUpTo
<1> HIDE DEF entries, lines, swept
<1>5. /\ HasFields(LineFields)' /\ request'.kind = request.kind /\ request'.ask = request.ask
      /\ request'.at = "coverage" /\ request'.entries = entries /\ request'.lines = lines
      /\ request'.swept = swept
  BY <1>1, <1>2 DEF LineFields, HasFields
<1> QED BY <1>1, <1>3, <1>4, <1>5 DEF LinesOK, Asked, lines

(* The coverage is read; the lines are not touched. *)
LEMMA LinesLedgerStep ==
    ASSUME LinesOK, AccountLinesLedger
    PROVE  LinesOK' /\ request'.kind = "account_lines"
<1>1. /\ request = [f \in LineFields |-> request[f]] /\ request.kind = "account_lines" /\ Asked
      /\ request.at = "coverage"
  BY DEF LinesOK, HasFields, AccountLinesLedger, At
<1>2. PICK ledger, warned :
         request' = [[request EXCEPT !.ledger = ledger, !.warned = warned] EXCEPT !.at = "done"]
  BY Zenon DEF AccountLinesLedger, Become, Done
<1>3. /\ HasFields(LineFields)' /\ request'.kind = request.kind /\ request'.ask = request.ask
      /\ request'.at = "done" /\ request'.entries = request.entries
      /\ request'.lines = request.lines /\ request'.swept = request.swept
  BY <1>1, <1>2 DEF LineFields, HasFields
<1> QED BY <1>1, <1>3 DEF LinesOK, Asked

(* If it holds all the sweeps claimed and nothing newer, its lines are the ledger's. *)
LEMMA LinesAreTheLedgers ==
    ASSUME NEW entries \in SUBSET Tx, NEW a \in Accounts, NEW l,
           \A i \in Issuances \ Mpts : ReadUpTo(entries, a, i, l),
           \A t \in entries : LedgerOf[t] <= l
    PROVE  AccountLines(entries, a) = LinesOf({t \in Tx : LedgerOf[t] <= l}, a)
<1> DEFINE Z == {t \in Tx : LedgerOf[t] <= l}
<1>1. ASSUME NEW o \in Balance, o[1] \notin Mpts, a \in {o[2], IssuerOf[o[1]]}
      PROVE  State(entries, o) = State(Z, o)
  <2>1. o = <<o[1], o[2]>> /\ o[1] \in Issuances \ Mpts /\ o[2] \in Accounts
    BY <1>1 DEF Balance
  <2>2. ASSUME NEW t \in Tx, o \in Touches[t] PROVE t \in entries <=> t \in Z
    <3>1. o[2] \in HoldersIn(t, o[1])
      BY <2>1, <2>2 DEF HoldersIn
    <3>2. ReadUpTo(entries, a, o[1], l)
      BY <2>1
    <3> QED BY <1>1, <3>1, <3>2 DEF ReadUpTo
  <2>3. Z \in SUBSET Tx
    OBVIOUS
  <2> HIDE DEF Z
  <2> QED BY <2>2, <2>3, NewestSame
<1>2. LinesOf(entries, a) = LinesOf(Z, a)
  <2> HIDE DEF Z
  <2> QED BY <1>1, LinesSame
<1> QED BY <1>2, LinesAre

-----------------------------------------------------------------------------
(***************************************************************************)
(* The tie-out: the sum for a holder is over those of the transactions     *)
(* derived from that touch its balance.                                    *)
(***************************************************************************)
TieOutFields ==
    {"kind", "ask", "at", "derived", "derivedFrom", "entries", "reconstructed", "discrepancies"}

Touching(S, o) == {t \in S : o \in Touches[t]}

SumOf(S, o) == SumFunctionOnSet([t \in S |-> Delta(t, o)], S)

Disagrees(r, h) ==
    LET found == {e.amount : e \in {x \in r.reconstructed : x.holder = h}} IN
    r.derived[h] # IF found = {} THEN 0 ELSE CHOOSE a \in found : TRUE

TieOutOK ==
    LET i == request.ask.issuance IN
    /\ HasFields(TieOutFields) /\ Asked
    /\ request.at \in {"derived", "entries", "scope", "done"}
    /\ request.derivedFrom \subseteq Tx /\ request.entries \subseteq Tx
    /\ request.at # "derived" =>
          \A h \in Accounts :
              request.derived[h] = SumOf(Touching(request.derivedFrom, <<i, h>>), <<i, h>>)
    /\ request.at \in {"scope", "done"} =>
          request.reconstructed = Reconstructed(request.entries, i)
    /\ request.at = "done" =>
          \A h \in request.discrepancies : h \in Accounts /\ Disagrees(request, h)

(* The summed deltas of a holder, as a sum over the transactions derived. *)
LEMMA DerivedIs ==
    ASSUME StoreInv, NEW i \in Issuances, NEW h \in Accounts
    PROVE  Derived(<<i, h>>)
             = SumOf(Touching({t \in Tx : \E g \in Accounts : <<t, i, g>> \in deltas}, <<i, h>>),
                     <<i, h>>)
<1> DEFINE o == <<i, h>>
           S == {t \in Tx : \E g \in Accounts : <<t, i, g>> \in deltas}
           hi == Max({LedgerOf[t] : t \in Tx})
<1>1. \A t \in Tx : 0 <= LedgerOf[t] /\ LedgerOf[t] <= hi
  <2> DEFINE all == {LedgerOf[t] : t \in Tx}
  <2>1. \A t \in Tx : LedgerOf[t] \in all
    OBVIOUS
  <2>2. all \in SUBSET (0 .. LastLedger)
    BY TxLedgersFacts
  <2> HIDE DEF all
  <2>3. ASSUME NEW t \in Tx PROVE LedgerOf[t] <= Max(all)
    <3>1. all # {} /\ all \in SUBSET Int /\ IsFiniteSet(all)
      BY <2>1, <2>2, <2>3, SomeLedgers
    <3>2. Max(all) \in all /\ Max(all) >= LedgerOf[t]
      BY <2>1, <3>1, MaxOf
    <3>3. Max(all) \in Int /\ LedgerOf[t] \in Nat
      BY <3>1, <3>2, TxFacts
    <3> QED BY <3>2, <3>3
  <2> QED BY <2>3, TxFacts DEF all
<1>2. DeltaTx(o, 0, hi) = Touching(S, o)
  <2>1. ASSUME NEW t \in Tx PROVE t \in DeltaTx(o, 0, hi) <=> t \in Touching(S, o)
    <3>1. ASSUME t \in DeltaTx(o, 0, hi) PROVE t \in Touching(S, o)
      <4>1. <<t, i, h>> \in deltas
        BY <3>1 DEF DeltaTx
      <4>2. h \in HoldersIn(t, i)
        BY <4>1 DEF StoreInv, DeltasSound
      <4> QED BY <4>1, <4>2 DEF Touching, HoldersIn
    <3>2. ASSUME t \in Touching(S, o) PROVE t \in DeltaTx(o, 0, hi)
      <4>1. PICK g \in Accounts : <<t, i, g>> \in deltas
        BY <3>2 DEF Touching
      <4>2. h \in HoldersIn(t, i)
        BY <3>2 DEF Touching, HoldersIn
      <4>3. <<t, i, h>> \in deltas
        BY <4>1, <4>2 DEF StoreInv, DeltasSound
      <4> HIDE DEF hi
      <4> QED BY <1>1, <4>3 DEF DeltaTx
    <3> QED BY <3>1, <3>2
  <2>2. DeltaTx(o, 0, hi) \subseteq Tx /\ Touching(S, o) \subseteq Tx
    BY DEF DeltaTx, Touching
  <2> HIDE DEF S, o, hi
  <2> QED BY <2>1, <2>2
<1>3. Derived(o) = DeltaSum(o, 0, hi)
  BY DEF Derived
<1>4. DeltaSum(o, 0, hi) = SumOf(DeltaTx(o, 0, hi), o)
  <2>1. o \in Balance
    BY DEF Balance
  <2> HIDE DEF o, hi
  <2> QED BY <2>1, DeltaSumIs DEF SumOf
<1> HIDE DEF S, o, hi
<1>5. Derived(o) = SumOf(Touching(S, o), o)
  BY <1>2, <1>3, <1>4
<1> QED BY <1>5 DEF S, o

(* The tie-out starts. *)
LEMMA TieOutAsked ==
    ASSUME NEW r \in Requests, AskTieOut(r)
    PROVE  TieOutOK' /\ request'.kind = "tie_out"
<1>1. /\ r.kind = "tie_out"
      /\ request' = [kind |-> r.kind, ask |-> r, at |-> "derived", derived |-> <<>>,
                     derivedFrom |-> {}, entries |-> {}, reconstructed |-> {},
                     discrepancies |-> {}]
  BY DEF AskTieOut, Ask, Become
<1>2. /\ request'.kind = "tie_out" /\ request'.ask = r /\ request'.at = "derived"
      /\ request'.derivedFrom = {} /\ request'.entries = {}
  BY <1>1
<1>3. HasFields(TieOutFields)'
  BY <1>1 DEF HasFields, TieOutFields
<1> QED BY <1>1, <1>2, <1>3 DEF TieOutOK, Asked

(* The deltas are summed. *)
LEMMA TieOutDerivedStep ==
    ASSUME StoreInv, TieOutOK, TieOutDerived
    PROVE  TieOutOK' /\ request'.kind = "tie_out"
<1> DEFINE i == request.ask.issuance
           derived == [h \in Accounts |-> Derived(<<i, h>>)]
           derivedFrom == {t \in Tx : \E h \in Accounts : <<t, i, h>> \in deltas}
<1>1. /\ request = [f \in TieOutFields |-> request[f]] /\ request.kind = "tie_out" /\ Asked
      /\ request.at = "derived" /\ request.entries \subseteq Tx
  BY DEF TieOutOK, HasFields, TieOutDerived, At
<1>2. request' = [request EXCEPT !.at = "entries", !.derived = derived,
                                 !.derivedFrom = derivedFrom]
  BY Zenon DEF TieOutDerived, Become
<1>3. \A h \in Accounts : derived[h] = SumOf(Touching(derivedFrom, <<i, h>>), <<i, h>>)
  <2>1. i \in Issuances
    BY <1>1, AskFacts DEF Asked
  <2>2. \A h \in Accounts : Derived(<<i, h>>) = SumOf(Touching(derivedFrom, <<i, h>>), <<i, h>>)
    <3> HIDE DEF i
    <3> QED BY <2>1, DerivedIs
  <2> QED BY <2>2
<1>4. derivedFrom \subseteq Tx
  OBVIOUS
<1> HIDE DEF derived, derivedFrom
<1>5. /\ HasFields(TieOutFields)' /\ request'.kind = request.kind /\ request'.ask = request.ask
      /\ request'.at = "entries" /\ request'.entries = request.entries
      /\ request'.derived = derived /\ request'.derivedFrom = derivedFrom
  BY <1>1, <1>2 DEF TieOutFields, HasFields
<1> QED BY <1>1, <1>3, <1>4, <1>5 DEF TieOutOK, Asked

(* The metadata is read and the holders reconstructed. *)
LEMMA TieOutEntriesStep ==
    ASSUME StoreInv, TieOutOK, TieOutEntries
    PROVE  TieOutOK' /\ request'.kind = "tie_out"
<1> DEFINE i == request.ask.issuance
           entries == IssuanceTx(i)
           reconstructed == Reconstructed(entries, i)
<1>1. /\ request = [f \in TieOutFields |-> request[f]] /\ request.kind = "tie_out" /\ Asked
      /\ request.at = "entries" /\ request.derivedFrom \subseteq Tx
      /\ \A h \in Accounts :
            request.derived[h] = SumOf(Touching(request.derivedFrom, <<i, h>>), <<i, h>>)
  BY DEF TieOutOK, HasFields, TieOutEntries, At
<1>2. request' = [request EXCEPT !.at = "scope", !.entries = entries,
                                 !.reconstructed = reconstructed]
  BY Zenon DEF TieOutEntries, Become
<1>3. entries \subseteq Tx
  BY DEF IssuanceTx, StoreInv, StoreOK, ArchiveTypeOK
<1> HIDE DEF entries, reconstructed
<1>4. /\ HasFields(TieOutFields)' /\ request'.kind = request.kind /\ request'.ask = request.ask
      /\ request'.at = "scope" /\ request'.entries = entries
      /\ request'.reconstructed = reconstructed
      /\ request'.derived = request.derived /\ request'.derivedFrom = request.derivedFrom
  BY <1>1, <1>2 DEF TieOutFields, HasFields
<1> QED BY <1>1, <1>3, <1>4 DEF TieOutOK, Asked, reconstructed

(* The two are compared. *)
LEMMA TieOutCompareStep ==
    ASSUME TieOutOK, TieOutCompare
    PROVE  TieOutOK' /\ request'.kind = "tie_out"
<1> DEFINE i == request.ask.issuance
           found(h) == {e.amount : e \in {x \in request.reconstructed : x.holder = h}}
           agrees(h) == request.derived[h] =
                            IF found(h) = {} THEN 0 ELSE CHOOSE a \in found(h) : TRUE
           discrepancies == {h \in Accounts : <<i, h>> \in holders /\ ~agrees(h)}
<1>1. /\ request = [f \in TieOutFields |-> request[f]] /\ request.kind = "tie_out" /\ Asked
      /\ request.at = "scope" /\ request.derivedFrom \subseteq Tx /\ request.entries \subseteq Tx
      /\ \A h \in Accounts :
            request.derived[h] = SumOf(Touching(request.derivedFrom, <<i, h>>), <<i, h>>)
      /\ request.reconstructed = Reconstructed(request.entries, i)
  BY DEF TieOutOK, HasFields, TieOutCompare, At
<1>2. request' = [[request EXCEPT !.discrepancies = discrepancies] EXCEPT !.at = "done"]
  BY Zenon DEF TieOutCompare, Become, Done
<1>3. \A h \in discrepancies : h \in Accounts /\ Disagrees(request, h)
  BY Zenon DEF Disagrees
<1> HIDE DEF discrepancies
<1>4. /\ HasFields(TieOutFields)' /\ request'.kind = request.kind /\ request'.ask = request.ask
      /\ request'.at = "done" /\ request'.entries = request.entries
      /\ request'.reconstructed = request.reconstructed
      /\ request'.derived = request.derived /\ request'.derivedFrom = request.derivedFrom
      /\ request'.discrepancies = discrepancies
  BY <1>1, <1>2 DEF TieOutFields, HasFields
<1>5. \A h \in discrepancies : Disagrees(request', h)
  BY <1>3, <1>4 DEF Disagrees
<1> QED BY <1>1, <1>3, <1>4, <1>5 DEF TieOutOK, Asked

(* Without a cause, the sum of the deltas is the reconstructed amount. *)
LEMMA TieOutCauses ==
    ASSUME NEW i \in Issuances, NEW h \in Accounts, NEW r,
           NEW S \in SUBSET Tx, NEW Z \in SUBSET Tx,
           r.derived[h] = SumOf(Touching(S, <<i, h>>), <<i, h>>),
           r.reconstructed = Reconstructed(Z, i),
           Disagrees(r, h),
           Touching(Z, <<i, h>>) = Touching(S, <<i, h>>),
           \A t \in Touching(S, <<i, h>>) : ~Miscounted(t, <<i, h>>)
    PROVE  \E s \in Touching(Tx, <<i, h>>) \ Touching(S, <<i, h>>) :
               \E t \in Touching(S, <<i, h>>) : s < t
<1> DEFINE o == <<i, h>>
           from == Touching(S, o)
           f == [t \in from |-> Delta(t, o)]
           found == {e.amount : e \in {x \in r.reconstructed : x.holder = h}}
           amount == Amount(State(Z, o))
<1>1. SUFFICES ASSUME \A t \in from : \A s \in Tx : o \in Touches[s] /\ s < t => s \in from
               PROVE  FALSE
  BY DEF Touching
<1>2. SumFunctionOnSet(f, from) = Amount(State(from, o))
  <2>1. from \in SUBSET Tx /\ \A t \in from : o \in Touches[t] /\ ~Miscounted(t, o)
    BY DEF Touching
  <2>2. \A t \in from : f[t] = Delta(t, o)
    OBVIOUS
  <2> HIDE DEF f, from, o
  <2> QED BY <1>1, <2>1, <2>2, DeltasAddUp
<1>3. r.derived[h] = SumFunctionOnSet(f, from)
  BY DEF SumOf
<1>4. State(from, o) = State(Z, o)
  <2>1. \A t \in Tx : o \in Touches[t] => (t \in from <=> t \in Z)
    BY DEF Touching
  <2>2. from \in SUBSET Tx
    BY DEF Touching
  <2> HIDE DEF from, o
  <2> QED BY <2>1, <2>2, NewestSame
<1>5. r.derived[h] = amount
  <2> HIDE DEF f, from, o
  <2> QED BY <1>2, <1>3, <1>4
<1>6. r.derived[h] # IF found = {} THEN 0 ELSE CHOOSE a \in found : TRUE
  BY Zenon DEF Disagrees
<1>7. r.reconstructed = Holding(Z, i)
  BY ReconstructedIs
<1>8. CASE State(Z, o) = Gone
  <2>1. found = {}
    <3>1. ASSUME NEW e \in Holding(Z, i), e.holder = h PROVE FALSE
      <4>1. PICK g \in Accounts : /\ State(Z, <<i, g>>) # Gone
                                  /\ e = [holder |-> g, amount |-> Amount(State(Z, <<i, g>>))]
        BY DEF Holding
      <4>2. g = h
        BY <3>1, <4>1
      <4> QED BY <1>8, <4>1, <4>2
    <3> QED BY <1>7, <3>1
  <2>2. amount = 0
    BY <1>8 DEF Amount
  <2> QED BY <1>5, <1>6, <2>1, <2>2
<1>9. CASE State(Z, o) # Gone
  <2>1. ASSUME NEW e \in Holding(Z, i), e.holder = h PROVE e.amount = amount
    <3>1. PICK g \in Accounts : e = [holder |-> g, amount |-> Amount(State(Z, <<i, g>>))]
      BY DEF Holding
    <3>2. g = h
      BY <2>1, <3>1
    <3> QED BY <3>1, <3>2
  <2>2. [holder |-> h, amount |-> amount] \in Holding(Z, i)
    BY <1>9 DEF Holding
  <2> DEFINE entry == [holder |-> h, amount |-> amount]
  <2>3. entry.holder = h /\ entry.amount = amount
    OBVIOUS
  <2> HIDE DEF amount, entry
  <2>4. amount \in found /\ \A a \in found : a = amount
    BY <1>7, <2>1, <2>2, <2>3 DEF entry
  <2> HIDE DEF found
  <2> QED BY <1>5, <1>6, <2>4
<1> QED BY <1>8, <1>9

-----------------------------------------------------------------------------
(***************************************************************************)
(* The whole: the store, and whichever request is under way.               *)
(***************************************************************************)
RequestInv ==
    \/ request = NoRequest
    \/ request.kind = "account_tx" /\ AccountTxOK
    \/ request.kind = "mpt_holders" /\ ListingOK
    \/ request.kind = "gateway_balances" /\ GatewayOK
    \/ request.kind \in Reporting /\ ReportOK
    \/ request.kind = "account_lines" /\ LinesOK
    \/ request.kind = "tie_out" /\ TieOutOK

(* Ingest between two queries disturbs no request. *)
LEMMA RequestKept ==
    ASSUME RequestInv, Grows, request' = request
    PROVE  RequestInv'
<1>1. AccountTxOK => AccountTxOK'
  BY DEF AccountTxOK, HasFields, Asked
<1>2. ListingOK => ListingOK'
  <2>1. StoredUpTo(request.ask.issuance, request.ask.to)
          => StoredUpTo(request.ask.issuance, request.ask.to)'
    BY DEF StoredUpTo, AllStored, Held, Grows
  <2> QED BY <2>1 DEF ListingOK, HasFields, Asked, Paging, ListedExactly
<1>3. GatewayOK => GatewayOK'
  BY DEF GatewayOK, HasFields, Asked
<1>4. ReportOK => ReportOK'
  BY DEF ReportOK, HasFields, Asked
<1>5. LinesOK => LinesOK'
  BY DEF LinesOK, HasFields, Asked
<1>6. TieOutOK => TieOutOK'
  BY DEF TieOutOK, HasFields, Asked
<1> QED BY <1>1, <1>2, <1>3, <1>4, <1>5, <1>6 DEF RequestInv

(* Close times are recorded, nothing else stored. *)
LEMMA StoreKept ==
    ASSUME StoreInv, UNCHANGED <<archiveVars, holders, jobs, cursor, tip>>,
           ledgers' \subseteq 1 .. LastLedger
    PROVE  StoreInv'
<1> USE DEF archiveVars
<1>1. StoreOK'
  BY DEF StoreInv, StoreOK, ArchiveTypeOK
<1>2. DeltasSound'
  BY DEF StoreInv, DeltasSound
<1>3. Walked' /\ ClaimsSound'
  BY DEF StoreInv, Walked, ClaimsSound, StoredUpTo, AllStored, Held
<1> QED BY <1>1, <1>2, <1>3 DEF StoreInv

(* Nothing is stored. *)
LEMMA QueryKept ==
    ASSUME StoreInv, UNCHANGED storeVars
    PROVE  StoreInv'
<1>1. UNCHANGED <<archiveVars, holders, jobs, cursor, tip>> /\ ledgers' = ledgers
  BY DEF storeVars
<1>2. ledgers' \subseteq 1 .. LastLedger
  BY <1>1 DEF StoreInv, StoreOK
<1> QED BY <1>1, <1>2, StoreKept

(* The archive starts empty, without a request. *)
LEMMA Started == Init => StoreInv /\ RequestInv
<1> SUFFICES ASSUME Init PROVE StoreInv /\ RequestInv
  OBVIOUS
<1> USE DEF Init
<1>1. StoreOK
  <2>1. \A i \in Issuances : SweepJob(i) \in Balance
    BY JobFacts
  <2>2. StartTip \in StartTip .. LastLedger
    BY ReadsAssumption
  <2> QED BY <2>1, <2>2 DEF StoreOK, ArchiveTypeOK
<1>2. DeltasSound /\ ClaimsSound
  BY DEF DeltasSound, ClaimsSound
<1>3. Walked
  <2> SUFFICES ASSUME NEW i \in Issuances, NEW t \in Tx, t <= cursor[SweepJob(i)] PROVE FALSE
    BY DEF Walked
  <2>1. cursor[SweepJob(i)] = 0
    BY JobFacts
  <2> QED BY <2>1, TxFacts
<1>4. RequestInv
  BY DEF RequestInv
<1> QED BY <1>1, <1>2, <1>3, <1>4 DEF StoreInv

(* A client asks, or the tie-out starts. *)
LEMMA AskStep ==
    ASSUME StoreInv, AskAny
    PROVE  StoreInv' /\ RequestInv'
<1>1. PICK r \in Requests : \/ AskAccountTx(r) \/ AskMptHolders(r) \/ AskGateway(r)
                            \/ AskReport(r) \/ AskAccountLines(r) \/ AskTieOut(r)
  BY DEF AskAny
<1>2. UNCHANGED storeVars
  BY <1>1 DEF AskAccountTx, AskMptHolders, AskGateway, AskReport, AskAccountLines, AskTieOut,
              Ask, Become
<1>3. RequestInv'
  BY <1>1, AccountTxAsked, ListingAsked, GatewayAsked, ReportAsked, LinesAsked, TieOutAsked
     DEF RequestInv
<1> QED BY <1>2, <1>3, QueryKept

(* The invariant of a request is that of its kind. *)
LEMMA KindOf ==
    ASSUME RequestInv
    PROVE  /\ request.kind = "account_tx" => AccountTxOK
           /\ request.kind = "mpt_holders" => ListingOK
           /\ request.kind = "gateway_balances" => GatewayOK
           /\ request.kind \in Reporting => ReportOK
           /\ request.kind = "account_lines" => LinesOK
           /\ request.kind = "tie_out" => TieOutOK
<1>1. request = NoRequest => request.kind = "none"
  BY DEF NoRequest
<1> QED BY <1>1 DEF RequestInv, Reporting

(***************************************************************************)
(* The steps that only query; a probe may record the close time it asks    *)
(* for.                                                                    *)
(***************************************************************************)
LEMMA ServeStep ==
    ASSUME StoreInv, RequestInv, Serve
    PROVE  StoreInv' /\ RequestInv'
<1>1. ASSUME AccountTxCoverage \/ AccountTxPage PROVE StoreInv' /\ RequestInv'
  <2>1. AccountTxOK
    BY <1>1, KindOf DEF AccountTxCoverage, AccountTxPage, At
  <2>2. UNCHANGED storeVars
    BY <1>1 DEF AccountTxCoverage, AccountTxPage, Become, Done
  <2>3. AccountTxOK' /\ request'.kind = "account_tx"
    BY <1>1, <2>1, AccountTxCoverageStep, AccountTxPageStep
  <2> QED BY <2>2, <2>3, QueryKept DEF RequestInv
<1>2. ASSUME MptHoldersPage \/ MptHoldersLedger PROVE StoreInv' /\ RequestInv'
  <2>1. ListingOK
    BY <1>2, KindOf DEF MptHoldersPage, MptHoldersLedger, At
  <2>2. UNCHANGED storeVars
    BY <1>2 DEF MptHoldersPage, MptHoldersLedger, Become, Done
  <2>3. ListingOK' /\ request'.kind = "mpt_holders"
    BY <1>2, <2>1, ListingPageStep, ListingLedgerStep
  <2> QED BY <2>2, <2>3, QueryKept DEF RequestInv
<1>3. ASSUME GatewayLedger \/ \E i \in Issuances : GatewayCoverage(i) \/ GatewaySum(i)
      PROVE  StoreInv' /\ RequestInv'
  <2>1. GatewayOK
    BY <1>3, KindOf DEF GatewayLedger, GatewayCoverage, GatewaySum, At
  <2>2. UNCHANGED storeVars
    BY <1>3 DEF GatewayLedger, GatewayCoverage, GatewaySum, Become, Refuse
  <2>3. GatewayOK' /\ request'.kind = "gateway_balances"
    BY <1>3, <2>1, GatewayLedgerStep, GatewayCoverageStep, GatewaySumStep
  <2> QED BY <2>2, <2>3, QueryKept DEF RequestInv
<1>4. ASSUME Probe PROVE StoreInv' /\ RequestInv'
  <2>1. ReportOK
    BY <1>4, KindOf DEF Probe
  <2>2. /\ ReportOK' /\ request'.kind \in Reporting
        /\ UNCHANGED <<archiveVars, holders, jobs, cursor, tip>>
        /\ ledgers' \subseteq 1 .. LastLedger
    BY <1>4, <2>1, ProbeStep
  <2> QED BY <2>2, StoreKept DEF RequestInv
<1>5. ASSUME \/ ReportLedger \/ SearchBounds \/ ProbeFails \/ SearchEnds
             \/ ReportItems \/ BalanceSum \/ BalanceCoverage
      PROVE  StoreInv' /\ RequestInv'
  <2>1. ReportOK
    BY <1>5, KindOf DEF ReportLedger, SearchBounds, ProbeFails, SearchEnds, ReportItems,
                        BalanceSum, BalanceCoverage, At, Reporting
  <2>2. UNCHANGED storeVars
    BY <1>5 DEF ReportLedger, SearchBounds, ProbeFails, SearchEnds, ReportItems, BalanceSum,
                BalanceCoverage, Become, Done, Refuse
  <2>3. ReportOK' /\ request'.kind \in Reporting
    BY <1>5, <2>1, ReportLedgerStep, SearchBoundsStep, ProbeFailsStep, SearchEndsStep,
       ReportItemsStep, BalanceSumStep, BalanceCoverageStep
  <2> QED BY <2>2, <2>3, QueryKept DEF RequestInv
<1>6. ASSUME AccountLinesMeta \/ AccountLinesLedger PROVE StoreInv' /\ RequestInv'
  <2>1. LinesOK
    BY <1>6, KindOf DEF AccountLinesMeta, AccountLinesLedger, At
  <2>2. UNCHANGED storeVars
    BY <1>6 DEF AccountLinesMeta, AccountLinesLedger, Become, Done
  <2>3. LinesOK' /\ request'.kind = "account_lines"
    BY <1>6, <2>1, LinesMetaStep, LinesLedgerStep
  <2> QED BY <2>2, <2>3, QueryKept DEF RequestInv
<1>7. ASSUME TieOutDerived \/ TieOutEntries \/ TieOutCompare PROVE StoreInv' /\ RequestInv'
  <2>1. TieOutOK
    BY <1>7, KindOf DEF TieOutDerived, TieOutEntries, TieOutCompare, At
  <2>2. UNCHANGED storeVars
    BY <1>7 DEF TieOutDerived, TieOutEntries, TieOutCompare, Become, Done
  <2>3. TieOutOK' /\ request'.kind = "tie_out"
    BY <1>7, <2>1, TieOutDerivedStep, TieOutEntriesStep, TieOutCompareStep
  <2> QED BY <2>2, <2>3, QueryKept DEF RequestInv
<1>8. ASSUME Leave PROVE StoreInv' /\ RequestInv'
  BY <1>8, QueryKept DEF Leave, Become, RequestInv
<1> QED BY <1>1, <1>2, <1>3, <1>4, <1>5, <1>6, <1>7, <1>8 DEF Serve

(***************************************************************************)
(* The inductive invariant: the store is what its claims say, and the      *)
(* request under way has come to what its earlier queries account for.     *)
(***************************************************************************)
THEOREM Invariance == Spec => [](StoreInv /\ RequestInv)
<1>1. ASSUME StoreInv, RequestInv, [Next]_vars
      PROVE  (StoreInv /\ RequestInv)'
  <2>1. CASE Ingest
    BY <1>1, <2>1, IngestGrows, IngestStep, RequestKept
  <2>2. CASE AskAny
    BY <1>1, <2>2, AskStep
  <2>3. CASE Serve
    BY <1>1, <2>3, ServeStep
  <2>4. CASE UNCHANGED vars
    <3>1. UNCHANGED storeVars /\ request' = request
      BY <2>4 DEF vars
    <3>2. Grows
      BY <3>1 DEF Grows, storeVars, archiveVars
    <3> QED BY <1>1, <3>1, <3>2, QueryKept, RequestKept
  <2> QED BY <1>1, <2>1, <2>2, <2>3, <2>4 DEF Next
<1> QED BY <1>1, Started, PTL DEF Spec

(***************************************************************************)
(* Type correctness of the whole: what the writers store and what the      *)
(* requests of src/api and the tie-out of src/reconcile carry along.       *)
(***************************************************************************)
THEOREM TypeCorrect == Spec => []TypeOK
<1>1. ASSUME StoreInv, RequestInv PROVE TypeOK
  <2>1. request.kind # "none" => Asked
    <3>1. request = NoRequest => request.kind = "none"
      BY DEF NoRequest
    <3> QED
      BY <1>1, <3>1 DEF RequestInv, AccountTxOK, ListingOK, GatewayOK, ReportOK, LinesOK, TieOutOK
  <2> QED BY <1>1, <2>1 DEF TypeOK, StoreInv, StoreOK, Asked
<1> QED BY <1>1, Invariance, PTL

(***************************************************************************)
(* Every probe of lazyLedgerTimeResolver's search narrows it, a close time *)
(* that is not known included, so the search ends.                         *)
(***************************************************************************)
THEOREM SearchAlwaysNarrows == Spec => SearchNarrows
<1> DEFINE A == request.kind \in Reporting /\ request.at = "probe" /\ request'.at = "probe" =>
                   request'.hi - request'.lo < request.hi - request.lo
<1>1. ASSUME StoreInv, RequestInv, [Next]_vars PROVE [A]_request
  <2> SUFFICES ASSUME request' # request, request.kind \in Reporting,
                      request.at = "probe", request'.at = "probe"
               PROVE  request'.hi - request'.lo < request.hi - request.lo
    OBVIOUS
  <2>1. /\ ReportOK
        /\ request = [f \in ReportFields |-> request[f]]
        /\ request.kind \in {"archive_balance_at", "archive_transactions"}
    BY <1>1, KindOf DEF ReportOK, HasFields, Reporting
  <2>2. CASE Ingest
    BY <2>2, IngestGrows
  <2>3. CASE AskAny
    <3>1. request = NoRequest
      BY <2>3 DEF AskAny, AskAccountTx, AskMptHolders, AskGateway, AskReport, AskAccountLines,
                  AskTieOut, Ask
    <3>2. request.kind = "none"
      BY <3>1 DEF NoRequest
    <3> QED BY <2>1, <3>2
  <2>4. CASE Serve
    <3>1. Probe \/ ProbeFails \/ SearchEnds
      BY <2>1, <2>4 DEF Serve, AccountTxCoverage, AccountTxPage, MptHoldersPage, MptHoldersLedger,
                        GatewayLedger, GatewayCoverage, GatewaySum, ReportLedger, SearchBounds,
                        ReportItems, BalanceSum, BalanceCoverage, AccountLinesMeta,
                        AccountLinesLedger, TieOutDerived, TieOutEntries, TieOutCompare, Leave, At
    <3>2. ASSUME ProbeFails \/ SearchEnds PROVE FALSE
      <4>1. \/ request' = [request EXCEPT !.at = "refused"]
            \/ request' = [request EXCEPT !.at = "sum"]
        BY <3>2 DEF ProbeFails, SearchEnds, Refuse, Become
      <4> QED BY <2>1, <4>1 DEF ReportFields
    <3> QED BY <1>1, <2>1, <3>1, <3>2, ProbeStep
  <2>5. CASE UNCHANGED vars
    BY <2>5 DEF vars
  <2> QED BY <1>1, <2>2, <2>3, <2>4, <2>5 DEF Next
<1> QED BY <1>1, Invariance, PTL DEF Spec, SearchNarrows

(***************************************************************************)
(* A date given to the reporting methods resolves to a ledger within the   *)
(* bounds that had closed by then, and to the last such ledger if the      *)
(* close times of all of them are known, however the table of close times  *)
(* fills up meanwhile.                                                     *)
(***************************************************************************)
THEOREM ResolverIsExact == Spec => []ResolverExact
<1>1. ASSUME StoreInv, RequestInv PROVE ResolverExact
  <2> SUFFICES ASSUME request.kind \in Reporting, request.at \in {"sum", "done"},
                      request.ask.date # NoBound
               PROVE  Resolved(request)
    BY Zenon DEF ResolverExact, Resolved, Closed
  <2> QED BY <1>1, KindOf DEF ReportOK
<1> QED BY <1>1, Invariance, PTL

(***************************************************************************)
(* handleAccountTx's keyset cursor: whatever is stored and claimed between *)
(* the pages, they give each transaction once, in order, and every one     *)
(* that was in the window of all of them.                                  *)
(***************************************************************************)
THEOREM PagesAreComplete == Spec => []PagesComplete
<1>1. ASSUME StoreInv, RequestInv PROVE PagesComplete
  <2> SUFFICES ASSUME request.kind = "account_tx" PROVE PagesComplete
    BY DEF PagesComplete
  <2>1. AccountTxOK
    BY <1>1, KindOf
  <2>2. \A t : (\E k \in 1 .. Len(request.got) : request.got[k] = t) => t \in ToSet(request.got)
    BY <2>1 DEF ToSet, AccountTxOK
  <2> QED BY <2>1, <2>2 DEF PagesComplete, AccountTxOK
<1> QED BY <1>1, Invariance, PTL

(***************************************************************************)
(* mpt_holders, paged by MPToken id: no holder twice, none missed that     *)
(* every page's query saw; at a past ledger that the sweep had claimed by  *)
(* the first page, exactly the holders of that ledger and their balances,  *)
(* whatever the tail and the jobs have stored since.                       *)
(***************************************************************************)
THEOREM ListingIsExact == Spec => []ListingExact
<1>1. ASSUME StoreInv, RequestInv, At("mpt_holders", "done") PROVE ListingExact
  <2> DEFINE got == request.got
             i == request.ask.issuance
             l == request.ask.to
             S == {t \in Tx : LedgerOf[t] <= l}
             touched == {h \in Accounts : \E t \in Tx : LedgerOf[t] <= l /\ h \in HoldersIn(t, i)}
             live == {h \in touched : State(S, <<i, h>>) # Gone}
  <2>1. ListingOK /\ request.at = "done" /\ ~Paging
    BY <1>1, KindOf DEF At, Paging
  <2>2. /\ got \in Seq(Entry) /\ request.steady \subseteq Accounts /\ Asked
        /\ \A k, n \in 1 .. Len(got) : k < n => <<got[k], got[n]>> \in ByRank
        /\ \A h \in request.steady : \E k \in 1 .. Len(got) : got[k].holder = h
    BY <2>1 DEF ListingOK
  <2>3. \A k, n \in 1 .. Len(got) : got[k].holder = got[n].holder => k = n
    <3> SUFFICES ASSUME NEW k \in 1 .. Len(got), NEW n \in 1 .. Len(got), k < n,
                        got[k].holder = got[n].holder
                 PROVE  FALSE
      OBVIOUS
    <3>1. <<got[k], got[n]>> \in ByRank
      BY <2>2
    <3>2. ObjectRank[got[k].holder] < ObjectRank[got[n].holder]
      BY <3>1 DEF ByRank
    <3>3. got[k] \in Entry
      BY <2>2
    <3>4. ObjectRank[got[k].holder] \in Nat
      BY <3>3, RankFacts DEF Entry
    <3> QED BY <3>2, <3>4
  <2>4. \A e : e \in ToSet(got) <=> \E k \in 1 .. Len(got) : got[k] = e
    BY <2>2 DEF ToSet
  <2>5. request.steady \subseteq {e.holder : e \in ToSet(got)}
    BY <2>2, <2>4
  <2>6. ASSUME l # NoBound, request.swept
        PROVE  ToSet(got) = {[holder |-> h, amount |-> LedgerBalance(<<i, h>>, l)] : h \in live}
    <3>1. ToSet(got) = Holding(S, i)
      <4>1. /\ \A k \in 1 .. Len(got) : got[k] \in Holding(S, i)
            /\ \A e \in Holding(S, i) : \E k \in 1 .. Len(got) : got[k] = e
        BY <2>1, <2>6 DEF ListingOK, ListedExactly
      <4> QED BY <2>4, <4>1
    <3>2. live = {h \in Accounts : State(S, <<i, h>>) # Gone}
      <4> SUFFICES ASSUME NEW h \in Accounts, State(S, <<i, h>>) # Gone PROVE h \in touched
        OBVIOUS
      <4>1. PICK t \in S : <<i, h>> \in Touches[t]
        <5>1. Newest(S, <<i, h>>) # 0
          BY DEF State
        <5>2. S \in SUBSET Tx
          OBVIOUS
        <5> HIDE DEF S
        <5> QED BY <5>1, <5>2, NewestNone
      <4> QED BY <4>1 DEF HoldersIn
    <3> HIDE DEF live, S
    <3>3. Holding(S, i) = {[holder |-> h, amount |-> Amount(State(S, <<i, h>>))] : h \in live}
      BY <3>2, Zenon DEF Holding
    <3>4. \A h : LedgerBalance(<<i, h>>, l) = Amount(State(S, <<i, h>>))
      BY Zenon DEF LedgerBalance, S
    <3> QED BY <3>1, <3>3, <3>4
  <2> QED BY <2>3, <2>5, <2>6, Zenon DEF ListingExact
<1>2. ASSUME StoreInv, RequestInv PROVE ListingExact
  BY <1>1, <1>2 DEF ListingExact
<1> QED BY <1>2, Invariance, PTL

(***************************************************************************)
(* gateway_balances, where it answers: the obligations of an IOU whose     *)
(* sweep had claimed the ledger are what its trust lines add up to, though *)
(* the tail stores and derives between the queries.                        *)
(***************************************************************************)
THEOREM GatewayIsExact == Spec => []GatewayExact
<1>1. ASSUME StoreInv, RequestInv, At("gateway_balances", "done") PROVE GatewayExact
  <2>1. GatewayOK
    BY <1>1, KindOf DEF At
  <2>2. \A i \in request.swept : (\A h \in Accounts : Countable(<<i, h>>, request.ledger)) =>
            request.total[i] = Obligations(i, request.ledger)
    BY <2>1 DEF GatewayOK
  <2> QED BY <2>2, Zenon DEF GatewayExact, Obligations
<1>2. ASSUME StoreInv, RequestInv PROVE GatewayExact
  BY <1>1, <1>2 DEF GatewayExact
<1> QED BY <1>2, Invariance, PTL

(***************************************************************************)
(* archive_balance_at and archive_transactions: with the sweep's claim of  *)
(* the ledger, the balance is the ledger's, and the items of the range add *)
(* up to what changed it.                                                  *)
(***************************************************************************)
THEOREM ReportIsExact == Spec => []ReportExact
<1>1. ASSUME StoreInv, RequestInv, request.kind \in Reporting, request.at = "done"
      PROVE  ReportExact
  <2>1. Reported(request)
    BY <1>1, KindOf DEF ReportOK
  <2>2. request.kind = "archive_balance_at" \/ request.kind = "archive_transactions"
    BY <1>1 DEF Reporting
  <2>3. "archive_balance_at" # "archive_transactions" /\ "done" \in {"coverage", "done"}
    OBVIOUS
  <2> QED BY <1>1, <2>1, <2>2, <2>3, Zenon DEF Reported, ReportExact
<1>2. ASSUME StoreInv, RequestInv PROVE ReportExact
  BY <1>1, <1>2 DEF ReportExact
<1> QED BY <1>2, Invariance, PTL

(***************************************************************************)
(* account_lines at the latest ledger: with the sweeps of the account's    *)
(* IOUs claimed up to the ledger it reports before the metadata was read,  *)
(* and nothing read beyond it, its lines are the ledger's, from whichever  *)
(* side the account sees them.                                             *)
(***************************************************************************)
THEOREM LinesAreExact == Spec => []LinesExact
<1>1. ASSUME StoreInv, RequestInv, At("account_lines", "done"), request.ask.to = NoBound,
             \A i \in Issuances \ Mpts : <<i, request.ledger>> \in request.swept,
             \A t \in request.entries : LedgerOf[t] <= request.ledger
      PROVE  request.lines = LinesOf({t \in Tx : LedgerOf[t] <= request.ledger},
                                     request.ask.account)
  <2> DEFINE a == request.ask.account
             l == request.ledger
             S == {t \in Tx : LedgerOf[t] <= l}
  <2>1. LinesOK /\ request.at = "done"
    BY <1>1, KindOf DEF At
  <2>2. /\ request.entries \in SUBSET Tx /\ a \in Accounts
        /\ request.swept \subseteq Issuances \X (0 .. LastLedger)
        /\ request.lines = AccountLines(request.entries, a)
        /\ \A i \in Issuances, k \in Nat :
              <<i, k>> \in request.swept => ReadUpTo(request.entries, a, i, k)
    BY <1>1, <2>1, AskFacts DEF LinesOK, Asked
  <2>3. ASSUME NEW i \in Issuances \ Mpts PROVE ReadUpTo(request.entries, a, i, l)
    <3>1. <<i, l>> \in request.swept
      BY <1>1
    <3>2. l \in Nat
      BY <2>2, <3>1
    <3> QED BY <2>2, <3>1, <3>2
  <2> QED BY <1>1, <2>2, <2>3, LinesAreTheLedgers
<1>2. ASSUME NEW l, NEW a
      PROVE  LinesOf({t \in Tx : LedgerOf[t] <= l}, a) =
                LET live == {o \in Balance : /\ o[1] \notin Mpts
                                             /\ State({t \in Tx : LedgerOf[t] <= l}, o) # Gone}
                IN  {[currency |-> o[1], peer |-> IssuerOf[o[1]], balance |-> LedgerBalance(o, l)] :
                        o \in {x \in live : x[2] = a}} \cup
                    {[currency |-> o[1], peer |-> o[2], balance |-> 0 - LedgerBalance(o, l)] :
                        o \in {x \in live : IssuerOf[x[1]] = a}}
  BY Zenon DEF LinesOf, HeldLine, OwedLine, LiveLines, LedgerBalance
<1>3. ASSUME StoreInv, RequestInv PROVE LinesExact
  <2> DEFINE l == request.ledger
             a == request.ask.account
             live == {o \in Balance : /\ o[1] \notin Mpts
                                      /\ State({t \in Tx : LedgerOf[t] <= l}, o) # Gone}
             theirs ==
               {[currency |-> o[1], peer |-> IssuerOf[o[1]], balance |-> LedgerBalance(o, l)] :
                    o \in {x \in live : x[2] = a}} \cup
               {[currency |-> o[1], peer |-> o[2], balance |-> 0 - LedgerBalance(o, l)] :
                    o \in {x \in live : IssuerOf[x[1]] = a}}
  <2>1. LinesExact <=>
          (At("account_lines", "done") /\ request.ask.to = NoBound =>
              ((\A i \in Issuances \ Mpts : <<i, l>> \in request.swept)
               /\ (\A t \in request.entries : LedgerOf[t] <= l)
              => request.lines = theirs))
    BY Zenon DEF LinesExact
  <2>2. LinesOf({t \in Tx : LedgerOf[t] <= l}, a) = theirs
    BY <1>2, Zenon
  <2> HIDE DEF theirs
  <2> QED BY <1>1, <1>3, <2>1, <2>2, Zenon
<1> QED BY <1>3, Invariance, PTL

(***************************************************************************)
(* The tie-out of an issuance (runMpt, runIou) disagrees about a holder    *)
(* only if one of its two reads saw a transaction that the other did not,  *)
(* the stored history of that balance has a hole, or a change was made     *)
(* that no delta records.                                                  *)
(***************************************************************************)
THEOREM TieOutIsExplained == Spec => []TieOutAgrees
<1>1. ASSUME StoreInv, RequestInv, At("tie_out", "done"), NEW h \in request.discrepancies
      PROVE  LET o == <<request.ask.issuance, h>>
                 from == Touching(request.derivedFrom, o)
             IN  \/ Touching(request.entries, o) # from
                 \/ \E s \in Touching(Tx, o) \ from : \E t \in from : s < t
                 \/ \E t \in from : Miscounted(t, o)
  <2> DEFINE i == request.ask.issuance
  <2>1. TieOutOK /\ request.at = "done"
    BY <1>1, KindOf DEF At
  <2>2. /\ i \in Issuances /\ h \in Accounts /\ Disagrees(request, h)
        /\ request.derivedFrom \in SUBSET Tx /\ request.entries \in SUBSET Tx
        /\ request.reconstructed = Reconstructed(request.entries, i)
        /\ request.derived[h] = SumOf(Touching(request.derivedFrom, <<i, h>>), <<i, h>>)
    BY <2>1, AskFacts DEF TieOutOK, Asked
  <2> QED BY <2>2, TieOutCauses
<1>2. ASSUME StoreInv, RequestInv PROVE TieOutAgrees
  BY <1>1, <1>2, Zenon DEF TieOutAgrees, Touching
<1> QED BY <1>2, Invariance, PTL
=============================================================================
