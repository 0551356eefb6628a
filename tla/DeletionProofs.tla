--------------------------- MODULE DeletionProofs ---------------------------
(***************************************************************************)
(* Proofs about Deletion, for any history, any set of issuances, accounts, *)
(* registrations, deletes and faults.                                      *)
(***************************************************************************)
EXTENDS Deletion, TLAPS

-----------------------------------------------------------------------------
(***************************************************************************)
(* What the operators of the model return.                                 *)
(***************************************************************************)

(***************************************************************************)
(* A job is a pair, and every issuance has its issuer's.                   *)
(***************************************************************************)
LEMMA JobFacts ==
    /\ \A i \in Issuances : /\ IssuerOf[i] \in Accounts
                            /\ IssuerJob(i) = <<i, IssuerOf[i]>> /\ IssuerJob(i) \in Job
                            /\ IssuerJob(i)[1] = i /\ IssuerJob(i)[2] = IssuerOf[i]
    /\ \A j \in Job : j[1] \in Issuances /\ j[2] \in Accounts /\ j = <<j[1], j[2]>>
<1>1. IssuerOf \in [Issuances -> Accounts]  BY HistoryAssumption DEF HistoryAssumption
<1> QED  BY <1>1 DEF Job, IssuerJob

(***************************************************************************)
(* The rows a page adds are links and deltas of its own transactions.      *)
(***************************************************************************)
LEMMA PageRows ==
    ASSUME NEW page \in SUBSET Tx, NEW I, NEW x
    PROVE  /\ SweepLinks(page, I, x) \subseteq page \X Accounts
           /\ AccountLinks(page, x) \subseteq page \X Accounts
           /\ DeltaRows(page, I) \subseteq page \X Issuances \X Accounts
BY DEF SweepLinks, AccountLinks, DeltaRows

(***************************************************************************)
(* So are the links of a streamed transaction.                             *)
(***************************************************************************)
LEMMA StreamedRows ==
    ASSUME NEW t \in Tx, NEW I \in SUBSET Issuances
    PROVE  TouchedLinks(t, I) \subseteq {t} \X Accounts
BY JobFacts DEF TouchedLinks, IssuersOf, HoldersIn

(***************************************************************************)
(* A sweep links its page to every holder it discovers in it.              *)
(***************************************************************************)
LEMMA DiscoveredAreLinked ==
    ASSUME NEW i \in Issuances, NEW page \in SUBSET Tx, NEW x,
           NEW s \in Discovered(i, page)
    PROVE  /\ s \in Job /\ s[1] = i
           /\ \E l \in SweepLinks(page, {i}, x) : l[2] = s[2]
<1>1. PICK t \in page : s \in {i} \X HoldersIn(t, i)
  BY DEF Discovered
<1>2. s[1] = i /\ s[2] \in Accounts /\ <<i, s[2]>> \in Touches[t] /\ s \in Job
  BY <1>1 DEF HoldersIn, Job
<1>3. <<t, s[2]>> \in SweepLinks(page, {i}, x)
  BY <1>2 DEF SweepLinks
<1> QED  BY <1>2, <1>3

CoverageRow == [address : Accounts, from : Nat, to : Nat, job : Issuances \X Accounts]

(***************************************************************************)
(* A claim of an account for a job is a coverage row.                      *)
(***************************************************************************)
LEMMA RowType ==
    ASSUME NEW a \in Accounts, NEW j \in Job
    PROVE  Row(a, j) \in CoverageRow
BY DeletionAssumption DEF DeletionAssumption, Row, Job, CoverageRow

(***************************************************************************)
(* A page's rows have their types.                                         *)
(***************************************************************************)
LEMMA NewRowTypes ==
    ASSUME TypeOK, NEW j \in Job
    PROVE  /\ NewLinks(j) \subseteq run[j].kept \X Accounts
           /\ NewDeltas(j) \subseteq run[j].kept \X Issuances \X Accounts
           /\ NewScope(j) \subseteq Job
           /\ NewCoverage(j) \subseteq CoverageRow
<1>1. run[j].kept \in SUBSET Tx  BY DEF TypeOK
<1>2. NewLinks(j) \subseteq run[j].kept \X Accounts
  BY <1>1, PageRows DEF NewLinks
<1>3. NewDeltas(j) \subseteq run[j].kept \X Issuances \X Accounts
  BY <1>1 DEF NewDeltas, DeltaRows
<1>4. NewScope(j) \subseteq Job
  BY <1>1, JobFacts, DiscoveredAreLinked DEF NewScope
<1>5. NewCoverage(j) \subseteq CoverageRow
  <2>1. scope \subseteq Job  BY DEF TypeOK
  <2>2. \A a \in Accounts : Row(a, j) \in CoverageRow  BY RowType
  <2>3. \A s \in scope \cup NewScope(j) \cup {j} : s[2] \in Accounts
    BY <1>4, <2>1, JobFacts
  <2>4. ASSUME NEW row \in NewCoverage(j) PROVE row \in CoverageRow
    <3>1. CASE Kind(j) = "account"  BY <2>2, <3>1, JobFacts DEF NewCoverage
    <3>2. CASE Kind(j) # "account"
      <4>1. PICK s \in {q \in scope \cup NewScope(j) : q[1] = j[1]} \cup {j} : row = Row(s[2], j)
        BY <3>2 DEF NewCoverage
      <4> QED  BY <2>2, <2>3, <4>1
    <3> QED  BY <3>1, <3>2
  <2> QED  BY <2>4
<1> QED  BY <1>2, <1>3, <1>4, <1>5

-----------------------------------------------------------------------------
(***************************************************************************)
(* The inductive invariant.                                                *)
(***************************************************************************)

(***************************************************************************)
(* What is being deleted is not tracked, and until its row is gone a       *)
(* delete's target is among what is being deleted.                         *)
(***************************************************************************)
DeletingUntracked == tracked \cap deleting = {}
TargetFlagged == delete.pc \in {"drain", "purge"} => delete.target \subseteq deleting

(***************************************************************************)
(* The links a streamed transaction waits to be stored with are its own.   *)
(***************************************************************************)
OwnLinks == \A e \in inHand : \A l \in e.links : l[1] = e.tx

(***************************************************************************)
(* ReferentialIntegrity, foreign key by foreign key.                       *)
(***************************************************************************)
TxKeys == /\ \A l \in links : l[1] \in txRows
          /\ \A d \in deltas : d[1] \in txRows
AccountKeys ==
    /\ \A l \in links : l[2] \in accounts
    /\ \A d \in deltas : d[3] \in accounts
    /\ \A s \in scope : s[2] \in accounts
    /\ \A row \in coverage : row.address \in accounts
IssuanceKeys ==
    /\ \A d \in deltas : d[2] \in rows
    /\ \A s \in scope : s[1] \in rows
JobKeys == \A j \in Job : status[j] # "none" => j[1] \in rows /\ j[2] \in accounts
Keys == TxKeys /\ AccountKeys /\ IssuanceKeys /\ JobKeys

(***************************************************************************)
(* A delete's flags: see DeletingUntracked, TargetFlagged.                 *)
(***************************************************************************)
Flags == DeletingUntracked /\ TargetFlagged /\ TrackedRegistered

(***************************************************************************)
(* A job that has no row has no marker either.                             *)
(***************************************************************************)
NoMarker == \A j \in Job : status[j] = "none" => marker[j] = 0

IInv == TypeOK /\ Flags /\ OwnLinks /\ Keys /\ NoMarker

(***************************************************************************)
(* The keys together are ReferentialIntegrity.                             *)
(***************************************************************************)
LEMMA KeyParts == ReferentialIntegrity <=> Keys
<1>1. TxKeys <=> {l[1] : l \in links} \cup {d[1] : d \in deltas} \subseteq txRows
  BY DEF TxKeys
<1>2. AccountKeys <=> {l[2] : l \in links} \cup {d[3] : d \in deltas} \cup {s[2] : s \in scope}
                         \cup {row.address : row \in coverage} \subseteq accounts
  BY DEF AccountKeys
<1>3. IssuanceKeys <=> {d[2] : d \in deltas} \cup {s[1] : s \in scope} \subseteq rows
  BY DEF IssuanceKeys
<1> QED  BY <1>1, <1>2, <1>3 DEF ReferentialIntegrity, JobKeys, Keys

(***************************************************************************)
(* The tables' part of TypeOK, the runners' and that of the rest.          *)
(***************************************************************************)
TableTypes ==
    /\ txRows \subseteq Tx
    /\ links \subseteq Tx \X Accounts
    /\ deltas \subseteq Tx \X Issuances \X Accounts
    /\ coverage \subseteq CoverageRow
    /\ rows \subseteq Issuances /\ accounts \subseteq Accounts /\ scope \subseteq Job
    /\ status \in [Job -> {"none", "open", "completed"}]
    /\ marker \in [Job -> {0} \cup Tx]

Runner == [pc : {"idle", "fetch", "page"}, cursor : {0} \cup Tx, upto : {0} \cup Tx,
           kept : SUBSET Tx, final : BOOLEAN]
IngestTypes ==
    /\ run \in [Job -> Runner]
    /\ registering \in [Issuances -> {"no", "sweep", "swept", "heal"}]
    /\ inHand \subseteq [tx : Tx, links : SUBSET (Tx \X Accounts)]
    /\ newHolders \subseteq Job
    /\ stale \subseteq Issuances

ServerTypes ==
    /\ tracked \subseteq Issuances /\ deleting \subseteq Issuances
    /\ posts \subseteq Issuances
    /\ maintenance \in BOOLEAN
    /\ delete \in [pc : {"none", "drain", "purge", "compact"}, target : SUBSET Issuances,
                   others : SUBSET Issuances]

BookTypes ==
    /\ deleted \subseteq Issuances /\ aborted \subseteq Issuances /\ exposed \subseteq Issuances
    /\ faults \in Nat /\ deletes \in Nat

(***************************************************************************)
(* TypeOK is the conjunction of the four.                                  *)
(***************************************************************************)
LEMMA TypeParts == TypeOK <=> TableTypes /\ IngestTypes /\ ServerTypes /\ BookTypes
BY DEF TypeOK, ArchiveTypeOK, TableTypes, IngestTypes, ServerTypes, BookTypes, Runner,
       CoverageRow

(***************************************************************************)
(* The runners an action makes, and the streamed transactions, have their  *)
(* types.                                                                  *)
(***************************************************************************)
LEMMA RunnerTypes ==
    /\ Idle \in Runner
    /\ \A c \in {0} \cup Tx : [Idle EXCEPT !.pc = "fetch", !.cursor = c] \in Runner
    /\ [Idle EXCEPT !.pc = "fetch"] \in Runner
BY DEF Idle, Runner

(***************************************************************************)
(* A run that ends leaves its runner idle and the registration told.       *)
(***************************************************************************)
LEMMA EndRunType ==
    ASSUME IngestTypes, NEW j \in Job, NEW result \in {"no", "swept"}, EndRun(j, result),
           UNCHANGED <<inHand, newHolders, stale>>
    PROVE  IngestTypes'
BY RunnerTypes DEF IngestTypes, EndRun

(***************************************************************************)
(* The tables of the model's start have their types.                       *)
(***************************************************************************)
LEMMA InitType == Init => TypeOK
<1> SUFFICES ASSUME Init PROVE TypeOK
  OBVIOUS
<1>1. Initial \subseteq Issuances /\ LastLedger \in Nat
  BY DeletionAssumption DEF DeletionAssumption
<1>2. txRows \subseteq Tx  BY DEF Init
<1>3. links \subseteq Tx \X Accounts
  <2>1. \A i \in Initial : SweepLinks({t \in txRows : InScope(t, {i})}, {i}, IssuerOf[i])
                               \subseteq Tx \X Accounts
    BY DEF SweepLinks
  <2> QED  BY <2>1 DEF Init
<1>4. deltas \subseteq Tx \X Issuances \X Accounts
  BY DEF Init, DeltaRows
<1>5. scope \subseteq Job
  <2>1. \A i \in Initial : Discovered(i, Tx) \subseteq Job
    BY <1>1 DEF Discovered, HoldersIn, Job
  <2>2. scope = UNION {Discovered(i, Tx) : i \in Initial}  BY DEF Init
  <2> QED  BY <2>1, <2>2
<1>6. coverage \subseteq CoverageRow
  <2>1. \A s \in scope \cup {IssuerJob(i) : i \in Initial} :
           s[2] \in Accounts /\ IssuerJob(s[1]) \in Job
    BY <1>1, <1>5, JobFacts
  <2> QED  BY <2>1, RowType DEF Init
<1>7. accounts \subseteq Accounts
  BY <1>1, <1>3, JobFacts DEF Init, IssuersOf
<1>8. TableTypes
  BY <1>1, <1>2, <1>3, <1>4, <1>5, <1>6, <1>7 DEF Init, TableTypes
<1>9. IngestTypes /\ ServerTypes /\ BookTypes
  BY <1>1, RunnerTypes DEF Init, IngestTypes, ServerTypes, BookTypes, NoDelete
<1> QED  BY <1>8, <1>9, TypeParts

(***************************************************************************)
(* What one account_tx request returns are transactions.                   *)
(***************************************************************************)
LEMMA FetchType ==
    ASSUME TypeOK, NEW j \in Job, Fetch(j)
    PROVE  run' \in [Job -> Runner]
<1>1. run \in [Job -> Runner]  BY TypeParts DEF IngestTypes
<1>2. j[2] \in Accounts /\ IndexOf \in [Accounts -> SUBSET Tx]
  BY JobFacts, HistoryAssumption DEF HistoryAssumption
<1>3. AccountTx(j[2], 0, LastLedger, run[j].cursor) \subseteq Tx
  BY <1>2 DEF AccountTx
<1>4. PICK upto \in {0} \cup Tx, final \in BOOLEAN, kept \in SUBSET Tx :
         run' = [run EXCEPT ![j] = [pc |-> "page", cursor |-> run[j].cursor, upto |-> upto,
                                    final |-> final, kept |-> kept]]
  <2> DEFINE rest == AccountTx(j[2], 0, LastLedger, run[j].cursor)
             wanted == IF Kind(j) = "issuer" THEN {j[1]} ELSE tracked
             kept(u) == {t \in {v \in rest : v <= u} : InScope(t, wanted)}
  <2>1. PICK upto \in rest \cup {run[j].cursor}, final \in BOOLEAN :
           run' = [run EXCEPT ![j] = [pc |-> "page", cursor |-> run[j].cursor, upto |-> upto,
                                      final |-> final, kept |-> kept(upto)]]
    BY DEF Fetch
  <2>2. kept(upto) \in SUBSET Tx /\ upto \in {0} \cup Tx
    BY <1>1, <1>3 DEF Runner
  <2> HIDE DEF kept, rest
  <2> QED  BY <2>1, <2>2
<1>5. run[j].cursor \in {0} \cup Tx  BY <1>1 DEF Runner
<1>6. [pc |-> "page", cursor |-> run[j].cursor, upto |-> upto, final |-> final, kept |-> kept]
         \in Runner
  BY <1>4, <1>5 DEF Runner
<1> QED  BY <1>1, <1>4, <1>6

(***************************************************************************)
(* A page transaction leaves the tables and the runners with their types.  *)
(***************************************************************************)
LEMMA CommitType ==
    ASSUME TypeOK, NEW j \in Job, CommitPage(j)
    PROVE  TableTypes' /\ IngestTypes'
<1>1. TableTypes /\ IngestTypes  BY TypeParts
<1>2. run[j].kept \in SUBSET Tx /\ run[j].upto \in {0} \cup Tx
  BY <1>1 DEF IngestTypes, Runner
<1>3. /\ NewLinks(j) \subseteq Tx \X Accounts
      /\ NewDeltas(j) \subseteq Tx \X Issuances \X Accounts
      /\ NewScope(j) \subseteq Job
      /\ NewCoverage(j) \subseteq CoverageRow
  BY <1>2, NewRowTypes
<1>4. /\ txRows' \subseteq Tx
      /\ links' \subseteq Tx \X Accounts
      /\ deltas' \subseteq Tx \X Issuances \X Accounts
      /\ coverage' \subseteq CoverageRow
      /\ accounts' \subseteq Accounts
      /\ scope' \subseteq Job
  <2>1. NewAccounts(j) \subseteq Accounts
    <3>1. \A s \in NewScope(j) : s[2] \in Accounts  BY <1>3, JobFacts
    <3> QED  BY <1>3, <3>1 DEF NewAccounts
  <2> QED  BY <1>1, <1>2, <1>3, <2>1 DEF CommitPage, TableTypes
<1>5. /\ status' \in [Job -> {"none", "open", "completed"}]
      /\ marker' \in [Job -> {0} \cup Tx]
  BY <1>1, <1>2 DEF CommitPage, TableTypes
<1>6. TableTypes'
  BY <1>1, <1>4, <1>5 DEF CommitPage, TableTypes
<1>7. IngestTypes'
  <2>1. CASE run[j].final  BY <1>1, <2>1, EndRunType DEF CommitPage
  <2>2. CASE ~run[j].final
    <3>1. [Idle EXCEPT !.pc = "fetch", !.cursor = run[j].upto] \in Runner
      BY <1>2, RunnerTypes
    <3> QED  BY <1>1, <2>2, <3>1 DEF CommitPage, IngestTypes
  <2> QED  BY <2>1, <2>2
<1> QED  BY <1>6, <1>7

(***************************************************************************)
(* A streamed transaction carries links, and storing it adds rows.         *)
(***************************************************************************)
LEMMA StreamTypes ==
    ASSUME TypeOK
    PROVE  /\ \A t \in Tx : Map(t) => IngestTypes'
           /\ \A e \in inHand : Store(e) => TableTypes' /\ IngestTypes'
<1>1. TableTypes /\ IngestTypes /\ tracked \in SUBSET Issuances
  BY TypeParts DEF ServerTypes
<1>2. ASSUME NEW t \in Tx, Map(t) PROVE IngestTypes'
  <2>1. TouchedLinks(t, tracked) \in SUBSET (Tx \X Accounts)
    BY <1>1, StreamedRows
  <2>2. \A x : SweepLinks({t}, tracked, x) \in SUBSET (Tx \X Accounts)
    BY DEF SweepLinks
  <2>3. PICK l \in SUBSET (Tx \X Accounts) :
           inHand' = inHand \cup {Streamed(t, l)}
    BY <1>2, <2>1, <2>2 DEF Map
  <2>4. Streamed(t, l) \in [tx : Tx, links : SUBSET (Tx \X Accounts)]
    BY DEF Streamed
  <2> QED  BY <1>1, <1>2, <2>3, <2>4 DEF Map, IngestTypes
<1>3. ASSUME NEW e \in inHand, Store(e) PROVE TableTypes' /\ IngestTypes'
  <2>1. e.tx \in Tx /\ e.links \in SUBSET (Tx \X Accounts)
    BY <1>1 DEF IngestTypes
  <2>2. DeltaRows({e.tx}, tracked) \subseteq Tx \X Issuances \X Accounts
    BY <2>1 DEF DeltaRows
  <2>3. Touches[e.tx] \subseteq Job
    BY <2>1, HistoryAssumption DEF HistoryAssumption, Job
  <2>4. TableTypes'
    BY <1>1, <1>3, <2>1, <2>2 DEF Store, TableTypes
  <2>5. IngestTypes'
    BY <1>1, <1>3, <2>3 DEF Store, IngestTypes
  <2> QED  BY <2>4, <2>5
<1> QED  BY <1>2, <1>3

(***************************************************************************)
(* Every step keeps the types.                                             *)
(***************************************************************************)
LEMMA NextType == TypeOK /\ [Next]_vars => TypeOK'
<1> SUFFICES ASSUME TypeOK, [Next]_vars PROVE TypeOK'
  OBVIOUS
<1> USE DEF vars, tableVars, archiveVars, ingestVars, serverVars, adminVars, bookVars
<1>0. TableTypes /\ IngestTypes /\ ServerTypes /\ BookTypes
  BY TypeParts
<1> SUFFICES TableTypes' /\ IngestTypes' /\ ServerTypes' /\ BookTypes'
  BY DEF TypeOK, ArchiveTypeOK, TableTypes, IngestTypes, ServerTypes, BookTypes, Runner,
         CoverageRow
<1>1. ASSUME NEW i \in Issuances, AdmitPost(i)
      PROVE  TableTypes' /\ IngestTypes' /\ ServerTypes' /\ BookTypes'
  BY <1>0, <1>1 DEF AdmitPost, TableTypes, IngestTypes, ServerTypes, BookTypes
<1>2. ASSUME NEW i \in Issuances, Register(i)
      PROVE  TableTypes' /\ IngestTypes' /\ ServerTypes' /\ BookTypes'
  <2>1. IssuerJob(i) \in Job /\ IssuerOf[i] \in Accounts  BY JobFacts
  <2>2. TableTypes'  BY <1>0, <1>2, <2>1 DEF Register, TableTypes
  <2>3. IngestTypes'  BY <1>0, <1>2, <2>1, RunnerTypes DEF Register, IngestTypes
  <2> QED  BY <1>0, <1>2, <2>2, <2>3 DEF Register, ServerTypes, BookTypes
<1>3. ASSUME NEW i \in Issuances, Ingest(i)
      PROVE  TableTypes' /\ IngestTypes' /\ ServerTypes' /\ BookTypes'
  BY <1>0, <1>3 DEF Ingest, AfterSweep, HealEnds, Trackable,
                    TableTypes, IngestTypes, ServerTypes, BookTypes
<1>4. ASSUME NEW i \in Issuances, Rediscover(i)
      PROVE  TableTypes' /\ IngestTypes' /\ ServerTypes' /\ BookTypes'
  <2>1. IssuerJob(i) \in Job /\ IssuerOf[i] \in Accounts  BY JobFacts
  <2>2. TableTypes'  BY <1>0, <1>4, <2>1 DEF Rediscover, TableTypes
  <2>3. [Idle EXCEPT !.pc = "fetch", !.cursor = marker[IssuerJob(i)]] \in Runner
    BY <1>0, <2>1, RunnerTypes DEF TableTypes
  <2>4. IngestTypes'  BY <1>0, <1>4, <2>1, <2>3 DEF Rediscover, IngestTypes
  <2> QED  BY <1>0, <1>4, <2>2, <2>4 DEF Rediscover, ServerTypes, BookTypes
<1>5. ASSUME NEW i \in Issuances, BeginDelete(i)
      PROVE  TableTypes' /\ IngestTypes' /\ ServerTypes' /\ BookTypes'
  BY <1>0, <1>5 DEF BeginDelete, TableTypes, IngestTypes, ServerTypes, BookTypes
<1>6. ASSUME NEW i \in Issuances, DeleteStep(i)
      PROVE  TableTypes' /\ IngestTypes' /\ ServerTypes' /\ BookTypes'
  <2>1. CASE Drained(i)
    BY <1>0, <2>1 DEF Drained, TableTypes, IngestTypes, ServerTypes, BookTypes
  <2>2. CASE Purge(i)
    <3>1. TableTypes'  BY <1>0, <2>2 DEF Purge, TableTypes
    <3> QED  BY <1>0, <2>2, <3>1 DEF Purge, TableTypes, IngestTypes, ServerTypes, BookTypes
  <2>3. CASE FinishDelete
    BY <1>0, <2>3 DEF FinishDelete, NoDelete, TableTypes, IngestTypes, ServerTypes, BookTypes
  <2> QED  BY <1>6, <2>1, <2>2, <2>3 DEF DeleteStep
<1>7. ASSUME NEW i \in Issuances, AbortDelete(i) \/ Release(i)
      PROVE  TableTypes' /\ IngestTypes' /\ ServerTypes' /\ BookTypes'
  <2>1. CASE AbortDelete(i)
    <3>1. ServerTypes'  BY <1>0, <2>1 DEF AbortDelete, NoDelete, ServerTypes
    <3>2. BookTypes'  BY <1>0, <2>1 DEF AbortDelete, BookTypes
    <3> QED  BY <1>0, <2>1, <3>1, <3>2 DEF AbortDelete, TableTypes, IngestTypes
  <2>2. CASE Release(i)
    <3>1. ServerTypes'  BY <1>0, <2>2 DEF Release, Trackable, TableTypes, ServerTypes
    <3> QED  BY <1>0, <2>2, <3>1 DEF Release, TableTypes, IngestTypes, BookTypes
  <2> QED  BY <1>7, <2>1, <2>2
<1>8. CASE RefreshTracked
  BY <1>0, <1>8 DEF RefreshTracked, Trackable, TableTypes, IngestTypes, ServerTypes, BookTypes
<1>9. ASSUME NEW j \in Job, Claim(j)
      PROVE  TableTypes' /\ IngestTypes' /\ ServerTypes' /\ BookTypes'
  <2>1. [Idle EXCEPT !.pc = "fetch", !.cursor = marker[j]] \in Runner
    BY <1>0, RunnerTypes DEF TableTypes
  <2> QED  BY <1>0, <1>9, <2>1 DEF Claim, TableTypes, IngestTypes, ServerTypes, BookTypes
<1>10. ASSUME NEW j \in Job, JobStep(j)
       PROVE  TableTypes' /\ IngestTypes' /\ ServerTypes' /\ BookTypes'
  <2>1. CASE Fetch(j)
    BY <1>0, <2>1, FetchType DEF Fetch, TableTypes, IngestTypes, ServerTypes, BookTypes
  <2>2. CASE CommitPage(j)
    BY <1>0, <2>2, CommitType DEF CommitPage, ServerTypes, BookTypes
  <2>3. CASE StopAtPage(j)
    <3>1. IngestTypes'  BY <1>0, <2>3, EndRunType DEF StopAtPage
    <3> QED  BY <1>0, <2>3, <3>1 DEF StopAtPage, TableTypes, ServerTypes, BookTypes
  <2>4. CASE FailPage(j)
    <3>1. IngestTypes'  BY <1>0, <2>4, EndRunType DEF FailPage
    <3> QED  BY <1>0, <2>4, <3>1 DEF FailPage, TableTypes, ServerTypes, BookTypes
  <2> QED  BY <1>10, <2>1, <2>2, <2>3, <2>4 DEF JobStep
<1>11. ASSUME NEW t \in Tx, Map(t)
       PROVE  TableTypes' /\ IngestTypes' /\ ServerTypes' /\ BookTypes'
  BY <1>0, <1>11, StreamTypes DEF Map, TableTypes, ServerTypes, BookTypes
<1>12. CASE Restart
  <2>1. IngestTypes'  BY <1>0, <1>12, RunnerTypes DEF Restart, IngestTypes
  <2>2. ServerTypes'  BY <1>0, <1>12 DEF Restart, NoDelete, TableTypes, ServerTypes
  <2> QED  BY <1>0, <1>12, <2>1, <2>2 DEF Restart, TableTypes, BookTypes
<1>13. ASSUME NEW e \in inHand, Store(e)
       PROVE  TableTypes' /\ IngestTypes' /\ ServerTypes' /\ BookTypes'
  BY <1>0, <1>13, StreamTypes DEF Store, ServerTypes, BookTypes
<1>14. ASSUME NEW p \in newHolders, RecordHolder(p)
       PROVE  TableTypes' /\ IngestTypes' /\ ServerTypes' /\ BookTypes'
  <2>1. p \in Job /\ p[2] \in Accounts  BY <1>0, JobFacts DEF IngestTypes
  <2>2. TableTypes'  BY <1>0, <1>14, <2>1 DEF RecordHolder, TableTypes
  <2> QED  BY <1>0, <1>14, <2>2 DEF RecordHolder, IngestTypes, ServerTypes, BookTypes
<1>15. CASE UNCHANGED vars
  BY <1>0, <1>15 DEF TableTypes, IngestTypes, ServerTypes, BookTypes
<1> QED
  BY <1>1, <1>2, <1>3, <1>4, <1>5, <1>6, <1>7, <1>8, <1>9, <1>10, <1>11, <1>12, <1>13,
     <1>14, <1>15 DEF Next

-----------------------------------------------------------------------------
(***************************************************************************)
(* The flags of a delete and the tracked set.                              *)
(***************************************************************************)

(***************************************************************************)
(* No step tracks what is being deleted, or what has no row: a refresh     *)
(* leaves out what is being deleted, a purge removes what is flagged, and  *)
(* the flag is lifted once the row is gone or the purge given up.          *)
(***************************************************************************)
LEMMA NextFlags == Flags /\ [Next]_vars => Flags'
<1> SUFFICES ASSUME Flags, [Next]_vars PROVE Flags'
  OBVIOUS
<1> USE DEF Flags, DeletingUntracked, TargetFlagged, TrackedRegistered,
            vars, tableVars, archiveVars, ingestVars, serverVars, adminVars, bookVars
<1>1. ASSUME NEW i \in Issuances, AdmitPost(i) \/ Register(i) \/ Rediscover(i)
      PROVE  Flags'
  BY <1>1 DEF AdmitPost, Register, Rediscover
<1>2. ASSUME NEW i \in Issuances, Ingest(i) PROVE Flags'
  BY <1>2 DEF Ingest, AfterSweep, HealEnds, Trackable
<1>3. ASSUME NEW i \in Issuances, BeginDelete(i) PROVE Flags'
  BY <1>3 DEF BeginDelete
<1>4. ASSUME NEW i \in Issuances, DeleteStep(i) PROVE Flags'
  <2>1. CASE Drained(i)  BY <2>1 DEF Drained
  <2>2. CASE Purge(i)  BY <2>2 DEF Purge
  <2>3. CASE FinishDelete  BY <2>3 DEF FinishDelete, NoDelete
  <2> QED  BY <1>4, <2>1, <2>2, <2>3 DEF DeleteStep
<1>5. ASSUME NEW i \in Issuances, AbortDelete(i) \/ Release(i) PROVE Flags'
  BY <1>5 DEF AbortDelete, Release, NoDelete, Trackable
<1>6. CASE RefreshTracked
  BY <1>6 DEF RefreshTracked, Trackable
<1>7. ASSUME NEW j \in Job, Claim(j) \/ JobStep(j) PROVE Flags'
  BY <1>7 DEF Claim, JobStep, Fetch, CommitPage, StopAtPage, FailPage
<1>8. CASE Restart
  BY <1>8 DEF Restart, NoDelete
<1>9. ASSUME NEW e \in inHand, Store(e) PROVE Flags'
  BY <1>8, <1>9 DEF Store
<1>10. ASSUME NEW t \in Tx, Map(t) PROVE Flags'
  BY <1>10 DEF Map
<1>11. ASSUME NEW p \in newHolders, RecordHolder(p) PROVE Flags'
  BY <1>11 DEF RecordHolder
<1>12. CASE UNCHANGED vars
  BY <1>12
<1> QED
  BY <1>1, <1>2, <1>3, <1>4, <1>5, <1>6, <1>7, <1>8, <1>9, <1>10, <1>11, <1>12 DEF Next

(***************************************************************************)
(* A streamed transaction is linked to accounts by its own links only.     *)
(***************************************************************************)
LEMMA NextOwnLinks == TypeOK /\ OwnLinks /\ [Next]_vars => OwnLinks'
<1> SUFFICES ASSUME TypeOK, OwnLinks, [Next]_vars PROVE OwnLinks'
  OBVIOUS
<1> USE DEF vars, tableVars, archiveVars, ingestVars, serverVars, adminVars, bookVars
<1>1. ASSUME inHand' \subseteq inHand PROVE OwnLinks'
  BY <1>1 DEF OwnLinks
<1>2. ASSUME NEW t \in Tx, Map(t) PROVE OwnLinks'
  <2> DEFINE Own == {l \in Tx \X Accounts : l[1] = t}
  <2>1. TouchedLinks(t, tracked) \subseteq Own
    <3>1. tracked \in SUBSET Issuances  BY DEF TypeOK
    <3> QED  BY <3>1, StreamedRows
  <2>2. \A x : SweepLinks({t}, tracked, x) \subseteq Own  BY DEF SweepLinks
  <2>3. PICK own \in SUBSET Own :
           inHand' = inHand \cup {Streamed(t, own)}
    BY <1>2, <2>1, <2>2 DEF Map
  <2>4. Streamed(t, own).tx = t /\ Streamed(t, own).links = own
    BY DEF Streamed
  <2> QED  BY <2>3, <2>4 DEF OwnLinks
<1>3. CASE Restart  BY <1>1, <1>3 DEF Restart
<1>4. ASSUME NEW e \in inHand, Store(e) PROVE OwnLinks'
  BY <1>1, <1>3, <1>4 DEF Store
<1>5. ASSUME NEW i \in Issuances,
             \/ AdmitPost(i) \/ Register(i) \/ Ingest(i) \/ Rediscover(i)
             \/ BeginDelete(i) \/ DeleteStep(i) \/ AbortDelete(i) \/ Release(i)
      PROVE  OwnLinks'
  BY <1>1, <1>5 DEF AdmitPost, Register, Ingest, AfterSweep, HealEnds, Rediscover, BeginDelete,
                    DeleteStep, Drained, Purge, FinishDelete, AbortDelete, Release
<1>6. ASSUME NEW j \in Job, Claim(j) \/ JobStep(j) PROVE OwnLinks'
  BY <1>1, <1>6 DEF Claim, JobStep, Fetch, CommitPage, StopAtPage, FailPage
<1>7. ASSUME NEW p \in newHolders, RecordHolder(p) PROVE OwnLinks'
  BY <1>1, <1>7 DEF RecordHolder
<1>8. CASE RefreshTracked \/ UNCHANGED vars
  BY <1>1, <1>8 DEF RefreshTracked
<1> QED  BY <1>2, <1>3, <1>4, <1>5, <1>6, <1>7, <1>8 DEF Next

(***************************************************************************)
(* Only a page transaction moves a marker, and not that of a job whose row *)
(* is gone.                                                                *)
(***************************************************************************)
LEMMA NextNoMarker == TypeOK /\ NoMarker /\ [Next]_vars => NoMarker'
<1> SUFFICES ASSUME TypeOK, NoMarker, [Next]_vars PROVE NoMarker'
  OBVIOUS
<1> USE DEF vars, tableVars, archiveVars, ingestVars, serverVars, adminVars, bookVars
<1>1. ASSUME UNCHANGED marker, \A j \in Job : status'[j] = "none" => status[j] = "none"
      PROVE  NoMarker'
  BY <1>1 DEF NoMarker
<1>2. ASSUME NEW j \in Job, CommitPage(j) PROVE NoMarker'
  <2>1. status \in [Job -> {"none", "open", "completed"}] /\ marker \in [Job -> {0} \cup Tx]
    BY DEF TypeOK
  <2> QED  BY <1>2, <2>1 DEF CommitPage, NoMarker
<1>3. ASSUME NEW i \in Issuances, Purge(i) PROVE NoMarker'
  BY <1>3 DEF Purge, NoMarker
<1>4. ASSUME NEW i \in Issuances, Register(i) \/ Rediscover(i) PROVE NoMarker'
  <2>1. status \in [Job -> {"none", "open", "completed"}]  BY DEF TypeOK
  <2> QED  BY <1>1, <1>4, <2>1 DEF Register, Rediscover
<1>5. ASSUME NEW p \in newHolders, RecordHolder(p) PROVE NoMarker'
  <2>1. status \in [Job -> {"none", "open", "completed"}]  BY DEF TypeOK
  <2> QED  BY <1>1, <1>5, <2>1 DEF RecordHolder
<1>6. CASE Restart  BY <1>1, <1>6 DEF Restart
<1>7. ASSUME NEW e \in inHand, Store(e) PROVE NoMarker'
  BY <1>1, <1>6, <1>7 DEF Store
<1>8. ASSUME NEW i \in Issuances,
             \/ AdmitPost(i) \/ Ingest(i) \/ BeginDelete(i) \/ DeleteStep(i)
             \/ AbortDelete(i) \/ Release(i)
      PROVE  NoMarker'
  BY <1>1, <1>3, <1>8 DEF AdmitPost, Ingest, AfterSweep, HealEnds, BeginDelete, DeleteStep,
                          Drained, FinishDelete, AbortDelete, Release
<1>9. ASSUME NEW j \in Job, Claim(j) \/ JobStep(j) PROVE NoMarker'
  BY <1>1, <1>2, <1>9 DEF Claim, JobStep, Fetch, StopAtPage, FailPage
<1>10. ASSUME NEW t \in Tx, Map(t) PROVE NoMarker'
  BY <1>1, <1>10 DEF Map
<1>11. CASE RefreshTracked \/ UNCHANGED vars
  BY <1>1, <1>11 DEF RefreshTracked
<1> QED  BY <1>2, <1>4, <1>5, <1>6, <1>7, <1>8, <1>9, <1>10, <1>11 DEF Next

-----------------------------------------------------------------------------
(***************************************************************************)
(* The foreign keys.                                                       *)
(***************************************************************************)

(***************************************************************************)
(* The model's start is what completed sweeps leave: every holder they     *)
(* discovered has a link, and every account linked has a row.              *)
(***************************************************************************)
LEMMA InitKeys == Init => Keys
<1> SUFFICES ASSUME Init PROVE Keys
  OBVIOUS
<1>1. Initial \subseteq Issuances /\ rows = Initial
  BY DeletionAssumption DEF DeletionAssumption, Init
<1>2. \A l \in links : l[1] \in txRows /\ l[2] \in accounts
  BY DEF Init, SweepLinks
<1>3. ASSUME NEW i \in Initial, NEW t \in Tx, NEW a \in Accounts, <<i, a>> \in Touches[t]
      PROVE  t \in txRows /\ <<t, a>> \in links /\ a \in accounts
  <2>1. InScope(t, {i}) /\ InScope(t, Initial)  BY <1>3 DEF InScope, HoldersIn
  <2>2. t \in txRows  BY <2>1 DEF Init
  <2>3. <<t, a>> \in SweepLinks({u \in txRows : InScope(u, {i})}, {i}, IssuerOf[i])
    BY <1>3, <2>1, <2>2 DEF SweepLinks
  <2>4. <<t, a>> \in links  BY <2>3 DEF Init
  <2> QED  BY <1>2, <2>2, <2>4
<1>4. \A d \in deltas : d[1] \in txRows /\ d[2] \in rows /\ d[3] \in accounts
  BY <1>1, <1>3 DEF Init, DeltaRows
<1>5. \A s \in scope : s[1] \in rows /\ s[2] \in accounts
  <2>1. ASSUME NEW s \in scope PROVE s[1] \in rows /\ s[2] \in accounts
    <3>1. scope = UNION {Discovered(i, Tx) : i \in Initial}  BY DEF Init
    <3>2. PICK i \in Initial : s \in Discovered(i, Tx)  BY <3>1
    <3>3. PICK t \in Tx : s \in {i} \X HoldersIn(t, i)  BY <3>2 DEF Discovered
    <3>4. s[1] = i /\ s[2] \in Accounts /\ <<i, s[2]>> \in Touches[t]
      BY <3>3 DEF HoldersIn
    <3> QED  BY <1>1, <1>3, <3>4
  <2> QED  BY <2>1
<1>6. \A i \in Initial : IssuerOf[i] \in accounts  BY DEF Init, IssuersOf
<1>7. \A row \in coverage : row.address \in accounts
  <2>1. \A s \in scope \cup {IssuerJob(i) : i \in Initial} : s[2] \in accounts
    BY <1>1, <1>5, <1>6, JobFacts
  <2>2. \A row \in coverage : \E s \in scope \cup {IssuerJob(i) : i \in Initial} :
           row = Row(s[2], IssuerJob(s[1]))
    BY DEF Init
  <2> QED  BY <2>1, <2>2 DEF Row
<1>8. JobKeys
  <2>1. \A j \in Job : status[j] # "none" => \E i \in Initial : j = IssuerJob(i)
    BY DEF Init
  <2> QED  BY <1>1, <1>6, <2>1, JobFacts DEF JobKeys
<1> QED  BY <1>2, <1>4, <1>5, <1>7, <1>8 DEF Keys, TxKeys, AccountKeys, IssuanceKeys

(***************************************************************************)
(* A page that is committed refers to rows that are there, or that it      *)
(* inserts.                                                                *)
(***************************************************************************)
LEMMA CommitKeys ==
    ASSUME TypeOK, Keys, NEW j \in Job, CommitPage(j)
    PROVE  Keys'
<1> USE DEF Keys
<1>1. run[j].kept \in SUBSET Tx  BY DEF TypeOK
<1>2. /\ NewLinks(j) \subseteq run[j].kept \X Accounts
      /\ NewDeltas(j) \subseteq run[j].kept \X Issuances \X Accounts
  BY NewRowTypes
<1>3. TxKeys'
  BY <1>2 DEF CommitPage, TxKeys
<1>5. accounts' = accounts \cup NewAccounts(j)  BY DEF CommitPage
<1>6. AccountKeys'
  <2>1. KeysHold(j)  BY DEF CommitPage
  <2>2. /\ \A d \in NewDeltas(j) : d[3] \in accounts'
        /\ \A row \in NewCoverage(j) : row.address \in accounts'
    BY <1>5, <2>1 DEF KeysHold, NewAccounts
  <2>3. \A s \in NewScope(j) : s[2] \in accounts'  BY <1>5 DEF NewAccounts
  <2>4. \A l \in NewLinks(j) : l[2] \in accounts'  BY <1>5 DEF NewAccounts
  <2>5. accounts \subseteq accounts'  BY <1>5
  <2> QED  BY <2>2, <2>3, <2>4, <2>5 DEF CommitPage, AccountKeys
<1>7. IssuanceKeys'
  BY DEF CommitPage, KeysHold, IssuanceKeys
<1>8. JobKeys'
  <2>1. \A k \in Job : status'[k] # "none" => status[k] # "none"
    BY DEF CommitPage, TypeOK
  <2> QED  BY <1>5, <2>1 DEF CommitPage, JobKeys
<1> QED  BY <1>3, <1>6, <1>7, <1>8

(***************************************************************************)
(* So does a streamed transaction that is stored: its links are its own.   *)
(***************************************************************************)
LEMMA StoreKeys ==
    ASSUME TypeOK, Keys, OwnLinks, TrackedRegistered, NEW e \in inHand, Store(e)
    PROVE  Keys'
<1> USE DEF Keys
<1>1. \A d \in DeltaRows({e.tx}, tracked) : d[1] = e.tx /\ d[2] \in tracked
  BY DEF DeltaRows
<1>2. \A l \in e.links : l[1] = e.tx  BY DEF OwnLinks
<1>3. accounts' = accounts \cup {l[2] : l \in e.links} \cup {d[3] : d \in DeltaRows({e.tx}, tracked)}
  BY DEF Store
<1>4. TxKeys'  BY <1>1, <1>2 DEF Store, TxKeys
<1>5. AccountKeys'
  <2>1. \A d \in DeltaRows({e.tx}, tracked) : d[3] \in accounts'
    BY <1>3
  <2> QED  BY <1>3, <2>1 DEF Store, AccountKeys
<1>6. IssuanceKeys'  BY <1>1 DEF Store, TrackedRegistered, IssuanceKeys
<1>7. JobKeys'  BY <1>3 DEF Store, JobKeys
<1> QED  BY <1>4, <1>5, <1>6, <1>7

(***************************************************************************)
(* An account a purge removes is in scope for no issuance that stays.      *)
(***************************************************************************)
LEMMA RemovableUnused ==
    ASSUME TypeOK, NEW i \in Issuances, NEW s \in scope, s[1] # i
    PROVE  s[2] \notin Removable(i)
<1>1. s[1] \in Issuances \ {i} /\ s = <<s[1], s[2]>>
  BY JobFacts DEF TypeOK
<1>2. HolderOf(s[2], Issuances \ {i})
  BY <1>1 DEF HolderOf
<1> QED  BY <1>2 DEF Removable, Exclusive

(***************************************************************************)
(* A purge removes what refers to what it removes.                         *)
(***************************************************************************)
LEMMA PurgeKeys ==
    ASSUME TypeOK, Keys, NEW i \in Issuances, Purge(i)
    PROVE  Keys'
<1> USE DEF Keys
<1>1. /\ links' = {l \in links : l[2] \notin Removable(i)}
      /\ deltas' = {d \in deltas : d[2] # i /\ d[3] \notin Removable(i)}
      /\ accounts' = accounts \ Removable(i)
      /\ rows' = rows \ {i}
  BY DEF Purge
<1>2. TxKeys'
  BY <1>1 DEF Purge, TxKeys
<1>3. AccountKeys'
  <2>1. \A s \in scope' : s \in scope /\ s[1] # i  BY DEF Purge
  <2>2. \A s \in scope' : s[2] \in accounts'  BY <1>1, <2>1, RemovableUnused DEF AccountKeys
  <2>3. \A row \in coverage' : row.address \in accounts'
    BY <1>1 DEF Purge, AccountKeys
  <2> QED  BY <1>1, <2>2, <2>3 DEF AccountKeys
<1>4. IssuanceKeys'
  BY <1>1 DEF Purge, IssuanceKeys
<1>5. JobKeys'
  BY <1>1 DEF Purge, JobKeys
<1> QED  BY <1>2, <1>3, <1>4, <1>5

(***************************************************************************)
(* Every other step leaves the rows referred to, or inserts them first.    *)
(***************************************************************************)
LEMMA NextKeys == TypeOK /\ OwnLinks /\ TrackedRegistered /\ Keys /\ [Next]_vars => Keys'
<1> SUFFICES ASSUME TypeOK, OwnLinks, TrackedRegistered, Keys, [Next]_vars PROVE Keys'
  OBVIOUS
<1> USE DEF vars, tableVars, archiveVars, ingestVars, serverVars, adminVars, bookVars
<1>1. ASSUME UNCHANGED tableVars PROVE Keys'
  BY <1>1 DEF Keys, TxKeys, AccountKeys, IssuanceKeys, JobKeys
<1>2. ASSUME UNCHANGED <<archiveVars, scope>>, rows \subseteq rows', accounts \subseteq accounts',
             JobKeys'
      PROVE  Keys'
  BY <1>2 DEF Keys, TxKeys, AccountKeys, IssuanceKeys
<1>3. ASSUME NEW i \in Issuances, Register(i) PROVE Keys'
  <2>1. JobKeys'
    BY <1>3, JobFacts DEF Register, Keys, JobKeys, TypeOK
  <2> QED  BY <1>2, <1>3, <2>1 DEF Register
<1>4. ASSUME NEW i \in Issuances, Rediscover(i) PROVE Keys'
  <2>1. JobKeys'
    BY <1>4, JobFacts DEF Rediscover, Keys, JobKeys, TypeOK
  <2> QED  BY <1>2, <1>4, <2>1 DEF Rediscover
<1>5. ASSUME NEW p \in newHolders, RecordHolder(p) PROVE Keys'
  <2>1. CASE p[1] \in rows
    <3>1. p \in Job  BY DEF TypeOK
    <3>2. JobKeys'
      BY <1>5, <2>1, <3>1 DEF RecordHolder, Keys, JobKeys, TypeOK
    <3> QED
      BY <1>5, <2>1, <3>2 DEF RecordHolder, Keys, TxKeys, AccountKeys, IssuanceKeys
  <2>2. CASE p[1] \notin rows
    BY <1>1, <1>5, <2>2 DEF RecordHolder
  <2> QED  BY <2>1, <2>2
<1>6. CASE Restart  BY <1>1, <1>6 DEF Restart
<1>7. ASSUME NEW e \in inHand, Store(e) PROVE Keys'
  BY <1>1, <1>6, <1>7, StoreKeys
<1>8. ASSUME NEW i \in Issuances, DeleteStep(i) PROVE Keys'
  BY <1>1, <1>8, PurgeKeys DEF DeleteStep, Drained, FinishDelete
<1>9. ASSUME NEW i \in Issuances,
             AdmitPost(i) \/ Ingest(i) \/ BeginDelete(i) \/ AbortDelete(i) \/ Release(i)
      PROVE  Keys'
  BY <1>1, <1>9 DEF AdmitPost, Ingest, AfterSweep, HealEnds, BeginDelete, AbortDelete, Release
<1>10. ASSUME NEW j \in Job, Claim(j) \/ JobStep(j) PROVE Keys'
  BY <1>1, <1>10, CommitKeys DEF Claim, JobStep, Fetch, StopAtPage, FailPage
<1>11. ASSUME NEW t \in Tx, Map(t) PROVE Keys'
  BY <1>1, <1>11 DEF Map
<1>12. CASE RefreshTracked \/ UNCHANGED vars
  BY <1>1, <1>12 DEF RefreshTracked
<1> QED  BY <1>3, <1>4, <1>5, <1>6, <1>7, <1>8, <1>9, <1>10, <1>11, <1>12 DEF Next

(***************************************************************************)
(* The invariant is inductive.                                             *)
(***************************************************************************)
THEOREM Inductive == Spec => []IInv
<1>1. Init => IInv
  <2>1. Init => Flags /\ OwnLinks /\ NoMarker
    BY DEF NoMarker, Init, NoDelete, Flags, DeletingUntracked, TargetFlagged, TrackedRegistered, OwnLinks
  <2> QED  BY <2>1, InitType, InitKeys DEF IInv
<1>2. IInv /\ [Next]_vars => IInv'
  BY NextType, NextFlags, NextOwnLinks, NextKeys, NextNoMarker DEF IInv, Flags
<1> QED  BY <1>1, <1>2, PTL DEF Spec

(***************************************************************************)
(* Every variable always holds what its table or variable may hold.        *)
(***************************************************************************)
THEOREM TypeCorrect == Spec => []TypeOK
<1>1. IInv => TypeOK  BY DEF IInv
<1> QED  BY <1>1, Inductive, PTL

(***************************************************************************)
(* A delete, among all that writes meanwhile, leaves no row that refers to *)
(* one removed.                                                            *)
(***************************************************************************)
THEOREM DeleteKeepsKeys == Spec => []ReferentialIntegrity
<1>1. IInv => ReferentialIntegrity  BY KeyParts DEF IInv
<1> QED  BY <1>1, Inductive, PTL

(***************************************************************************)
(* Nothing is tracked that has no row, whichever refresh runs beside the   *)
(* delete.                                                                 *)
(***************************************************************************)
THEOREM TrackedHaveRows == Spec => []TrackedRegistered
<1>1. IInv => TrackedRegistered  BY DEF IInv, Flags
<1> QED  BY <1>1, Inductive, PTL

-----------------------------------------------------------------------------
(***************************************************************************)
(* What a purge spares.                                                    *)
(***************************************************************************)

(***************************************************************************)
(* Nor is the issuer of an issuance the purge protects among the accounts  *)
(* removed.                                                                *)
(***************************************************************************)
LEMMA ProtectedIssuer ==
    ASSUME NEW i \in Issuances, NEW o \in Issuances, Protected(o, i)
    PROVE  IssuerOf[o] \notin Removable(i)
BY DEF Protected, Removable, IssuersOf

(***************************************************************************)
(* A purge spares whoever it does not remove, of an issuance that stays.   *)
(***************************************************************************)
LEMMA PurgeSparesKept ==
    ASSUME TypeOK, NoMarker, NEW i \in Issuances, Purge(i)
    PROVE  Spares({o \in rows' : Protected(o, i)})
<1> DEFINE I == {o \in rows' : Protected(o, i)}
           kept == {s \in scope : s[1] \in rows'} \cup {IssuerJob(o) : o \in I}
<1>1. rows' = rows \ {i} /\ rows \subseteq Issuances
  BY DEF Purge, TypeOK
<1>2. ASSUME NEW s \in kept PROVE s \in Job /\ s[1] # i /\ s[2] \notin Removable(i)
  <2>1. CASE s \in scope /\ s[1] \in rows'
    BY <1>1, <2>1, RemovableUnused DEF TypeOK
  <2>2. CASE \E o \in I : s = IssuerJob(o)
    BY <1>1, <2>2, JobFacts, ProtectedIssuer
  <2> QED  BY <2>1, <2>2
<1>3. ASSUME NEW s \in kept
      PROVE  /\ {l \in links : l[2] = s[2]} \subseteq links'
             /\ {d \in deltas : d[2] = s[1] /\ <<d[2], d[3]>> \in kept} \subseteq deltas'
             /\ {row \in coverage : row.address = s[2]} \subseteq coverage'
             /\ status'[s] = status[s] /\ marker'[s] = marker[s]
  <2> HIDE DEF kept
  <2>1. s \in Job /\ s[1] # i /\ s[2] \notin Removable(i)  BY <1>2
  <2>2. {l \in links : l[2] = s[2]} \subseteq links'  BY <2>1 DEF Purge
  <2>3. {d \in deltas : d[2] = s[1] /\ <<d[2], d[3]>> \in kept} \subseteq deltas'
    <3>1. \A d : <<d[2], d[3]>> \in kept => d[3] \notin Removable(i)  BY <1>2
    <3> QED  BY <2>1, <3>1 DEF Purge
  <2>4. {row \in coverage : row.address = s[2]} \subseteq coverage'  BY <2>1 DEF Purge
  <2>5. status'[s] = status[s]  BY <2>1 DEF Purge
  <2>6. marker'[s] = marker[s]  BY <2>1, <2>5 DEF Purge, NoMarker
  <2> QED  BY <2>2, <2>3, <2>4, <2>5, <2>6
<1> QED  BY <1>3 DEF Spares

(***************************************************************************)
(* A purge spares the data of the issuances that stay, of every recorded   *)
(* holder, and of the issuer of each that it protects; nothing else        *)
(* removes an issuance.                                                    *)
(***************************************************************************)
THEOREM DeleteSpares == Spec => PurgeSpares
<1>1. ASSUME TypeOK, NoMarker, Next
      PROVE  \A i \in rows \ rows' : Spares({o \in rows' : Protected(o, i)})
  <2> USE DEF vars, tableVars, archiveVars, ingestVars, serverVars, adminVars, bookVars
  <2>1. ASSUME NEW i \in Issuances, Purge(i)
        PROVE  \A o \in rows \ rows' : Spares({q \in rows' : Protected(q, o)})
    <3>1. rows \ rows' \subseteq {i}  BY <2>1 DEF Purge
    <3> QED  BY <1>1, <2>1, <3>1, PurgeSparesKept
  <2>2. ASSUME rows \subseteq rows'
        PROVE  \A o \in rows \ rows' : Spares({q \in rows' : Protected(q, o)})
    BY <2>2
  <2>3. ASSUME NEW i \in Issuances,
               \/ AdmitPost(i) \/ Register(i) \/ Ingest(i) \/ Rediscover(i)
               \/ BeginDelete(i) \/ Drained(i) \/ AbortDelete(i) \/ Release(i)
        PROVE  rows \subseteq rows'
    BY <2>3 DEF AdmitPost, Register, Ingest, AfterSweep, HealEnds, Rediscover, BeginDelete,
                Drained, AbortDelete, Release
  <2>4. ASSUME FinishDelete \/ RefreshTracked \/ Restart PROVE rows \subseteq rows'
    BY <2>4 DEF FinishDelete, RefreshTracked, Restart
  <2>5. ASSUME NEW j \in Job, Claim(j) \/ JobStep(j) PROVE rows \subseteq rows'
    BY <2>5 DEF Claim, JobStep, Fetch, CommitPage, StopAtPage, FailPage
  <2>6. ASSUME NEW e, Store(e) PROVE rows \subseteq rows'
    BY <2>4, <2>6 DEF Store
  <2>7. ASSUME NEW x, Map(x) \/ RecordHolder(x) PROVE rows \subseteq rows'
    BY <2>7 DEF Map, RecordHolder
  <2> QED  BY <1>1, <2>1, <2>2, <2>3, <2>4, <2>5, <2>6, <2>7 DEF Next, DeleteStep
<1>2. IInv => TypeOK /\ NoMarker  BY DEF IInv
<1>3. IInv /\ [Next]_vars =>
         [\A i \in rows \ rows' : Spares({o \in rows' : Protected(o, i)})]_vars
  BY <1>1, <1>2
<1> QED  BY <1>3, Inductive, PTL DEF Spec, PurgeSpares
=============================================================================
