--------------------------- MODULE BackfillProofs ---------------------------
(***************************************************************************)
(* Proofs about Backfill, for any history, any number of runners, of       *)
(* issuances, of accounts and of faults.                                   *)
(***************************************************************************)
EXTENDS Backfill, TLAPS

(***************************************************************************)
(* Job (i, issuer of i) is a job, and every job is a pair.                 *)
(***************************************************************************)
LEMMA JobFacts ==
    /\ Job # {}
    /\ \A i \in Issuances : IssuerJob(i) \in Job /\ IssuerJob(i)[1] = i
    /\ \A j \in Job : j[1] \in Issuances /\ j[2] \in Accounts
    /\ \A j \in Job : Kind(j) \in {"issuer", "account"} /\ FromLedger(j) \in Nat
    /\ \A j \in Job : FromLedger(j) <= StartTip
    /\ \A j \in Job : Kind(j) = "issuer" => j[2] = IssuerOf[j[1]]
<1>1. /\ Issuances # {}
      /\ IssuerOf \in [Issuances -> Accounts]
      /\ BackfillFrom \in [Issuances -> Nat]
      /\ StartTip \in Nat
      /\ \A i \in Issuances : BackfillFrom[i] <= StartTip
  BY HistoryAssumption, BackfillAssumption DEF HistoryAssumption, BackfillAssumption
<1>2. \A i \in Issuances : IssuerJob(i) \in Job /\ IssuerJob(i)[1] = i /\ IssuerJob(i)[2] = IssuerOf[i]
  BY <1>1 DEF Job, IssuerJob
<1>3. \A j \in Job : j[1] \in Issuances /\ j[2] \in Accounts
  BY DEF Job
<1>4. \A j \in Job : Kind(j) \in {"issuer", "account"}
  BY DEF Kind
<1>5. \A j \in Job : FromLedger(j) \in Nat /\ FromLedger(j) <= StartTip
  BY <1>1, <1>3 DEF FromLedger
<1>6. \A j \in Job : Kind(j) = "issuer" => j[2] = IssuerOf[j[1]]
  BY <1>2, <1>3 DEF Kind
<1> QED  BY <1>1, <1>2, <1>3, <1>4, <1>5, <1>6

-----------------------------------------------------------------------------
(***************************************************************************)
(* The inductive invariant.  MarkerSafe and the coverage invariants say    *)
(* what the database promises; they are kept because each runner's memory  *)
(* is truthful about the database too.                                     *)
(***************************************************************************)

(***************************************************************************)
(* The pages of job j can be trusted: a sweep's always, a holder job's     *)
(* unless a delete of its issuance was aborted.                            *)
(***************************************************************************)
Trusted(j) == Kind(j) = "issuer" \/ j[1] \notin aborted

(***************************************************************************)
(* `tracked` loses an issuance with outstanding holder work only to a      *)
(* delete, under the stop flag.                                            *)
(***************************************************************************)
Shielded(j) ==
    Kind(j) = "account" /\ j[1] \notin aborted => j[1] \in tracked \cup deleting

HolderWorkShielded ==
    /\ \A j \in Job : status[j] # "none" => Shielded(j)
    /\ \A w \in Runners : run[w].pc # "idle" => Shielded(run[w].job)

(***************************************************************************)
(* Everything up to a paging runner's cursor is persisted, and its         *)
(* high-water mark is a validated ledger.                                  *)
(***************************************************************************)
CursorOK(w) ==
    run[w].pc \in {"fetch", "commit"} =>
        /\ FromLedger(run[w].job) <= run[w].hi /\ run[w].hi <= tip
        /\ Trusted(run[w].job) =>
              \A t \in History(run[w].job) : t <= run[w].cursor => Persisted(run[w].job, t)

(***************************************************************************)
(* A page in hand leaves out nothing in scope between the cursor and its   *)
(* last entry, unless the page will be thrown away; and the last page      *)
(* reaches past every transaction its claim would cover.                   *)
(***************************************************************************)
Discarded(j) == Kind(j) = "account" /\ j[1] \in deleting

PageOK(w) ==
    run[w].pc = "commit" =>
        /\ Trusted(run[w].job) /\ ~Discarded(run[w].job) =>
              \A t \in History(run[w].job) :
                 t <= run[w].upto /\ HoldersIn(t, run[w].job[1]) # {} =>
                    t <= run[w].cursor \/ t \in run[w].kept
        /\ run[w].final =>
              \A t \in History(run[w].job) : LedgerOf[t] <= run[w].hi => t <= run[w].upto

RunnersSafe == \A w \in Runners : CursorOK(w) /\ PageOK(w)

IInv ==
    /\ TypeOK
    /\ HolderWorkShielded /\ RunnersSafe
    /\ MarkerSafe /\ SweepCoverageSound /\ HolderCoverageSound

PC == {"idle", "enqueue", "reclaim", "load", "claim", "fetch", "commit"}

(***************************************************************************)
(* A runner sent to a step that reads no page has its type.                *)
(***************************************************************************)
LEMMA AtType ==
    ASSUME NEW label \in PC, NEW j \in Job, NEW boot \in BOOLEAN
    PROVE  At(label, j, boot) \in Runner
BY DEF At, Holding, Runner, PC

(***************************************************************************)
(* So has an idle runner.                                                  *)
(***************************************************************************)
LEMMA IdleType == IdleRunner \in Runner /\ IdleRunner.pc = "idle"
<1>1. (CHOOSE j \in Job : TRUE) \in Job  BY JobFacts
<1>2. IdleRunner \in Runner  BY <1>1, AtType DEF IdleRunner, PC
<1>3. IdleRunner.pc = "idle"  BY DEF IdleRunner, At, Holding
<1> QED  BY <1>2, <1>3

(***************************************************************************)
(* The tables start empty and the runners idle: types hold initially.      *)
(***************************************************************************)
LEMMA InitType == Init => TypeOK
<1> SUFFICES ASSUME Init PROVE TypeOK
  OBVIOUS
<1>1. TableTypeOK
  BY DEF Init, TableTypeOK, ArchiveTypeOK
<1>2. JobTypeOK
  BY DEF Init, JobTypeOK
<1>3. ServerTypeOK
  BY DEF Init, ServerTypeOK
<1>4. EnvTypeOK
  BY BackfillAssumption DEF Init, EnvTypeOK, BackfillAssumption
<1>5. run \in [Runners -> Runner]
  BY IdleType DEF Init
<1> QED  BY <1>1, <1>2, <1>3, <1>4, <1>5 DEF TypeOK

(***************************************************************************)
(* What a step leaves alone keeps its type.                                *)
(***************************************************************************)
LEMMA UnchangedTypes ==
    /\ TableTypeOK /\ UNCHANGED tableVars => TableTypeOK'
    /\ JobTypeOK /\ UNCHANGED jobVars => JobTypeOK'
    /\ ServerTypeOK /\ UNCHANGED serverVars => ServerTypeOK'
    /\ EnvTypeOK /\ UNCHANGED envVars => EnvTypeOK'
<1>1. TableTypeOK /\ UNCHANGED tableVars => TableTypeOK'
  BY DEF TableTypeOK, ArchiveTypeOK, tableVars, archiveVars
<1>2. JobTypeOK /\ UNCHANGED jobVars => JobTypeOK'
  BY DEF JobTypeOK, jobVars
<1>3. ServerTypeOK /\ UNCHANGED serverVars => ServerTypeOK'
  BY DEF ServerTypeOK, serverVars
<1>4. EnvTypeOK /\ UNCHANGED envVars => EnvTypeOK'
  BY DEF EnvTypeOK, envVars
<1> QED  BY <1>1, <1>2, <1>3, <1>4

(***************************************************************************)
(* How a runner moves.                                                     *)
(***************************************************************************)
LEMMA BecomeType ==
    ASSUME run \in [Runners -> Runner], NEW w \in Runners, NEW r \in Runner, Become(w, r)
    PROVE  /\ run' \in [Runners -> Runner]
           /\ run'[w] = r
           /\ \A v \in Runners : v # w => run'[v] = run[v]
BY DEF Become

(***************************************************************************)
(* Sending a runner on to another step of its job keeps the types.         *)
(***************************************************************************)
LEMMA GotoType ==
    ASSUME run \in [Runners -> Runner], NEW w \in Runners, NEW label \in PC,
           Goto(w, label)
    PROVE  /\ run' \in [Runners -> Runner]
           /\ run'[w].pc = label /\ run'[w].job = run[w].job
           /\ \A v \in Runners : v # w => run'[v] = run[v]
<1> DEFINE r == At(label, run[w].job, FALSE)
<1>1. run[w].job \in Job  BY DEF Runner
<1>2. r \in Runner  BY <1>1, AtType
<1>3. Become(w, r)  BY DEF Goto
<1>4. r.pc = label /\ r.job = run[w].job  BY DEF At, Holding
<1> QED  BY <1>2, <1>3, <1>4, BecomeType

(***************************************************************************)
(* Ending a runner keeps the types.                                        *)
(***************************************************************************)
LEMMA FinishType ==
    ASSUME run \in [Runners -> Runner], NEW w \in Runners, Finish(w)
    PROVE  /\ run' \in [Runners -> Runner]
           /\ run'[w].pc = "idle"
           /\ \A v \in Runners : v # w => run'[v] = run[v]
BY BecomeType, IdleType DEF Finish

(***************************************************************************)
(* Setting a runner to page from a transaction keeps the types.            *)
(***************************************************************************)
LEMMA PagingType ==
    ASSUME run \in [Runners -> Runner], NEW w \in Runners, NEW j \in Job,
           NEW cursor \in Nat, NEW hi \in Nat,
           Become(w, Paging(j, run[w].boot, cursor, hi))
    PROVE  /\ run' \in [Runners -> Runner]
           /\ run'[w].pc = "fetch" /\ run'[w].job = j
           /\ run'[w].cursor = cursor /\ run'[w].hi = hi
           /\ \A v \in Runners : v # w => run'[v] = run[v]
<1> DEFINE r == Paging(j, run[w].boot, cursor, hi)
<1>1. run[w].boot \in BOOLEAN  BY DEF Runner
<1>2. r \in Runner  BY <1>1 DEF Paging, Holding, Runner
<1>3. r.pc = "fetch" /\ r.job = j /\ r.cursor = cursor /\ r.hi = hi
  BY DEF Paging, Holding
<1> QED  BY <1>2, <1>3, BecomeType

(***************************************************************************)
(* An enqueued job row has its type, and only its own row changes.         *)
(***************************************************************************)
LEMMA EnqueueType ==
    ASSUME JobTypeOK, NEW j \in Job, Enqueue(j)
    PROVE  /\ JobTypeOK'
           /\ marker' = marker
           /\ \A k \in Job : k # j => status'[k] = status[k]
           /\ \A k \in Job : status[k] # "none" => status'[k] # "none"
<1>1. CASE status[j] = "none"
  BY <1>1 DEF Enqueue, JobTypeOK
<1>2. CASE status[j] # "none"
  BY <1>2 DEF Enqueue, JobTypeOK, jobVars
<1> QED  BY <1>1, <1>2

(***************************************************************************)
(* A checkpoint writes a marker and a status of their types.               *)
(***************************************************************************)
LEMMA CheckpointType ==
    ASSUME JobTypeOK, NEW j \in Job, NEW upto \in Nat, NEW final \in BOOLEAN,
           Checkpoint(j, upto, final), UNCHANGED nextId
    PROVE  /\ JobTypeOK'
           /\ \A k \in Job : marker'[k] = IF k # j THEN marker[k] ELSE IF final THEN 0 ELSE upto
           /\ \A k \in Job : k # j => status'[k] = status[k]
<1>1. CASE final
  BY <1>1 DEF Checkpoint, JobTypeOK
<1>2. CASE ~final
  BY <1>2 DEF Checkpoint, JobTypeOK
<1> QED  BY <1>1, <1>2

(***************************************************************************)
(* Type correctness is preserved by every step.                            *)
(***************************************************************************)
LEMMA StartType ==
    ASSUME TypeOK, NEW w \in Runners, NEW i \in Issuances, NEW h \in Accounts,
           \/ IngestIssuance(w, i) \/ TrackNewHolder(w, i, h)
           \/ ResumeSweep(w, i) \/ ResumeHolders(w, i)
    PROVE  TypeOK'
<1> USE JobFacts DEF TypeOK
<1>1. ASSUME IngestIssuance(w, i) PROVE TypeOK'
  <2>1. At("reclaim", IssuerJob(i), FALSE) \in Runner  BY AtType DEF PC
  <2>2. run' \in [Runners -> Runner]  BY <1>1, <2>1, BecomeType DEF IngestIssuance
  <2>3. JobTypeOK'  BY <1>1, EnqueueType DEF IngestIssuance
  <2>4. TableTypeOK'  BY <1>1 DEF IngestIssuance, TableTypeOK, ArchiveTypeOK, archiveVars
  <2> QED  BY <1>1, <2>2, <2>3, <2>4, UnchangedTypes DEF IngestIssuance
<1>2. ASSUME TrackNewHolder(w, i, h) PROVE TypeOK'
  <2>1. <<i, h>> \in Job  BY DEF Job
  <2>2. At("enqueue", <<i, h>>, FALSE) \in Runner  BY <2>1, AtType DEF PC
  <2>3. run' \in [Runners -> Runner]  BY <1>2, <2>2, BecomeType DEF TrackNewHolder
  <2>4. TableTypeOK'  BY <1>2 DEF TrackNewHolder, TableTypeOK, ArchiveTypeOK
  <2>5. ServerTypeOK'  BY <1>2, <2>1 DEF TrackNewHolder, ServerTypeOK
  <2> QED  BY <1>2, <2>3, <2>4, <2>5, UnchangedTypes DEF TrackNewHolder
<1>3. ASSUME ResumeSweep(w, i) PROVE TypeOK'
  <2>1. At("reclaim", IssuerJob(i), TRUE) \in Runner  BY AtType DEF PC
  <2>2. run' \in [Runners -> Runner]  BY <1>3, <2>1, BecomeType DEF ResumeSweep
  <2>3. ServerTypeOK'  BY <1>3 DEF ResumeSweep, ServerTypeOK
  <2> QED  BY <1>3, <2>2, <2>3, UnchangedTypes DEF ResumeSweep
<1>4. ASSUME ResumeHolders(w, i) PROVE TypeOK'
  <2>1. \A j \in Job : At("reclaim", j, FALSE) \in Runner  BY AtType DEF PC
  <2>2. run' \in [Runners -> Runner]  BY <1>4, <2>1, BecomeType DEF ResumeHolders
  <2>3. ServerTypeOK'  BY <1>4 DEF ResumeHolders, ServerTypeOK
  <2> QED  BY <1>4, <2>2, <2>3, UnchangedTypes DEF ResumeHolders
<1> QED  BY <1>1, <1>2, <1>3, <1>4

(***************************************************************************)
(* reclaimStale: no job appears or disappears, and the runners it starts   *)
(* are at their claim, for the issuance at hand.                           *)
(***************************************************************************)
LEMMA ReclaimFacts ==
    ASSUME TypeOK, NEW w \in Runners, Reclaim(w)
    PROVE  /\ TypeOK'
           /\ \A j \in Job : (status'[j] = "none") <=> (status[j] = "none")
           /\ \A v \in Runners : run'[v] = run[v] \/
                 (run'[v].pc \in {"load", "claim"} /\ run'[v].job = run[w].job)
<1> USE DEF TypeOK
<1>1. run[w].job \in Job /\ run[w].boot \in BOOLEAN  BY DEF Runner
<1>2. JobTypeOK' /\ \A j \in Job : (status'[j] = "none") <=> (status[j] = "none")
  BY DEF Reclaim, JobTypeOK
<1>3. /\ run' \in [Runners -> Runner]
      /\ \A v \in Runners : run'[v] = run[v] \/
            (run'[v].pc \in {"load", "claim"} /\ run'[v].job = run[w].job)
  <2> DEFINE claim == At("claim", run[w].job, FALSE)
             load == At("load", run[w].job, run[w].boot)
  <2>1. claim \in Runner /\ load \in Runner  BY <1>1, AtType DEF PC
  <2>2. claim.pc = "claim" /\ claim.job = run[w].job /\ load.pc = "load" /\ load.job = run[w].job
    BY DEF At, Holding
  <2>3. CASE Become(w, load)
    BY <2>1, <2>2, <2>3, BecomeType
  <2>4. ASSUME NEW F \in SUBSET Runners,
               run' = [v \in Runners |-> IF v \in F \cup {w} THEN claim ELSE run[v]]
        PROVE  <1>3!1 /\ <1>3!2
    BY <2>1, <2>2, <2>4
  <2>5. \/ Become(w, load)
        \/ \E F \in SUBSET Runners :
              run' = [v \in Runners |-> IF v \in F \cup {w} THEN claim ELSE run[v]]
    BY DEF Reclaim
  <2> QED  BY <2>3, <2>4, <2>5
<1> QED  BY <1>2, <1>3, UnchangedTypes DEF Reclaim

(***************************************************************************)
(* The steps that only move a runner or a job keep the types.              *)
(***************************************************************************)
LEMMA WorkerType ==
    ASSUME TypeOK, NEW w \in Runners,
           EnqueueHolder(w) \/ Load(w) \/ Claim(w) \/ StopAtPage(w)
           \/ Fail(w)
    PROVE  TypeOK'
<1> USE DEF TypeOK
<1>1. run[w].job \in Job  BY DEF Runner
<1>2. "reclaim" \in PC /\ "claim" \in PC  BY DEF PC
<1>3. \A j \in Job : marker[j] \in Nat /\ FromLedger(j) \in Nat  BY JobFacts DEF JobTypeOK
<1>4. ASSUME EnqueueHolder(w) PROVE TypeOK'
  <2>1. run' \in [Runners -> Runner]  BY <1>2, <1>4, GotoType DEF EnqueueHolder
  <2>2. JobTypeOK'  BY <1>1, <1>4, EnqueueType DEF EnqueueHolder
  <2> QED  BY <1>4, <2>1, <2>2, UnchangedTypes DEF EnqueueHolder
<1>5. ASSUME Load(w) PROVE TypeOK'
  <2>1. run' \in [Runners -> Runner]
    BY <1>1, <1>3, <1>5, FinishType, PagingType DEF Load, StartPaging
  <2> QED  BY <1>5, <2>1, UnchangedTypes DEF Load
<1>6. ASSUME Claim(w) PROVE TypeOK'
  <2>1. run' \in [Runners -> Runner]
    BY <1>3, <1>6, FinishType, PagingType DEF Claim, StartPaging, Claimable
  <2>2. JobTypeOK'  BY <1>6 DEF Claim, JobTypeOK
  <2> QED  BY <1>6, <2>1, <2>2, UnchangedTypes DEF Claim
<1>7. ASSUME StopAtPage(w) PROVE TypeOK'
  <2>1. run' \in [Runners -> Runner]  BY <1>2, <1>7, FinishType, GotoType DEF StopAtPage
  <2> QED  BY <1>7, <2>1, UnchangedTypes DEF StopAtPage
<1>8. ASSUME Fail(w) PROVE TypeOK'
  <2>1. FailJob(w)  BY <1>8 DEF Fail
  <2>2. run' \in [Runners -> Runner]  BY <1>2, <2>1, FinishType, GotoType DEF FailJob
  <2>3. JobTypeOK'  BY <2>1 DEF FailJob, JobTypeOK
  <2>4. ServerTypeOK'  BY <2>1 DEF FailJob, ServerTypeOK
  <2>5. faults' = faults \/ (faults < MaxFaults /\ faults' = faults + 1)
    BY <1>8 DEF Fail
  <2>6. EnvTypeOK'
    BY <2>1, <2>5, BackfillAssumption DEF FailJob, EnvTypeOK, BackfillAssumption
  <2> QED  BY <2>1, <2>2, <2>3, <2>4, <2>6, UnchangedTypes DEF FailJob
<1> QED  BY <1>4, <1>5, <1>6, <1>7, <1>8

(***************************************************************************)
(* What a fetched page is: see Fetch.                                      *)
(***************************************************************************)
Rest(w) == AccountTx(run[w].job[2], FromLedger(run[w].job), tip, run[w].cursor)

(***************************************************************************)
(* What a fetch leaves in hand: a page of the history past the cursor, and *)
(* a high-water mark no entry of the page exceeds.                         *)
(***************************************************************************)
LEMMA FetchFacts ==
    ASSUME TypeOK, NEW w \in Runners, Fetch(w)
    PROVE  /\ TypeOK'
           /\ \A v \in Runners : v # w => run'[v] = run[v]
           /\ run'[w].pc = "commit" /\ run'[w].job = run[w].job
           /\ run'[w].cursor = run[w].cursor
           /\ run'[w].upto \in Rest(w) \cup {run[w].cursor}
           /\ run'[w].kept = {t \in Rest(w) : t <= run'[w].upto /\ InScope(t, Scope(run[w].job))}
           /\ run'[w].final => \A t \in Rest(w) : t <= run'[w].upto
           /\ run'[w].hi = run[w].hi \/ \E t \in Rest(w) : run'[w].hi = LedgerOf[t]
           /\ run[w].hi <= run'[w].hi
<1> DEFINE j == run[w].job
<1> USE DEF TypeOK
<1>1. run[w] \in Runner /\ j \in Job  BY DEF Runner
<1>2. PICK upto \in Rest(w) \cup {run[w].cursor}, final \in BOOLEAN :
        LET page == {t \in Rest(w) : t <= upto}
            kept == {t \in page : InScope(t, Scope(j))}
            seen == {LedgerOf[t] : t \in IF Kind(j) = "issuer" THEN kept ELSE page}
        IN
        /\ IF final THEN page = Rest(w) ELSE page # {}
        /\ \E hi \in seen \cup {run[w].hi} :
              /\ \A l \in seen \cup {run[w].hi} : l <= hi
              /\ Become(w, Holding("commit", j, run[w].boot, run[w].cursor, hi,
                                   kept, upto, final))
  BY DEF Fetch, Rest
<1> DEFINE page == {t \in Rest(w) : t <= upto}
           kept == {t \in page : InScope(t, Scope(j))}
           seen == {LedgerOf[t] : t \in IF Kind(j) = "issuer" THEN kept ELSE page}
<1>3. PICK hi \in seen \cup {run[w].hi} :
        /\ \A l \in seen \cup {run[w].hi} : l <= hi
        /\ Become(w, Holding("commit", j, run[w].boot, run[w].cursor, hi, kept, upto, final))
  BY <1>2
<1>4. Rest(w) \subseteq Tx /\ Tx \subseteq Nat /\ \A t \in Rest(w) : LedgerOf[t] \in Nat
  <2>1. j[2] \in Accounts  BY <1>1, JobFacts
  <2> QED  BY <2>1, HistoryAssumption DEF Rest, AccountTx, HistoryAssumption
<1>5. hi = run[w].hi \/ \E t \in Rest(w) : hi = LedgerOf[t]
  BY <1>3
<1>6. hi \in Nat /\ upto \in Nat /\ run[w].cursor \in Nat /\ run[w].boot \in BOOLEAN
  BY <1>1, <1>2, <1>4, <1>5 DEF Runner
<1>7. kept \in SUBSET Tx  BY <1>4
<1> DEFINE r == Holding("commit", j, run[w].boot, run[w].cursor, hi, kept, upto, final)
<1> HIDE DEF kept, page, seen
<1>8. r \in Runner
  BY <1>1, <1>6, <1>7 DEF Holding, Runner
<1>9. /\ run' \in [Runners -> Runner] /\ run'[w] = r
      /\ \A v \in Runners : v # w => run'[v] = run[v]
  BY <1>3, <1>8, BecomeType
<1>10. /\ r.pc = "commit" /\ r.job = j /\ r.cursor = run[w].cursor /\ r.upto = upto
       /\ r.kept = kept /\ r.final = final /\ r.hi = hi
  BY DEF Holding
<1>11. TypeOK'
  BY <1>9, UnchangedTypes DEF Fetch
<1>12. kept = {t \in Rest(w) : t <= upto /\ InScope(t, Scope(j))}
  BY DEF kept, page
<1>13. final => \A t \in Rest(w) : t <= upto
  BY <1>2 DEF page
<1>14. run[w].hi <= hi
  BY <1>3
<1> QED  BY <1>2, <1>5, <1>9, <1>10, <1>11, <1>12, <1>13, <1>14

(***************************************************************************)
(* What a page transaction does, of either kind of job.                    *)
(***************************************************************************)
CommitFacts(w) ==
    LET r == run[w]  j == run[w].job IN
    /\ TypeOK'
    /\ \A v \in Runners : v # w => run'[v] = run[v]
    /\ run'[w].pc \in {"idle", "claim"} \/
          (/\ run'[w].pc = "fetch" /\ run'[w].job = j
           /\ run'[w].cursor = r.upto /\ run'[w].hi = r.hi)
    /\ run'[w].pc = "claim" => run'[w].job = j
    /\ \A k \in Job : marker'[k] = IF k # j THEN marker[k] ELSE IF r.final THEN 0 ELSE r.upto
    /\ \A k \in Job : k # j => status'[k] = status[k]
    /\ txRows' = txRows \cup r.kept
    /\ links \subseteq links' /\ deltas \subseteq deltas'
    /\ \A row \in coverage' : row \in coverage \/
          (/\ r.final /\ row.job = j /\ FromLedger(j) <= row.from /\ row.to = r.hi
           /\ row.from \in Nat
           /\ Kind(j) = "account" => row.address = j[2])

(***************************************************************************)
(* The coverage rows of a sweep are typed, name its job, start no earlier  *)
(* than its first ledger and end at its mark.                              *)
(***************************************************************************)
LEMMA SweepRowsFacts ==
    ASSUME NEW j \in Job, NEW members \in SUBSET Job, NEW first \in Nat, NEW hi \in Nat,
           Kind(j) = "issuer", FromLedger(j) <= hi,
           NEW row \in SweepRows(j, members, first, hi)
    PROVE  /\ row \in [address : Accounts, from : Nat, to : Nat, job : Job]
           /\ row.job = j /\ FromLedger(j) <= row.from /\ row.to = hi
<1>1. FromLedger(j) = BackfillFrom[j[1]] /\ BackfillFrom[j[1]] \in Nat
  BY JobFacts, BackfillAssumption DEF FromLedger, BackfillAssumption
<1>2. /\ SweepFloor(j[1], first, hi) \in Nat
      /\ FromLedger(j) <= SweepFloor(j[1], first, hi)
  BY <1>1 DEF SweepFloor, SmallerOf, LargerOf
<1>3. PICK a \in Accounts : row = Row(a, SweepFloor(j[1], first, hi), hi, j)
  BY JobFacts DEF SweepRows
<1> QED  BY <1>2, <1>3 DEF Row

(***************************************************************************)
(* A sweep page commit keeps the types; the tables only grow.              *)
(***************************************************************************)
LEMMA CommitSweepFacts ==
    ASSUME TypeOK, RunnersSafe, NEW w \in Runners, CommitSweepPage(w)
    PROVE  CommitFacts(w)
<1> DEFINE r == run[w]
           j == run[w].job
           i == run[w].job[1]
<1> USE DEF TypeOK
<1>1. r \in Runner /\ j \in Job /\ i \in Issuances /\ j[2] \in Accounts
  BY JobFacts DEF Runner
<1>2. r.kept \in SUBSET Tx /\ r.upto \in Nat /\ r.hi \in Nat /\ r.final \in BOOLEAN
      /\ FromLedger(j) <= r.hi
  BY <1>1 DEF Runner, RunnersSafe, CursorOK, CommitSweepPage
<1>3. /\ JobTypeOK'
      /\ \A k \in Job : marker'[k] = IF k # j THEN marker[k] ELSE IF r.final THEN 0 ELSE r.upto
      /\ \A k \in Job : k # j => status'[k] = status[k]
  BY <1>1, <1>2, CheckpointType DEF CommitSweepPage
<1>4. /\ run' \in [Runners -> Runner]
      /\ \A v \in Runners : v # w => run'[v] = run[v]
      /\ run'[w].pc = "idle" \/
            (/\ run'[w].pc = "fetch" /\ run'[w].job = j
             /\ run'[w].cursor = r.upto /\ run'[w].hi = r.hi)
  BY <1>1, <1>2, FinishType, PagingType DEF CommitSweepPage, NextPage
<1>5. PICK first \in 0 .. LastLedger :
         /\ firstSeen' = [firstSeen EXCEPT ![i] = first]
         /\ coverage' = IF r.final THEN coverage \cup SweepRows(j, holders', first, r.hi)
                                   ELSE coverage
  BY DEF CommitSweepPage
<1>6. holders' \in SUBSET Job
  BY <1>1, <1>2 DEF CommitSweepPage, TableTypeOK, ArchiveTypeOK, Discovered, HoldersIn, Job
<1>7. first \in Nat
  BY BackfillAssumption DEF BackfillAssumption
<1>8. \A row \in coverage' : row \in coverage \/
         (/\ row \in [address : Accounts, from : Nat, to : Nat, job : Job]
          /\ r.final /\ row.job = j /\ FromLedger(j) <= row.from /\ row.to = r.hi
          /\ row.from \in Nat /\ Kind(j) # "account")
  <2> TAKE row \in coverage'
  <2>1. CASE row \in coverage  BY <2>1
  <2>2. CASE row \notin coverage
    <3>1. r.final /\ row \in SweepRows(j, holders', first, r.hi)  BY <1>5, <2>2
    <3> QED  BY <1>1, <1>2, <1>6, <1>7, <3>1, SweepRowsFacts DEF CommitSweepPage
  <2> QED  BY <2>1, <2>2
<1>9. /\ txRows' = txRows \cup r.kept
      /\ links \subseteq links' /\ deltas \subseteq deltas'
      /\ links' \subseteq Tx \X Accounts
      /\ deltas' \subseteq Tx \X Issuances \X Accounts
  BY DEF CommitSweepPage, TableTypeOK, ArchiveTypeOK, SweepLinks, DeltaRows
<1>10. TableTypeOK'
  <2>1. coverage' \subseteq [address : Accounts, from : Nat, to : Nat, job : Job]
    BY <1>8 DEF TableTypeOK, ArchiveTypeOK, Job
  <2>2. txRows' \subseteq Tx  BY <1>2, <1>9 DEF TableTypeOK, ArchiveTypeOK
  <2>3. firstSeen' \in [Issuances -> Nat]  BY <1>5, <1>7 DEF TableTypeOK, ArchiveTypeOK
  <2> QED  BY <1>6, <1>9, <2>1, <2>2, <2>3 DEF TableTypeOK, ArchiveTypeOK, Job
<1>11. TypeOK'
  BY <1>3, <1>4, <1>10, UnchangedTypes DEF CommitSweepPage
<1> QED  BY <1>3, <1>4, <1>8, <1>9, <1>11 DEF CommitFacts

(***************************************************************************)
(* So does a holder page commit.                                           *)
(***************************************************************************)
LEMMA CommitAccountFacts ==
    ASSUME TypeOK, RunnersSafe, NEW w \in Runners, CommitAccountPage(w)
    PROVE  CommitFacts(w)
<1> DEFINE r == run[w]
           j == run[w].job
<1> USE DEF TypeOK
<1>1. r \in Runner /\ j \in Job /\ j[2] \in Accounts /\ FromLedger(j) \in Nat
  BY JobFacts DEF Runner
<1>2. r.kept \in SUBSET Tx /\ r.upto \in Nat /\ r.hi \in Nat /\ r.final \in BOOLEAN
  BY <1>1 DEF Runner
<1>3. /\ JobTypeOK'
      /\ \A k \in Job : marker'[k] = IF k # j THEN marker[k] ELSE IF r.final THEN 0 ELSE r.upto
      /\ \A k \in Job : k # j => status'[k] = status[k]
  BY <1>1, <1>2, CheckpointType DEF CommitAccountPage
<1>4. "claim" \in PC  BY DEF PC
<1>5. /\ run' \in [Runners -> Runner]
      /\ \A v \in Runners : v # w => run'[v] = run[v]
      /\ (run'[w].pc = "claim" /\ run'[w].job = j) \/
            (/\ run'[w].pc = "fetch" /\ run'[w].job = j
             /\ run'[w].cursor = r.upto /\ run'[w].hi = r.hi)
  BY <1>1, <1>2, <1>4, GotoType, PagingType DEF CommitAccountPage, NextPage
<1>6. \A row \in coverage' : row \in coverage \/
         (/\ row \in [address : Accounts, from : Nat, to : Nat, job : Job]
          /\ r.final /\ row.job = j /\ FromLedger(j) <= row.from /\ row.to = r.hi
          /\ row.from \in Nat /\ row.address = j[2])
  BY <1>1, <1>2 DEF CommitAccountPage, Row
<1>7. /\ txRows' = txRows \cup r.kept
      /\ links \subseteq links' /\ deltas \subseteq deltas'
      /\ links' \subseteq Tx \X Accounts
      /\ deltas' \subseteq Tx \X Issuances \X Accounts
  BY DEF CommitAccountPage, TableTypeOK, ArchiveTypeOK, AccountLinks, DeltaRows
<1>8. TableTypeOK'
  <2>1. coverage' \subseteq [address : Accounts, from : Nat, to : Nat, job : Job]
    BY <1>6 DEF TableTypeOK, ArchiveTypeOK, Job
  <2>2. txRows' \subseteq Tx  BY <1>2, <1>7 DEF TableTypeOK, ArchiveTypeOK
  <2> QED  BY <1>7, <2>1, <2>2 DEF CommitAccountPage, TableTypeOK, ArchiveTypeOK, Job
<1>9. TypeOK'
  BY <1>3, <1>5, <1>8, UnchangedTypes DEF CommitAccountPage
<1> QED  BY <1>3, <1>5, <1>6, <1>7, <1>9 DEF CommitFacts

(***************************************************************************)
(* The restart, deletes and refreshes keep the types.                      *)
(***************************************************************************)
LEMMA ServerType ==
    ASSUME TypeOK,
           \/ Crash \/ RefreshTracked \/ SeedInScope \/ CloseLedger
           \/ \E i \in Issuances : BeforeDelete(i) \/ DeleteAborted(i)
    PROVE  TypeOK'
<1> USE DEF TypeOK
<1>1. CASE Crash
  <2>1. run' \in [Runners -> Runner]  BY <1>1, IdleType DEF Crash
  <2>2. ServerTypeOK'  BY <1>1 DEF Crash, ServerTypeOK, TableTypeOK, ArchiveTypeOK, Job
  <2>3. EnvTypeOK'  BY <1>1, BackfillAssumption DEF Crash, EnvTypeOK, BackfillAssumption
  <2> QED  BY <1>1, <2>1, <2>2, <2>3, UnchangedTypes DEF Crash
<1>2. CASE RefreshTracked
  <2>1. ServerTypeOK'  BY <1>2 DEF RefreshTracked, ServerTypeOK
  <2> QED  BY <1>2, <2>1, UnchangedTypes DEF RefreshTracked
<1>3. CASE SeedInScope
  <2>1. ServerTypeOK'  BY <1>3 DEF SeedInScope, ServerTypeOK, TableTypeOK, ArchiveTypeOK, Job
  <2> QED  BY <1>3, <2>1, UnchangedTypes DEF SeedInScope
<1>4. CASE CloseLedger
  <2>1. EnvTypeOK'  BY <1>4, BackfillAssumption DEF CloseLedger, EnvTypeOK, BackfillAssumption
  <2> QED  BY <1>4, <2>1, UnchangedTypes DEF CloseLedger
<1>5. ASSUME NEW i \in Issuances, BeforeDelete(i) PROVE TypeOK'
  <2>1. ServerTypeOK'  BY <1>5 DEF BeforeDelete, ServerTypeOK
  <2>2. EnvTypeOK'  BY <1>5, BackfillAssumption DEF BeforeDelete, EnvTypeOK, BackfillAssumption
  <2> QED  BY <1>5, <2>1, <2>2, UnchangedTypes DEF BeforeDelete
<1>6. ASSUME NEW i \in Issuances, DeleteAborted(i) PROVE TypeOK'
  <2>1. ServerTypeOK'  BY <1>6 DEF DeleteAborted, ServerTypeOK
  <2>2. EnvTypeOK'  BY <1>6 DEF DeleteAborted, EnvTypeOK
  <2> QED  BY <1>6, <2>1, <2>2, UnchangedTypes DEF DeleteAborted
<1> QED  BY <1>1, <1>2, <1>3, <1>4, <1>5, <1>6

-----------------------------------------------------------------------------
(***************************************************************************)
(* Rows are only added, so what is persisted stays persisted and a claim   *)
(* that is honoured stays honoured.                                        *)
(***************************************************************************)
ArchiveGrows == txRows \subseteq txRows' /\ links \subseteq links' /\ deltas \subseteq deltas'

(***************************************************************************)
(* What the archive holds it holds for good: tables only grow.             *)
(***************************************************************************)
LEMMA GrowsHeld ==
    ASSUME ArchiveGrows, NEW t, NEW i, NEW h, NEW x, Held(t, i, h, x)
    PROVE  Held(t, i, h, x)'
BY DEF ArchiveGrows, Held

(***************************************************************************)
(* So what is persisted of a job stays persisted ...                       *)
(***************************************************************************)
LEMMA GrowsPersisted ==
    ASSUME ArchiveGrows, NEW j, NEW t, Persisted(j, t)
    PROVE  Persisted(j, t)'
BY GrowsHeld DEF Persisted, HoldersIn, Kind, IssuerJob

(***************************************************************************)
(* ... and an honoured coverage row stays honoured.                        *)
(***************************************************************************)
LEMMA GrowsHonours ==
    ASSUME ArchiveGrows, NEW row, Honours(row)
    PROVE  Honours(row)'
BY GrowsHeld DEF Honours, HoldersIn

(***************************************************************************)
(* A runner that does not move keeps its part of the invariant.            *)
(***************************************************************************)
LEMMA StillRunner ==
    ASSUME TypeOK, TypeOK', NEW w \in Runners, CursorOK(w), PageOK(w), run'[w] = run[w],
           ArchiveGrows, tip <= tip', aborted \subseteq aborted',
           deleting \subseteq deleting' \cup aborted'
    PROVE  CursorOK(w)' /\ PageOK(w)'
<1> DEFINE j == run[w].job
<1>1. run[w] \in Runner /\ j \in Job  BY DEF TypeOK, Runner
<1>2. Trusted(j)' => Trusted(j)  BY DEF Trusted
<1>3. Trusted(j)' /\ ~Discarded(j)' => ~Discarded(j)  BY DEF Trusted, Discarded
<1>4. run'[w].job = j  OBVIOUS
<1>5. CursorOK(w)'
  <2> SUFFICES ASSUME run[w].pc \in {"fetch", "commit"}
               PROVE  /\ FromLedger(j) <= run[w].hi /\ run[w].hi <= tip'
                      /\ Trusted(j)' =>
                            \A t \in History(j) : t <= run[w].cursor => Persisted(j, t)'
    BY DEF CursorOK
  <2>1. run[w].hi <= tip'  BY <1>1 DEF CursorOK, TypeOK, EnvTypeOK, Runner
  <2> QED  BY <1>2, <2>1, GrowsPersisted DEF CursorOK
<1>6. PageOK(w)'
  BY <1>2, <1>3 DEF PageOK
<1> QED  BY <1>5, <1>6

(***************************************************************************)
(* A step that writes no row, claim or marker keeps what the database      *)
(* promises; RunnersSafe is then a matter of the runners that move.        *)
(***************************************************************************)
Moved(w) == run'[w].pc \notin {"fetch", "commit"} \/ (CursorOK(w)' /\ PageOK(w)')

(***************************************************************************)
(* A step that leaves tables, markers and filters alone, and each runner   *)
(* where it was or out of paging, keeps the invariant.                     *)
(***************************************************************************)
LEMMA QuietStep ==
    ASSUME IInv, TypeOK', UNCHANGED <<txRows, links, deltas, coverage, marker>>,
           tip <= tip', aborted \subseteq aborted',
           \A w \in Runners : Moved(w) \/
              (run'[w] = run[w] /\ deleting \subseteq deleting' \cup aborted')
    PROVE  /\ RunnersSafe'
           /\ MarkerSafe' /\ SweepCoverageSound' /\ HolderCoverageSound'
<1>1. ArchiveGrows  BY DEF ArchiveGrows
<1>2. RunnersSafe'
  <2> SUFFICES ASSUME NEW w \in Runners PROVE CursorOK(w)' /\ PageOK(w)'
    BY DEF RunnersSafe
  <2>1. CASE Moved(w)  BY <2>1 DEF Moved, CursorOK, PageOK
  <2>2. CASE run'[w] = run[w] /\ deleting \subseteq deleting' \cup aborted'
    BY <1>1, <2>2, StillRunner DEF IInv, RunnersSafe
  <2> QED  BY <2>1, <2>2
<1>3. MarkerSafe'
  BY <1>1, GrowsPersisted DEF IInv, MarkerSafe
<1>4. SweepCoverageSound' /\ HolderCoverageSound'
  BY <1>1, GrowsHonours DEF IInv, SweepCoverageSound, HolderCoverageSound
<1> QED  BY <1>2, <1>3, <1>4

(***************************************************************************)
(* Holder work stays shielded if it was, while `tracked` and `deleting`    *)
(* lose together only what becomes aborted.                                *)
(***************************************************************************)
LEMMA ShieldStep ==
    ASSUME aborted \subseteq aborted',
           tracked \cup deleting \subseteq tracked' \cup deleting' \cup aborted',
           \A j \in Job : status'[j] # "none" => Shielded(j),
           \A w \in Runners : run'[w].pc # "idle" => Shielded(run'[w].job)
    PROVE  HolderWorkShielded'
<1>1. ASSUME NEW j, Shielded(j) PROVE Shielded(j)'
  BY <1>1 DEF Shielded, Kind, IssuerJob
<1> QED  BY <1>1 DEF HolderWorkShielded

(***************************************************************************)
(* Steps that start, stop or queue work: no page is taken in hand.         *)
(***************************************************************************)
LEMMA StartStep ==
    ASSUME IInv, NEW w \in Runners, NEW i \in Issuances, NEW h \in Accounts,
           \/ IngestIssuance(w, i) \/ TrackNewHolder(w, i, h)
           \/ ResumeSweep(w, i) \/ ResumeHolders(w, i)
    PROVE  IInv'
<1> USE DEF IInv
<1>1. TypeOK'  BY StartType
<1>2. /\ UNCHANGED <<txRows, links, deltas, coverage, marker, envVars, tracked, deleting>>
      /\ \A j \in Job : status'[j] # "none" => status[j] # "none" \/ j = IssuerJob(i)
  <2>1. ASSUME IngestIssuance(w, i) PROVE <1>2!1 /\ <1>2!2
    <3>1. IssuerJob(i) \in Job  BY JobFacts
    <3>2. Enqueue(IssuerJob(i)) /\ JobTypeOK  BY <2>1 DEF IngestIssuance, TypeOK
    <3> QED  BY <2>1, <3>1, <3>2, EnqueueType DEF IngestIssuance, archiveVars, serverVars
  <2> QED
    BY <2>1 DEF TrackNewHolder, ResumeSweep, ResumeHolders, tableVars, archiveVars, jobVars
<1>3. \A v \in Runners : run'[v] = run[v] \/
         (/\ run'[v].pc \in {"reclaim", "enqueue"}
          /\ \/ run'[v].job = IssuerJob(i)
             \/ run'[v].job = <<i, h>> /\ i \in tracked
             \/ run'[v].job \in Job /\ status[run'[v].job] # "none")
  <2>1. run \in [Runners -> Runner]  BY DEF TypeOK
  <2> QED
    BY <2>1 DEF IngestIssuance, TrackNewHolder, ResumeSweep, ResumeHolders,
                Become, At, Holding, Outstanding
<1>4. HolderWorkShielded'
  <2>1. Shielded(IssuerJob(i))
    BY JobFacts DEF Shielded, Kind
  <2>2. i \in tracked => Shielded(<<i, h>>)
    BY DEF Shielded
  <2>3. \A j \in Job : status'[j] # "none" => Shielded(j)
    BY <1>2, <2>1 DEF HolderWorkShielded
  <2>4. \A v \in Runners : run'[v].pc # "idle" => Shielded(run'[v].job)
    BY <1>3, <2>1, <2>2 DEF HolderWorkShielded
  <2> QED  BY <1>2, <2>3, <2>4, ShieldStep DEF envVars
<1>5. \A v \in Runners : Moved(v) \/ run'[v] = run[v]
  BY <1>3 DEF Moved
<1>6. tip <= tip'
  BY <1>2 DEF TypeOK, EnvTypeOK, envVars
<1> QED  BY <1>1, <1>2, <1>4, <1>5, <1>6, QuietStep DEF envVars

(***************************************************************************)
(* Reclaiming jobs touches neither tables nor markers.                     *)
(***************************************************************************)
LEMMA ReclaimStep ==
    ASSUME IInv, NEW w \in Runners, Reclaim(w)
    PROVE  IInv'
<1> USE DEF IInv
<1>1. /\ TypeOK'
      /\ \A j \in Job : (status'[j] = "none") <=> (status[j] = "none")
      /\ \A v \in Runners : run'[v] = run[v] \/
            (run'[v].pc \in {"load", "claim"} /\ run'[v].job = run[w].job)
  BY ReclaimFacts
<1>2. /\ UNCHANGED <<txRows, links, deltas, coverage, marker, envVars, tracked, deleting>>
      /\ run[w].pc = "reclaim"
  BY DEF Reclaim, tableVars, archiveVars, serverVars
<1>3. HolderWorkShielded'
  <2>1. Shielded(run[w].job)  BY <1>2 DEF HolderWorkShielded
  <2>2. \A v \in Runners : run'[v].pc # "idle" => Shielded(run'[v].job)
    BY <1>1, <2>1 DEF HolderWorkShielded
  <2>3. \A j \in Job : status'[j] # "none" => Shielded(j)
    BY <1>1 DEF HolderWorkShielded
  <2> QED  BY <1>2, <2>2, <2>3, ShieldStep DEF envVars
<1>4. \A v \in Runners : Moved(v) \/ run'[v] = run[v]
  BY <1>1 DEF Moved
<1>5. tip <= tip'
  BY <1>2 DEF TypeOK, EnvTypeOK, envVars
<1> QED  BY <1>1, <1>2, <1>3, <1>4, <1>5, QuietStep DEF envVars

(***************************************************************************)
(* A runner that starts to page starts at the marker, up to which          *)
(* everything is persisted, and at a ledger that has closed.               *)
(***************************************************************************)
LEMMA StartPagingSafe ==
    ASSUME IInv, NEW w \in Runners, NEW j \in Job, StartPaging(w, j),
           UNCHANGED <<txRows, links, deltas, envVars>>
    PROVE  /\ CursorOK(w)' /\ PageOK(w)'
           /\ run'[w].job = j
           /\ \A v \in Runners : v # w => run'[v] = run[v]
<1> USE DEF IInv
<1>1. marker[j] \in Nat /\ FromLedger(j) \in Nat /\ FromLedger(j) <= tip
  <2>1. FromLedger(j) \in Nat /\ FromLedger(j) <= StartTip  BY JobFacts
  <2>2. StartTip \in Nat  BY BackfillAssumption DEF BackfillAssumption
  <2> QED  BY <2>1, <2>2 DEF TypeOK, JobTypeOK, EnvTypeOK
<1>2. /\ run'[w].pc = "fetch" /\ run'[w].job = j
      /\ run'[w].cursor = marker[j] /\ run'[w].hi = FromLedger(j)
      /\ \A v \in Runners : v # w => run'[v] = run[v]
  BY <1>1, PagingType DEF StartPaging, TypeOK
<1>3. Trusted(j) => \A t \in History(j) : t <= marker[j] => Persisted(j, t)
  BY DEF MarkerSafe, Trusted
<1>4. Trusted(j)' => Trusted(j)
  BY DEF Trusted, envVars
<1>5. \A t : Persisted(j, t) => Persisted(j, t)'
  BY GrowsPersisted DEF ArchiveGrows
<1>6. CursorOK(w)'
  BY <1>1, <1>2, <1>3, <1>4, <1>5 DEF CursorOK, envVars
<1>7. PageOK(w)'
  BY <1>2 DEF PageOK
<1> QED  BY <1>2, <1>6, <1>7

(***************************************************************************)
(* Each worker step short of fetching and committing keeps it.             *)
(***************************************************************************)
LEMMA WorkerStep ==
    ASSUME IInv, NEW w \in Runners,
           EnqueueHolder(w) \/ Load(w) \/ Claim(w) \/ StopAtPage(w)
           \/ Fail(w)
    PROVE  IInv'
<1> DEFINE j == run[w].job
<1> USE DEF IInv
<1>1. TypeOK'  BY WorkerType
<1>2. run \in [Runners -> Runner] /\ j \in Job /\ run[w].pc # "idle"
  BY DEF TypeOK, Runner, EnqueueHolder, Load, Claim, StopAtPage, Fail
<1>3. Shielded(j)  BY <1>2 DEF HolderWorkShielded
<1>4. /\ UNCHANGED <<txRows, links, deltas, coverage, marker, tip, aborted, tracked, deleting>>
      /\ \A k \in Job : status'[k] # "none" => status[k] # "none" \/ k = j
  <2>1. ASSUME EnqueueHolder(w) PROVE <1>4!1 /\ <1>4!2
    <3>1. Enqueue(j) /\ JobTypeOK  BY <2>1 DEF EnqueueHolder, TypeOK
    <3> QED  BY <1>2, <2>1, <3>1, EnqueueType DEF EnqueueHolder, tableVars, archiveVars, serverVars, envVars
  <2>2. ASSUME Claim(w) PROVE <1>4!1 /\ <1>4!2
    BY <2>2 DEF Claim, Claimable, TypeOK, JobTypeOK, tableVars, archiveVars, serverVars, envVars
  <2>3. ASSUME Fail(w) PROVE <1>4!1 /\ <1>4!2
    <3>1. FailJob(w)  BY <2>3 DEF Fail
    <3> QED  BY <1>2, <3>1 DEF FailJob, TypeOK, JobTypeOK, tableVars, archiveVars
  <2>4. ASSUME Load(w) \/ StopAtPage(w) PROVE <1>4!1 /\ <1>4!2
    BY <2>4 DEF Load, StopAtPage, tableVars, archiveVars, jobVars, serverVars, envVars
  <2> QED  BY <2>1, <2>2, <2>3, <2>4
<1>5. /\ \A v \in Runners : v # w => run'[v] = run[v]
      /\ Moved(w)
      /\ run'[w].pc = "idle" \/ Shielded(run'[w].job)
  <2>1. "reclaim" \in PC /\ "claim" \in PC  BY DEF PC
  <2>2. CASE Finish(w)
    BY <1>2, <2>2, FinishType DEF Moved
  <2>3. CASE Goto(w, "reclaim") \/ Goto(w, "claim")
    BY <1>2, <1>3, <2>1, <2>3, GotoType DEF Moved
  <2>4. ASSUME Load(w), StartPaging(w, j) PROVE <1>5!1 /\ <1>5!2 /\ <1>5!3
    BY <1>2, <1>3, <2>4, StartPagingSafe DEF Load, Moved, tableVars, archiveVars
  <2>5. ASSUME Claim(w), NEW k \in Job, status[k] = "pending", StartPaging(w, k)
        PROVE <1>5!1 /\ <1>5!2 /\ <1>5!3
    <3>1. Shielded(k)  BY <2>5 DEF HolderWorkShielded
    <3> QED  BY <2>5, <3>1, StartPagingSafe DEF Claim, Moved, tableVars, archiveVars
  <2>6. CASE Load(w)
    BY <2>2, <2>4, <2>6 DEF Load
  <2>7. CASE Claim(w)
    BY <2>2, <2>5, <2>7 DEF Claim, Claimable
  <2>8. CASE EnqueueHolder(w) \/ StopAtPage(w) \/ Fail(w)
    BY <2>2, <2>3, <2>8 DEF EnqueueHolder, StopAtPage, Fail, FailJob
  <2> QED  BY <2>6, <2>7, <2>8
<1>6. HolderWorkShielded'
  <2>1. \A k \in Job : status'[k] # "none" => Shielded(k)
    BY <1>3, <1>4 DEF HolderWorkShielded
  <2>2. \A v \in Runners : run'[v].pc # "idle" => Shielded(run'[v].job)
    BY <1>5 DEF HolderWorkShielded
  <2> QED  BY <1>4, <2>1, <2>2, ShieldStep
<1>7. \A v \in Runners : Moved(v) \/ run'[v] = run[v]
  BY <1>5
<1>8. tip <= tip'
  BY <1>4 DEF TypeOK, EnvTypeOK
<1> QED  BY <1>1, <1>4, <1>6, <1>7, <1>8, QuietStep

(***************************************************************************)
(* A page arrives: what it leaves out is out of scope, and the last page   *)
(* is all there is up to the tip, hence up to the high-water mark.         *)
(***************************************************************************)
LEMMA FetchStep ==
    ASSUME IInv, NEW w \in Runners, Fetch(w)
    PROVE  IInv'
<1> USE DEF IInv
<1> PICK r, j, n : r = run[w] /\ j = run[w].job /\ n = run'[w]
  OBVIOUS
<1>1. /\ TypeOK'
      /\ \A v \in Runners : v # w => run'[v] = run[v]
      /\ n.pc = "commit" /\ n.job = j /\ n.cursor = r.cursor
      /\ n.upto \in Rest(w) \cup {r.cursor}
      /\ n.kept = {t \in Rest(w) : t <= n.upto /\ InScope(t, Scope(j))}
      /\ n.final => \A t \in Rest(w) : t <= n.upto
      /\ n.hi = r.hi \/ \E t \in Rest(w) : n.hi = LedgerOf[t]
      /\ r.hi <= n.hi
  BY FetchFacts
<1>2. /\ UNCHANGED <<tableVars, jobVars, serverVars, envVars>>
      /\ r.pc = "fetch"
  BY DEF Fetch
<1>3. /\ r \in Runner /\ n \in Runner /\ j \in Job /\ j[2] \in Accounts /\ j[1] \in Issuances
      /\ FromLedger(j) \in Nat /\ tip \in Nat
      /\ r.cursor \in Nat /\ r.hi \in Nat /\ n.upto \in Nat /\ n.hi \in Nat
  <2>1. r \in Runner /\ n \in Runner /\ tip \in Nat  BY <1>1 DEF TypeOK, EnvTypeOK
  <2>2. j \in Job  BY <2>1 DEF Runner
  <2>3. r.cursor \in Nat /\ r.hi \in Nat /\ n.upto \in Nat /\ n.hi \in Nat
    BY <2>1 DEF Runner
  <2> QED  BY <2>1, <2>2, <2>3, JobFacts
<1>4. Rest(w) = {t \in IndexOf[j[2]] : /\ t > r.cursor /\ FromLedger(j) <= LedgerOf[t]
                                       /\ LedgerOf[t] <= tip}
  BY DEF Rest, AccountTx
<1>5. History(j) \subseteq Tx /\ Tx \subseteq Nat /\ \A t \in Tx : LedgerOf[t] \in Nat
  BY <1>3, HistoryAssumption DEF History, HistoryAssumption
<1>6. FromLedger(j) <= r.hi /\ r.hi <= tip
  BY <1>2 DEF RunnersSafe, CursorOK
<1>7. n.hi <= tip
  BY <1>1, <1>4, <1>6
<1>8. n.upto <= r.cursor \/ n.upto \in Rest(w)
  BY <1>1, <1>3
<1>9. CursorOK(w)'
  <2>1. Trusted(j)' => \A t \in History(j) : t <= r.cursor => Persisted(j, t)'
    <3>1. Trusted(j)' => Trusted(j)  BY <1>2 DEF Trusted, envVars
    <3>2. \A t : Persisted(j, t) => Persisted(j, t)'
      BY <1>2, GrowsPersisted DEF ArchiveGrows, tableVars, archiveVars
    <3> QED  BY <1>2, <3>1, <3>2 DEF RunnersSafe, CursorOK
  <2>2. FromLedger(j) <= n.hi /\ n.hi <= tip'
    BY <1>1, <1>2, <1>3, <1>6, <1>7 DEF envVars
  <2> QED  BY <1>1, <2>1, <2>2 DEF CursorOK
<1>10. PageOK(w)'
  <2>1. ASSUME Trusted(j)', ~Discarded(j)',
               NEW t \in History(j), t <= n.upto, HoldersIn(t, j[1]) # {}
        PROVE  t <= r.cursor \/ t \in n.kept
    <3>1. SUFFICES ASSUME ~(t <= r.cursor) PROVE t \in n.kept
      OBVIOUS
    <3>2. t > r.cursor /\ t \in Tx /\ t \in Nat
      <4>1. t \in Tx  BY <1>5, <2>1
      <4>2. t \in Nat  BY <1>5, <4>1
      <4> QED  BY <1>3, <3>1, <4>1, <4>2
    <3>3. n.upto \in Rest(w)
      BY <1>3, <1>5, <1>8, <2>1, <3>2
    <3>4. LedgerOf[t] <= LedgerOf[n.upto] /\ n.upto \in Tx
      BY <1>3, <1>4, <2>1, <3>2, <3>3, HistoryAssumption DEF HistoryAssumption
    <3>5. t \in Rest(w)
      <4>1. t \in IndexOf[j[2]] /\ FromLedger(j) <= LedgerOf[t]
        BY <2>1 DEF History
      <4>2. LedgerOf[n.upto] <= tip
        BY <1>4, <3>3
      <4>3. LedgerOf[t] \in Nat /\ LedgerOf[n.upto] \in Nat
        BY <1>5, <3>2, <3>4
      <4>4. LedgerOf[t] <= tip
        BY <1>3, <3>4, <4>2, <4>3
      <4> QED  BY <1>4, <3>2, <4>1, <4>4
    <3>6. j[1] \in Scope(j)
      <4>1. CASE Kind(j) = "issuer"  BY <4>1 DEF Scope
      <4>2. CASE Kind(j) = "account"
        <5>1. Shielded(j)  BY <1>2 DEF HolderWorkShielded
        <5>2. j[1] \notin aborted /\ j[1] \notin deleting
          BY <1>2, <2>1, <4>2 DEF Trusted, Discarded, Kind, IssuerJob, serverVars, envVars
        <5> QED  BY <4>2, <5>1, <5>2 DEF Shielded, Scope
      <4> QED  BY <1>3, <4>1, <4>2, JobFacts
    <3>7. InScope(t, Scope(j))
      BY <2>1, <3>6 DEF InScope
    <3> QED  BY <1>1, <2>1, <3>5, <3>7
  <2>2. ASSUME n.final, NEW t \in History(j), LedgerOf[t] <= n.hi
        PROVE  t <= n.upto
    <3>1. LedgerOf[t] <= tip
      <4>1. t \in Tx  BY <1>5, <2>2
      <4>2. LedgerOf[t] \in Nat  BY <1>5, <4>1
      <4> QED  BY <1>3, <1>7, <2>2, <4>2
    <3>2. CASE t \in Rest(w)
      BY <1>1, <2>2, <3>2
    <3>3. CASE t \notin Rest(w)
      <4> t \in Tx /\ t \in Nat
        BY <1>5, <2>2
      <4>1. t <= r.cursor
        <5>1. t \in IndexOf[j[2]] /\ FromLedger(j) <= LedgerOf[t]
          BY <2>2 DEF History
        <5>2. ~(t > r.cursor)
          BY <1>4, <3>1, <3>3, <5>1
        <5> QED  BY <1>3, <5>2
      <4>2. r.cursor <= n.upto
        BY <1>1, <1>3, <1>4
      <4> QED  BY <1>3, <4>1, <4>2
    <3> QED  BY <3>2, <3>3
  <2> QED  BY <1>1, <2>1, <2>2 DEF PageOK
<1>11. HolderWorkShielded'
  <2>1. \A k \in Job : status'[k] # "none" => Shielded(k)
    BY <1>2 DEF HolderWorkShielded, jobVars
  <2>2. \A v \in Runners : run'[v].pc # "idle" => Shielded(run'[v].job)
    BY <1>1, <1>2 DEF HolderWorkShielded
  <2> QED  BY <1>2, <2>1, <2>2, ShieldStep DEF serverVars, envVars
<1>12. \A v \in Runners : Moved(v) \/ run'[v] = run[v]
  BY <1>1, <1>9, <1>10 DEF Moved
<1> QED
  BY <1>1, <1>2, <1>3, <1>11, <1>12, QuietStep DEF tableVars, archiveVars, jobVars, serverVars, envVars

(***************************************************************************)
(* A page transaction persists what its page kept.                         *)
(***************************************************************************)
LEMMA SweepPersists ==
    ASSUME IInv, NEW w \in Runners, CommitSweepPage(w),
           NEW j, j = run[w].job, NEW t \in run[w].kept
    PROVE  Persisted(j, t)'
<1> PICK r : r = run[w]  OBVIOUS
<1>1. j \in Job /\ Kind(j) = "issuer" /\ t \in Tx /\ j[1] \in Issuances /\ j[2] \in Accounts
  <2>1. r \in Runner  BY DEF IInv, TypeOK
  <2>2. j \in Job /\ t \in Tx  BY <2>1 DEF Runner
  <2> QED  BY <2>2, JobFacts DEF CommitSweepPage
<1>2. /\ txRows' = txRows \cup r.kept
      /\ links' = links \cup SweepLinks(r.kept, {j[1]}, j[2])
      /\ deltas' = deltas \cup DeltaRows(r.kept, {j[1]})
  BY DEF CommitSweepPage
<1>3. ASSUME NEW h \in HoldersIn(t, j[1])
      PROVE  Held(t, j[1], h, h)' /\ Held(t, j[1], h, j[2])'
  <2>1. h \in Accounts /\ <<j[1], h>> \in Touches[t]  BY DEF HoldersIn
  <2>2. <<t, h>> \in SweepLinks(r.kept, {j[1]}, j[2]) /\ <<t, j[2]>> \in SweepLinks(r.kept, {j[1]}, j[2])
    BY <1>1, <2>1 DEF SweepLinks
  <2>3. <<t, j[1], h>> \in DeltaRows(r.kept, {j[1]})
    BY <1>1, <2>1 DEF DeltaRows
  <2> QED  BY <1>2, <2>2, <2>3 DEF Held
<1>4. Persisted(j, t)'
  BY <1>1, <1>3 DEF Persisted, HoldersIn, Kind, IssuerJob
<1> QED  BY <1>4

(***************************************************************************)
(* Likewise a holder page, whose links name the holder only.               *)
(***************************************************************************)
LEMMA AccountPersists ==
    ASSUME IInv, NEW w \in Runners, CommitAccountPage(w),
           NEW j, j = run[w].job, j[1] \notin aborted, NEW t \in run[w].kept
    PROVE  Persisted(j, t)'
<1> PICK r : r = run[w]  OBVIOUS
<1>1. j \in Job /\ Kind(j) = "account" /\ t \in Tx /\ j[1] \in Issuances
  <2>1. r \in Runner  BY DEF IInv, TypeOK
  <2>2. j \in Job /\ t \in Tx  BY <2>1 DEF Runner
  <2> QED  BY <2>2, JobFacts DEF CommitAccountPage
<1>2. /\ txRows' = txRows \cup r.kept
      /\ links' = links \cup AccountLinks(r.kept, j[2])
      /\ deltas' = deltas \cup DeltaRows(r.kept, tracked)
      /\ j[1] \notin deleting /\ r.pc = "commit"
  BY DEF CommitAccountPage
<1>3. j[1] \in tracked
  <2>1. Shielded(j)  BY <1>2 DEF IInv, HolderWorkShielded
  <2> QED  BY <1>1, <1>2, <2>1 DEF Shielded
<1>4. ASSUME NEW h \in HoldersIn(t, j[1]), h = j[2]
      PROVE  Held(t, j[1], h, h)'
  <2>1. h \in Accounts /\ <<j[1], h>> \in Touches[t]  BY DEF HoldersIn
  <2>2. <<t, h>> \in AccountLinks(r.kept, j[2])
    BY <1>1, <1>4, <2>1 DEF AccountLinks
  <2>3. <<t, j[1], h>> \in DeltaRows(r.kept, tracked)
    BY <1>1, <1>3, <2>1 DEF DeltaRows
  <2> QED  BY <1>2, <2>2, <2>3 DEF Held
<1> QED  BY <1>1, <1>4 DEF Persisted, HoldersIn, Kind, IssuerJob

(***************************************************************************)
(* A page commit keeps the invariant: the marker moves to the last entry   *)
(* of the page it stores, and claims end at the mark.                      *)
(***************************************************************************)
LEMMA CommitStep ==
    ASSUME IInv, NEW w \in Runners, CommitSweepPage(w) \/ CommitAccountPage(w)
    PROVE  IInv'
<1> USE DEF IInv
<1> PICK r, j : r = run[w] /\ j = run[w].job  OBVIOUS
<1>1. CommitFacts(w)
  BY CommitSweepFacts, CommitAccountFacts
<1>2. /\ UNCHANGED <<serverVars, envVars>>
      /\ r.pc = "commit" /\ ~Discarded(j)
  BY DEF CommitSweepPage, CommitAccountPage, Discarded
<1>3. r \in Runner /\ j \in Job /\ j[1] \in Issuances /\ j[2] \in Accounts /\ Kind(j) \in {"issuer", "account"}
  <2>1. r \in Runner  BY DEF TypeOK
  <2>2. j \in Job  BY <2>1 DEF Runner
  <2> QED  BY <2>1, <2>2, JobFacts
<1>4. ArchiveGrows
  BY <1>1 DEF CommitFacts, ArchiveGrows
<1>5. UNCHANGED <<tracked, deleting, aborted, tip>> /\ tip \in Nat
  BY <1>2 DEF serverVars, envVars, TypeOK, EnvTypeOK
<1>6. \A k : Trusted(k)' = Trusted(k)
  BY <1>5 DEF Trusted, Kind, IssuerJob
<1>7. ASSUME Trusted(j), NEW t \in History(j), t <= r.upto
      PROVE  Persisted(j, t)'
  <2>1. CASE HoldersIn(t, j[1]) = {}
    BY <2>1 DEF Persisted, HoldersIn
  <2>2. CASE t <= r.cursor
    <3>1. Persisted(j, t)  BY <1>2, <1>7, <2>2 DEF RunnersSafe, CursorOK
    <3> QED  BY <1>4, <3>1, GrowsPersisted
  <2>3. CASE t \in r.kept
    <3>1. CASE CommitSweepPage(w)
      BY <2>3, <3>1, SweepPersists
    <3>2. CASE CommitAccountPage(w)
      <4>1. Kind(j) = "account"  BY <3>2 DEF CommitAccountPage
      <4>2. j[1] \notin aborted  BY <1>7, <4>1 DEF Trusted
      <4> QED  BY <2>3, <3>2, <4>2, AccountPersists
    <3> QED  BY <3>1, <3>2
  <2>4. HoldersIn(t, j[1]) # {} => t <= r.cursor \/ t \in r.kept
    BY <1>2, <1>7 DEF RunnersSafe, PageOK
  <2> QED  BY <2>1, <2>2, <2>3, <2>4
<1>8. RunnersSafe'
  <2> SUFFICES ASSUME NEW v \in Runners PROVE CursorOK(v)' /\ PageOK(v)'
    BY DEF RunnersSafe
  <2>1. CASE v # w
    <3>1. run'[v] = run[v]  BY <1>1, <2>1 DEF CommitFacts
    <3>2. CursorOK(v) /\ PageOK(v) /\ TypeOK'  BY <1>1 DEF RunnersSafe, CommitFacts
    <3> QED  BY <1>4, <1>5, <3>1, <3>2, StillRunner
  <2>2. CASE v = w
    <3>1. CASE run'[w].pc \in {"idle", "claim"}
      BY <2>2, <3>1 DEF CursorOK, PageOK
    <3>2. CASE /\ run'[w].pc = "fetch" /\ run'[w].job = j
               /\ run'[w].cursor = r.upto /\ run'[w].hi = r.hi
      <4>1. FromLedger(j) <= r.hi /\ r.hi <= tip'
        BY <1>2, <1>5 DEF RunnersSafe, CursorOK
      <4> QED  BY <1>6, <1>7, <2>2, <3>2, <4>1 DEF CursorOK, PageOK
    <3> QED  BY <1>1, <3>1, <3>2 DEF CommitFacts
  <2> QED  BY <2>1, <2>2
<1>9. MarkerSafe'
  <2> SUFFICES ASSUME NEW k \in Job, Trusted(k), NEW t \in History(k), t <= marker'[k]
               PROVE  Persisted(k, t)'
    BY <1>6 DEF MarkerSafe, Trusted
  <2>1. t \in Nat \ {0}
    BY HistoryAssumption, JobFacts DEF HistoryAssumption, History
  <2>2. CASE k # j
    <3>1. marker'[k] = marker[k]  BY <1>1, <2>2 DEF CommitFacts
    <3>2. Persisted(k, t)  BY <3>1 DEF MarkerSafe, Trusted
    <3> QED  BY <1>4, <3>2, GrowsPersisted
  <2>3. CASE k = j
    <3>1. marker'[k] = IF r.final THEN 0 ELSE r.upto  BY <1>1, <1>3, <2>3 DEF CommitFacts
    <3>2. ~r.final  BY <2>1, <3>1
    <3> QED  BY <1>7, <2>3, <3>1, <3>2
  <2> QED  BY <2>2, <2>3
<1>10. ASSUME NEW row \in coverage', row \notin coverage, Trusted(j)
       PROVE  Honours(row)'
  <2>1. /\ r.final /\ row.job = j /\ FromLedger(j) <= row.from /\ row.to = r.hi
        /\ row.from \in Nat
        /\ Kind(j) = "account" => row.address = j[2]
    BY <1>1, <1>10 DEF CommitFacts
  <2> SUFFICES ASSUME NEW t \in Tx, row.from <= LedgerOf[t], LedgerOf[t] <= r.hi,
                      NEW h \in HoldersIn(t, j[1]), row.address \in {h, IssuerOf[j[1]]}
               PROVE  Held(t, j[1], h, row.address)'
    BY <2>1 DEF Honours, HoldersIn
  <2>2. h \in Accounts /\ t \in IndexOf[h] /\ t \in IndexOf[IssuerOf[j[1]]] /\ LedgerOf[t] \in Nat
    BY <1>3, HistoryAssumption DEF HistoryAssumption, HoldersIn
  <2>3. Kind(j) = "issuer" => j[2] = IssuerOf[j[1]]
    BY <1>3, JobFacts
  <2>4. Kind(j) = "account" => row.address = h /\ h = j[2]
    BY <1>3, <2>1 DEF Kind, IssuerJob, Job
  <2>5. t \in History(j)
    <3>1. FromLedger(j) \in Nat  BY <1>3, JobFacts
    <3>2. FromLedger(j) <= LedgerOf[t]  BY <2>1, <2>2, <3>1
    <3> QED  BY <1>3, <2>2, <2>3, <2>4, <3>2 DEF History
  <2>6. Persisted(j, t)'
    BY <1>2, <1>7, <1>10, <2>1, <2>5 DEF RunnersSafe, PageOK
  <2> QED
    BY <1>3, <2>3, <2>4, <2>6 DEF Persisted, HoldersIn, Kind, IssuerJob
<1>11. SweepCoverageSound' /\ HolderCoverageSound'
  <2>1. ASSUME NEW row \in coverage', Kind(row.job) = "issuer" \/ row.job[1] \notin aborted
        PROVE  Honours(row)'
    <3>1. CASE row \in coverage
      <4>1. row.job \in Job  BY <3>1 DEF TypeOK, TableTypeOK, ArchiveTypeOK, Job
      <4>2. Kind(row.job) \in {"issuer", "account"}  BY <4>1, JobFacts
      <4>3. Honours(row)
        BY <2>1, <3>1, <4>2 DEF SweepCoverageSound, HolderCoverageSound
      <4> QED  BY <1>4, <4>3, GrowsHonours
    <3>2. CASE row \notin coverage
      <4>1. row.job = j  BY <1>1, <3>2 DEF CommitFacts
      <4> QED  BY <1>10, <2>1, <3>2, <4>1 DEF Trusted
    <3> QED  BY <3>1, <3>2
  <2> QED
    BY <1>5, <2>1 DEF SweepCoverageSound, HolderCoverageSound
<1>12. HolderWorkShielded'
  <2>1. Shielded(j)  BY <1>2 DEF HolderWorkShielded
  <2>2. \A k \in Job : status'[k] # "none" => Shielded(k)
    BY <1>1, <2>1 DEF CommitFacts, HolderWorkShielded
  <2>3. \A v \in Runners : run'[v].pc # "idle" => Shielded(run'[v].job)
    BY <1>1, <2>1 DEF CommitFacts, HolderWorkShielded
  <2> QED  BY <1>5, <2>2, <2>3, ShieldStep
<1> QED  BY <1>1, <1>8, <1>9, <1>11, <1>12 DEF CommitFacts

(***************************************************************************)
(* What the rest of the server does: a restart forgets every runner, and   *)
(* an aborted delete gives up the trust in its issuance's holder jobs.     *)
(***************************************************************************)
LEMMA ServerStep ==
    ASSUME IInv,
           \/ Crash \/ RefreshTracked \/ SeedInScope \/ CloseLedger
           \/ \E i \in Issuances : BeforeDelete(i) \/ DeleteAborted(i)
    PROVE  IInv'
<1> USE DEF IInv
<1>1. TypeOK'  BY ServerType
<1>2. UNCHANGED <<txRows, links, deltas, coverage, marker, status>>
  BY DEF Crash, RefreshTracked, SeedInScope, CloseLedger, BeforeDelete, DeleteAborted,
         tableVars, archiveVars, jobVars
<1>3. tip <= tip' /\ aborted \subseteq aborted'
  <2>1. tip \in Nat  BY DEF TypeOK, EnvTypeOK
  <2> QED
    BY <2>1 DEF Crash, RefreshTracked, SeedInScope, CloseLedger, BeforeDelete, DeleteAborted,
                envVars
<1>4. tracked \cup deleting \subseteq tracked' \cup deleting' \cup aborted'
  <2>1. tracked \subseteq Issuances /\ deleting \subseteq Issuances
    BY DEF TypeOK, ServerTypeOK
  <2> QED
    BY <2>1 DEF Crash, RefreshTracked, SeedInScope, CloseLedger, BeforeDelete, DeleteAborted,
                serverVars
<1>5. CASE Crash
  <2>1. \A w \in Runners : run'[w].pc = "idle"  BY <1>5, IdleType DEF Crash
  <2>2. \A w \in Runners : Moved(w)  BY <2>1 DEF Moved
  <2>3. HolderWorkShielded'
    BY <1>2, <1>3, <1>4, <2>1, ShieldStep DEF HolderWorkShielded
  <2> QED  BY <1>1, <1>2, <1>3, <2>2, <2>3, QuietStep
<1>6. CASE ~Crash
  <2>1. run' = run
    BY <1>6 DEF RefreshTracked, SeedInScope, CloseLedger, BeforeDelete, DeleteAborted
  <2>2. deleting \subseteq deleting' \cup aborted'
    BY <1>6 DEF RefreshTracked, SeedInScope, CloseLedger, BeforeDelete, DeleteAborted,
                serverVars
  <2>3. HolderWorkShielded'
    BY <1>2, <1>3, <1>4, <2>1, ShieldStep DEF HolderWorkShielded
  <2> QED  BY <1>1, <1>2, <1>3, <2>1, <2>2, <2>3, QuietStep
<1> QED  BY <1>5, <1>6

(***************************************************************************)
(* A stuttering step keeps the invariant.                                  *)
(***************************************************************************)
LEMMA StutterStep ==
    ASSUME IInv, UNCHANGED vars
    PROVE  IInv'
<1> USE DEF IInv, vars
<1>1. TypeOK'
  BY DEF tableVars, archiveVars, jobVars, serverVars, envVars, TypeOK, TableTypeOK, ArchiveTypeOK, JobTypeOK,
         ServerTypeOK, EnvTypeOK
<1>2. /\ UNCHANGED <<txRows, links, deltas, coverage, marker, status, run, tracked, deleting, aborted>>
      /\ tip <= tip'
  BY DEF tableVars, archiveVars, jobVars, serverVars, envVars, TypeOK, EnvTypeOK
<1>3. HolderWorkShielded'
  BY <1>2, ShieldStep DEF HolderWorkShielded
<1> QED  BY <1>1, <1>2, <1>3, QuietStep

-----------------------------------------------------------------------------
(***************************************************************************)
(* The invariant is inductive.                                             *)
(***************************************************************************)
LEMMA InitInv == Init => IInv
<1> SUFFICES ASSUME Init PROVE IInv
  OBVIOUS
<1>1. TypeOK  BY InitType
<1>2. \A w \in Runners : run[w].pc = "idle"  BY IdleType DEF Init
<1>3. HolderWorkShielded  BY <1>2 DEF Init, HolderWorkShielded
<1>4. RunnersSafe  BY <1>2 DEF RunnersSafe, CursorOK, PageOK
<1>5. MarkerSafe
  <2> SUFFICES ASSUME NEW j \in Job, NEW t \in History(j) PROVE ~(t <= marker[j])
    BY DEF MarkerSafe
  <2>1. t \in Nat \ {0}
    BY HistoryAssumption, JobFacts DEF HistoryAssumption, History
  <2>2. marker[j] = 0  BY DEF Init
  <2> QED  BY <2>1, <2>2
<1>6. SweepCoverageSound /\ HolderCoverageSound
  BY DEF Init, SweepCoverageSound, HolderCoverageSound
<1> QED  BY <1>1, <1>3, <1>4, <1>5, <1>6 DEF IInv

(***************************************************************************)
(* Every step keeps the invariant, action by action.                       *)
(***************************************************************************)
LEMMA NextInv == IInv /\ [Next]_vars => IInv'
<1> SUFFICES ASSUME IInv, [Next]_vars PROVE IInv'
  OBVIOUS
<1>1. CASE UNCHANGED vars
  BY <1>1, StutterStep
<1>2. ASSUME NEW w \in Runners, Work(w) \/ Fail(w) PROVE IInv'
  <2>1. CASE Fetch(w)  BY <2>1, FetchStep
  <2>2. CASE CommitSweepPage(w) \/ CommitAccountPage(w)  BY <2>2, CommitStep
  <2>3. CASE EnqueueHolder(w) \/ Reclaim(w) \/ Load(w) \/ Claim(w) \/ StopAtPage(w)
             \/ Fail(w)
    BY <2>3, WorkerStep, ReclaimStep
  <2> QED  BY <1>2, <2>1, <2>2, <2>3 DEF Work
<1>3. ASSUME NEW w \in Runners, NEW i \in Issuances,
             \/ IngestIssuance(w, i) \/ ResumeSweep(w, i) \/ ResumeHolders(w, i)
             \/ \E h \in Accounts : TrackNewHolder(w, i, h)
      PROVE  IInv'
  <2>1. Accounts # {}
    <3>1. IssuerOf[i] \in Accounts  BY HistoryAssumption DEF HistoryAssumption
    <3> QED  BY <3>1
  <2> QED  BY <1>3, <2>1, StartStep
<1>4. CASE \/ Crash \/ RefreshTracked \/ SeedInScope \/ CloseLedger
           \/ \E i \in Issuances : BeforeDelete(i) \/ DeleteAborted(i)
  BY <1>4, ServerStep
<1> QED  BY <1>1, <1>2, <1>3, <1>4 DEF Next

(***************************************************************************)
(* So the invariant holds in every reachable state.                        *)
(***************************************************************************)
LEMMA Invariance == Spec => []IInv
BY InitInv, NextInv, PTL DEF Spec

(***************************************************************************)
(* Tables, runners and server sets keep their types.                       *)
(***************************************************************************)
THEOREM TypeCorrect == Spec => []TypeOK
<1>1. IInv => TypeOK  BY DEF IInv
<1> QED  BY <1>1, Invariance, PTL

(***************************************************************************)
(* Resuming a job from its marker never leaves a gap in what it stores     *)
(* (worker.ts runJob, issuerSweep.ts runIssuerBackfill), whatever crashed, *)
(* failed or ran next to it.                                               *)
(***************************************************************************)
THEOREM MarkersAreSafe == Spec => []MarkerSafe
<1>1. IInv => MarkerSafe  BY DEF IInv
<1> QED  BY <1>1, Invariance, PTL

(***************************************************************************)
(* Every coverage row a sweep wrote (issuerSweep.ts claimCoverage) covers  *)
(* only ledgers whose transactions are stored, linked and derived.         *)
(***************************************************************************)
THEOREM SweepCoverage == Spec => []SweepCoverageSound
<1>1. IInv => SweepCoverageSound  BY DEF IInv
<1> QED  BY <1>1, Invariance, PTL

(***************************************************************************)
(* The same of every row a holder's job wrote (worker.ts runJob), for the  *)
(* issuances no delete of which was aborted.                               *)
(***************************************************************************)
THEOREM HolderCoverage == Spec => []HolderCoverageSound
<1>1. IInv => HolderCoverageSound  BY DEF IInv
<1> QED  BY <1>1, Invariance, PTL
-----------------------------------------------------------------------------
(***************************************************************************)
(* Discovery.  Holders are only added; what a sweep has paged past, by its *)
(* marker or by the cursor of any of its runners, has its holders recorded.*)
(***************************************************************************)
Recorded(j, t) == {j[1]} \X HoldersIn(t, j[1]) \subseteq holders

CursorRecorded(w) ==
    run[w].pc \in {"fetch", "commit"} /\ Kind(run[w].job) = "issuer" =>
        \A t \in History(run[w].job) : t <= run[w].cursor => Recorded(run[w].job, t)

Discovery == DiscoveryKept /\ \A w \in Runners : CursorRecorded(w)

(***************************************************************************)
(* A runner out of paging, where it was, or about to page from the marker. *)
(***************************************************************************)
Trails(w) ==
    \/ run'[w].pc \notin {"fetch", "commit"}
    \/ /\ run[w].pc \in {"fetch", "commit"}
       /\ run'[w].job = run[w].job /\ run'[w].cursor = run[w].cursor
    \/ run'[w].job \in Job /\ run'[w].cursor = marker[run'[w].job]

(***************************************************************************)
(* A step that moves no marker and claims nothing keeps it.                *)
(***************************************************************************)
LEMMA TrailingStep ==
    ASSUME Discovery, holders \subseteq holders', UNCHANGED <<marker, coverage>>,
           \A w \in Runners : Trails(w)
    PROVE  Discovery'
<1>1. ASSUME NEW j, NEW t, Recorded(j, t) PROVE Recorded(j, t)'
  BY <1>1 DEF Recorded, HoldersIn
<1>2. DiscoveryKept'
  BY DEF Discovery, DiscoveryKept, History, FromLedger, Kind, IssuerJob, HoldersIn
<1>3. ASSUME NEW w \in Runners PROVE CursorRecorded(w)'
  <2> SUFFICES ASSUME run'[w].pc \in {"fetch", "commit"}, NEW j, j = run'[w].job,
                      Kind(j) = "issuer", NEW t \in History(j), t <= run'[w].cursor
               PROVE  Recorded(j, t)'
    BY DEF CursorRecorded, Recorded, History, HoldersIn, FromLedger, Kind, IssuerJob
  <2>1. CASE /\ run[w].pc \in {"fetch", "commit"}
             /\ run[w].job = j /\ run'[w].cursor = run[w].cursor
    <3>1. Recorded(j, t)  BY <2>1 DEF Discovery, CursorRecorded
    <3> QED  BY <1>1, <3>1
  <2>2. CASE j \in Job /\ run'[w].cursor = marker[j]
    <3>1. j[1] \in Issuances /\ j = IssuerJob(j[1])
      BY <2>2, JobFacts DEF Kind
    <3>2. Recorded(j, t)
      BY <2>2, <3>1 DEF Discovery, DiscoveryKept, Recorded
    <3> QED  BY <1>1, <3>2
  <2> QED  BY <2>1, <2>2 DEF Trails
<1> QED  BY <1>2, <1>3 DEF Discovery

(***************************************************************************)
(* A page of a sweep records the holders it names, and its claim ends at a *)
(* mark its last page has reached.                                         *)
(***************************************************************************)
LEMMA SweepRecords ==
    ASSUME IInv, Discovery, NEW w \in Runners, CommitSweepPage(w)
    PROVE  Discovery'
<1> PICK r, j : r = run[w] /\ j = run[w].job
  OBVIOUS
<1>1. r \in Runner /\ j \in Job /\ Kind(j) = "issuer" /\ r.pc = "commit"
  BY DEF CommitSweepPage, IInv, TypeOK, Runner
<1>2. j[1] \in Issuances /\ j = IssuerJob(j[1])
  BY <1>1, JobFacts DEF Kind
<1>3. CommitFacts(w)
  BY CommitSweepFacts DEF IInv
<1>4. holders' = holders \cup Discovered(j[1], r.kept)
  BY DEF CommitSweepPage
<1>5. ASSUME NEW k, NEW t, Recorded(k, t) PROVE Recorded(k, t)'
  BY <1>4, <1>5 DEF Recorded, HoldersIn
<1>6. ASSUME NEW t \in History(j), t <= r.upto PROVE Recorded(j, t)'
  <2>1. HoldersIn(t, j[1]) # {} => t <= r.cursor \/ t \in r.kept
    BY <1>1, <1>6 DEF IInv, RunnersSafe, PageOK, Trusted, Discarded
  <2>2. CASE HoldersIn(t, j[1]) = {}
    BY <2>2 DEF Recorded, HoldersIn
  <2>3. CASE t <= r.cursor
    BY <1>1, <1>5, <2>3 DEF Discovery, CursorRecorded
  <2>4. CASE t \in r.kept
    BY <1>4, <2>4 DEF Recorded, Discovered, HoldersIn
  <2> QED  BY <2>1, <2>2, <2>3, <2>4
<1>7. DiscoveryKept'
  <2> SUFFICES ASSUME NEW i \in Issuances, NEW t \in History(IssuerJob(i)),
                      \/ t <= marker'[IssuerJob(i)]
                      \/ \E row \in coverage' :
                            /\ row.job = IssuerJob(i)
                            /\ row.from <= LedgerOf[t] /\ LedgerOf[t] <= row.to
               PROVE  Recorded(IssuerJob(i), t)'
    BY JobFacts DEF DiscoveryKept, Recorded, History, FromLedger, Kind, IssuerJob, HoldersIn
  <2>1. IssuerJob(i) \in Job /\ IssuerJob(i)[1] = i /\ t \in Nat \ {0}
    BY HistoryAssumption, JobFacts DEF HistoryAssumption, History
  <2>2. CASE t <= marker'[IssuerJob(i)]
    <3>1. CASE IssuerJob(i) = j
      <4>1. marker'[j] = IF r.final THEN 0 ELSE r.upto  BY <1>1, <1>3 DEF CommitFacts
      <4>2. t <= r.upto  BY <2>1, <2>2, <3>1, <4>1
      <4> QED  BY <1>6, <3>1, <4>2
    <3>2. CASE IssuerJob(i) # j
      <4>1. marker'[IssuerJob(i)] = marker[IssuerJob(i)]  BY <1>3, <2>1, <3>2 DEF CommitFacts
      <4>2. Recorded(IssuerJob(i), t)
        BY <2>1, <2>2, <4>1 DEF Discovery, DiscoveryKept, Recorded
      <4> QED  BY <1>5, <4>2
    <3> QED  BY <3>1, <3>2
  <2>3. ASSUME NEW row \in coverage', row.job = IssuerJob(i),
               row.from <= LedgerOf[t], LedgerOf[t] <= row.to
        PROVE  Recorded(IssuerJob(i), t)'
    <3>1. CASE row \in coverage
      <4>1. Recorded(IssuerJob(i), t)
        BY <2>1, <2>3, <3>1 DEF Discovery, DiscoveryKept, Recorded
      <4> QED  BY <1>5, <4>1
    <3>2. CASE row \notin coverage
      <4>1. r.final /\ row.job = j /\ row.to = r.hi  BY <1>3, <3>2 DEF CommitFacts
      <4>2. t <= r.upto
        BY <1>1, <2>3, <4>1 DEF IInv, RunnersSafe, PageOK
      <4> QED  BY <1>6, <2>3, <4>1, <4>2
    <3> QED  BY <3>1, <3>2
  <2> QED  BY <2>2, <2>3
<1>8. ASSUME NEW v \in Runners PROVE CursorRecorded(v)'
  <2>1. CASE v # w
    <3>1. run'[v] = run[v]  BY <1>3, <2>1 DEF CommitFacts
    <3> PICK k : k = run[v].job
      OBVIOUS
    <3> QED
      BY <1>5, <3>1 DEF Discovery, CursorRecorded, Recorded, History, FromLedger, Kind,
                        IssuerJob, HoldersIn
  <2>2. CASE v = w
    <3>1. \/ run'[w].pc \notin {"fetch", "commit"}
          \/ run'[w].job = j /\ run'[w].cursor = r.upto
      BY <1>3 DEF CommitFacts
    <3> QED
      BY <1>6, <2>2, <3>1 DEF CursorRecorded, Recorded, History, FromLedger, Kind,
                              IssuerJob, HoldersIn
  <2> QED  BY <2>1, <2>2
<1> QED  BY <1>7, <1>8 DEF Discovery

(***************************************************************************)
(* A holder's page moves no sweep's marker and claims for no sweep.        *)
(***************************************************************************)
LEMMA AccountRecords ==
    ASSUME IInv, Discovery, NEW w \in Runners, CommitAccountPage(w)
    PROVE  Discovery'
<1> DEFINE r == run[w]
           j == run[w].job
<1>1. j \in Job /\ Kind(j) = "account"
  BY DEF CommitAccountPage, IInv, TypeOK, Runner
<1>2. CommitFacts(w) /\ holders' = holders
  BY CommitAccountFacts DEF IInv, CommitAccountPage
<1>3. \A i \in Issuances : /\ IssuerJob(i) \in Job /\ IssuerJob(i) # j
                            /\ marker'[IssuerJob(i)] = marker[IssuerJob(i)]
  BY <1>1, <1>2, JobFacts DEF CommitFacts, Kind
<1>4. \A i \in Issuances : \A row \in coverage' : row.job = IssuerJob(i) => row \in coverage
  BY <1>2, <1>3 DEF CommitFacts
<1>5. DiscoveryKept'
  BY <1>2, <1>3, <1>4 DEF Discovery, DiscoveryKept, History, FromLedger, Kind, IssuerJob, HoldersIn
<1>6. ASSUME NEW v \in Runners PROVE CursorRecorded(v)'
  <2>1. CASE v # w
    <3>1. run'[v] = run[v]  BY <1>2, <2>1 DEF CommitFacts
    <3> QED
      BY <1>2, <3>1 DEF Discovery, CursorRecorded, Recorded, History, FromLedger, Kind,
                        IssuerJob, HoldersIn
  <2>2. CASE v = w
    <3>1. run'[w].pc \notin {"fetch", "commit"} \/ run'[w].job = j
      BY <1>2 DEF CommitFacts
    <3> QED  BY <1>1, <2>2, <3>1 DEF CursorRecorded, Kind, IssuerJob
  <2> QED  BY <2>1, <2>2
<1> QED  BY <1>5, <1>6 DEF Discovery

(***************************************************************************)
(* Every step keeps it.                                                    *)
(***************************************************************************)
LEMMA NextDiscovery ==
    ASSUME IInv, Discovery, [Next]_vars
    PROVE  Discovery'
<1> USE DEF IInv
<1>1. run \in [Runners -> Runner]  BY DEF TypeOK
<1>2. ASSUME NEW w \in Runners, Work(w) \/ Fail(w) PROVE Discovery'
  <2> DEFINE j == run[w].job
  <2>1. CASE CommitSweepPage(w)  BY <2>1, SweepRecords
  <2>2. CASE CommitAccountPage(w)  BY <2>2, AccountRecords
  <2>3. CASE Fetch(w)
    <3>1. \A v \in Runners : Trails(v)
      BY <2>3, FetchFacts DEF Trails, Fetch
    <3> QED
      BY <2>3, <3>1, TrailingStep DEF Fetch, tableVars, archiveVars, jobVars
  <2>4. CASE Reclaim(w)
    <3>1. \A v \in Runners : Trails(v)
      BY <2>4, ReclaimFacts DEF Trails
    <3> QED
      BY <2>4, <3>1, TrailingStep DEF Reclaim, tableVars, archiveVars
  <2>5. CASE EnqueueHolder(w) \/ Load(w) \/ Claim(w) \/ StopAtPage(w) \/ Fail(w)
    <3>1. j \in Job /\ \A k \in Job : marker[k] \in Nat /\ FromLedger(k) \in Nat
      BY <1>1, JobFacts DEF Runner, TypeOK, JobTypeOK
    <3>2. \/ Finish(w) \/ Goto(w, "reclaim") \/ Goto(w, "claim")
          \/ \E k \in Job : StartPaging(w, k)
      BY <2>5, <3>1 DEF EnqueueHolder, Load, Claim, Claimable, StopAtPage, Fail, FailJob
    <3>3. "reclaim" \in PC /\ "claim" \in PC  BY DEF PC
    <3>4. ASSUME Finish(w) PROVE \A v \in Runners : Trails(v)
      BY <1>1, <3>4, FinishType DEF Trails
    <3>5. ASSUME Goto(w, "reclaim") \/ Goto(w, "claim") PROVE \A v \in Runners : Trails(v)
      BY <1>1, <3>3, <3>5, GotoType DEF Trails
    <3>6. ASSUME NEW k \in Job, StartPaging(w, k) PROVE \A v \in Runners : Trails(v)
      BY <1>1, <3>1, <3>6, PagingType DEF Trails, StartPaging
    <3>7. UNCHANGED <<holders, coverage, marker>>
      BY <2>5, EnqueueType, <3>1 DEF EnqueueHolder, Enqueue, Load, Claim, StopAtPage, Fail, FailJob,
             tableVars, archiveVars, jobVars
    <3>8. \A v \in Runners : Trails(v)
      BY <3>2, <3>4, <3>5, <3>6
    <3> QED  BY <3>7, <3>8, TrailingStep
  <2> QED  BY <1>2, <2>1, <2>2, <2>3, <2>4, <2>5 DEF Work
<1>3. ASSUME NEW w \in Runners, NEW i \in Issuances, NEW h \in Accounts,
             \/ IngestIssuance(w, i) \/ TrackNewHolder(w, i, h)
             \/ ResumeSweep(w, i) \/ ResumeHolders(w, i)
      PROVE  Discovery'
  <2>1. \A v \in Runners : run'[v] = run[v] \/ run'[v].pc \in {"reclaim", "enqueue"}
    BY <1>1, <1>3 DEF IngestIssuance, TrackNewHolder, ResumeSweep, ResumeHolders,
                      Become, At, Holding
  <2>2. \A v \in Runners : Trails(v)
    BY <2>1 DEF Trails
  <2>3. UNCHANGED <<coverage, marker>> /\ holders \subseteq holders'
    BY <1>3 DEF IngestIssuance, Enqueue, TrackNewHolder, ResumeSweep, ResumeHolders,
                tableVars, archiveVars, jobVars
  <2> QED  BY <2>2, <2>3, TrailingStep
<1>4. CASE \/ Crash \/ RefreshTracked \/ SeedInScope \/ CloseLedger
           \/ \E i \in Issuances : BeforeDelete(i) \/ DeleteAborted(i)
  <2>1. UNCHANGED <<holders, coverage, marker>>
    BY <1>4 DEF Crash, RefreshTracked, SeedInScope, CloseLedger, BeforeDelete, DeleteAborted,
                tableVars, archiveVars, jobVars
  <2>2. run' = run \/ \A w \in Runners : run'[w].pc = "idle"
    BY <1>4, IdleType DEF Crash, RefreshTracked, SeedInScope, CloseLedger, BeforeDelete,
                          DeleteAborted
  <2>3. \A w \in Runners : Trails(w)
    BY <2>2 DEF Trails
  <2> QED  BY <2>1, <2>3, TrailingStep
<1>5. CASE UNCHANGED vars
  BY <1>5, TrailingStep DEF vars, tableVars, archiveVars, jobVars, Trails
<1>6. Issuances # {} => Accounts # {}
  BY HistoryAssumption DEF HistoryAssumption
<1> QED  BY <1>2, <1>3, <1>4, <1>5, <1>6 DEF Next

(***************************************************************************)
(* Whoever is named up to a sweep's marker or in a range it claimed is in  *)
(* account_issuance (issuerSweep.ts runIssuerBackfill, claimCoverage),     *)
(* whatever was resumed, stopped or swept twice.                           *)
(***************************************************************************)
THEOREM HoldersAreKept == Spec => []DiscoveryKept
<1>1. Init => Discovery
  <2> SUFFICES ASSUME Init PROVE Discovery
    OBVIOUS
  <2>1. \A w \in Runners : CursorRecorded(w)
    BY IdleType DEF Init, CursorRecorded
  <2>2. ASSUME NEW i \in Issuances, NEW t \in History(IssuerJob(i))
        PROVE  ~(t <= marker[IssuerJob(i)]) /\ coverage = {}
    <3>1. t \in Nat \ {0} /\ IssuerJob(i) \in Job
      BY HistoryAssumption, JobFacts DEF HistoryAssumption, History
    <3> QED  BY <3>1 DEF Init
  <2> QED  BY <2>1, <2>2 DEF Discovery, DiscoveryKept
<1>2. IInv /\ Discovery /\ [Next]_vars => Discovery'
  BY NextDiscovery
<1>3. Discovery => DiscoveryKept
  BY DEF Discovery
<1> QED  BY <1>1, <1>2, <1>3, Invariance, PTL DEF Spec
=============================================================================
