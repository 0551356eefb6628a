------------------------------ MODULE Backfill ------------------------------
(***************************************************************************)
(* Backfill: the issuer sweep (src/backfill/issuerSweep.ts, started by     *)
(* src/admin/orchestrator.ts), the per-holder jobs (src/backfill/worker.ts) *)
(* the live tail enqueues for a new holder, their job table                *)
(* (src/db/repositories/backfillJobs.ts), the resume pass of a restart and  *)
(* the cooperative stop of a delete (src/server.ts).                       *)
(*                                                                         *)
(* A runner is one asynchronous execution of a sweep or of a claim loop.   *)
(* Each action is what happens between two awaits: every database          *)
(* statement or transaction is one, every upstream request is one.         *)
(***************************************************************************)
EXTENDS Archive, FiniteSets

CONSTANTS
    Runners,       \* bound: concurrent sweeps and claim loops of the process
    Concurrency,   \* BackfillWorkerOptions.concurrency
    BackfillFrom,  \* issuances.backfill_from_ledger of each issuance
    StartTip,      \* the validated ledger when the model starts
    LastLedger,    \* bound: the last ledger that closes
    MaxFaults      \* bound: failed requests or transactions, crashes, deletes begun

(***************************************************************************)
(* An issuance is registered with a start ledger that has already closed.  *)
(***************************************************************************)
ASSUME BackfillAssumption ==
    /\ Issuances # {}
    /\ BackfillFrom \in [Issuances -> Nat]
    /\ StartTip \in Nat /\ LastLedger \in Nat
    /\ \A i \in Issuances : BackfillFrom[i] <= StartTip
    /\ Concurrency \in Nat \ {0}
    /\ MaxFaults \in Nat

(***************************************************************************)
(* A job is named by its unique key (issuance, address).  Its kind is      *)
(* 'issuer' for the issuance's issuer and 'account' for a holder.          *)
(***************************************************************************)
Job == Issuances \X Accounts
IssuerJob(i) == <<i, IssuerOf[i]>>
Kind(j) == IF j = IssuerJob(j[1]) THEN "issuer" ELSE "account"
FromLedger(j) == IF Kind(j) = "issuer" THEN BackfillFrom[j[1]] ELSE 0

VARIABLES
    \* the tables of holders and of jobs
    holders,    \* account_issuance: <<issuance, holder>>
    firstSeen,  \* per issuance, min(first_acquisition_ledger); 0 for NULL
    status,     \* "none" where there is no row
    marker,     \* last_marker: the last transaction persisted, 0 for NULL
    jobId,      \* id, the order in which jobs were enqueued
    nextId,
    \* the process
    run,        \* the state of each runner
    tracked,    \* server.ts `tracked`
    deleting,   \* server.ts `deleting`
    known,      \* server.ts `inScope`: holders the tail need not discover
    resume,     \* how far resumeBackfills has come with each issuance
    \* the environment
    tip,        \* the last validated ledger upstream
    faults,     \* faults so far
    aborted     \* issuances a delete of which has ever been aborted

tableVars == <<archiveVars, holders, firstSeen>>
jobVars == <<status, marker, jobId, nextId>>
serverVars == <<tracked, deleting, known, resume>>
envVars == <<tip, faults, aborted>>
vars == <<tableVars, jobVars, run, serverVars, envVars>>

Outstanding == {"pending", "running", "failed"}

(***************************************************************************)
(* What a runner holds at a step `label` of job j: its cursor, its         *)
(* high-water mark and the page in hand; `boot` marks the resume pass.     *)
(***************************************************************************)
Holding(label, j, boot, cursor, hi, kept, upto, final) ==
    [pc |-> label, job |-> j, boot |-> boot, cursor |-> cursor, hi |-> hi,
     kept |-> kept, upto |-> upto, final |-> final]

At(label, j, boot) == Holding(label, j, boot, 0, 0, {}, 0, FALSE)
Paging(j, boot, cursor, hi) == Holding("fetch", j, boot, cursor, hi, {}, 0, FALSE)

IdleRunner == At("idle", CHOOSE j \in Job : TRUE, FALSE)
IsIdle(w) == run[w].pc = "idle"
Become(w, r) == run' = [run EXCEPT ![w] = r]
Goto(w, label) == Become(w, At(label, run[w].job, FALSE))
Finish(w) == Become(w, IdleRunner)

(***************************************************************************)
(* Run job j on runner w, from the snapshot of its row just read: paging   *)
(* starts at its marker, the high-water mark at its first ledger.          *)
(***************************************************************************)
StartPaging(w, j) == Become(w, Paging(j, run[w].boot, marker[j], FromLedger(j)))

(***************************************************************************)
(* A page asked for again: the cursor never moves.                         *)
(***************************************************************************)
NextPageSameCursor(w) == Become(w, Paging(run[w].job, run[w].boot, run[w].cursor, run[w].hi))

(***************************************************************************)
(* After a page that was not the last, ask for the next.                   *)
(***************************************************************************)
NextPage(w) == Become(w, Paging(run[w].job, run[w].boot, run[w].upto, run[w].hi))

Init ==
    /\ txRows = {} /\ links = {} /\ deltas = {} /\ coverage = {}
    /\ holders = {} /\ firstSeen = [i \in Issuances |-> 0]
    /\ status = [j \in Job |-> "none"]
    /\ marker = [j \in Job |-> 0]
    /\ jobId = [j \in Job |-> 0]
    /\ nextId = 1
    /\ run = [w \in Runners |-> IdleRunner]
    /\ tracked = {} /\ deleting = {} /\ known = {}
    /\ resume = [i \in Issuances |-> "done"]
    /\ tip = StartTip /\ faults = 0 /\ aborted = {}

-----------------------------------------------------------------------------
(***************************************************************************)
(* Starting work.                                                          *)
(***************************************************************************)

(***************************************************************************)
(* INSERT ... ON CONFLICT (address, issuance_id) DO NOTHING.               *)
(***************************************************************************)
Enqueue(j) ==
    IF status[j] = "none"
    THEN /\ status' = [status EXCEPT ![j] = "pending"]
         /\ jobId' = [jobId EXCEPT ![j] = nextId]
         /\ nextId' = nextId + 1
         /\ UNCHANGED marker
    ELSE UNCHANGED jobVars

(***************************************************************************)
(* ingestIssuance, on registration and at each hourly re-discovery:        *)
(* enqueue the issuer's job, then reclaim, then load it.                   *)
(***************************************************************************)
IngestIssuance(w, i) ==
    /\ IsIdle(w)
    /\ i \notin deleting
    /\ Enqueue(IssuerJob(i))
    /\ Become(w, At("reclaim", IssuerJob(i), FALSE))
    /\ UNCHANGED <<archiveVars, holders, firstSeen, serverVars, envVars>>

(***************************************************************************)
(* trackNewHolder, recordDiscovered part: the tail or a heal has stored a  *)
(* transaction naming a holder of a tracked issuance that it does not know *)
(* of.  LiveTail.tla is about what it stored.                              *)
(***************************************************************************)
TrackNewHolder(w, i, h) ==
    /\ IsIdle(w)
    /\ i \in tracked
    /\ <<i, h>> \notin known
    /\ \A v \in Runners : run[v].pc = "enqueue" => run[v].job # <<i, h>>
    /\ \E t \in Tx : LedgerOf[t] <= tip /\ h \in HoldersIn(t, i)
    /\ holders' = holders \cup {<<i, h>>}
    /\ known' = known \cup {<<i, h>>}
    /\ Become(w, At("enqueue", <<i, h>>, FALSE))
    /\ UNCHANGED <<txRows, links, deltas, coverage, firstSeen, jobVars,
                   tracked, deleting, resume, envVars>>

(***************************************************************************)
(* ... and its worker.enqueue, after which it calls runIssuance.           *)
(***************************************************************************)
EnqueueHolder(w) ==
    /\ run[w].pc = "enqueue"
    /\ Enqueue(run[w].job)
    /\ Goto(w, "reclaim")
    /\ UNCHANGED <<tableVars, serverVars, envVars>>

(***************************************************************************)
(* reclaimStale: every running or failed job of the issuance is pending    *)
(* again.  An ingest goes on to load its job; runIssuance starts up to     *)
(* Concurrency claim loops.                                                *)
(***************************************************************************)
Reclaim(w) ==
    LET i == run[w].job[1] IN
    /\ run[w].pc = "reclaim"
    /\ status' = [j \in Job |->
                     IF j[1] = i /\ status[j] \in {"running", "failed"}
                     THEN "pending" ELSE status[j]]
    /\ \/ /\ Kind(run[w].job) = "issuer"
          /\ Become(w, At("load", run[w].job, run[w].boot))
       \/ /\ Kind(run[w].job) = "account"
          /\ \E F \in SUBSET {v \in Runners : IsIdle(v)} :
                /\ Cardinality(F) < Concurrency
                /\ run' = [v \in Runners |->
                             IF v \in F \cup {w} THEN At("claim", run[w].job, FALSE) ELSE run[v]]
    /\ UNCHANGED <<tableVars, marker, jobId, nextId, serverVars, envVars>>

(***************************************************************************)
(* getByAccount: an ingest does not run a completed sweep again; any other *)
(* is run whatever its status, without a claim, and the resume pass, which *)
(* looked at the status before it reclaimed, does not look again.          *)
(***************************************************************************)
Load(w) ==
    /\ run[w].pc = "load"
    /\ IF status[run[w].job] = "completed" /\ ~run[w].boot
       THEN Finish(w) ELSE StartPaging(w, run[w].job)
    /\ UNCHANGED <<tableVars, jobVars, serverVars, envVars>>

(***************************************************************************)
(* The claim loop of runIssuance: stop if the issuance is being deleted,   *)
(* else take its oldest pending holder job.                                *)
(***************************************************************************)
Claimable(i) == {j \in Job : j[1] = i /\ Kind(j) = "account" /\ status[j] = "pending"}

Claim(w) ==
    LET i == run[w].job[1] IN
    /\ run[w].pc = "claim"
    /\ IF i \in deleting \/ Claimable(i) = {}
       THEN Finish(w) /\ UNCHANGED status
       ELSE \E j \in Claimable(i) :
               /\ \A k \in Claimable(i) : jobId[j] <= jobId[k]
               /\ status' = [status EXCEPT ![j] = "running"]
               /\ StartPaging(w, j)
    /\ UNCHANGED <<tableVars, marker, jobId, nextId, serverVars, envVars>>

-----------------------------------------------------------------------------
(***************************************************************************)
(* Paging.                                                                 *)
(***************************************************************************)

(***************************************************************************)
(* A sweep filtering, like a holder job, by what is tracked now.           *)
(***************************************************************************)
ScopeTracked(j) == tracked

(***************************************************************************)
(* The entries of a page the job ingests: the sweep keeps what names a     *)
(* holder of its issuance, a holder job what names a holder of an issuance *)
(* tracked now.                                                            *)
(***************************************************************************)
Scope(j) == IF Kind(j) = "issuer" THEN {j[1]} ELSE tracked

(***************************************************************************)
(* One page of account_tx arrives and is filtered.  The last page carries  *)
(* no marker; a page that carries one is not empty.  The high-water mark   *)
(* is raised by what the sweep keeps, but by all a holder's page lists.    *)
(***************************************************************************)
Fetch(w) ==
    LET j == run[w].job
        rest == AccountTx(j[2], FromLedger(j), tip, run[w].cursor)
    IN
    /\ run[w].pc = "fetch"
    /\ \E upto \in rest \cup {run[w].cursor} :
       \E final \in BOOLEAN :
          LET page == {t \in rest : t <= upto}
              kept == {t \in page : InScope(t, Scope(j))}
              seen == {LedgerOf[t] : t \in IF Kind(j) = "issuer" THEN kept ELSE page}
          IN
          /\ IF final THEN page = rest ELSE page # {}
          /\ \E hi \in seen \cup {run[w].hi} :
                /\ \A l \in seen \cup {run[w].hi} : l <= hi
                /\ Become(w, Holding("commit", j, run[w].boot, run[w].cursor, hi,
                                     kept, upto, final))
    /\ UNCHANGED <<tableVars, jobVars, serverVars, envVars>>

(***************************************************************************)
(* A completed job left in a status the table does not know.               *)
(***************************************************************************)
CheckpointMisspelt(j, upto, final) ==
    /\ marker' = [marker EXCEPT ![j] = IF final THEN 0 ELSE upto]
    /\ status' = [status EXCEPT ![j] = IF final THEN "complete" ELSE "running"]
    /\ UNCHANGED <<jobId, nextId>>

(***************************************************************************)
(* checkpointJob, and completeJob on the last page.                        *)
(***************************************************************************)
Checkpoint(j, upto, final) ==
    /\ marker' = [marker EXCEPT ![j] = IF final THEN 0 ELSE upto]
    /\ status' = [status EXCEPT ![j] = IF final THEN "completed" ELSE "running"]
    /\ UNCHANGED <<jobId, nextId>>

Row(address, from, to, j) == [address |-> address, from |-> from, to |-> to, job |-> j]
SmallerOf(a, b) == IF a <= b THEN a ELSE b
LargerOf(a, b) == IF a <= b THEN b ELSE a

(***************************************************************************)
(* claimCoverage: from the first ledger the archive holds for the issuance *)
(* (0: none) to the high-water mark, for each holder and the issuer.       *)
(***************************************************************************)
SweepFloor(i, first, hi) ==
    SmallerOf(hi, IF first = 0 THEN BackfillFrom[i] ELSE LargerOf(BackfillFrom[i], first))

SweepRows(j, members, first, hi) ==
    {Row(a, SweepFloor(j[1], first, hi), hi, j) :
        a \in {h \in Accounts : <<j[1], h>> \in members} \cup {j[2]}}

(***************************************************************************)
(* LEAST over the ledgers of the page and what is recorded; NULL is        *)
(* ignored.                                                                *)
(***************************************************************************)
IsLeastSeen(first, i, kept) ==
    LET seen == {LedgerOf[t] : t \in kept} \cup ({firstSeen[i]} \ {0}) IN
    IF seen = {} THEN first = 0 ELSE first \in seen /\ \A l \in seen : first <= l

(***************************************************************************)
(* The account_issuance rows a page records (recordHolder for each holder  *)
(* its metadata names).                                                    *)
(***************************************************************************)
Discovered(i, page) == UNION {{i} \X HoldersIn(t, i) : t \in page}

(***************************************************************************)
(* The sweep's page transaction: rows, deltas of its one issuance, the     *)
(* holders it names, the checkpoint, and on the last page the coverage.    *)
(***************************************************************************)
CommitSweepPage(w) ==
    LET r == run[w]  j == r.job  i == r.job[1] IN
    /\ r.pc = "commit"
    /\ Kind(j) = "issuer"
    /\ i \notin deleting
    /\ txRows' = txRows \cup r.kept
    /\ links' = links \cup SweepLinks(r.kept, {i}, j[2])
    /\ deltas' = deltas \cup DeltaRows(r.kept, {i})
    /\ holders' = holders \cup Discovered(i, r.kept)
    /\ \E first \in 0 .. LastLedger :
          /\ IsLeastSeen(first, i, r.kept)
          /\ firstSeen' = [firstSeen EXCEPT ![i] = first]
          /\ coverage' = IF r.final THEN coverage \cup SweepRows(j, holders', first, r.hi)
                                    ELSE coverage
    /\ Checkpoint(j, r.upto, r.final)
    /\ IF r.final THEN Finish(w)
                  ELSE NextPage(w)
    /\ UNCHANGED <<nextId, serverVars, envVars>>

(***************************************************************************)
(* The page transaction of a holder's job: rows linked to that holder      *)
(* only, deltas of every issuance tracked now, the checkpoint, and on the  *)
(* last page the coverage of the holder.                                   *)
(***************************************************************************)
CommitAccountPage(w) ==
    LET r == run[w]  j == r.job IN
    /\ r.pc = "commit"
    /\ Kind(j) = "account"
    /\ j[1] \notin deleting
    /\ txRows' = txRows \cup r.kept
    /\ links' = links \cup AccountLinks(r.kept, j[2])
    /\ deltas' = deltas \cup DeltaRows(r.kept, tracked)
    /\ coverage' = IF r.final THEN coverage \cup {Row(j[2], FromLedger(j), r.hi, j)}
                              ELSE coverage
    /\ Checkpoint(j, r.upto, r.final)
    /\ IF r.final THEN Goto(w, "claim")
                  ELSE NextPage(w)
    /\ UNCHANGED <<holders, firstSeen, nextId, serverVars, envVars>>

(***************************************************************************)
(* The stop checked only once the page's checkpoint is written.            *)
(***************************************************************************)
StopAfterCheckpoint(w) ==
    /\ run[w].pc = "commit"
    /\ run[w].job[1] \in deleting
    /\ Checkpoint(run[w].job, run[w].upto, run[w].final)
    /\ IF Kind(run[w].job) = "issuer" THEN Finish(w) ELSE Goto(w, "claim")
    /\ UNCHANGED <<tableVars, serverVars, envVars>>

(***************************************************************************)
(* A page transaction finds its issuance being deleted and writes nothing: *)
(* the sweep ends, a claim loop goes on to its next check, and the job     *)
(* stays as it is.                                                         *)
(***************************************************************************)
StopAtPage(w) ==
    /\ run[w].pc = "commit"
    /\ run[w].job[1] \in deleting
    /\ IF Kind(run[w].job) = "issuer" THEN Finish(w) ELSE Goto(w, "claim")
    /\ UNCHANGED <<tableVars, jobVars, serverVars, envVars>>

(***************************************************************************)
(* The job is marked failed whatever its row says.  A sweep ends with the  *)
(* error, and with it the resume pass that ran it; a claim loop isolates   *)
(* the failure and goes on.                                                *)
(***************************************************************************)
FailJob(w) ==
    LET j == run[w].job IN
    /\ status' = [status EXCEPT ![j] = "failed"]
    /\ IF Kind(j) = "issuer" THEN Finish(w) ELSE Goto(w, "claim")
    /\ resume' = IF run[w].boot THEN [i \in Issuances |-> "done"] ELSE resume
    /\ UNCHANGED <<tableVars, marker, jobId, nextId, tracked, deleting, known, tip, aborted>>

(***************************************************************************)
(* A request that has used up its retries, or a page transaction that      *)
(* rolls back.                                                             *)
(***************************************************************************)
Fail(w) ==
    /\ run[w].pc \in {"fetch", "commit"}
    /\ faults < MaxFaults
    /\ faults' = faults + 1
    /\ FailJob(w)

-----------------------------------------------------------------------------
(***************************************************************************)
(* Restart.                                                                *)
(***************************************************************************)

(***************************************************************************)
(* A restart that resumes jobs before `tracked` is loaded.                 *)
(***************************************************************************)
CrashUntracked ==
    /\ faults < MaxFaults
    /\ faults' = faults + 1
    /\ run' = [w \in Runners |-> IdleRunner]
    /\ tracked' = {} /\ deleting' = {} /\ known' = holders
    /\ resume' = [i \in Issuances |-> "sweep"]
    /\ UNCHANGED <<tableVars, jobVars, tip, aborted>>

(***************************************************************************)
(* The process dies between any two steps and starts again: the database   *)
(* stays, what was in memory is rebuilt from it.                           *)
(***************************************************************************)
Crash ==
    /\ faults < MaxFaults
    /\ faults' = faults + 1
    /\ run' = [w \in Runners |-> IdleRunner]
    /\ tracked' = Issuances
    /\ deleting' = {}
    /\ known' = holders
    /\ resume' = [i \in Issuances |-> "sweep"]
    /\ UNCHANGED <<tableVars, jobVars, tip, aborted>>

(***************************************************************************)
(* resumeBackfills, one issuance after the other: its sweep unless it is   *)
(* completed ...                                                           *)
(***************************************************************************)
ResumeSweep(w, i) ==
    LET j == IssuerJob(i) IN
    /\ IsIdle(w)
    /\ resume[i] = "sweep"
    /\ \A v \in Runners : ~run[v].boot
    /\ IF i \in deleting
       THEN resume' = [resume EXCEPT ![i] = "done"] /\ UNCHANGED run
       ELSE /\ resume' = [resume EXCEPT ![i] = "holders"]
            /\ IF status[j] \in Outstanding
               THEN Become(w, At("reclaim", j, TRUE))
               ELSE UNCHANGED run
    /\ UNCHANGED <<tableVars, jobVars, tracked, deleting, known, envVars>>

(***************************************************************************)
(* ... then, if it has holder jobs outstanding, runIssuance over them.     *)
(***************************************************************************)
ResumeHolders(w, i) ==
    LET outstanding == {j \in Job : /\ j[1] = i /\ Kind(j) = "account"
                                    /\ status[j] \in Outstanding}
    IN
    /\ IsIdle(w)
    /\ resume[i] = "holders"
    /\ \A v \in Runners : ~run[v].boot
    /\ resume' = [resume EXCEPT ![i] = "done"]
    /\ IF outstanding = {} THEN UNCHANGED run
       ELSE \E j \in outstanding : Become(w, At("reclaim", j, FALSE))
    /\ UNCHANGED <<tableVars, jobVars, tracked, deleting, known, envVars>>

-----------------------------------------------------------------------------
(***************************************************************************)
(* What the rest of the server does to the state a backfill reads.         *)
(***************************************************************************)

(* refreshTracked, after a registration's sweep, a re-discovery, a delete.  *)
RefreshTracked ==
    /\ tracked' = Issuances \ deleting
    /\ UNCHANGED <<tableVars, jobVars, run, deleting, known, resume, envVars>>

(* seedInScope: the known holders are those of account_issuance.            *)
SeedInScope ==
    /\ known' = holders
    /\ UNCHANGED <<tableVars, jobVars, run, tracked, deleting, resume, envVars>>

(* onBeforeDelete: from now on every page transaction of i stops.           *)
BeforeDelete(i) ==
    /\ i \notin deleting
    /\ faults < MaxFaults
    /\ faults' = faults + 1
    /\ deleting' = deleting \cup {i}
    /\ tracked' = tracked \ {i}
    /\ UNCHANGED <<tableVars, jobVars, run, known, resume, tip, aborted>>

(* onDeleteAborted: the purge failed; the refresh it starts comes later.    *)
DeleteAborted(i) ==
    /\ i \in deleting
    /\ deleting' = deleting \ {i}
    /\ aborted' = aborted \cup {i}
    /\ UNCHANGED <<tableVars, jobVars, run, tracked, known, resume, tip, faults>>

(* A ledger is validated upstream.                                          *)
CloseLedger ==
    /\ tip < LastLedger
    /\ tip' = tip + 1
    /\ UNCHANGED <<tableVars, jobVars, run, serverVars, faults, aborted>>

-----------------------------------------------------------------------------
Work(w) ==
    \/ EnqueueHolder(w) \/ Reclaim(w) \/ Load(w) \/ Claim(w) \/ Fetch(w)
    \/ CommitSweepPage(w) \/ CommitAccountPage(w) \/ StopAtPage(w)

Next ==
    \/ \E w \in Runners : Work(w) \/ Fail(w)
    \/ \E w \in Runners, i \in Issuances :
          \/ IngestIssuance(w, i) \/ ResumeSweep(w, i) \/ ResumeHolders(w, i)
          \/ \E h \in Accounts : TrackNewHolder(w, i, h)
    \/ \E i \in Issuances : BeforeDelete(i) \/ DeleteAborted(i)
    \/ Crash \/ RefreshTracked \/ SeedInScope \/ CloseLedger

Spec == Init /\ [][Next]_vars

(***************************************************************************)
(* A started step goes on: requests and statements return, or fail.  The   *)
(* hourly re-discovery comes round for each issuance; a restart runs its   *)
(* resume pass.  Nothing makes the tail meet a holder.                     *)
(***************************************************************************)
Fairness ==
    /\ \A w \in Runners : WF_vars(Work(w))
    /\ \A i \in Issuances :
          /\ WF_vars(\E w \in Runners : IngestIssuance(w, i))
          /\ WF_vars(\E w \in Runners : ResumeSweep(w, i))
          /\ WF_vars(\E w \in Runners : ResumeHolders(w, i))

LiveSpec == Spec /\ Fairness

-----------------------------------------------------------------------------
(***************************************************************************)
(* Properties.                                                             *)
(***************************************************************************)
Runner == [pc : {"idle", "enqueue", "reclaim", "load", "claim", "fetch", "commit"},
           job : Job, cursor : Nat, hi : Nat, kept : SUBSET Tx, upto : Nat,
           final : BOOLEAN, boot : BOOLEAN]

TableTypeOK ==
    /\ ArchiveTypeOK
    /\ holders \subseteq Issuances \X Accounts
    /\ firstSeen \in [Issuances -> Nat]

JobTypeOK ==
    /\ status \in [Job -> {"none", "pending", "running", "failed", "completed"}]
    /\ marker \in [Job -> Nat]
    /\ jobId \in [Job -> Nat]
    /\ nextId \in Nat

ServerTypeOK ==
    /\ tracked \subseteq Issuances
    /\ deleting \subseteq Issuances
    /\ known \subseteq Job
    /\ resume \in [Issuances -> {"done", "sweep", "holders"}]

EnvTypeOK ==
    /\ tip \in Nat
    /\ StartTip <= tip
    /\ faults \in 0 .. MaxFaults
    /\ aborted \subseteq Issuances

(***************************************************************************)
(* The tables, the runners and the server's sets have their types.         *)
(***************************************************************************)
TypeOK ==
    /\ TableTypeOK /\ JobTypeOK /\ ServerTypeOK /\ EnvTypeOK
    /\ run \in [Runners -> Runner]

(***************************************************************************)
(* The part of job j's history up to transaction t that j has to persist   *)
(* is persisted: each balance of its issuance named there is held for the  *)
(* issuer and the holder (a sweep) or for the holder (a holder job).       *)
(***************************************************************************)
Persisted(j, t) ==
    \A h \in HoldersIn(t, j[1]) :
        IF Kind(j) = "issuer" THEN Held(t, j[1], h, h) /\ Held(t, j[1], h, j[2])
        ELSE h = j[2] => Held(t, j[1], h, h)

History(j) == {t \in IndexOf[j[2]] : FromLedger(j) <= LedgerOf[t]}

(***************************************************************************)
(* A resume marker never runs ahead of what was persisted: whatever the    *)
(* crashes, failures and runners sharing a job, resuming from the marker   *)
(* leaves no gap (worker.ts 55-62).  Holder jobs lose this once a delete   *)
(* is aborted: see HolderCoverageSound.                                    *)
(***************************************************************************)
MarkerSafe ==
    \A j \in Job : (Kind(j) = "issuer" \/ j[1] \notin aborted) =>
        \A t \in History(j) : t <= marker[j] => Persisted(j, t)

(***************************************************************************)
(* A claim of a completed sweep is complete, whatever raced with it:       *)
(* another sweep of the same job, holder jobs, crashes, deletes begun and  *)
(* aborted (issuerSweep.ts 112-116, 235-245).                              *)
(***************************************************************************)
SweepCoverageSound ==
    \A row \in coverage : Kind(row.job) = "issuer" => Honours(row)

(***************************************************************************)
(* A claim of a holder's job is complete unless a delete was aborted:      *)
(* the page filter and the derivation read the live `tracked`, which loses *)
(* an issuance only under the stop flag (worker.ts 114-155).               *)
(***************************************************************************)
HolderCoverageSound ==
    \A row \in coverage :
        Kind(row.job) = "account" /\ row.job[1] \notin aborted => Honours(row)

(***************************************************************************)
(* A resume never loses a holder: whoever is named up to the sweep's       *)
(* marker, or in a range it claimed, is in account_issuance                *)
(* (issuerSweep.ts 175-180).                                               *)
(***************************************************************************)
DiscoveryKept ==
    \A i \in Issuances : \A t \in History(IssuerJob(i)) :
        \/ t <= marker[IssuerJob(i)]
        \/ \E row \in coverage : /\ row.job = IssuerJob(i)
                                 /\ row.from <= LedgerOf[t] /\ LedgerOf[t] <= row.to
        => {i} \X HoldersIn(t, i) \subseteq holders

(***************************************************************************)
(* Every sweep ever enqueued completes, whatever failed or crashed on the  *)
(* way, unless its issuance is being deleted (server.ts 339-342, 397-400). *)
(***************************************************************************)
SweepCompletes ==
    \A i \in Issuances :
        status[IssuerJob(i)] # "none" ~>
            status[IssuerJob(i)] = "completed" \/ i \in deleting

(***************************************************************************)
(* issuerSweep.ts 242-243: the lower bound of a sweep's claim is where the *)
(* archive begins, so "every stored row stays inside the claimed range".   *)
(* In the step that completes a sweep, the rows linked to its issuer lie   *)
(* in a range claimed for it.                                              *)
(***************************************************************************)
StoredInsideClaim ==
    \A i \in Issuances : status[IssuerJob(i)] = "completed" =>
        \A t \in Tx : <<t, IssuerOf[i]>> \in links /\ HoldersIn(t, i) # {} =>
            \E row \in coverage : /\ row.address = IssuerOf[i] /\ row.job = IssuerJob(i)
                                  /\ row.from <= LedgerOf[t] /\ LedgerOf[t] <= row.to
=============================================================================
