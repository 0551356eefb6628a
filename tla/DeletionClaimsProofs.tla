------------------------ MODULE DeletionClaimsProofs ------------------------
(***************************************************************************)
(* CoverageHonoured of Deletion: what is claimed of an issuance that stays *)
(* is still held, whichever deletes, restarts and failed purges interleave *)
(* with the writers.  For any history, issuances, accounts and bounds.     *)
(***************************************************************************)
EXTENDS DeletionProofs

-----------------------------------------------------------------------------
(***************************************************************************)
(* The inductive invariant.                                                *)
(***************************************************************************)

(***************************************************************************)
(* An issuance is registered once: what waits to be is neither registered  *)
(* nor deleted, and the target of a delete has its row until it is purged. *)
(***************************************************************************)
Once ==
    /\ posts \cap (rows \cup deleted) = {}
    /\ delete.pc \in {"drain", "purge"} => delete.target \subseteq rows

(***************************************************************************)
(* The jobs with a run, a row or a claim, and the issuances of which a     *)
(* holder was met.                                                         *)
(***************************************************************************)
Running == {j \in Job : run[j] # Idle}
Claimed == {row.job : row \in coverage}
Enqueued == {j \in Job : status[j] # "none"}
HolderJobs(S) == {j \in S : Kind(j) = "account"}

(***************************************************************************)
(* They are of issuances registered once, and a holder's is in scope while *)
(* its issuance is there.                                                  *)
(***************************************************************************)
Registered == \A j \in Running \cup Claimed \cup newHolders : j[1] \in rows \cup deleted
Recorded ==
    \A j \in HolderJobs(Running \cup Claimed \cup Enqueued) : j[1] \in rows => j \in scope

(***************************************************************************)
(* A holder is met for what is tracked, and nothing but a delete untracks. *)
(***************************************************************************)
MetTracked ==
    \A j \in newHolders \cup HolderJobs(Running \cup Enqueued) :
        j[1] \in rows \ aborted => j[1] \in tracked \cup deleting

(***************************************************************************)
(* The archive holds what job j stores of transaction t: for a sweep every *)
(* holder and the issuer, for a holder's job that holder.                  *)
(***************************************************************************)
Stored(j, t) ==
    \A h \in HoldersIn(t, j[1]) :
        IF Kind(j) = "issuer"
        THEN <<j[1], h>> \in scope /\ Held(t, j[1], h, h) /\ Held(t, j[1], h, IssuerOf[j[1]])
        ELSE h = j[2] => Held(t, j[1], h, h)

(***************************************************************************)
(* The jobs that CoverageHonoured speaks of.                               *)
(***************************************************************************)
Counted(j) == j[1] \in rows \ exposed /\ (Kind(j) = "issuer" \/ j[1] \notin aborted)

(***************************************************************************)
(* What lies behind a marker or a cursor, or is claimed, is stored.        *)
(***************************************************************************)
Behind(j, n) == \A t \in Tx : t <= n => Stored(j, t)
Progress == \A j \in Job : Counted(j) => Behind(j, marker[j]) /\ Behind(j, run[j].cursor)
Claims ==
    /\ \A j \in Claimed : Counted(j) => \A t \in Tx : Stored(j, t)
    /\ \A row \in coverage : Kind(row.job) = "account" => row.address = row.job[2]

(***************************************************************************)
(* What job j stores something of.                                         *)
(***************************************************************************)
Wanted(j, t) == \E h \in HoldersIn(t, j[1]) : Kind(j) = "issuer" \/ h = j[2]

(***************************************************************************)
(* A page in hand holds what its job wants up to its end, the last one all *)
(* of it: a holder's unless the issuance is being deleted, for then it was *)
(* filtered without it and will not be committed.                          *)
(***************************************************************************)
PagesWhole ==
    \A j \in Job :
        /\ run[j].pc = "page" /\ Counted(j)
        /\ Kind(j) = "issuer" \/ j[1] \notin deleting
        =>
        \A t \in Tx : /\ run[j].cursor < t /\ Wanted(j, t)
                      /\ t <= run[j].upto \/ run[j].final
                      => t \in run[j].kept

CInv == Once /\ Registered /\ Recorded /\ MetTracked /\ Progress /\ Claims /\ PagesWhole
-----------------------------------------------------------------------------
(***************************************************************************)
(* Jobs, transactions and runners.                                         *)
(***************************************************************************)
LEMMA KindFacts ==
    /\ \A j : Kind(j) \in {"issuer", "account"}
    /\ \A i \in Issuances : Kind(IssuerJob(i)) = "issuer"
    /\ \A j : Kind(j) = "issuer" => j = IssuerJob(j[1])
BY JobFacts DEF Kind

LEMMA TxFacts ==
    /\ Tx \subseteq Nat \ {0}
    /\ \A t \in Tx : LedgerOf[t] \in Nat /\ LedgerOf[t] <= LastLedger /\ 0 <= LedgerOf[t]
    /\ \A t \in Tx : \A i \in Issuances : \A h \in HoldersIn(t, i) :
          t \in IndexOf[h] /\ t \in IndexOf[IssuerOf[i]] /\ h \in Accounts
<1>1. \A t \in Tx : LedgerOf[t] \in Nat /\ LedgerOf[t] <= LastLedger /\ 0 <= LedgerOf[t]
  BY HistoryAssumption, DeletionAssumption DEF HistoryAssumption, DeletionAssumption
<1> QED  BY <1>1, HistoryAssumption DEF HistoryAssumption, HoldersIn

LEMMA IdleFacts ==
    /\ Idle.pc = "idle" /\ Idle.cursor = 0
    /\ \A c : /\ [Idle EXCEPT !.pc = "fetch", !.cursor = c].pc = "fetch"
              /\ [Idle EXCEPT !.pc = "fetch", !.cursor = c].cursor = c
    /\ [Idle EXCEPT !.pc = "fetch"].pc = "fetch" /\ [Idle EXCEPT !.pc = "fetch"].cursor = 0
BY DEF Idle

(***************************************************************************)
(* Nothing lies behind the start of the history.                           *)
(***************************************************************************)
LEMMA BehindZero == \A j : Behind(j, 0)
BY TxFacts DEF Behind

-----------------------------------------------------------------------------
(***************************************************************************)
(* Steps that only add to the tables.                                      *)
(***************************************************************************)
Grows ==
    /\ txRows \subseteq txRows' /\ links \subseteq links' /\ deltas \subseteq deltas'
    /\ scope \subseteq scope' /\ rows' = rows /\ exposed' = exposed /\ aborted \subseteq aborted'

LEMMA GrowsKeeps ==
    ASSUME Grows
    PROVE  /\ \A j : Counted(j)' => Counted(j)
           /\ \A j, t : Stored(j, t) => Stored(j, t)'
           /\ \A j, n : Behind(j, n) => Behind(j, n)'
<1>1. \A j : Counted(j)' => Counted(j)  BY DEF Grows, Counted
<1>2. ASSUME NEW j, NEW t, Stored(j, t) PROVE Stored(j, t)'
  BY <1>2 DEF Grows, Stored, Held
<1>3. ASSUME NEW j, NEW n, Behind(j, n) PROVE Behind(j, n)'
  BY <1>2, <1>3 DEF Behind
<1> QED  BY <1>1, <1>2, <1>3

(***************************************************************************)
(* A step that claims nothing, takes no page and moves no marker: what it  *)
(* starts is a run from the marker, of a job that has a row.               *)
(***************************************************************************)
LEMMA Frame ==
    ASSUME IInv, IInv', CInv, Grows, Once',
           UNCHANGED <<coverage, marker>>, deleted \subseteq deleted',
           \A j \in Job : run'[j] \in {run[j], Idle, [Idle EXCEPT !.pc = "fetch", !.cursor = marker[j]]},
           Running' \subseteq Running \cup Enqueued',
           \A j \in HolderJobs(Enqueued') : j \in Enqueued \/ (j \in newHolders /\ j \in scope'),
           \A p \in newHolders' : p \in newHolders \/ p[1] \in tracked',
           \A i \in rows \ aborted' : i \in tracked \cup deleting => i \in tracked' \cup deleting',
           \/ \A i \in deleting \cap rows : i \in deleting' \cup aborted'
           \/ \A j \in Job : run'[j] = Idle
    PROVE  CInv'
<1> USE DEF CInv, HolderJobs
<1>1. Claimed' = Claimed /\ rows' = rows  BY DEF Claimed, Grows
<1>2. \A j \in Enqueued' : j[1] \in rows'
  BY DEF IInv, Keys, JobKeys, Enqueued
<1>3. tracked' \subseteq rows'  BY DEF IInv, Flags, TrackedRegistered
<1>4. Registered'
  BY <1>1, <1>2, <1>3 DEF Registered
<1>5. Recorded'
  <2>1. scope \subseteq scope'  BY DEF Grows
  <2> QED  BY <1>1, <2>1 DEF Recorded
<1>6. MetTracked'
  <2>1. aborted \subseteq aborted'  BY DEF Grows
  <2> SUFFICES ASSUME NEW j \in (newHolders \cup HolderJobs(Running \cup Enqueued))',
                      j[1] \in rows \ aborted'
               PROVE  j[1] \in tracked' \cup deleting'
    BY <1>1 DEF MetTracked
  <2>2. j \in newHolders \cup HolderJobs(Running \cup Enqueued) \/ j[1] \in tracked'
    OBVIOUS
  <2> QED  BY <2>1, <2>2 DEF MetTracked
<1>7. Progress'
  <2> SUFFICES ASSUME NEW j \in Job, Counted(j)'
               PROVE  Behind(j, marker[j])' /\ Behind(j, run[j].cursor)'
    BY DEF Progress
  <2>1. Behind(j, marker[j]) /\ Behind(j, run[j].cursor) /\ Behind(j, 0)
    BY GrowsKeeps, BehindZero DEF Progress
  <2>2. run'[j].cursor \in {run[j].cursor, 0, marker[j]}  BY IdleFacts
  <2>3. Behind(j, marker[j])' /\ Behind(j, run'[j].cursor)
    BY <2>1, <2>2, GrowsKeeps
  <2>4. \A n : Behind(j, n) => Behind(j, n)'  BY GrowsKeeps
  <2>5. \A t \in Tx : t <= run'[j].cursor => Stored(j, t)
    BY <2>3 DEF Behind
  <2>6. Behind(j, run[j].cursor)'
    BY <2>5, GrowsKeeps DEF Behind
  <2> QED  BY <2>3, <2>6
<1>8. Claims'
  <2>1. \A j \in Claimed' : Counted(j)' => \A t \in Tx : Stored(j, t)'
    BY <1>1, GrowsKeeps DEF Claims
  <2> QED  BY <2>1 DEF Claims
<1>9. PagesWhole'
  <2> SUFFICES ASSUME NEW j \in Job, run'[j].pc = "page", Counted(j)',
                      Kind(j) = "issuer" \/ j[1] \notin deleting',
                      NEW t \in Tx, run'[j].cursor < t, Wanted(j, t),
                      t <= run'[j].upto \/ run'[j].final
               PROVE  t \in run'[j].kept
    BY DEF PagesWhole, Wanted
  <2>1. run'[j] = run[j] /\ run'[j] # Idle  BY IdleFacts
  <2>2. Counted(j)  BY GrowsKeeps
  <2>3. Kind(j) = "issuer" \/ j[1] \notin deleting
    <3> SUFFICES ASSUME Kind(j) # "issuer", j[1] \in deleting PROVE FALSE
      OBVIOUS
    <3>1. j[1] \in rows /\ j[1] \notin aborted'  BY <1>1 DEF Counted
    <3> QED  BY <2>1, <3>1
  <2> QED  BY <2>1, <2>2, <2>3 DEF PagesWhole
<1> QED  BY <1>4, <1>5, <1>6, <1>7, <1>8, <1>9

(***************************************************************************)
(* An issuance waits for its registration while it is neither registered   *)
(* nor deleted: only its registration makes it a row, only a purge removes *)
(* the row.                                                                *)
(***************************************************************************)
LEMMA NextOnce == IInv /\ Once /\ [Next]_vars => Once'
<1> SUFFICES ASSUME IInv, Once, [Next]_vars PROVE Once'
  OBVIOUS
<1> USE DEF Once, vars, tableVars, archiveVars, ingestVars, serverVars, adminVars, bookVars
<1>1. ASSUME UNCHANGED <<rows, deleted, posts, delete>> PROVE Once'
  BY <1>1
<1>2. ASSUME NEW i \in Issuances, AdmitPost(i) \/ Register(i) PROVE Once'
  BY <1>2 DEF AdmitPost, Register
<1>3. ASSUME NEW i \in Issuances, BeginDelete(i) \/ Drained(i) \/ AbortDelete(i) PROVE Once'
  <2>1. delete.pc \in {"none", "drain", "purge", "compact"} /\ delete.target \subseteq Issuances
    BY DEF IInv, TypeOK
  <2>2. CASE BeginDelete(i)  BY <2>2 DEF BeginDelete
  <2>3. CASE Drained(i)
    <3>1. delete'.target = delete.target /\ UNCHANGED <<rows, deleted, posts>> /\ delete.pc = "drain"
      BY <2>3 DEF Drained, IInv, TypeOK
    <3> QED  BY <3>1
  <2>4. CASE AbortDelete(i)  BY <2>4 DEF AbortDelete, NoDelete
  <2> QED  BY <1>3, <2>2, <2>3, <2>4
<1>4. ASSUME NEW i \in Issuances, Purge(i) PROVE Once'
  <2>1. delete'.pc = "compact"  BY <1>4 DEF Purge, IInv, TypeOK
  <2>2. i \in rows  BY <1>4 DEF Purge
  <2> QED  BY <1>4, <2>1, <2>2 DEF Purge
<1>5. CASE FinishDelete \/ Restart
  BY <1>5 DEF FinishDelete, Restart, NoDelete
<1>6. ASSUME NEW i \in Issuances, Ingest(i) \/ Rediscover(i) \/ Release(i) PROVE Once'
  BY <1>1, <1>6 DEF Ingest, AfterSweep, HealEnds, Rediscover, Release
<1>7. ASSUME NEW j \in Job, Claim(j) \/ JobStep(j) PROVE Once'
  BY <1>1, <1>7 DEF Claim, JobStep, Fetch, CommitPage, StopAtPage, FailPage
<1>8. ASSUME NEW e, Store(e) PROVE Once'
  BY <1>1, <1>8 DEF Store
<1>9. ASSUME NEW e, Map(e) \/ RecordHolder(e) PROVE Once'
  BY <1>1, <1>9 DEF Map, RecordHolder
<1>10. CASE RefreshTracked \/ UNCHANGED vars
  BY <1>1, <1>10 DEF RefreshTracked
<1> QED  BY <1>2, <1>3, <1>4, <1>5, <1>6, <1>7, <1>8, <1>9, <1>10 DEF Next, DeleteStep

-----------------------------------------------------------------------------
(***************************************************************************)
(* The steps that are such.                                                *)
(***************************************************************************)

(***************************************************************************)
(* The delete's own steps, but the purge, and the refreshes: the tracked   *)
(* set becomes the table less what is being deleted.                       *)
(***************************************************************************)
LEMMA ServerKeeps ==
    ASSUME IInv, IInv', CInv, Once',
           \/ \E i \in Issuances : \/ AdmitPost(i) \/ Ingest(i) \/ BeginDelete(i) \/ Drained(i)
                                   \/ AbortDelete(i) \/ Release(i)
           \/ FinishDelete \/ RefreshTracked \/ (\E t \in Tx : Map(t)) \/ UNCHANGED vars
    PROVE  CInv'
<1> USE DEF vars, tableVars, archiveVars, ingestVars, serverVars, adminVars, bookVars
<1>1. /\ UNCHANGED <<tableVars, run, newHolders, deleted, exposed>>
      /\ aborted \subseteq aborted'
      /\ \/ UNCHANGED <<tracked, deleting>>
         \/ tracked' = rows \ deleting' /\ (\A i \in deleting \cap rows : i \in deleting')
         \/ \E i : deleting' = deleting \cup {i} /\ tracked' = tracked \ {i}
         \/ \E i : deleting' = deleting \ {i} /\ i \in aborted' /\ UNCHANGED tracked
  <2>1. ASSUME NEW i \in Issuances, AdmitPost(i) \/ HealEnds(i) \/ Drained(i)
        PROVE  UNCHANGED <<tableVars, run, newHolders, bookVars, tracked, deleting>>
    BY <2>1 DEF AdmitPost, HealEnds, Drained
  <2>2. ASSUME NEW i \in Issuances, AfterSweep(i)
        PROVE  /\ UNCHANGED <<tableVars, run, newHolders, bookVars, deleting>>
               /\ tracked' = tracked \/ tracked' = rows \ deleting'
    BY <2>2 DEF AfterSweep, Trackable
  <2>3. ASSUME NEW i \in Issuances, BeginDelete(i)
        PROVE  /\ UNCHANGED <<tableVars, run, newHolders, deleted, exposed, aborted>>
               /\ deleting' = deleting \cup {i} /\ tracked' = tracked \ {i}
    BY <2>3 DEF BeginDelete
  <2>4. ASSUME NEW i \in Issuances, AbortDelete(i)
        PROVE  /\ UNCHANGED <<tableVars, run, newHolders, deleted, exposed, tracked>>
               /\ deleting' = deleting \ {i} /\ aborted' = aborted \cup {i}
    BY <2>4 DEF AbortDelete
  <2>5. ASSUME NEW i \in Issuances, Release(i)
        PROVE  /\ UNCHANGED <<tableVars, run, newHolders, bookVars>>
               /\ deleting' = deleting \ {i} /\ i \notin rows
               /\ tracked' = rows \ deleting'
    <3>1. i \notin rows /\ deleting' = deleting \ {i} /\ tracked' = rows \ deleting
      BY <2>5 DEF Release, Trackable
    <3> QED  BY <2>5, <3>1 DEF Release
  <2>6. CASE FinishDelete \/ RefreshTracked \/ (\E t \in Tx : Map(t)) \/ UNCHANGED vars
    BY <2>6 DEF FinishDelete, RefreshTracked, Map, Trackable
  <2> QED  BY <2>1, <2>2, <2>3, <2>4, <2>5, <2>6 DEF Ingest
<1>2. Grows  BY <1>1 DEF Grows
<1>3. Running' = Running /\ Enqueued' = Enqueued  BY <1>1 DEF Running, Enqueued
<1>4. \A i \in rows \ aborted' : i \in tracked \cup deleting => i \in tracked' \cup deleting'
  BY <1>1
<1>5. \A i \in deleting \cap rows : i \in deleting' \cup aborted'  BY <1>1
<1> QED  BY <1>1, <1>2, <1>3, <1>4, <1>5, Frame DEF HolderJobs

(***************************************************************************)
(* A restart ends the runs and forgets the new holders.                    *)
(***************************************************************************)
LEMMA RestartKeeps ==
    ASSUME IInv, IInv', CInv, Once', Restart
    PROVE  CInv'
<1> USE DEF tableVars, archiveVars
<1>1. /\ UNCHANGED <<tableVars, deleted, exposed, aborted>>
      /\ newHolders' = {} /\ tracked' = rows
      /\ \A j \in Job : run'[j] = Idle
  BY DEF Restart
<1>2. Grows  BY <1>1 DEF Grows
<1>3. Running' = {} /\ Enqueued' = Enqueued  BY <1>1 DEF Running, Enqueued
<1> QED  BY <1>1, <1>2, <1>3, Frame DEF HolderJobs

(***************************************************************************)
(* A run starts from its job's marker, or ends without a page stored.      *)
(***************************************************************************)
LEMMA RunKeeps ==
    ASSUME IInv, IInv', CInv, Once',
           \/ \E i \in Issuances : Rediscover(i)
           \/ \E j \in Job : Claim(j) \/ StopAtPage(j) \/ FailPage(j)
    PROVE  CInv'
<1> USE DEF tableVars, archiveVars, serverVars, adminVars, bookVars
<1>T. run \in [Job -> Runner] /\ status \in [Job -> {"none", "open", "completed"}]
  BY TypeParts DEF IInv, IngestTypes, TableTypes
<1>1. ASSUME NEW i \in Issuances, Rediscover(i) PROVE CInv'
  <2> DEFINE j == IssuerJob(i)
  <2>0. j \in Job /\ Kind(j) = "issuer"  BY JobFacts, KindFacts
  <2>1. /\ UNCHANGED <<archiveVars, rows, scope, marker, newHolders, serverVars, deleted, exposed, aborted>>
        /\ \/ UNCHANGED run
           \/ /\ status'[j] = "open"
              /\ run' = [run EXCEPT ![j] = [Idle EXCEPT !.pc = "fetch", !.cursor = marker[j]]]
        /\ \/ UNCHANGED status
           \/ status' = [status EXCEPT ![j] = "open"]
    BY <1>1 DEF Rediscover
  <2> HIDE DEF j
  <2>2. Grows  BY <2>1 DEF Grows
  <2>3. \A k \in Job : k # j => run'[k] = run[k] /\ status'[k] = status[k]
    BY <1>T, <2>0, <2>1
  <2>4. run'[j] \in {run[j], [Idle EXCEPT !.pc = "fetch", !.cursor = marker[j]]}
    BY <1>T, <2>0, <2>1
  <2>5. Running' \subseteq Running \cup Enqueued'
    BY <2>0, <2>1, <2>3 DEF Running, Enqueued
  <2>6. \A k \in HolderJobs(Enqueued') : k \in Enqueued
    BY <2>0, <2>3 DEF HolderJobs, Enqueued
  <2> QED  BY <2>1, <2>2, <2>3, <2>4, <2>5, <2>6, Frame
<1>2. ASSUME NEW j \in Job, Claim(j) \/ StopAtPage(j) \/ FailPage(j) PROVE CInv'
  <2>1. /\ UNCHANGED <<tableVars, newHolders, serverVars, bookVars>>
        /\ \/ run' = [run EXCEPT ![j] = Idle]
           \/ /\ status'[j] = "open"
              /\ run' = [run EXCEPT ![j] = [Idle EXCEPT !.pc = "fetch", !.cursor = marker[j]]]
    BY <1>2 DEF Claim, StopAtPage, FailPage, EndRun
  <2>2. Grows  BY <2>1 DEF Grows
  <2>3. \A k \in Job : k # j => run'[k] = run[k]  BY <1>T, <2>1
  <2>4. \/ run'[j] = Idle
        \/ run'[j] = [Idle EXCEPT !.pc = "fetch", !.cursor = marker[j]] /\ status'[j] = "open"
    BY <1>T, <2>1
  <2>5. Enqueued' = Enqueued  BY <2>1 DEF Enqueued
  <2>6. Running' \subseteq Running \cup Enqueued'
    BY <2>3, <2>4 DEF Running, Enqueued
  <2> QED  BY <2>1, <2>2, <2>3, <2>4, <2>5, <2>6, Frame DEF HolderJobs
<1> QED  BY <1>1, <1>2

(***************************************************************************)
(* A streamed transaction is stored; the holders it meets are of what is   *)
(* tracked, and are recorded, in scope and with a job, later.              *)
(***************************************************************************)
LEMMA StreamKeeps ==
    ASSUME IInv, IInv', CInv, Once',
           (\E e \in inHand : Store(e)) \/ (\E p \in newHolders : RecordHolder(p))
    PROVE  CInv'
<1> USE DEF serverVars, adminVars, bookVars
<1>1. ASSUME NEW e \in inHand, Store(e) PROVE CInv'
  <2>1. /\ UNCHANGED <<coverage, rows, scope, status, marker, run, serverVars, deleted, exposed, aborted>>
        /\ txRows \subseteq txRows' /\ links \subseteq links' /\ deltas \subseteq deltas'
        /\ newHolders' = newHolders \cup {p \in Touches[e.tx] : p[1] \in tracked /\ p \notin scope}
    BY <1>1 DEF Store
  <2>2. Grows  BY <2>1 DEF Grows
  <2>3. Running' = Running /\ Enqueued' = Enqueued  BY <2>1 DEF Running, Enqueued
  <2> QED  BY <2>1, <2>2, <2>3, Frame DEF HolderJobs
<1>2. ASSUME NEW p \in newHolders, RecordHolder(p) PROVE CInv'
  <2>1. /\ UNCHANGED <<archiveVars, rows, marker, run, serverVars, deleted, exposed, aborted>>
        /\ newHolders' \subseteq newHolders
        /\ \/ UNCHANGED <<scope, status>>
           \/ /\ scope' = scope \cup {p}
              /\ status' = IF status[p] = "none" THEN [status EXCEPT ![p] = "open"] ELSE status
    BY <1>2 DEF RecordHolder
  <2>2. Grows  BY <2>1 DEF Grows, archiveVars
  <2>3. status \in [Job -> {"none", "open", "completed"}] /\ p \in Job
    BY DEF IInv, TypeOK
  <2>4. \A j \in Enqueued' : j \in Enqueued \/ (j = p /\ p \in scope')
    BY <2>1, <2>3 DEF Enqueued
  <2>5. Running' = Running  BY <2>1 DEF Running
  <2> QED  BY <2>1, <2>2, <2>4, <2>5, Frame DEF HolderJobs, archiveVars
<1> QED  BY <1>1, <1>2

(***************************************************************************)
(* A new issuance has no job, holder or claim yet.                         *)
(***************************************************************************)
LEMMA RegisterKeeps ==
    ASSUME IInv, IInv', CInv, Once', NEW i \in Issuances, Register(i)
    PROVE  CInv'
<1> USE DEF CInv, HolderJobs
<1> DEFINE j == IssuerJob(i)
<1>0. j \in Job /\ Kind(j) = "issuer" /\ j[1] = i  BY JobFacts, KindFacts
<1>T. run \in [Job -> Runner] /\ status \in [Job -> {"none", "open", "completed"}]
  BY TypeParts DEF IInv, IngestTypes, TableTypes
<1>1. /\ i \in posts /\ rows' = rows \cup {i}
      /\ status' = [status EXCEPT ![j] = "open"]
      /\ run' = [run EXCEPT ![j] = [Idle EXCEPT !.pc = "fetch"]]
      /\ UNCHANGED <<txRows, links, deltas, coverage, scope, marker, newHolders, tracked, deleting,
                     deleted, exposed, aborted>>
  BY DEF Register, archiveVars, serverVars, bookVars
<1> HIDE DEF j
<1>2. i \notin rows \cup deleted  BY <1>1 DEF Once
<1>3. \A k \in Running \cup Claimed \cup newHolders \cup Enqueued : k[1] # i
  BY <1>2 DEF Registered, IInv, Keys, JobKeys, Enqueued
<1>4. \A k \in Job : k # j => run'[k] = run[k] /\ status'[k] = status[k]
  BY <1>T, <1>1
<1>5. run'[j].pc = "fetch" /\ run'[j].cursor = 0  BY <1>T, <1>0, <1>1, IdleFacts
<1>6. /\ Running' \subseteq Running \cup {j} /\ Enqueued' \subseteq Enqueued \cup {j}
      /\ Claimed' = Claimed
  BY <1>1, <1>4 DEF Running, Enqueued, Claimed
<1>7. Registered'  BY <1>0, <1>1, <1>6 DEF Registered
<1>8. HolderJobs(Running \cup Claimed \cup Enqueued)' \subseteq HolderJobs(Running \cup Claimed \cup Enqueued)
  BY <1>0, <1>6
<1>9. Recorded'
  <2> SUFFICES ASSUME NEW k \in HolderJobs(Running \cup Claimed \cup Enqueued), k[1] \in rows'
               PROVE  k \in scope'
    BY <1>8 DEF Recorded
  <2> QED  BY <1>1, <1>3 DEF Recorded
<1>10. MetTracked'
  <2> SUFFICES ASSUME NEW k \in newHolders \cup HolderJobs(Running \cup Enqueued), k[1] \in rows' \ aborted
               PROVE  k[1] \in tracked \cup deleting
    BY <1>0, <1>1, <1>6 DEF MetTracked
  <2>1. k[1] # i  BY <1>3
  <2> QED  BY <1>1, <2>1 DEF MetTracked
<1>11. ASSUME NEW k \in Job, k[1] # i
       PROVE  /\ Counted(k)' => Counted(k)
              /\ \A t : Stored(k, t)' <=> Stored(k, t)
  BY <1>1, <1>11 DEF Counted, Stored, Held
<1>12. Progress'
  <2> SUFFICES ASSUME NEW k \in Job, Counted(k)', NEW t \in Tx,
                      t <= marker[k] \/ t <= run'[k].cursor
               PROVE  Stored(k, t)'
    BY <1>1 DEF Progress, Behind
  <2>1. CASE k[1] = i
    <3>1. k \notin Running /\ k \notin Enqueued  BY <1>3, <2>1
    <3>2. marker[k] = 0  BY <3>1 DEF IInv, NoMarker, Enqueued
    <3>3. run'[k].cursor = 0  BY <1>4, <1>5, <3>1, IdleFacts DEF Running
    <3> QED  BY <3>2, <3>3, TxFacts
  <2>2. CASE k[1] # i
    <3>1. run'[k] = run[k]  BY <1>0, <1>4, <2>2
    <3> QED  BY <1>11, <2>2, <3>1 DEF Progress, Behind
  <2> QED  BY <2>1, <2>2
<1>13. Claims'
  <2>1. ASSUME NEW k \in Claimed', Counted(k)', NEW t \in Tx PROVE Stored(k, t)'
    <3>1. k \in Claimed /\ k[1] # i /\ k \in Job
      <4>1. \A row \in coverage : row.job \in Job
        BY DEF IInv, TypeOK, ArchiveTypeOK, Job
      <4>2. k \in Claimed  BY <1>6, <2>1
      <4> QED  BY <1>3, <4>1, <4>2 DEF Claimed
    <3> QED  BY <1>11, <2>1, <3>1 DEF Claims
  <2> QED  BY <1>1, <2>1 DEF Claims
<1>14. PagesWhole'
  <2> SUFFICES ASSUME NEW k \in Job, run'[k].pc = "page", Counted(k)',
                      Kind(k) = "issuer" \/ k[1] \notin deleting,
                      NEW t \in Tx, run'[k].cursor < t, Wanted(k, t),
                      t <= run'[k].upto \/ run'[k].final
               PROVE  t \in run'[k].kept
    BY <1>1 DEF PagesWhole, Wanted
  <2>1. k # j /\ run'[k] = run[k]  BY <1>4, <1>5
  <2>2. k \in Running  BY <2>1, IdleFacts DEF Running
  <2>3. Counted(k)  BY <1>3, <1>11, <2>2
  <2> QED  BY <2>1, <2>3 DEF PagesWhole
<1> QED  BY <1>7, <1>9, <1>10, <1>12, <1>13, <1>14

(***************************************************************************)
(* A page is all a job wants up to its end: a holder's too, while its      *)
(* issuance is tracked.                                                    *)
(***************************************************************************)
LEMMA FetchKeeps ==
    ASSUME IInv, IInv', CInv, Once', NEW j \in Job, Fetch(j)
    PROVE  CInv'
<1> USE DEF CInv
<1>T. run \in [Job -> Runner]  BY TypeParts DEF IInv, IngestTypes
<1>J. j[1] \in Issuances /\ j[2] \in Accounts  BY JobFacts
<1> DEFINE rest == AccountTx(j[2], 0, LastLedger, run[j].cursor)
           wanted == IF Kind(j) = "issuer" THEN {j[1]} ELSE tracked
           page(upto) == {t \in rest : t <= upto}
           kept(upto) == {t \in page(upto) : InScope(t, wanted)}
<1>1. PICK upto \in rest \cup {run[j].cursor}, final \in BOOLEAN :
         /\ IF final THEN page(upto) = rest ELSE page(upto) # {}
         /\ run' = [run EXCEPT ![j] = [pc |-> "page", cursor |-> run[j].cursor, upto |-> upto,
                                       final |-> final, kept |-> kept(upto)]]
  BY DEF Fetch
<1>2. /\ run[j].pc = "fetch"
      /\ UNCHANGED <<tableVars, newHolders, serverVars, bookVars>>
  BY DEF Fetch
<1>3. \A t \in rest \cap Tx : t <= upto \/ final => t \in page(upto)
  BY <1>1
<1>4. \A t \in Tx : run[j].cursor < t /\ Wanted(j, t) => t \in rest
  <2> SUFFICES ASSUME NEW t \in Tx, run[j].cursor < t, Wanted(j, t)
               PROVE  t \in rest
    OBVIOUS
  <2>1. PICK h \in HoldersIn(t, j[1]) : Kind(j) = "issuer" \/ h = j[2]  BY DEF Wanted
  <2>2. t \in IndexOf[j[2]]  BY <1>J, <2>1, TxFacts, KindFacts, JobFacts
  <2>3. t > run[j].cursor
    <3>0. run[j].cursor \in {0} \cup Tx  BY <1>T DEF Runner
    <3>1. Tx \in SUBSET Nat  BY TxFacts
    <3> DEFINE c == run[j].cursor
    <3>2. c \in {0} \cup Tx /\ t \in Tx /\ c < t  BY <3>0
    <3> HIDE DEF c
    <3>3. c \in Nat /\ t \in Nat /\ t > c  BY <3>1, <3>2
    <3> QED  BY <3>3 DEF c
  <2> QED  BY <2>2, <2>3, TxFacts DEF AccountTx
<1>5. j \in Running /\ (Kind(j) = "issuer" \/ j \in HolderJobs(Running))
  BY <1>2, IdleFacts, KindFacts DEF Running, HolderJobs
<1>6. ASSUME Counted(j), Kind(j) = "issuer" \/ j[1] \notin deleting, NEW t \in Tx, Wanted(j, t)
      PROVE  InScope(t, wanted)
  <2>1. j[1] \in wanted
    <3>1. CASE Kind(j) = "issuer"  BY <3>1
    <3>2. CASE Kind(j) # "issuer"
      <4>1. j[1] \in tracked  BY <1>5, <1>6, <3>2, KindFacts DEF MetTracked, Counted, HolderJobs
      <4> QED  BY <3>2, <4>1
    <3> QED  BY <3>1, <3>2
  <2> QED  BY <1>6, <2>1 DEF Wanted, InScope
<1> HIDE DEF rest, wanted, page
<1>7. /\ run'[j].pc = "page" /\ run'[j].cursor = run[j].cursor
      /\ run'[j].upto = upto /\ run'[j].final = final /\ run'[j].kept = kept(upto)
      /\ \A k \in Job : k # j => run'[k] = run[k]
  BY <1>T, <1>1
<1>8. /\ Running' = Running /\ Enqueued' = Enqueued /\ Claimed' = Claimed
  BY <1>2, <1>5, <1>7, IdleFacts DEF Running, Enqueued, Claimed, tableVars, archiveVars
<1>9. Grows  BY <1>2 DEF Grows, tableVars, archiveVars, bookVars
<1>10. Registered' /\ Recorded' /\ MetTracked'
  BY <1>2, <1>8 DEF Registered, Recorded, MetTracked, tableVars, bookVars, serverVars, HolderJobs
<1>11. Progress'
  <2> SUFFICES ASSUME NEW k \in Job, Counted(k)', NEW t \in Tx,
                      t <= marker[k] \/ t <= run'[k].cursor
               PROVE  Stored(k, t)'
    BY <1>2 DEF Progress, Behind, tableVars
  <2>1. run'[k].cursor = run[k].cursor  BY <1>7
  <2> QED  BY <1>9, <2>1, GrowsKeeps DEF Progress, Behind
<1>12. Claims'
  <2>1. \A k \in Claimed' : Counted(k)' => \A t \in Tx : Stored(k, t)'
    BY <1>8, <1>9, GrowsKeeps DEF Claims
  <2> QED  BY <1>2, <2>1 DEF Claims, tableVars, archiveVars
<1>13. PagesWhole'
  <2> SUFFICES ASSUME NEW k \in Job, run'[k].pc = "page", Counted(k)',
                      Kind(k) = "issuer" \/ k[1] \notin deleting,
                      NEW t \in Tx, run'[k].cursor < t, Wanted(k, t),
                      t <= run'[k].upto \/ run'[k].final
               PROVE  t \in run'[k].kept
    BY <1>2 DEF PagesWhole, Wanted, serverVars
  <2>0. Counted(k)  BY <1>9, GrowsKeeps
  <2>1. CASE k # j  BY <1>7, <2>0, <2>1 DEF PagesWhole
  <2>2. CASE k = j
    <3>1. t \in page(upto)  BY <1>3, <1>4, <1>7, <2>2
    <3>2. InScope(t, wanted)  BY <1>6, <2>0, <2>2
    <3> QED  BY <1>7, <2>2, <3>1, <3>2
  <2> QED  BY <2>1, <2>2
<1> QED  BY <1>10, <1>11, <1>12, <1>13

(***************************************************************************)
(* A page transaction stores what its page holds: of a holder's job, while *)
(* the issuance is tracked.                                                *)
(***************************************************************************)
LEMMA PageStores ==
    ASSUME TypeOK, NEW j \in Job, CommitPage(j), Kind(j) = "issuer" \/ j[1] \in tracked,
           NEW t \in run[j].kept
    PROVE  Stored(j, t)'
<1>0. /\ run[j].kept \in SUBSET Tx /\ t \in Tx /\ j[1] \in Issuances /\ j[2] \in Accounts
      /\ IssuerOf[j[1]] \in Accounts
  BY JobFacts DEF TypeOK
<1>1. /\ txRows' = txRows \cup run[j].kept
      /\ links' = links \cup NewLinks(j)
      /\ deltas' = deltas \cup NewDeltas(j)
      /\ scope' = scope \cup NewScope(j)
  BY DEF CommitPage
<1> SUFFICES ASSUME NEW h \in HoldersIn(t, j[1])
             PROVE  IF Kind(j) = "issuer"
                    THEN /\ <<j[1], h>> \in scope' /\ Held(t, j[1], h, h)'
                         /\ Held(t, j[1], h, IssuerOf[j[1]])'
                    ELSE h = j[2] => Held(t, j[1], h, h)'
  BY DEF Stored
<1>2. h \in Accounts /\ <<j[1], h>> \in Touches[t]  BY DEF HoldersIn
<1>3. CASE Kind(j) = "issuer"
  <2>1. j[2] = IssuerOf[j[1]]  BY <1>0, <1>3, KindFacts, JobFacts
  <2>2. <<j[1], h>> \in NewScope(j)
    BY <1>3 DEF NewScope, Discovered
  <2>3. <<t, h>> \in NewLinks(j) /\ <<t, IssuerOf[j[1]]>> \in NewLinks(j)
    BY <1>0, <1>2, <1>3, <2>1 DEF NewLinks, SweepLinks
  <2>4. <<t, j[1], h>> \in NewDeltas(j)
    BY <1>0, <1>2, <1>3 DEF NewDeltas, DeltaRows
  <2> QED  BY <1>1, <1>3, <2>2, <2>3, <2>4 DEF Held
<1>4. CASE Kind(j) # "issuer" /\ h = j[2]
  <2>1. <<t, h>> \in NewLinks(j)  BY <1>0, <1>4 DEF NewLinks, AccountLinks
  <2>2. <<t, j[1], h>> \in NewDeltas(j)
    BY <1>0, <1>2, <1>4 DEF NewDeltas, DeltaRows
  <2> QED  BY <1>1, <1>4, <2>1, <2>2 DEF Held
<1> QED  BY <1>3, <1>4

(***************************************************************************)
(* After it, all up to the end of the page is stored, and what the last    *)
(* page claims.                                                            *)
(***************************************************************************)
LEMMA CommitKeeps ==
    ASSUME IInv, IInv', CInv, Once', NEW j \in Job, CommitPage(j)
    PROVE  CInv'
<1> USE DEF CInv
<1>T. /\ run \in [Job -> Runner] /\ status \in [Job -> {"none", "open", "completed"}]
      /\ marker \in [Job -> {0} \cup Tx] /\ TypeOK
  BY TypeParts DEF IInv, IngestTypes, TableTypes
<1>1. /\ run[j].pc = "page" /\ j[1] \notin deleting
      /\ txRows \subseteq txRows' /\ links \subseteq links' /\ deltas \subseteq deltas'
      /\ scope \subseteq scope' /\ coverage' = coverage \cup NewCoverage(j)
      /\ UNCHANGED <<rows, newHolders, tracked, deleting, deleted, aborted, exposed>>
  BY DEF CommitPage, serverVars, bookVars
<1>2. /\ UNCHANGED <<status, marker>>
         \/ /\ status[j] # "none"
            /\ status' = [status EXCEPT ![j] = IF run[j].final THEN "completed" ELSE "open"]
            /\ marker' = [marker EXCEPT ![j] = IF run[j].final THEN 0 ELSE run[j].upto]
      /\ run' = [run EXCEPT ![j] = Idle]
         \/ run' = [run EXCEPT ![j] = [Idle EXCEPT !.pc = "fetch", !.cursor = run[j].upto]]
  BY DEF CommitPage, EndRun
<1>3. Grows  BY <1>1 DEF Grows
<1>4. j \in Running /\ (Kind(j) = "account" => j \in HolderJobs(Running))
  BY <1>1, IdleFacts DEF Running, HolderJobs
<1>5. /\ \A k \in Job : k # j => run'[k] = run[k] /\ marker'[k] = marker[k]
      /\ run'[j].cursor \in {0, run[j].upto} /\ run'[j].pc # "page"
      /\ marker'[j] \in {marker[j], 0, run[j].upto}
  BY <1>T, <1>2, IdleFacts
<1>6. /\ Running' \subseteq Running /\ Enqueued' = Enqueued
      /\ \A row \in NewCoverage(j) : row.job = j /\ (Kind(j) = "account" => row.address = j[2])
                                     /\ run[j].final
  <2>1. Running' \subseteq Running  BY <1>4, <1>5 DEF Running
  <2>2. Enqueued' = Enqueued  BY <1>T, <1>2 DEF Enqueued
  <2> QED  BY <2>1, <2>2, KindFacts DEF NewCoverage, Row
<1>7. Claimed' \subseteq Claimed \cup {j} /\ (j \in Claimed' => j \in Claimed \/ run[j].final)
  BY <1>1, <1>6 DEF Claimed
<1>8. Registered'
  BY <1>1, <1>4, <1>6, <1>7 DEF Registered
<1>9. Recorded'
  BY <1>1, <1>4, <1>6, <1>7 DEF Recorded, HolderJobs
<1>10. MetTracked'
  BY <1>1, <1>6 DEF MetTracked, HolderJobs
<1>11. ASSUME Counted(j), NEW t \in Tx, t <= run[j].upto \/ run[j].final
       PROVE  Stored(j, t)'
  <2>1. CASE t <= run[j].cursor
    <3>1. Stored(j, t)  BY <1>11, <2>1 DEF Progress, Behind
    <3> QED  BY <1>3, <3>1, GrowsKeeps
  <2>2. CASE ~(t <= run[j].cursor)
    <3>1. run[j].cursor < t
      <4>1. run[j].cursor \in {0} \cup Tx  BY <1>T DEF Runner
      <4>2. \A n \in {0} \cup Tx : n \in Nat  BY TxFacts
      <4>3. run[j].cursor \in Nat  BY <4>1, <4>2, Zenon
      <4>4. t \in Nat  BY TxFacts
      <4> QED  BY <2>2, <4>3, <4>4
    <3>2. CASE Wanted(j, t)
      <4>1. t \in run[j].kept  BY <1>1, <1>11, <3>1, <3>2 DEF PagesWhole
      <4>2. Kind(j) = "issuer" \/ j[1] \in tracked
        BY <1>1, <1>4, <1>11, KindFacts DEF MetTracked, Counted, HolderJobs
      <4> QED  BY <1>T, <4>1, <4>2, PageStores
    <3>3. CASE ~Wanted(j, t)  BY <3>3 DEF Wanted, Stored
    <3> QED  BY <3>2, <3>3
  <2> QED  BY <2>1, <2>2
<1>12. Progress'
  <2> SUFFICES ASSUME NEW k \in Job, Counted(k)', NEW t \in Tx,
                      t <= marker'[k] \/ t <= run'[k].cursor
               PROVE  Stored(k, t)'
    BY DEF Progress, Behind
  <2>0. Counted(k) /\ (Stored(k, t) => Stored(k, t)')  BY <1>3, GrowsKeeps
  <2>1. CASE k # j  BY <1>5, <2>0, <2>1 DEF Progress, Behind
  <2>2. CASE k = j
    <3>1. ~(t <= 0)  BY TxFacts
    <3>2. t <= marker[j] \/ t <= run[j].upto  BY <1>5, <2>2, <3>1
    <3> QED  BY <1>11, <2>0, <2>2, <3>2 DEF Progress, Behind
  <2> QED  BY <2>1, <2>2
<1>13. Claims'
  <2>1. ASSUME NEW k \in Claimed', Counted(k)', NEW t \in Tx PROVE Stored(k, t)'
    <3>1. Counted(k)  BY <1>3, <2>1, GrowsKeeps
    <3>2. CASE k \in Claimed
      <4>1. Stored(k, t)  BY <3>1, <3>2 DEF Claims
      <4> QED  BY <1>3, <4>1, GrowsKeeps
    <3>3. CASE k = j /\ run[j].final  BY <1>11, <3>1, <3>3
    <3> QED  BY <1>7, <2>1, <3>2, <3>3
  <2>2. \A row \in coverage' : Kind(row.job) = "account" => row.address = row.job[2]
    BY <1>1, <1>6 DEF Claims
  <2> QED  BY <2>1, <2>2 DEF Claims
<1>14. PagesWhole'
  <2> SUFFICES ASSUME NEW k \in Job, run'[k].pc = "page", Counted(k)',
                      Kind(k) = "issuer" \/ k[1] \notin deleting,
                      NEW t \in Tx, run'[k].cursor < t, Wanted(k, t),
                      t <= run'[k].upto \/ run'[k].final
               PROVE  t \in run'[k].kept
    BY <1>1 DEF PagesWhole, Wanted
  <2>1. run'[k] = run[k] /\ Counted(k)  BY <1>3, <1>5, GrowsKeeps
  <2> QED  BY <2>1 DEF PagesWhole
<1> QED  BY <1>8, <1>9, <1>10, <1>12, <1>13, <1>14

(***************************************************************************)
(* A purge leaves what is stored for the jobs of the issuances it          *)
(* protects: their holders are in scope for another issuance, and their    *)
(* issuers are spared.                                                     *)
(***************************************************************************)
LEMMA PurgeKeeps ==
    ASSUME IInv, IInv', CInv, Once', NEW i \in Issuances, Purge(i)
    PROVE  CInv'
<1> USE DEF CInv
<1>1. /\ links' = {l \in links : l[2] \notin Removable(i)}
      /\ deltas' = {d \in deltas : d[2] # i /\ d[3] \notin Removable(i)}
      /\ coverage' \subseteq coverage
      /\ scope' = {s \in scope : s[1] # i}
      /\ txRows' = {t \in txRows : t \in {l[1] : l \in links'} \cup {d[1] : d \in deltas'}}
      /\ rows' = rows \ {i} /\ deleted' = deleted \cup {i}
      /\ exposed' = exposed \cup {o \in rows' : ~Protected(o, i)}
      /\ \A j \in Job : /\ status'[j] \in {"none", status[j]}
                        /\ marker'[j] \in {0, marker[j]}
      /\ UNCHANGED <<run, newHolders, tracked, deleting, aborted>>
  BY DEF Purge, serverVars
<1>2. Running' = Running /\ Claimed' \subseteq Claimed /\ Enqueued' \subseteq Enqueued
  BY <1>1 DEF Running, Claimed, Enqueued
<1>3. Registered'  BY <1>1, <1>2 DEF Registered
<1>4. Recorded'
  <2> SUFFICES ASSUME NEW j \in HolderJobs(Running \cup Claimed \cup Enqueued), j[1] \in rows'
               PROVE  j \in scope'
    BY <1>2 DEF Recorded, HolderJobs
  <2> QED  BY <1>1 DEF Recorded
<1>5. MetTracked'
  BY <1>1, <1>2 DEF MetTracked, HolderJobs
<1>6. ASSUME NEW j \in Job, Counted(j)'
      PROVE  Counted(j) /\ j[1] # i /\ IssuerOf[j[1]] \notin Removable(i)
  <2>1. Counted(j) /\ j[1] # i /\ Protected(j[1], i)  BY <1>1, <1>6 DEF Counted
  <2> QED  BY <2>1, ProtectedIssuer, JobFacts
<1>7. ASSUME NEW j \in Job, Counted(j)', NEW t \in Tx, Stored(j, t),
             Kind(j) = "issuer" \/ j \in scope
      PROVE  Stored(j, t)'
  <2>0. j[1] # i /\ IssuerOf[j[1]] \notin Removable(i)  BY <1>6, <1>7
  <2>1. ASSUME NEW h, NEW a, Held(t, j[1], h, a), h \notin Removable(i), a \notin Removable(i)
        PROVE  Held(t, j[1], h, a)'
    <3>1. <<t, a>> \in links' /\ <<t, j[1], h>> \in deltas'
      BY <1>1, <2>0, <2>1 DEF Held
    <3>2. t \in txRows'  BY <1>1, <2>1, <3>1 DEF Held
    <3> QED  BY <3>1, <3>2 DEF Held
  <2>2. TypeOK  BY DEF IInv
  <2>3. \A h : <<j[1], h>> \in scope => <<j[1], h>> \in scope' /\ h \notin Removable(i)
    <3>1. ASSUME NEW h, <<j[1], h>> \in scope
          PROVE  <<j[1], h>> \in scope' /\ h \notin Removable(i)
      <4> DEFINE s == <<j[1], h>>
      <4>1. s \in scope /\ s[1] = j[1] /\ s[2] = h  BY <3>1
      <4>2. s[2] \notin Removable(i)  BY <2>0, <2>2, <4>1, RemovableUnused
      <4> QED  BY <1>1, <2>0, <4>1, <4>2
    <3> QED  BY <3>1
  <2>4. CASE Kind(j) = "issuer"
    BY <1>7, <2>0, <2>1, <2>3, <2>4 DEF Stored
  <2>5. CASE Kind(j) # "issuer"
    <3>1. j[2] \notin Removable(i)
      <4>1. j = <<j[1], j[2]>>  BY JobFacts
      <4> QED  BY <1>7, <2>3, <2>5, <4>1
    <3> QED  BY <1>7, <2>1, <2>5, <3>1 DEF Stored
  <2> QED  BY <2>4, <2>5
<1>8. ASSUME NEW j \in Running \cup Claimed \cup Enqueued, j \in Job, Counted(j)'
      PROVE  Kind(j) = "issuer" \/ j \in scope
  BY <1>6, <1>8, KindFacts DEF Recorded, HolderJobs, Counted
<1>9. Progress'
  <2> SUFFICES ASSUME NEW j \in Job, Counted(j)', NEW t \in Tx,
                      t <= marker'[j] \/ t <= run'[j].cursor
               PROVE  Stored(j, t)'
    BY DEF Progress, Behind
  <2>1. ~(t <= 0)  BY TxFacts
  <2>2. t <= marker[j] \/ t <= run[j].cursor  BY <1>1, <2>1
  <2>3. Stored(j, t)  BY <1>6, <2>2 DEF Progress, Behind
  <2>4. j \in Running \cup Enqueued
    BY <2>1, <2>2, IdleFacts DEF Running, Enqueued, IInv, NoMarker
  <2> QED  BY <1>7, <1>8, <2>3, <2>4
<1>10. Claims'
  <2>1. ASSUME NEW j \in Claimed', Counted(j)', NEW t \in Tx PROVE Stored(j, t)'
    <3>1. j \in Claimed  BY <1>2, <2>1
    <3>2. j \in Job  BY <3>1 DEF Claimed, IInv, TypeOK, ArchiveTypeOK, Job
    <3>3. Stored(j, t)  BY <1>6, <2>1, <3>1, <3>2 DEF Claims
    <3> QED  BY <1>7, <1>8, <2>1, <3>1, <3>2, <3>3
  <2> QED  BY <1>1, <2>1 DEF Claims
<1>11. PagesWhole'
  <2> SUFFICES ASSUME NEW k \in Job, run[k].pc = "page", Counted(k)',
                      Kind(k) = "issuer" \/ k[1] \notin deleting,
                      NEW t \in Tx, run[k].cursor < t, Wanted(k, t),
                      t <= run[k].upto \/ run[k].final
               PROVE  t \in run[k].kept
    BY <1>1 DEF PagesWhole, Wanted
  <2> QED  BY <1>6 DEF PagesWhole
<1> QED  BY <1>3, <1>4, <1>5, <1>9, <1>10, <1>11

-----------------------------------------------------------------------------
(***************************************************************************)
(* At the start the history of what is registered is swept and claimed.    *)
(***************************************************************************)
LEMMA InitHolds == Init => CInv
<1> SUFFICES ASSUME Init PROVE CInv
  OBVIOUS
<1>1. /\ Initial \subseteq Issuances /\ rows = Initial /\ newHolders = {} /\ posts = {}
      /\ delete = NoDelete
      /\ \A j \in Job : marker[j] = 0 /\ run[j] = Idle
      /\ \A j \in Job : status[j] # "none" => \E i \in Initial : j = IssuerJob(i)
      /\ txRows = {t \in Tx : InScope(t, Initial)} /\ deltas = DeltaRows(txRows, Initial)
      /\ scope = UNION {Discovered(i, Tx) : i \in Initial}
      /\ coverage = {Row(s[2], IssuerJob(s[1])) : s \in scope \cup {IssuerJob(i) : i \in Initial}}
  BY DeletionAssumption DEF DeletionAssumption, Init
<1>2. \A s \in scope \cup {IssuerJob(i) : i \in Initial} : s[1] \in Initial
  <2>1. ASSUME NEW s \in scope PROVE s[1] \in Initial
    <3>1. PICK i \in Initial : s \in Discovered(i, Tx)  BY <1>1
    <3>2. PICK t \in Tx : s \in {i} \X HoldersIn(t, i)  BY <3>1 DEF Discovered
    <3> QED  BY <3>2
  <2> QED  BY <1>1, <2>1, JobFacts
<1>3. \A row \in coverage : \E i \in Initial : row.job = IssuerJob(i)
  BY <1>1, <1>2 DEF Row
<1>4. Running = {} /\ \A j \in Claimed \cup Enqueued : \E i \in Initial : j = IssuerJob(i)
  BY <1>1, <1>3 DEF Running, Claimed, Enqueued
<1>5. HolderJobs(Running \cup Claimed \cup Enqueued) = {} /\ HolderJobs(Running \cup Enqueued) = {}
  BY <1>1, <1>4, KindFacts DEF HolderJobs
<1>6. Once  BY <1>1 DEF Once, NoDelete
<1>7. Registered /\ Recorded /\ MetTracked
  <2>1. Registered  BY <1>1, <1>4, JobFacts DEF Registered
  <2>2. Recorded  BY <1>5 DEF Recorded
  <2>3. MetTracked  BY <1>1, <1>5 DEF MetTracked
  <2> QED  BY <2>1, <2>2, <2>3
<1>8. Progress  BY <1>1, BehindZero, IdleFacts DEF Progress
<1>9. PagesWhole  BY <1>1, IdleFacts DEF PagesWhole
<1>10. ASSUME NEW i \in Initial, NEW t \in Tx PROVE Stored(IssuerJob(i), t)
  <2>1. i \in Issuances /\ IssuerOf[i] \in Accounts /\ IssuerJob(i)[1] = i
        /\ Kind(IssuerJob(i)) = "issuer"
    BY <1>1, JobFacts, KindFacts
  <2> SUFFICES ASSUME NEW h \in HoldersIn(t, i)
               PROVE  <<i, h>> \in scope /\ Held(t, i, h, h) /\ Held(t, i, h, IssuerOf[i])
    BY <2>1 DEF Stored
  <2>2. h \in Accounts /\ <<i, h>> \in Touches[t]  BY DEF HoldersIn
  <2> DEFINE page == {u \in txRows : InScope(u, {i})}
             linksOf(k) == SweepLinks({u \in txRows : InScope(u, {k})}, {k}, IssuerOf[k])
  <2>3. t \in txRows /\ t \in page  BY <1>1 DEF InScope
  <2>4. <<i, h>> \in Discovered(i, Tx)  BY DEF Discovered
  <2>5. <<i, h>> \in scope  BY <1>1, <2>4
  <2>6. <<t, h>> \in SweepLinks(page, {i}, IssuerOf[i])
        /\ <<t, IssuerOf[i]>> \in SweepLinks(page, {i}, IssuerOf[i])
    BY <2>1, <2>2, <2>3 DEF SweepLinks
  <2>7. links = UNION {linksOf(k) : k \in Initial}  BY DEF Init
  <2>8. linksOf(i) = SweepLinks(page, {i}, IssuerOf[i])  OBVIOUS
  <2>9. <<t, i, h>> \in deltas  BY <1>1, <2>1, <2>2, <2>3 DEF DeltaRows
  <2> HIDE DEF linksOf, page
  <2>10. linksOf(i) \subseteq links  BY <2>7
  <2> QED  BY <2>3, <2>5, <2>6, <2>8, <2>9, <2>10 DEF Held
<1>11. Claims
  <2>1. \A row \in coverage : Kind(row.job) = "issuer"  BY <1>1, <1>3, KindFacts
  <2> QED  BY <1>3, <1>10, <2>1 DEF Claims, Claimed
<1> QED  BY <1>6, <1>7, <1>8, <1>9, <1>11 DEF CInv

LEMMA NextKeeps == IInv /\ IInv' /\ CInv /\ [Next]_vars => CInv'
<1> SUFFICES ASSUME IInv, IInv', CInv, [Next]_vars PROVE CInv'
  OBVIOUS
<1>1. Once'  BY NextOnce DEF CInv
<1>2. CASE UNCHANGED vars  BY <1>1, <1>2, ServerKeeps
<1>3. CASE Next
  BY <1>1, <1>3, ServerKeeps, RestartKeeps, RunKeeps, StreamKeeps, RegisterKeeps, FetchKeeps,
     CommitKeeps, PurgeKeeps DEF Next, DeleteStep, JobStep
<1> QED  BY <1>2, <1>3

(***************************************************************************)
(* What a claim speaks of is stored, whatever else is deleted, restarted,  *)
(* streamed or given up.                                                   *)
(***************************************************************************)
THEOREM ClaimsInvariant == Spec => []CInv
<1>1. Init => CInv  BY InitHolds
<1>2. IInv /\ IInv' /\ CInv /\ [Next]_vars => CInv'  BY NextKeeps
<1> QED  BY <1>1, <1>2, Inductive, PTL DEF Spec

(***************************************************************************)
(* What is claimed of an issuance that stays is held for whoever the claim *)
(* is of, through every delete beside it (adminApi.ts, deleteIssuance; the *)
(* stop flag of the sweep and of the holder workers).                      *)
(***************************************************************************)
THEOREM DeleteHonoursCoverage == Spec => []CoverageHonoured
<1>1. ASSUME IInv, CInv PROVE CoverageHonoured
  <2> SUFFICES ASSUME NEW row \in coverage, row.job[1] \in rows \ exposed,
                      Kind(row.job) = "issuer" \/ row.job[1] \notin aborted
               PROVE  Honours(row)
    BY DEF CoverageHonoured
  <2> DEFINE j == row.job
  <2>1. j \in Claimed /\ Counted(j) /\ j \in Job
    BY <1>1 DEF Claimed, Counted, IInv, TypeOK, ArchiveTypeOK, Job
  <2>2. \A t \in Tx : Stored(j, t)  BY <1>1, <2>1 DEF CInv, Claims
  <2>3. Kind(j) # "issuer" => row.address = j[2] /\ j[2] # IssuerOf[j[1]]
    <3>1. ASSUME Kind(j) # "issuer" PROVE row.address = j[2]
      BY <1>1, <3>1, KindFacts DEF CInv, Claims
    <3>2. ASSUME Kind(j) # "issuer" PROVE j[2] # IssuerOf[j[1]]
      <4>1. j # IssuerJob(j[1])  BY <3>2 DEF Kind
      <4> QED  BY <2>1, <4>1, JobFacts
    <3> QED  BY <3>1, <3>2
  <2> SUFFICES ASSUME NEW t \in Tx, NEW h \in HoldersIn(t, j[1]),
                      row.address \in {h, IssuerOf[j[1]]}
               PROVE  Held(t, j[1], h, row.address)
    BY DEF Honours
  <2> HIDE DEF j
  <2> QED  BY <2>2, <2>3 DEF Stored
<1> QED  BY <1>1, Inductive, ClaimsInvariant, PTL
=============================================================================
