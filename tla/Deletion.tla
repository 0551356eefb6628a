------------------------------ MODULE Deletion ------------------------------
(***************************************************************************)
(* The delete of an issuance: maintenance mode (src/admin/adminServer.ts), *)
(* the quiescing hooks (src/server.ts) and the purge (src/admin/adminApi.ts), *)
(* among the writers it has to stop: sweeps, holder jobs, the tail, gap    *)
(* heals, new holders and a registration already admitted.                 *)
(*                                                                         *)
(* Backfill.tla and LiveTail.tla are about those writers; here each job    *)
(* has one runner and the history is validated from the start.             *)
(***************************************************************************)
EXTENDS Archive, FiniteSets

CONSTANTS
    LastLedger, \* the validated ledger
    Initial,    \* issuances registered and swept when the model starts
    MaxInHand,  \* bound: streamed transactions received and not stored yet
    MaxDeletes, \* bound: deletes begun
    MaxFaults   \* bound: restarts and failed purges

ASSUME DeletionAssumption ==
    /\ LastLedger \in Nat /\ \A t \in Tx : LedgerOf[t] <= LastLedger
    /\ Initial \subseteq Issuances
    /\ MaxInHand \in Nat /\ MaxDeletes \in Nat /\ MaxFaults \in Nat

Job == Issuances \X Accounts
IssuerJob(i) == <<i, IssuerOf[i]>>
Kind(j) == IF j = IssuerJob(j[1]) THEN "issuer" ELSE "account"

VARIABLES
    \* the other tables
    rows,        \* issuances
    accounts,    \* accounts
    scope,       \* account_issuance: <<issuance, holder>>
    status,      \* backfill_job: "none" where there is no row
    marker,      \* its last_marker
    \* the process
    run,         \* the runner of each job
    registering, \* inflightIngest: how far the ingest of a registration has come
    tracked,     \* server.ts `tracked`
    deleting,    \* server.ts `deleting`
    inHand,      \* streamed transactions, with the links they will be stored with
    newHolders,  \* server.ts `pendingHolders`
    stale,       \* deleted issuances the re-discovery under way still lists
    posts,       \* registrations admitted whose body is still being read
    maintenance, \* AdminServer.#maintenance
    delete,      \* the DELETE request under way
    \* bookkeeping
    faults,
    deletes,
    deleted,     \* issuances whose row was deleted
    aborted,     \* issuances whose delete was ever aborted
    exposed      \* issuances a purge did not protect (see Protected)

tableVars == <<archiveVars, rows, accounts, scope, status, marker>>
ingestVars == <<run, registering, inHand, newHolders, stale>>
serverVars == <<tracked, deleting>>
adminVars == <<posts, maintenance, delete>>
bookVars == <<faults, deletes, deleted, aborted, exposed>>
vars == <<tableVars, ingestVars, serverVars, adminVars, bookVars>>

Idle == [pc |-> "idle", cursor |-> 0, kept |-> {}, upto |-> 0, final |-> FALSE]
NoDelete == [pc |-> "none", target |-> {}, others |-> {}]

(***************************************************************************)
(* What a job claims when it is done.  Backfill.tla is about the bounds:   *)
(* here a claim is of the whole history.                                   *)
(***************************************************************************)
Row(a, j) == [address |-> a, from |-> 1, to |-> LastLedger, job |-> j]

(***************************************************************************)
(* The account_issuance rows of a page's holders.                          *)
(***************************************************************************)
Discovered(i, page) == UNION {{i} \X HoldersIn(t, i) : t \in page}

Init ==
    /\ txRows = {t \in Tx : InScope(t, Initial)}
    /\ links = UNION {SweepLinks({t \in txRows : InScope(t, {i})}, {i}, IssuerOf[i]) : i \in Initial}
    /\ deltas = DeltaRows(txRows, Initial)
    /\ scope = UNION {Discovered(i, Tx) : i \in Initial}
    /\ coverage = {Row(s[2], IssuerJob(s[1])) : s \in scope \cup {IssuerJob(i) : i \in Initial}}
    /\ accounts = {l[2] : l \in links} \cup IssuersOf(Initial)
    /\ rows = Initial
    /\ status = [j \in Job |-> IF \E i \in Initial : j = IssuerJob(i) THEN "completed" ELSE "none"]
    /\ marker = [j \in Job |-> 0]
    /\ run = [j \in Job |-> Idle]
    /\ registering = [i \in Issuances |-> "no"]
    /\ tracked = Initial /\ deleting = {} /\ inHand = {} /\ newHolders = {} /\ stale = {}
    /\ posts = {} /\ maintenance = FALSE /\ delete = NoDelete
    /\ faults = 0 /\ deletes = 0 /\ deleted = {} /\ aborted = {} /\ exposed = {}

-----------------------------------------------------------------------------
(***************************************************************************)
(* Registration.                                                           *)
(***************************************************************************)

(***************************************************************************)
(* A POST passes the maintenance check, and only then reads its body.      *)
(***************************************************************************)
AdmitPost(i) ==
    /\ ~maintenance
    /\ i \notin rows \cup posts \cup deleted
    /\ posts' = posts \cup {i}
    /\ UNCHANGED <<tableVars, ingestVars, serverVars, maintenance, delete, bookVars>>

(***************************************************************************)
(* The body is there: the row is inserted and the ingest starts.           *)
(***************************************************************************)
Register(i) ==
    /\ i \in posts
    /\ posts' = posts \ {i}
    /\ rows' = rows \cup {i}
    /\ accounts' = accounts \cup {IssuerOf[i]}
    /\ status' = [status EXCEPT ![IssuerJob(i)] = "open"]
    /\ run' = [run EXCEPT ![IssuerJob(i)] = [Idle EXCEPT !.pc = "fetch"]]
    /\ registering' = [registering EXCEPT ![i] = "sweep"]
    /\ UNCHANGED <<archiveVars, scope, marker, inHand, newHolders, stale, serverVars,
                   maintenance, delete, bookVars>>

(***************************************************************************)
(* The tracked set, were the refresh to take the table as it is.           *)
(***************************************************************************)
TrackableRows == rows

(* The same, were it keyed by the issuers of the table's rows.              *)
TrackableIssuers == IssuersOf(rows \ deleting)

(***************************************************************************)
(* What refreshTracked tracks: the table, less what is being deleted.      *)
(***************************************************************************)
Trackable == rows \ deleting

(***************************************************************************)
(* After the sweep: unless a delete has begun, refreshTracked, and then    *)
(* the heal, whose pages are among what is in hand.                        *)
(***************************************************************************)
AfterSweep(i) ==
    /\ registering[i] = "swept"
    /\ registering' = [registering EXCEPT ![i] = IF i \in deleting THEN "no" ELSE "heal"]
    /\ tracked' = IF i \in deleting THEN tracked ELSE Trackable
    /\ UNCHANGED <<tableVars, run, inHand, newHolders, stale, deleting, adminVars, bookVars>>

HealEnds(i) ==
    /\ registering[i] = "heal"
    /\ registering' = [registering EXCEPT ![i] = "no"]
    /\ UNCHANGED <<tableVars, run, inHand, newHolders, stale, serverVars, adminVars, bookVars>>

(***************************************************************************)
(* The hourly re-discovery reaches issuance i of the list it read, maybe   *)
(* long ago: skips it if it is being deleted, or inserts the issuer's      *)
(* account, a job unless the row is gone, and, if the job is not           *)
(* completed, starts a run of it.                                          *)
(***************************************************************************)
Rediscover(i) ==
    LET j == IssuerJob(i) IN
    /\ i \in rows \cup stale
    /\ i \notin deleting /\ run[j] = Idle
    /\ stale' = stale \ {i}
    /\ accounts' = accounts \cup {IssuerOf[i]}
    /\ status' = IF i \in rows /\ status[j] = "none" THEN [status EXCEPT ![j] = "open"] ELSE status
    /\ run' = IF status'[j] = "open"
              THEN [run EXCEPT ![j] = [Idle EXCEPT !.pc = "fetch", !.cursor = marker[j]]]
              ELSE run
    /\ UNCHANGED <<archiveVars, rows, scope, marker, registering, inHand, newHolders,
                   serverVars, adminVars, bookVars>>

(***************************************************************************)
(* Its end refreshes the tracked set, and so does an aborted delete.       *)
(***************************************************************************)
RefreshTracked ==
    /\ tracked' = Trackable
    /\ UNCHANGED <<tableVars, ingestVars, deleting, adminVars, bookVars>>

-----------------------------------------------------------------------------
(***************************************************************************)
(* The writers a delete must stop.  Each takes a page in hand in one step  *)
(* and stores it in another.                                               *)
(***************************************************************************)

(***************************************************************************)
(* A claim loop takes a holder's job.                                      *)
(***************************************************************************)
Claim(j) ==
    /\ Kind(j) = "account"
    /\ status[j] = "open" /\ run[j] = Idle /\ j[1] \notin deleting
    /\ run' = [run EXCEPT ![j] = [Idle EXCEPT !.pc = "fetch", !.cursor = marker[j]]]
    /\ UNCHANGED <<tableVars, registering, inHand, newHolders, stale, serverVars, adminVars, bookVars>>

(***************************************************************************)
(* A page of job j arrives and is filtered: by its issuance for a sweep,   *)
(* by what is tracked now for a holder's job.                              *)
(***************************************************************************)
Fetch(j) ==
    /\ run[j].pc = "fetch"
    /\ LET rest == AccountTx(j[2], 0, LastLedger, run[j].cursor)
           wanted == IF Kind(j) = "issuer" THEN {j[1]} ELSE tracked
       IN
       \E upto \in rest \cup {run[j].cursor}, final \in BOOLEAN :
          LET page == {t \in rest : t <= upto} IN
          /\ IF final THEN page = rest ELSE page # {}
          /\ run' = [run EXCEPT ![j] = [pc |-> "page", cursor |-> run[j].cursor, upto |-> upto,
                                        final |-> final,
                                        kept |-> {t \in page : InScope(t, wanted)}]]
    /\ UNCHANGED <<tableVars, registering, inHand, newHolders, stale, serverVars, adminVars, bookVars>>

(***************************************************************************)
(* The rows the page in hand of job j would add.                           *)
(***************************************************************************)
NewLinks(j) ==
    IF Kind(j) = "issuer" THEN SweepLinks(run[j].kept, {j[1]}, j[2])
    ELSE AccountLinks(run[j].kept, j[2])
NewDeltas(j) == DeltaRows(run[j].kept, IF Kind(j) = "issuer" THEN {j[1]} ELSE tracked)
NewScope(j) == IF Kind(j) = "issuer" THEN Discovered(j[1], run[j].kept) ELSE {}
NewCoverage(j) ==
    IF ~run[j].final THEN {}
    ELSE IF Kind(j) = "account" THEN {Row(j[2], j)}
    ELSE {Row(s[2], j) : s \in {q \in scope \cup NewScope(j) : q[1] = j[1]} \cup {j}}

(***************************************************************************)
(* The accounts it inserts before them: those linked, and those of the     *)
(* deltas and of the holders.                                              *)
(***************************************************************************)
NewAccounts(j) ==
    {l[2] : l \in NewLinks(j)} \cup {d[3] : d \in NewDeltas(j)} \cup {s[2] : s \in NewScope(j)}

(***************************************************************************)
(* The foreign keys of a page transaction: what its deltas, holders and    *)
(* claims refer to is there, or is inserted by it.                         *)
(***************************************************************************)
KeysHold(j) ==
    /\ \A d \in NewDeltas(j) : d[2] \in rows
    /\ \A s \in NewScope(j) : s[1] \in rows
    /\ {row.address : row \in NewCoverage(j)} \subseteq accounts \cup NewAccounts(j)

(* The end of a run, were the registration not told of it.                  *)
EndRunSilently(j, result) ==
    /\ run' = [run EXCEPT ![j] = Idle]
    /\ UNCHANGED registering

(***************************************************************************)
(* The run of job j ends; if it was a registration's sweep, with `result`. *)
(***************************************************************************)
EndRun(j, result) ==
    /\ run' = [run EXCEPT ![j] = Idle]
    /\ registering' = IF j = IssuerJob(j[1]) /\ registering[j[1]] = "sweep"
                      THEN [registering EXCEPT ![j[1]] = result] ELSE registering

(***************************************************************************)
(* The page transaction.  An UPDATE of a job row that is gone is no error. *)
(***************************************************************************)
CommitPage(j) ==
    LET r == run[j] IN
    /\ r.pc = "page"
    /\ j[1] \notin deleting
    /\ KeysHold(j)
    /\ txRows' = txRows \cup r.kept
    /\ links' = links \cup NewLinks(j)
    /\ deltas' = deltas \cup NewDeltas(j)
    /\ accounts' = accounts \cup NewAccounts(j)
    /\ scope' = scope \cup NewScope(j)
    /\ coverage' = coverage \cup NewCoverage(j)
    /\ IF status[j] = "none" THEN UNCHANGED <<status, marker>>
       ELSE /\ status' = [status EXCEPT ![j] = IF r.final THEN "completed" ELSE "open"]
            /\ marker' = [marker EXCEPT ![j] = IF r.final THEN 0 ELSE r.upto]
    /\ IF r.final THEN EndRun(j, "swept")
       ELSE /\ run' = [run EXCEPT ![j] = [Idle EXCEPT !.pc = "fetch", !.cursor = r.upto]]
            /\ UNCHANGED registering
    /\ UNCHANGED <<rows, inHand, newHolders, stale, serverVars, adminVars, bookVars>>

(***************************************************************************)
(* The issuance is being deleted: nothing is written and the run ends.     *)
(***************************************************************************)
StopAtPage(j) ==
    /\ run[j].pc = "page"
    /\ j[1] \in deleting
    /\ EndRun(j, "swept")
    /\ UNCHANGED <<tableVars, inHand, newHolders, stale, serverVars, adminVars, bookVars>>

(***************************************************************************)
(* A foreign key fails: the page is rolled back and the run ends with it.  *)
(***************************************************************************)
FailPage(j) ==
    /\ run[j].pc = "page"
    /\ j[1] \notin deleting
    /\ ~KeysHold(j)
    /\ EndRun(j, "no")
    /\ UNCHANGED <<tableVars, inHand, newHolders, stale, serverVars, adminVars, bookVars>>

-----------------------------------------------------------------------------
(***************************************************************************)
(* The tail and the heals: a transaction is mapped, by what is tracked     *)
(* then, and stored later, with the deltas of what is tracked by then.     *)
(***************************************************************************)
Streamed(t, rowsToLink) == [tx |-> t, links |-> rowsToLink]

Map(t) ==
    /\ Cardinality(inHand) < MaxInHand
    /\ InScope(t, tracked)
    /\ \/ inHand' = inHand \cup {Streamed(t, TouchedLinks(t, tracked))}
       \/ \E x \in IssuersOf(tracked) :
             /\ t \in IndexOf[x]
             /\ inHand' = inHand \cup {Streamed(t, SweepLinks({t}, tracked, x))}
    /\ UNCHANGED <<tableVars, run, registering, newHolders, stale, serverVars, adminVars,
                   bookVars>>

(***************************************************************************)
(* The accounts its links and deltas refer to are inserted with them.      *)
(* After the commit, a holder of a tracked issuance not in scope is new.   *)
(***************************************************************************)
Store(e) ==
    /\ e \in inHand
    /\ inHand' = inHand \ {e}
    /\ txRows' = txRows \cup {e.tx}
    /\ links' = links \cup e.links
    /\ deltas' = deltas \cup DeltaRows({e.tx}, tracked)
    /\ accounts' = accounts \cup {l[2] : l \in e.links}
                           \cup {d[3] : d \in DeltaRows({e.tx}, tracked)}
    /\ newHolders' = newHolders \cup {p \in Touches[e.tx] : p[1] \in tracked /\ p \notin scope}
    /\ UNCHANGED <<coverage, rows, scope, status, marker, run, registering, stale,
                   serverVars, adminVars, bookVars>>

(***************************************************************************)
(* trackNewHolder: recordDiscovered and enqueue; both refer to the row of  *)
(* the issuance, and without it the holder is dropped.                     *)
(***************************************************************************)
RecordHolder(p) ==
    /\ p \in newHolders
    /\ newHolders' = newHolders \ {p}
    /\ IF p[1] \notin rows THEN UNCHANGED <<accounts, scope, status>>
       ELSE /\ accounts' = accounts \cup {p[2]}
            /\ scope' = scope \cup {p}
            /\ status' = IF status[p] = "none" THEN [status EXCEPT ![p] = "open"] ELSE status
    /\ UNCHANGED <<archiveVars, rows, marker, run, registering, inHand, stale, serverVars,
                   adminVars, bookVars>>

-----------------------------------------------------------------------------
(***************************************************************************)
(* The delete.                                                             *)
(***************************************************************************)

(***************************************************************************)
(* DELETE is admitted: maintenance mode, then the flag every writer polls. *)
(***************************************************************************)
BeginDelete(i) ==
    /\ ~maintenance
    /\ deletes < MaxDeletes
    /\ i \in rows
    /\ deletes' = deletes + 1
    /\ maintenance' = TRUE
    /\ deleting' = deleting \cup {i}
    /\ tracked' = tracked \ {i}
    /\ delete' = [pc |-> "drain", target |-> {i}, others |-> {}]
    /\ UNCHANGED <<tableVars, ingestVars, posts, faults, deleted, aborted, exposed>>

(***************************************************************************)
(* The ingest of its registration has ended.  The other issuances are      *)
(* listed now, before the purge's transaction.                             *)
(***************************************************************************)
Drained(i) ==
    /\ delete.pc = "drain" /\ i \in delete.target
    /\ registering[i] = "no"
    /\ delete' = [delete EXCEPT !.pc = "purge", !.others = rows \ {i}]
    /\ UNCHANGED <<tableVars, ingestVars, serverVars, posts, maintenance, bookVars>>

HolderOf(a, I) == \E i \in I : <<i, a>> \in scope

(* The exclusive holders, were a holder of another issuance not spared.     *)
AllHolders(i) == {a \in Accounts : HolderOf(a, {i})}

(* The accounts in scope for issuance i and for no other.                   *)
Exclusive(i) == {a \in Accounts : HolderOf(a, {i}) /\ ~HolderOf(a, Issuances \ {i})}

(* The accounts, were the issuer not looked up among the other issuers.     *)
RemovableWithIssuer(i) ==
    Exclusive(i) \cup {a \in {IssuerOf[i]} : ~HolderOf(a, Issuances \ {i})}

(***************************************************************************)
(* The accounts removed with i: those and, unless another issuance listed  *)
(* has the same issuer or it holds another issuance, its issuer.           *)
(***************************************************************************)
Removable(i) ==
    Exclusive(i) \cup
    {a \in {IssuerOf[i]} : a \notin IssuersOf(delete.others) /\ ~HolderOf(a, Issuances \ {i})}

(***************************************************************************)
(* Whether the purge of i keeps what is stored of issuance o by way of its *)
(* issuer.  Two things void it: o was registered after the others were     *)
(* listed, and the issuer of o is itself an exclusive holder of i.         *)
(***************************************************************************)
Protected(o, i) == o \in delete.others /\ IssuerOf[o] \notin Exclusive(i)

(***************************************************************************)
(* The purge's transaction: what is keyed by i, what refers to the         *)
(* accounts removed, the transactions nothing refers to any more, the row. *)
(***************************************************************************)
Purge(i) ==
    LET gone == Removable(i) IN
    /\ delete.pc = "purge" /\ i \in delete.target
    /\ links' = {l \in links : l[2] \notin gone}
    /\ deltas' = {d \in deltas : d[2] # i /\ d[3] \notin gone}
    /\ coverage' = {row \in coverage : row.address \notin gone}
    /\ scope' = {s \in scope : s[1] # i}
    /\ status' = [j \in Job |-> IF j[1] = i \/ j[2] \in gone THEN "none" ELSE status[j]]
    /\ marker' = [j \in Job |-> IF status'[j] = "none" THEN 0 ELSE marker[j]]
    /\ accounts' = accounts \ gone
    /\ txRows' = {t \in txRows : t \in {l[1] : l \in links'} \cup {d[1] : d \in deltas'}}
    /\ rows' = rows \ {i}
    /\ delete' = [delete EXCEPT !.pc = "compact"]
    /\ deleted' = deleted \cup {i}
    /\ exposed' = exposed \cup {o \in rows' : ~Protected(o, i)}
    /\ stale' = stale \cup {i}
    /\ UNCHANGED <<run, registering, inHand, newHolders, serverVars, posts, maintenance,
                   faults, deletes, aborted>>

(***************************************************************************)
(* The purge fails and is rolled back: the flag is lifted, and a refresh   *)
(* of the tracked set is started.                                          *)
(***************************************************************************)
AbortDelete(i) ==
    /\ delete.pc = "purge" /\ i \in delete.target
    /\ faults < MaxFaults
    /\ faults' = faults + 1
    /\ deleting' = deleting \ {i}
    /\ aborted' = aborted \cup {i}
    /\ maintenance' = FALSE
    /\ delete' = NoDelete
    /\ UNCHANGED <<tableVars, ingestVars, tracked, posts, deletes, deleted, exposed>>

(* The database is compacted, or not; the request is answered.              *)
FinishDelete ==
    /\ delete.pc = "compact"
    /\ maintenance' = FALSE
    /\ delete' = NoDelete
    /\ UNCHANGED <<tableVars, ingestVars, serverVars, posts, bookVars>>

(* onDeleted: the tracked set is refreshed, and only then the flag released. *)
Release(i) ==
    /\ i \in deleting \ (rows \cup delete.target)
    /\ tracked' = Trackable
    /\ deleting' = deleting \ {i}
    /\ UNCHANGED <<tableVars, ingestVars, adminVars, bookVars>>

-----------------------------------------------------------------------------
(***************************************************************************)
(* The process starts again over the tables.  It resumes what is open, as  *)
(* a re-discovery would.                                                   *)
(***************************************************************************)
Restart ==
    /\ faults < MaxFaults
    /\ faults' = faults + 1
    /\ run' = [j \in Job |-> Idle]
    /\ registering' = [i \in Issuances |-> "no"]
    /\ inHand' = {} /\ newHolders' = {} /\ stale' = {}
    /\ tracked' = rows /\ deleting' = {}
    /\ posts' = {} /\ maintenance' = FALSE /\ delete' = NoDelete
    /\ UNCHANGED <<tableVars, deletes, deleted, aborted, exposed>>

JobStep(j) == Fetch(j) \/ CommitPage(j) \/ StopAtPage(j) \/ FailPage(j)
Ingest(i) == AfterSweep(i) \/ HealEnds(i)
DeleteStep(i) == Drained(i) \/ Purge(i) \/ FinishDelete

Next ==
    \/ \E i \in Issuances :
          \/ AdmitPost(i) \/ Register(i) \/ Ingest(i) \/ Rediscover(i)
          \/ BeginDelete(i) \/ DeleteStep(i) \/ AbortDelete(i) \/ Release(i)
    \/ RefreshTracked
    \/ \E j \in Job : Claim(j) \/ JobStep(j)
    \/ \E t \in Tx : Map(t)
    \/ \E e \in inHand : Store(e)
    \/ \E p \in newHolders : RecordHolder(p)
    \/ Restart

(***************************************************************************)
(* Upstream answers a sweep or its client gives up, and awaits return.     *)
(***************************************************************************)
Fairness ==
    \A i \in Issuances :
        WF_vars(JobStep(IssuerJob(i))) /\ WF_vars(Ingest(i)) /\ WF_vars(DeleteStep(i))

Spec == Init /\ [][Next]_vars /\ Fairness

-----------------------------------------------------------------------------
(***************************************************************************)
(* Properties.                                                             *)
(***************************************************************************)

(***************************************************************************)
(* Every variable holds what its table or variable in src/ may hold.       *)
(***************************************************************************)
TypeOK ==
    /\ ArchiveTypeOK
    /\ rows \subseteq Issuances /\ accounts \subseteq Accounts /\ scope \subseteq Job
    /\ status \in [Job -> {"none", "open", "completed"}]
    /\ marker \in [Job -> {0} \cup Tx]
    /\ run \in [Job -> [pc : {"idle", "fetch", "page"}, cursor : {0} \cup Tx, upto : {0} \cup Tx,
                         kept : SUBSET Tx, final : BOOLEAN]]
    /\ registering \in [Issuances -> {"no", "sweep", "swept", "heal"}]
    /\ tracked \cup deleting \cup posts \cup stale \cup deleted \cup aborted \cup exposed
          \subseteq Issuances
    /\ inHand \subseteq [tx : Tx, links : SUBSET (Tx \X Accounts)]
    /\ newHolders \subseteq Job
    /\ maintenance \in BOOLEAN
    /\ delete \in [pc : {"none", "drain", "purge", "compact"}, target : SUBSET Issuances,
                   others : SUBSET Issuances]
    /\ faults \in Nat /\ deletes \in Nat

(***************************************************************************)
(* A delete, among all that writes meanwhile, leaves no row that refers to *)
(* one removed: the database would refuse the purge or the write otherwise, *)
(* and the purge deletes "dependents before the accounts row".             *)
(***************************************************************************)
ReferentialIntegrity ==
    /\ {l[1] : l \in links} \cup {d[1] : d \in deltas} \subseteq txRows
    /\ {l[2] : l \in links} \cup {d[3] : d \in deltas} \cup {s[2] : s \in scope}
          \cup {row.address : row \in coverage} \subseteq accounts
    /\ {d[2] : d \in deltas} \cup {s[1] : s \in scope} \subseteq rows
    /\ \A j \in Job : status[j] # "none" => j[1] \in rows /\ j[2] \in accounts

(***************************************************************************)
(* What is claimed of an issuance that stays is still held, whatever was   *)
(* deleted beside it.  Two known cases are left out: an issuance a purge   *)
(* did not protect, and a holder's claim after an aborted delete, whose    *)
(* jobs filter by a tracked set that does not have the issuance back yet.  *)
(***************************************************************************)
CoverageHonoured ==
    \A row \in coverage :
        LET i == row.job[1] IN
        i \in rows \ exposed /\ (Kind(row.job) = "issuer" \/ i \notin aborted) => Honours(row)

(***************************************************************************)
(* "It removes only rows exclusive to this issuance and never data another *)
(* issuance still needs": a purge keeps links, deltas, claims and jobs of  *)
(* the recorded holders of the issuances that stay and, of those in I,     *)
(* the issuer's.                                                           *)
(***************************************************************************)
Spares(I) ==
    LET kept == {s \in scope : s[1] \in rows'} \cup {IssuerJob(o) : o \in I} IN
    \A s \in kept :
        /\ {l \in links : l[2] = s[2]} \subseteq links'
        /\ {d \in deltas : d[2] = s[1] /\ <<d[2], d[3]>> \in kept} \subseteq deltas'
        /\ {row \in coverage : row.address = s[2]} \subseteq coverage'
        /\ status'[s] = status[s] /\ marker'[s] = marker[s]

(***************************************************************************)
(* A purge spares the data of the issuances that stay, of every recorded   *)
(* holder, and of the issuer of each that it protects.                     *)
(***************************************************************************)
PurgeSpares ==
    [][\A i \in rows \ rows' : Spares({o \in rows' : Protected(o, i)})]_vars

(***************************************************************************)
(* The same without exception, as the comment on deleteIssuance says it.   *)
(***************************************************************************)
NothingNeededRemoved == [][rows \subseteq rows' \/ Spares(rows')]_vars

(***************************************************************************)
(* The tail derives deltas for issuances whose row is there only: a delete *)
(* untracks one before its row goes, and no refresh, of a re-discovery or  *)
(* a registration, brings it back.                                         *)
(***************************************************************************)
TrackedRegistered == tracked \subseteq rows

(***************************************************************************)
(* Maintenance mode ends: a delete does not wait for a whole sweep, only   *)
(* for the page under way and the heal.                                    *)
(***************************************************************************)
DeleteEnds == maintenance ~> ~maintenance
=============================================================================
