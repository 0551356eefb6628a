--------------------------- MODULE PostgresProofs ---------------------------
(***************************************************************************)
(* Theorems about Postgres, for any number of processes, writers, keys,    *)
(* connections, migrations, retries, dropped connections and crashes.      *)
(***************************************************************************)
EXTENDS Postgres, FoldLemmas

-----------------------------------------------------------------------------
(***************************************************************************)
(* The inductive invariant.                                                *)
(***************************************************************************)

(* The shape of the records of `task`, and of what a crash leaves behind. *)
Fields == {"pc", "conn", "stmt", "attempt", "error", "commits"}

Shapes ==
    /\ DOMAIN task = Tasks
    /\ \A x \in Tasks : DOMAIN task[x] = Fields
    /\ proc \in [Procs -> {"down", "lock", "read", "migrate", "up", "failed"}]
    /\ DOMAIN pending = Procs

(* A call has taken effect once or not at all; if it has, it is not tried again.  The *)
(* error of an attempt is gone when the next one starts.                              *)
EffectOf(r) ==
    /\ \/ r.commits = 0 /\ r.pc # "done"
       \/ r.commits = 1 /\ r.pc \in {"done", "thrown"}
       \/ r.commits = 1 /\ r.pc = "rollback" /\ r.error = "lost"
    /\ r.pc \notin {"rollback", "thrown"} => r.error = "none"

Effect(x) == EffectOf(task[x])

(* A process migrates only between reading what is applied and its end. *)
Stage(p) ==
    /\ proc[p] \notin {"migrate", "failed"} => task[p].pc = "idle"
    /\ proc[p] = "failed" => task[p].pc = "thrown"
    /\ proc[p] = "migrate" /\ task[p].pc # "idle" => pending[p] # {}

(* The advisory lock is held for as long. *)
Locked(p) == proc[p] \in {"read", "migrate"} => locker = p

(* The applied migrations are the first ones. *)
Prefix == \E n \in 0 .. Last : applied = 1 .. n

(* What is left to apply are the last ones, and those before them are applied. *)
Front(p) ==
    proc[p] = "migrate" =>
        \E k \in 1 .. Last + 1 : pending[p] = k .. Last /\ 1 .. (k - 1) \subseteq applied

(* The migration whose transaction has returned is applied. *)
Returned(p) == task[p].pc = "done" => AtHand(p) \in applied

(* A migration that a crashed process may still commit is the next, at the latest. *)
Late(o) == o.commit => \A m \in o.applied : m \in 1 .. Last /\ 1 .. (m - 1) \subseteq applied

(* What a process has still to try is not applied, unless it was surprised. *)
ToTry(p) == pending[p] \ (IF task[p].pc = "done" THEN {AtHand(p)} ELSE {})

Fresh(p) ==
    /\ \/ proc[p] # "migrate" \/ p \in surprised
       \/ task[p].pc = "thrown" \/ task[p].error = "lost"
       \/ ToTry(p) \cap applied = {}
    /\ task[p].error = "duplicate" => p \in surprised

Up(p) == proc[p] = "up" => applied = 1 .. Last

IInv ==
    /\ Shapes
    /\ \A x \in Tasks : Effect(x)
    /\ Prefix
    /\ \A p \in Procs : Stage(p) /\ Locked(p) /\ Front(p) /\ Returned(p) /\ Fresh(p) /\ Up(p)
    /\ \A o \in orphans : Late(o)

-----------------------------------------------------------------------------
(***************************************************************************)
(* Facts about the operators.                                              *)
(***************************************************************************)

(* The least of a range of numbers is its first. *)
LEMMA MinOfRange ==
  ASSUME NEW k \in Int, NEW n \in Int, k <= n
  PROVE  Min(k .. n) = k
  <1>1. k \in k .. n /\ \A y \in k .. n : k <= y
    OBVIOUS
  <1>2. \A z \in k .. n : (\A y \in k .. n : z <= y) => z = k
    BY <1>1
  <1> QED  BY <1>1, <1>2 DEF Min

(* Only a transaction that runs a statement is in a cycle. *)
LEMMA CycleRuns ==
  ASSUME NEW x \in Tasks, InCycle(x)
  PROVE  task[x].pc = "run"
  BY DEF InCycle, Blocks

(* A process that has something to apply has the first of it at hand. *)
LEMMA HandIsFirst ==
  ASSUME NEW p \in Procs, NEW k \in 1 .. Last + 1, pending[p] = k .. Last, pending[p] # {},
         Last \in Nat
  PROVE  k <= Last /\ AtHand(p) = k /\ AtHand(p) \in pending[p]
  <1>1. k <= Last
    OBVIOUS
  <1> QED  BY <1>1, MinOfRange DEF AtHand

(* The effect of Become. *)
LEMMA Moved ==
  ASSUME Shapes, NEW x \in Tasks, NEW r, DOMAIN r = Fields, Become(x, r)
  PROVE  /\ DOMAIN task' = Tasks
         /\ task'[x] = r
         /\ \A y \in Tasks \ {x} : task'[y] = task[y]
         /\ \A y \in Tasks : DOMAIN task'[y] = Fields
  BY DEF Shapes, Become

(* One more migration on top of those before it. *)
LEMMA OneMore ==
  ASSUME Prefix, Last \in Nat, NEW S, \A m \in S : m \in 1 .. Last /\ 1 .. (m - 1) \subseteq applied
  PROVE  \E n \in 0 .. Last : applied \cup S = 1 .. n
  <1>1. PICK n \in 0 .. Last : applied = 1 .. n
    BY DEF Prefix
  <1>2. \A m \in S : m \in 1 .. Last /\ m <= n + 1
    <2> SUFFICES ASSUME NEW m \in S, m > n + 1
                 PROVE  FALSE
      BY <1>1
    <2>1. m - 1 \in 1 .. (m - 1) /\ m - 1 \notin 1 .. n
      BY <1>1
    <2> QED  BY <1>1, <2>1
  <1>3. CASE n + 1 \in S
    BY <1>1, <1>2, <1>3
  <1>4. CASE n + 1 \notin S
    BY <1>1, <1>2, <1>4
  <1> QED  BY <1>3, <1>4

(* A migrator whose transaction is under way holds the advisory lock, and has at hand *)
(* the first of what is left; the other processes are not migrating.                  *)
LEMMA AtWork ==
  ASSUME IInv, Last \in Nat, NEW p \in Procs, task[p].pc \notin {"idle", "thrown"}
  PROVE  /\ proc[p] = "migrate" /\ locker = p /\ pending[p] # {}
         /\ AtHand(p) \in 1 .. Last /\ AtHand(p) \in pending[p]
         /\ 1 .. (AtHand(p) - 1) \subseteq applied
         /\ pending[p] \ {AtHand(p)} = AtHand(p) + 1 .. Last
         /\ \A q \in Procs \ {p} : proc[q] # "migrate"
  <1>1. proc[p] = "migrate" /\ locker = p /\ pending[p] # {}
    BY DEF IInv, Stage, Locked
  <1>2. PICK k \in 1 .. Last + 1 : pending[p] = k .. Last /\ 1 .. (k - 1) \subseteq applied
    BY <1>1 DEF IInv, Front
  <1>3. k <= Last /\ AtHand(p) = k /\ AtHand(p) \in pending[p]
    BY <1>1, <1>2, HandIsFirst
  <1>4. \A q \in Procs \ {p} : proc[q] # "migrate"
    BY <1>1 DEF IInv, Locked
  <1> QED  BY <1>1, <1>2, <1>3, <1>4

-----------------------------------------------------------------------------
(***************************************************************************)
(* Steps of a transaction that leave the schema alone.                     *)
(***************************************************************************)

(* A step of x that commits nothing, and its migrator goes on or throws. *)
LEMMA Quiet ==
  ASSUME IInv, Last \in Nat, NEW x \in Tasks, NEW r, DOMAIN r = Fields, Become(x, r),
         UNCHANGED <<bootVars, orphans>>, EffectOf(r),
         x \in Procs => /\ proc[x] = "migrate" /\ pending[x] # {}
                        /\ r.pc \notin {"idle", "done"} /\ task[x].pc \notin {"done", "thrown"}
                        /\ task[x].error = "lost" => r.pc = "thrown"
                        /\ r.error = "duplicate" => x \in surprised
  PROVE  IInv'
  <1> USE DEF IInv
  <1>1. /\ DOMAIN task' = Tasks /\ task'[x] = r
        /\ \A y \in Tasks \ {x} : task'[y] = task[y]
        /\ \A y \in Tasks : DOMAIN task'[y] = Fields
    BY Moved
  <1>2. UNCHANGED <<proc, pending, locker, applied, surprised, orphans>>
    BY DEF bootVars
  <1>3. Shapes'
    BY <1>1, <1>2 DEF Shapes
  <1>4. \A y \in Tasks : Effect(y)'
    BY <1>1 DEF Effect
  <1>5. Prefix'
    BY <1>2 DEF Prefix
  <1>6. ASSUME NEW p \in Procs
        PROVE  (Stage(p) /\ Locked(p) /\ Front(p) /\ Returned(p) /\ Fresh(p) /\ Up(p))'
    <2>1. p \in Tasks
      BY DEF Tasks
    <2>2. CASE p # x
      <3>1. task'[p] = task[p]
        BY <1>1, <2>1, <2>2
      <3> QED  BY <3>1, <1>2 DEF Stage, Locked, Front, Returned, Fresh, Up, ToTry, AtHand
    <2>3. CASE p = x
      <3>1. Stage(p)' /\ Locked(p)' /\ Front(p)' /\ Up(p)'
        BY <1>1, <1>2, <2>3 DEF Stage, Locked, Front, Up
      <3>2. Returned(p)'
        BY <1>1, <2>3 DEF Returned
      <3>3. ToTry(p)' = ToTry(p)
        BY <1>1, <1>2, <2>3 DEF ToTry
      <3>4. Fresh(p)'
        BY <1>1, <1>2, <2>3, <3>3 DEF Fresh
      <3> QED  BY <3>1, <3>2, <3>4
    <2> QED  BY <2>2, <2>3
  <1>7. \A o \in orphans' : Late(o)'
    BY <1>2 DEF Late
  <1> QED  BY <1>3, <1>4, <1>5, <1>6, <1>7

LEMMA BeginKeeps ==
  ASSUME IInv, Last \in Nat, NEW x \in Tasks, Begin(x)
  PROVE  IInv'
  <1> DEFINE r == [task[x] EXCEPT !.pc = "run", !.conn = Connection(ProcOf(x)), !.stmt = 1]
  <1>1. DOMAIN task[x] = Fields /\ task[x].pc = "connect" /\ Become(x, r)
    BY DEF IInv, Shapes, Begin
  <1>2. DOMAIN r = Fields /\ r.pc = "run" /\ r.error = task[x].error /\ r.commits = task[x].commits
    BY <1>1 DEF Fields
  <1>3. EffectOf(r) /\ task[x].error = "none"
    BY <1>1, <1>2 DEF IInv, Effect, EffectOf
  <1>4. UNCHANGED <<bootVars, orphans>>
    BY DEF Begin
  <1> HIDE DEF r
  <1> QED  BY <1>1, <1>2, <1>3, <1>4, AtWork, Quiet

LEMMA WakeKeeps ==
  ASSUME IInv, Last \in Nat, NEW x \in Tasks, Wake(x)
  PROVE  IInv'
  <1> DEFINE r == [task[x] EXCEPT !.pc = "connect"]
  <1>1. DOMAIN task[x] = Fields /\ task[x].pc = "sleep" /\ Become(x, r)
    BY DEF IInv, Shapes, Wake
  <1>2. DOMAIN r = Fields /\ r.pc = "connect" /\ r.error = task[x].error /\ r.commits = task[x].commits
    BY <1>1 DEF Fields
  <1>3. EffectOf(r) /\ task[x].error = "none"
    BY <1>1, <1>2 DEF IInv, Effect, EffectOf
  <1>4. UNCHANGED <<bootVars, orphans>>
    BY DEF Wake
  <1> HIDE DEF r
  <1> QED  BY <1>1, <1>2, <1>3, <1>4, AtWork, Quiet

LEMMA StatementKeeps ==
  ASSUME IInv, Last \in Nat, NEW x \in Tasks, Statement(x)
  PROVE  IInv'
  <1>1. DOMAIN task[x] = Fields /\ task[x].pc = "run" /\ task[x].error = "none" /\ task[x].commits = 0
    BY DEF IInv, Shapes, Effect, EffectOf, Statement
  <1>2. UNCHANGED <<bootVars, orphans>>
    BY DEF Statement
  <1>3. CASE Duplicate(x)
    <2> DEFINE r == [task[x] EXCEPT !.pc = "rollback", !.error = "duplicate"]
    <2>1. Become(x, r)
      BY <1>3 DEF Statement
    <2>2. DOMAIN r = Fields /\ r.pc = "rollback" /\ r.error = "duplicate" /\ r.commits = 0
      BY <1>1 DEF Fields
    <2>3. EffectOf(r)
      BY <2>2 DEF EffectOf
    <2>4. x \in Procs /\ AtHand(x) \in applied
      BY <1>3 DEF Duplicate
    <2>5. AtHand(x) \in ToTry(x) /\ proc[x] = "migrate"
      BY <1>1, <2>4, AtWork DEF ToTry
    <2>6. x \in surprised
      BY <1>1, <2>4, <2>5 DEF IInv, Fresh
    <2> HIDE DEF r
    <2> QED  BY <1>1, <1>2, <2>1, <2>2, <2>3, <2>6, AtWork, Quiet
  <1>4. CASE ~Duplicate(x)
    <2> DEFINE r == [task[x] EXCEPT !.stmt = @ + 1,
                       !.pc = IF task[x].stmt = Len(Statements(x)) THEN "commit" ELSE "run"]
    <2>1. Become(x, r)
      BY <1>4 DEF Statement
    <2>2. DOMAIN r = Fields /\ r.pc \in {"commit", "run"} /\ r.error = "none" /\ r.commits = 0
      BY <1>1 DEF Fields
    <2>3. EffectOf(r)
      BY <2>2 DEF EffectOf
    <2> HIDE DEF r
    <2> QED  BY <1>1, <1>2, <2>1, <2>2, <2>3, AtWork, Quiet
  <1> QED  BY <1>3, <1>4

LEMMA BreakDeadlockKeeps ==
  ASSUME IInv, Last \in Nat, NEW x \in Tasks, BreakDeadlock(x)
  PROVE  IInv'
  <1> DEFINE r == [task[x] EXCEPT !.pc = "rollback", !.error = "deadlock"]
  <1>1. task[x].pc = "run" /\ Become(x, r) /\ UNCHANGED <<bootVars, orphans>>
    BY CycleRuns DEF BreakDeadlock
  <1>2. DOMAIN task[x] = Fields /\ task[x].error = "none" /\ task[x].commits = 0
    BY <1>1 DEF IInv, Shapes, Effect, EffectOf
  <1>3. DOMAIN r = Fields /\ r.pc = "rollback" /\ r.error = "deadlock" /\ r.commits = 0
    BY <1>2 DEF Fields
  <1>4. EffectOf(r)
    BY <1>3 DEF EffectOf
  <1> HIDE DEF r
  <1> QED  BY <1>1, <1>2, <1>3, <1>4, AtWork, Quiet

LEMMA RollbackKeeps ==
  ASSUME IInv, Last \in Nat, NEW x \in Tasks, Rollback(x)
  PROVE  IInv'
  <1> DEFINE r == AfterFailure(task[x])
  <1>1. task[x].pc = "rollback" /\ Become(x, r) /\ UNCHANGED <<bootVars, orphans>>
    BY DEF Rollback
  <1>2. DOMAIN task[x] = Fields /\ EffectOf(task[x])
    BY DEF IInv, Shapes, Effect
  <1>3. CASE Retryable(task[x].error) /\ task[x].attempt < MaxRetries
    <2>1. DOMAIN r = Fields /\ r.pc = "sleep" /\ r.error = "none" /\ r.commits = task[x].commits
      BY <1>2, <1>3 DEF AfterFailure, Fields
    <2>2. EffectOf(r) /\ task[x].error = "deadlock"
      BY <1>1, <1>2, <1>3, <2>1 DEF EffectOf, Retryable
    <2> HIDE DEF r
    <2> QED  BY <1>1, <2>1, <2>2, AtWork, Quiet
  <1>4. CASE ~(Retryable(task[x].error) /\ task[x].attempt < MaxRetries)
    <2>1. /\ DOMAIN r = Fields /\ r.pc = "thrown" /\ r.error = task[x].error
          /\ r.commits = task[x].commits
      BY <1>2, <1>4 DEF AfterFailure, Fields
    <2>2. EffectOf(r)
      BY <1>1, <1>2, <2>1 DEF EffectOf
    <2>3. x \in Procs => (r.error = "duplicate" => x \in surprised)
      BY <2>1 DEF IInv, Fresh
    <2> HIDE DEF r
    <2> QED  BY <1>1, <2>1, <2>2, <2>3, AtWork, Quiet
  <1> QED  BY <1>3, <1>4

LEMMA WriteKeeps ==
  ASSUME IInv, Last \in Nat, Writers \cap Procs = {}, NEW w \in Writers, Write(w)
  PROVE  IInv'
  <1> DEFINE r == [NoTask EXCEPT !.pc = "connect"]
  <1>1. Become(w, r) /\ UNCHANGED <<bootVars, orphans>> /\ w \in Tasks /\ w \notin Procs
    BY DEF Write, Tasks
  <1>2. DOMAIN r = Fields /\ EffectOf(r)
    BY DEF NoTask, Fields, EffectOf
  <1> HIDE DEF r
  <1> QED  BY <1>1, <1>2, Quiet

LEMMA ApplyKeeps ==
  ASSUME IInv, Last \in Nat, NEW p \in Procs, Apply(p)
  PROVE  IInv'
  <1> DEFINE r == [NoTask EXCEPT !.pc = "connect"]
  <1>1. /\ Become(p, r) /\ UNCHANGED <<bootVars, orphans>> /\ p \in Tasks
        /\ proc[p] = "migrate" /\ pending[p] # {} /\ task[p].pc = "idle"
    BY DEF Apply, Tasks
  <1>2. DOMAIN r = Fields /\ EffectOf(r) /\ r.pc = "connect" /\ r.error = "none"
    BY DEF NoTask, Fields, EffectOf
  <1>3. task[p].error = "none"
    BY <1>1 DEF IInv, Effect, EffectOf
  <1> HIDE DEF r
  <1> QED  BY <1>1, <1>2, <1>3, Quiet

-----------------------------------------------------------------------------
(***************************************************************************)
(* Steps that may apply a migration.                                       *)
(***************************************************************************)

(* What the schema's own facts become when the migrations of S commit. *)
LEMMA Grows ==
  ASSUME IInv, Last \in Nat, NEW S, \A m \in S : m \in 1 .. Last /\ 1 .. (m - 1) \subseteq applied,
         applied' = applied \cup S, UNCHANGED <<proc, pending>>, orphans' \subseteq orphans
  PROVE  /\ Prefix'
         /\ \A p \in Procs : Front(p)' /\ Up(p)'
         /\ \A o \in orphans' : Late(o)'
  <1>1. Prefix'
    BY OneMore DEF IInv, Prefix
  <1>2. applied \subseteq applied' /\ applied' \subseteq 1 .. Last
    BY <1>1 DEF Prefix
  <1>3. ASSUME NEW p \in Procs
        PROVE  Front(p)' /\ Up(p)'
    <2>1. Front(p)'
      <3> SUFFICES ASSUME proc[p] = "migrate"
                   PROVE  \E k \in 1 .. Last + 1 : /\ pending[p] = k .. Last
                                                   /\ 1 .. (k - 1) \subseteq applied'
        BY DEF Front
      <3>1. PICK k \in 1 .. Last + 1 : pending[p] = k .. Last /\ 1 .. (k - 1) \subseteq applied
        BY DEF IInv, Front
      <3> QED  BY <3>1, <1>2
    <2>2. Up(p)'
      BY <1>2 DEF IInv, Up
    <2> QED  BY <2>1, <2>2
  <1>4. \A o \in orphans' : Late(o)'
    BY <1>2 DEF IInv, Late
  <1> QED  BY <1>1, <1>3, <1>4

(* A commit of x, told to the client or not: its call goes on with record r. *)
LEMMA CommitKeeps ==
  ASSUME IInv, Last \in Nat, NEW x \in Tasks, task[x].pc = "commit", NEW r, DOMAIN r = Fields,
         Become(x, r), EffectOf(r), r.pc = "done" \/ (r.error = "lost" /\ r.pc = "rollback"),
         applied' = applied \cup Applied(x),
         UNCHANGED <<proc, pending, locker, surprised, orphans>>
  PROVE  IInv'
  <1> USE DEF IInv
  <1>1. /\ DOMAIN task' = Tasks /\ task'[x] = r
        /\ \A y \in Tasks \ {x} : task'[y] = task[y]
        /\ \A y \in Tasks : DOMAIN task'[y] = Fields
    BY Moved
  <1>2. x \in Procs => /\ proc[x] = "migrate" /\ locker = x /\ pending[x] # {}
                       /\ AtHand(x) \in 1 .. Last /\ AtHand(x) \in pending[x]
                       /\ 1 .. (AtHand(x) - 1) \subseteq applied
                       /\ \A q \in Procs \ {x} : proc[q] # "migrate"
    BY AtWork
  <1>3. \A m \in Applied(x) : m \in 1 .. Last /\ 1 .. (m - 1) \subseteq applied
    BY <1>2 DEF Applied
  <1>4. /\ Prefix'
        /\ \A p \in Procs : Front(p)' /\ Up(p)'
        /\ \A o \in orphans' : Late(o)'
    BY <1>3, Grows
  <1>5. Shapes'
    BY <1>1 DEF Shapes
  <1>6. \A y \in Tasks : Effect(y)'
    BY <1>1 DEF Effect
  <1>7. ASSUME NEW p \in Procs
        PROVE  (Stage(p) /\ Locked(p) /\ Returned(p) /\ Fresh(p))'
    <2>1. p \in Tasks
      BY DEF Tasks
    <2>2. Locked(p)'
      BY DEF Locked
    <2>3. CASE p # x
      <3>1. task'[p] = task[p]
        BY <1>1, <2>1, <2>3
      <3>2. Stage(p)'
        BY <3>1 DEF Stage
      <3>3. AtHand(p)' = AtHand(p)
        BY DEF AtHand
      <3>4. Returned(p)'
        BY <3>1, <3>3 DEF Returned
      <3>5. ToTry(p)' = ToTry(p)
        BY <3>1, <3>3 DEF ToTry
      <3>6. Fresh(p)'
        <4>1. CASE x \in Procs
          BY <4>1, <3>1, <2>3, <1>2 DEF Fresh
        <4>2. CASE x \notin Procs
          BY <4>2, <3>1, <3>5 DEF Fresh, Applied
        <4> QED  BY <4>1, <4>2
      <3> QED  BY <2>2, <3>2, <3>4, <3>6
    <2>4. CASE p = x
      <3>1. Stage(p)'
        BY <1>1, <1>2, <2>4 DEF Stage
      <3>2. AtHand(p)' = AtHand(p)
        BY DEF AtHand
      <3>3. Returned(p)'
        BY <1>1, <2>4, <3>2 DEF Returned, Applied
      <3>4. Fresh(p)'
        <4>1. r.error # "duplicate"
          BY DEF EffectOf
        <4>2. CASE r.pc = "done"
          <5>1. ToTry(p)' = ToTry(p) \ {AtHand(p)}
            BY <1>1, <2>4, <3>2, <4>2 DEF ToTry
          <5>2. applied' = applied \cup {AtHand(p)}
            BY <2>4 DEF Applied
          <5>3. task[p].error = "none"
            BY <2>4 DEF Effect, EffectOf
          <5> QED  BY <1>1, <2>4, <4>1, <5>1, <5>2, <5>3 DEF Fresh
        <4>3. CASE r.error = "lost"
          BY <1>1, <2>4, <4>1, <4>3 DEF Fresh
        <4> QED  BY <4>2, <4>3
      <3> QED  BY <2>2, <3>1, <3>3, <3>4
    <2> QED  BY <2>3, <2>4
  <1> QED  BY <1>4, <1>5, <1>6, <1>7

LEMMA CommitStepKeeps ==
  ASSUME IInv, Last \in Nat, NEW x \in Tasks, Commit(x)
  PROVE  IInv'
  <1> DEFINE r == [task[x] EXCEPT !.pc = "done", !.conn = 0, !.commits = @ + 1]
  <1>1. /\ task[x].pc = "commit" /\ Become(x, r) /\ applied' = applied \cup Applied(x)
        /\ UNCHANGED <<proc, pending, locker, surprised, orphans>>
    BY DEF Commit
  <1>2. DOMAIN task[x] = Fields /\ task[x].commits = 0 /\ task[x].error = "none"
    BY <1>1 DEF IInv, Shapes, Effect, EffectOf
  <1>3. DOMAIN r = Fields /\ r.pc = "done" /\ r.error = "none" /\ r.commits = 1
    BY <1>2 DEF Fields
  <1>4. EffectOf(r)
    BY <1>3 DEF EffectOf
  <1> HIDE DEF r
  <1> QED  BY <1>1, <1>3, <1>4, CommitKeeps

LEMMA DropKeeps ==
  ASSUME IInv, Last \in Nat, NEW x \in Tasks, Drop(x)
  PROVE  IInv'
  <1>1. /\ task[x].pc \in {"run", "commit"}
        /\ UNCHANGED <<proc, pending, locker, surprised, orphans>>
    BY DEF Drop
  <1>2. DOMAIN task[x] = Fields /\ task[x].commits = 0 /\ task[x].error = "none"
    BY <1>1 DEF IInv, Shapes, Effect, EffectOf
  <1>3. PICK committed \in BOOLEAN :
            /\ committed => task[x].pc = "commit"
            /\ applied' = IF committed THEN applied \cup Applied(x) ELSE applied
            /\ Become(x, [task[x] EXCEPT !.pc = "rollback", !.error = "lost",
                                         !.commits = IF committed THEN @ + 1 ELSE @])
    BY DEF Drop
  <1> DEFINE r == [task[x] EXCEPT !.pc = "rollback", !.error = "lost",
                                  !.commits = IF committed THEN @ + 1 ELSE @]
  <1>4. /\ DOMAIN r = Fields /\ r.pc = "rollback" /\ r.error = "lost"
        /\ r.commits = IF committed THEN 1 ELSE 0
    BY <1>2 DEF Fields
  <1>5. EffectOf(r)
    BY <1>4 DEF EffectOf
  <1>6. Become(x, r)
    BY <1>3
  <1> HIDE DEF r
  <1>7. CASE committed
    BY <1>1, <1>3, <1>4, <1>5, <1>6, <1>7, CommitKeeps
  <1>8. CASE ~committed
    <2>1. UNCHANGED <<bootVars, orphans>>
      BY <1>1, <1>3, <1>8 DEF bootVars
    <2> QED  BY <1>1, <1>2, <1>4, <1>5, <1>6, <2>1, AtWork, Quiet
  <1> QED  BY <1>7, <1>8

(* The server ends a session, its COMMIT carried out or not. *)
LEMMA SessionEndsKeeps ==
  ASSUME IInv, Last \in Nat, NEW o \in orphans, SessionEnds(o)
  PROVE  IInv'
  <1> USE DEF IInv
  <1>1. PICK committed \in {FALSE, o.commit} :
            /\ applied' = IF committed THEN applied \cup o.applied ELSE applied
            /\ surprised' = IF committed /\ o.applied # {} THEN Procs ELSE surprised
    BY DEF SessionEnds
  <1>2. orphans' \subseteq orphans /\ UNCHANGED <<proc, pending, locker, task>>
    BY DEF SessionEnds
  <1> DEFINE S == IF committed THEN o.applied ELSE {}
  <1>3. applied' = applied \cup S /\ (surprised' = Procs \/ (S = {} /\ surprised' = surprised))
    BY <1>1
  <1>4. \A m \in S : m \in 1 .. Last /\ 1 .. (m - 1) \subseteq applied
    BY <1>1 DEF Late
  <1> HIDE DEF S
  <1>5. /\ Prefix'
        /\ \A p \in Procs : Front(p)' /\ Up(p)'
        /\ \A q \in orphans' : Late(q)'
    BY <1>2, <1>3, <1>4, Grows
  <1>6. Shapes' /\ \A y \in Tasks : Effect(y)'
    BY <1>2 DEF Shapes, Effect
  <1>7. ASSUME NEW p \in Procs
        PROVE  (Stage(p) /\ Locked(p) /\ Returned(p) /\ Fresh(p))'
    <2>1. Stage(p)' /\ Locked(p)' /\ ToTry(p)' = ToTry(p)
      BY <1>2 DEF Stage, Locked, ToTry, AtHand
    <2>2. Returned(p)'
      BY <1>2, <1>3 DEF Returned, AtHand
    <2>3. Fresh(p)'
      BY <1>2, <1>3, <2>1 DEF Fresh
    <2> QED  BY <2>1, <2>2, <2>3
  <1> QED  BY <1>5, <1>6, <1>7

-----------------------------------------------------------------------------
(***************************************************************************)
(* The steps of a boot.                                                    *)
(***************************************************************************)

(* A step that leaves the transactions and the schema alone keeps the invariant *)
(* when it keeps the stage of every process.                                    *)
LEMMA Boots ==
  ASSUME IInv, DOMAIN pending' = Procs, UNCHANGED <<task, applied, orphans>>,
         proc' \in [Procs -> {"down", "lock", "read", "migrate", "up", "failed"}],
         \A p \in Procs : (Stage(p) /\ Locked(p) /\ Front(p) /\ Returned(p) /\ Fresh(p) /\ Up(p))'
  PROVE  IInv'
  <1>1. Shapes' /\ Prefix' /\ (\A x \in Tasks : Effect(x)') /\ (\A o \in orphans' : Late(o)')
    BY DEF IInv, Shapes, Prefix, Effect, Late
  <1> QED  BY <1>1 DEF IInv

LEMMA StartKeeps ==
  ASSUME IInv, NEW p \in Procs, Start(p)
  PROVE  IInv'
  <1> USE DEF IInv
  <1>1. /\ proc[p] = "down" /\ proc' = [proc EXCEPT ![p] = "lock"]
        /\ UNCHANGED <<pending, locker, applied, surprised, task, orphans>>
    BY DEF Start
  <1>2. proc' \in [Procs -> {"down", "lock", "read", "migrate", "up", "failed"}]
    BY <1>1 DEF Shapes
  <1>3. \A q \in Procs : proc'[q] = IF q = p THEN "lock" ELSE proc[q]
    BY <1>1 DEF Shapes
  <1>4. \A q \in Procs : (Stage(q) /\ Locked(q) /\ Front(q) /\ Returned(q) /\ Fresh(q) /\ Up(q))'
    BY <1>1, <1>3 DEF Stage, Locked, Front, Returned, Fresh, Up, ToTry, AtHand
  <1>5. DOMAIN pending' = Procs
    BY <1>1 DEF Shapes
  <1> QED  BY <1>1, <1>2, <1>4, <1>5, Boots

LEMMA TakeLockKeeps ==
  ASSUME IInv, None \notin Procs, NEW p \in Procs, TakeLock(p)
  PROVE  IInv'
  <1> USE DEF IInv
  <1>1. /\ proc[p] = "lock" /\ locker = None /\ locker' = p /\ proc' = [proc EXCEPT ![p] = "read"]
        /\ UNCHANGED <<pending, applied, surprised, task, orphans>>
    BY DEF TakeLock
  <1>2. proc' \in [Procs -> {"down", "lock", "read", "migrate", "up", "failed"}]
    BY <1>1 DEF Shapes
  <1>3. \A q \in Procs : proc'[q] = IF q = p THEN "read" ELSE proc[q]
    BY <1>1 DEF Shapes
  <1>4. \A q \in Procs : proc[q] \notin {"read", "migrate"}
    BY <1>1 DEF Locked
  <1>5. \A q \in Procs : (Stage(q) /\ Locked(q) /\ Front(q) /\ Returned(q) /\ Fresh(q) /\ Up(q))'
    BY <1>1, <1>3, <1>4 DEF Stage, Locked, Front, Returned, Fresh, Up, ToTry, AtHand
  <1>6. DOMAIN pending' = Procs
    BY <1>1 DEF Shapes
  <1> QED  BY <1>1, <1>2, <1>5, <1>6, Boots

LEMMA ReadAppliedKeeps ==
  ASSUME IInv, Last \in Nat, NEW p \in Procs, ReadApplied(p)
  PROVE  IInv'
  <1> USE DEF IInv
  <1>1. /\ proc[p] = "read" /\ proc' = [proc EXCEPT ![p] = "migrate"]
        /\ pending' = [pending EXCEPT ![p] = (1 .. Last) \ applied]
        /\ surprised' = surprised \ {p}
        /\ UNCHANGED <<locker, applied, task, orphans>>
    BY DEF ReadApplied
  <1>2. proc' \in [Procs -> {"down", "lock", "read", "migrate", "up", "failed"}]
    BY <1>1 DEF Shapes
  <1>3. DOMAIN pending' = Procs
    BY <1>1 DEF Shapes
  <1>4. proc'[p] = "migrate" /\ pending'[p] = (1 .. Last) \ applied
    BY <1>1 DEF Shapes
  <1>5. task[p].pc = "idle" /\ task[p].error = "none" /\ locker = p
    <2>1. p \in Tasks
      BY DEF Tasks
    <2> QED  BY <1>1, <2>1 DEF Stage, Locked, Effect, EffectOf
  <1>6. ASSUME NEW q \in Procs
        PROVE  (Stage(q) /\ Locked(q) /\ Front(q) /\ Returned(q) /\ Fresh(q) /\ Up(q))'
    <2>1. CASE q = p
      <3>1. Front(p)'
        <4>1. PICK n \in 0 .. Last : applied = 1 .. n
          BY DEF Prefix
        <4>2. n \in Nat /\ n + 1 \in 1 .. (Last + 1) /\ (n + 1) - 1 = n
          BY <4>1
        <4>3. pending'[p] = (1 .. Last) \ (1 .. n) /\ applied' = 1 .. n
          BY <4>1, <1>1, <1>4
        <4>4. (1 .. Last) \ (1 .. n) = (n + 1) .. Last
          BY <4>2
        <4> QED  BY <4>2, <4>3, <4>4 DEF Front
      <3>2. Fresh(p)'
        <4>1. ToTry(p)' \cap applied' = {}
          BY <1>1, <1>4 DEF ToTry
        <4> QED  BY <4>1, <1>1, <1>5 DEF Fresh
      <3>3. Stage(p)' /\ Locked(p)' /\ Returned(p)' /\ Up(p)'
        BY <1>1, <1>4, <1>5 DEF Stage, Locked, Returned, Up
      <3> QED  BY <2>1, <3>1, <3>2, <3>3
    <2>2. CASE q # p
      <3>1. proc'[q] = proc[q] /\ pending'[q] = pending[q] /\ (q \in surprised <=> q \in surprised')
        BY <1>1, <2>2 DEF Shapes
      <3> QED  BY <1>1, <3>1 DEF Stage, Locked, Front, Returned, Fresh, Up, ToTry, AtHand
    <2> QED  BY <2>1, <2>2
  <1> QED  BY <1>1, <1>2, <1>3, <1>6, Boots

LEMMA BootedKeeps ==
  ASSUME IInv, Last \in Nat, NEW p \in Procs, Booted(p)
  PROVE  IInv'
  <1> USE DEF IInv
  <1>1. /\ proc[p] = "migrate"
        /\ UNCHANGED <<pending, applied, surprised, task, orphans>>
        /\ \/ pending[p] = {} /\ proc' = [proc EXCEPT ![p] = "up"]
           \/ task[p].pc = "thrown" /\ proc' = [proc EXCEPT ![p] = "failed"]
    BY DEF Booted
  <1>2. proc' \in [Procs -> {"down", "lock", "read", "migrate", "up", "failed"}]
    BY <1>1 DEF Shapes
  <1>3. DOMAIN pending' = Procs
    BY <1>1 DEF Shapes
  <1>4. \A q \in Procs \ {p} : proc'[q] = proc[q] /\ proc[q] \notin {"read", "migrate"}
    BY <1>1 DEF Shapes, Locked
  <1>5. \/ proc'[p] = "up" /\ pending[p] = {} /\ task[p].pc = "idle"
        \/ proc'[p] = "failed" /\ task[p].pc = "thrown"
    BY <1>1 DEF Shapes, Stage
  <1>6. pending[p] = {} => applied = 1 .. Last
    <2>1. PICK k \in 1 .. Last + 1 : pending[p] = k .. Last /\ 1 .. (k - 1) \subseteq applied
      BY <1>1 DEF Front
    <2>2. pending[p] = {} => k - 1 = Last
      BY <2>1
    <2>3. PICK n \in 0 .. Last : applied = 1 .. n
      BY DEF Prefix
    <2>4. 1 .. n \subseteq 1 .. Last
      BY <2>3
    <2> QED  BY <2>1, <2>2, <2>3, <2>4
  <1>7. ASSUME NEW q \in Procs
        PROVE  (Stage(q) /\ Locked(q) /\ Front(q) /\ Returned(q) /\ Fresh(q) /\ Up(q))'
    <2>1. CASE q = p
      BY <1>1, <1>5, <1>6, <2>1 DEF Stage, Locked, Front, Returned, Fresh, Up, AtHand
    <2>2. CASE q # p
      BY <1>1, <1>4, <2>2 DEF Stage, Locked, Front, Returned, Fresh, Up, ToTry, AtHand
    <2> QED  BY <2>1, <2>2
  <1> QED  BY <1>1, <1>2, <1>3, <1>7, Boots

LEMMA LockSessionEndsKeeps ==
  ASSUME IInv, "gone" \notin Procs, LockSessionEnds
  PROVE  IInv'
  <1> USE DEF IInv
  <1>1. locker = "gone" /\ UNCHANGED <<proc, pending, applied, surprised, task, orphans>>
    BY DEF LockSessionEnds
  <1>2. \A p \in Procs : proc[p] \notin {"read", "migrate"}
    BY <1>1 DEF Locked
  <1>3. \A p \in Procs : (Stage(p) /\ Locked(p) /\ Front(p) /\ Returned(p) /\ Fresh(p) /\ Up(p))'
    BY <1>1, <1>2 DEF Stage, Locked, Front, Returned, Fresh, Up, ToTry, AtHand
  <1>4. /\ DOMAIN pending' = Procs
        /\ proc' \in [Procs -> {"down", "lock", "read", "migrate", "up", "failed"}]
    BY <1>1 DEF Shapes
  <1> QED  BY <1>1, <1>3, <1>4, Boots

LEMMA MigratedKeeps ==
  ASSUME IInv, Last \in Nat, NEW p \in Procs, Migrated(p)
  PROVE  IInv'
  <1> USE DEF IInv
  <1>1. /\ task[p].pc = "done" /\ Become(p, NoTask)
        /\ pending' = [pending EXCEPT ![p] = @ \ {AtHand(p)}]
        /\ UNCHANGED <<proc, locker, applied, surprised, orphans>>
    BY DEF Migrated
  <1>2. p \in Tasks /\ DOMAIN NoTask = Fields /\ EffectOf(NoTask)
    BY DEF Tasks, NoTask, Fields, EffectOf
  <1>3. /\ DOMAIN task' = Tasks /\ task'[p] = NoTask
        /\ \A y \in Tasks \ {p} : task'[y] = task[y]
        /\ \A y \in Tasks : DOMAIN task'[y] = Fields
    BY <1>1, <1>2, Moved
  <1>4. NoTask.pc = "idle" /\ NoTask.error = "none"
    BY DEF NoTask
  <1>5. Shapes' /\ Prefix' /\ (\A x \in Tasks : Effect(x)') /\ (\A o \in orphans' : Late(o)')
    BY <1>1, <1>2, <1>3 DEF Shapes, Prefix, Effect, Late
  <1>6. ASSUME NEW q \in Procs
        PROVE  (Stage(q) /\ Locked(q) /\ Front(q) /\ Returned(q) /\ Fresh(q) /\ Up(q))'
    <2>1. CASE q = p
      <3>1. pending'[p] = pending[p] \ {AtHand(p)}
        BY <1>1 DEF Shapes
      <3>2. /\ proc[p] = "migrate" /\ AtHand(p) \in 1 .. Last
            /\ 1 .. (AtHand(p) - 1) \subseteq applied
            /\ pending[p] \ {AtHand(p)} = AtHand(p) + 1 .. Last
        BY <1>1, AtWork
      <3>3. Front(p)'
        <4>1. AtHand(p) \in applied
          BY <1>1 DEF Returned
        <4>2. \A k \in 1 .. Last : k + 1 \in 1 .. (Last + 1) /\ (k + 1) - 1 = k
          OBVIOUS
        <4>3. \A k \in 1 .. Last : 1 .. (k - 1) \subseteq applied /\ k \in applied => 1 .. k \subseteq applied
          OBVIOUS
        <4>4. \A k : k = AtHand(p) => /\ k + 1 \in 1 .. (Last + 1)
                                     /\ pending'[p] = k + 1 .. Last
                                     /\ 1 .. ((k + 1) - 1) \subseteq applied'
          BY <1>1, <3>1, <3>2, <4>1, <4>2, <4>3
        <4> QED  BY <4>4 DEF Front
      <3>4. ToTry(p)' = ToTry(p)
        BY <1>1, <1>3, <1>4, <3>1 DEF ToTry
      <3>5. Fresh(p)'
        <4>1. task[p].error = "none"
          BY <1>1, <1>2 DEF Effect, EffectOf
        <4> QED  BY <1>1, <1>3, <1>4, <3>4, <4>1 DEF Fresh
      <3>6. Stage(p)' /\ Locked(p)' /\ Returned(p)' /\ Up(p)'
        BY <1>1, <1>3, <1>4, <3>2 DEF Stage, Locked, Returned, Up
      <3> QED  BY <2>1, <3>3, <3>5, <3>6
    <2>2. CASE q # p
      <3>1. task'[q] = task[q] /\ pending'[q] = pending[q]
        BY <1>1, <1>3, <2>2 DEF Shapes, Tasks
      <3>2. AtHand(q)' = AtHand(q) /\ ToTry(q)' = ToTry(q)
        BY <3>1 DEF AtHand, ToTry
      <3>3. Stage(q)' /\ Locked(q)' /\ Front(q)' /\ Returned(q)' /\ Up(q)'
        BY <1>1, <3>1, <3>2 DEF Stage, Locked, Front, Returned, Up
      <3>4. Fresh(q)'
        BY <1>1, <3>1, <3>2 DEF Fresh
      <3> QED  BY <3>3, <3>4
    <2> QED  BY <2>1, <2>2
  <1> QED  BY <1>5, <1>6

(* A crash takes a process's transactions with it, but for a COMMIT on its way. *)
LEMMA CrashKeeps ==
  ASSUME IInv, Last \in Nat, NEW p \in Procs, Crash(p)
  PROVE  IInv'
  <1> USE DEF IInv
  <1> DEFINE lost == {x \in Tasks : ProcOf(x) = p /\ task[x].conn \in open}
  <1> DEFINE left == {[conn |-> task[x].conn, commit |-> task[x].pc = "commit",
                       applied |-> Applied(x)] : x \in lost}
  <1>1. /\ proc' = [proc EXCEPT ![p] = "down"]
        /\ pending' = [pending EXCEPT ![p] = {}]
        /\ locker' = IF locker = p THEN "gone" ELSE locker
        /\ orphans' = orphans \cup left
        /\ task' = [x \in Tasks |-> IF ProcOf(x) # p THEN task[x] ELSE NoTask]
        /\ UNCHANGED <<applied, surprised>>
    BY DEF Crash
  <1>2. NoTask.pc = "idle" /\ NoTask.error = "none" /\ DOMAIN NoTask = Fields /\ EffectOf(NoTask)
    BY DEF NoTask, Fields, EffectOf
  <1>3. Shapes' /\ Prefix' /\ \A x \in Tasks : Effect(x)'
    BY <1>1, <1>2 DEF Shapes, Prefix, Effect
  <1>4. \A q \in Procs : task'[q] = IF q = p THEN NoTask ELSE task[q]
    BY <1>1 DEF Tasks, ProcOf
  <1>5. ASSUME NEW q \in Procs
        PROVE  (Stage(q) /\ Locked(q) /\ Front(q) /\ Returned(q) /\ Fresh(q) /\ Up(q))'
    <2>1. CASE q = p
      <3>1. proc'[p] = "down" /\ task'[p] = NoTask
        BY <1>1, <1>4 DEF Shapes
      <3> QED  BY <2>1, <3>1, <1>2 DEF Stage, Locked, Front, Returned, Fresh, Up
    <2>2. CASE q # p
      <3>1. proc'[q] = proc[q] /\ pending'[q] = pending[q] /\ task'[q] = task[q]
        BY <1>1, <1>4, <2>2 DEF Shapes
      <3>2. AtHand(q)' = AtHand(q) /\ ToTry(q)' = ToTry(q)
        BY <3>1 DEF AtHand, ToTry
      <3>3. Locked(q)'
        BY <1>1, <2>2, <3>1 DEF Locked
      <3>4. Stage(q)' /\ Front(q)' /\ Returned(q)' /\ Fresh(q)' /\ Up(q)'
        BY <1>1, <3>1, <3>2 DEF Stage, Front, Returned, Fresh, Up
      <3> QED  BY <3>3, <3>4
    <2> QED  BY <2>1, <2>2
  <1>6. ASSUME NEW x \in lost, task[x].pc = "commit", NEW m \in Applied(x)
        PROVE  m \in 1 .. Last /\ 1 .. (m - 1) \subseteq applied
    BY <1>6, AtWork DEF Applied
  <1>7. ASSUME NEW o \in left
        PROVE  Late(o)
    <2>1. PICK x \in lost : o = [conn |-> task[x].conn, commit |-> task[x].pc = "commit",
                                 applied |-> Applied(x)]
      OBVIOUS
    <2>2. o.applied = Applied(x)
      BY <2>1
    <2>3. o.commit = (task[x].pc = "commit")
      BY <2>1, Zenon
    <2> HIDE DEF lost
    <2>4. o.commit => \A m \in o.applied : m \in 1 .. Last /\ 1 .. (m - 1) \subseteq applied
      BY <2>2, <2>3, <1>6, Zenon
    <2> QED  BY <2>4 DEF Late
  <1> HIDE DEF left
  <1>8. \A o \in orphans' : Late(o)'
    BY <1>1, <1>7 DEF Late
  <1> QED  BY <1>3, <1>5, <1>8

-----------------------------------------------------------------------------
(***************************************************************************)
(* The invariant, and what follows from it.                                *)
(***************************************************************************)
LEMMA InitHolds ==
  ASSUME Init, Last \in Nat
  PROVE  IInv
  <1>1. /\ DOMAIN NoTask = Fields /\ EffectOf(NoTask)
        /\ NoTask.pc = "idle" /\ NoTask.error = "none"
    BY DEF NoTask, Fields, EffectOf
  <1>2. /\ task = [x \in Tasks |-> NoTask] /\ proc = [p \in Procs |-> "down"]
        /\ pending = [p \in Procs |-> {}] /\ applied = {} /\ orphans = {}
    BY DEF Init
  <1>3. Shapes /\ \A x \in Tasks : Effect(x)
    BY <1>1, <1>2 DEF Shapes, Effect
  <1>4. applied = 1 .. 0 /\ 0 \in 0 .. Last
    BY <1>2
  <1>5. Prefix
    BY <1>4 DEF Prefix
  <1>6. \A p \in Procs : p \in Tasks /\ proc[p] = "down" /\ task[p] = NoTask
    BY <1>2 DEF Tasks
  <1>7. \A p \in Procs : Stage(p) /\ Locked(p) /\ Front(p) /\ Returned(p) /\ Fresh(p) /\ Up(p)
    BY <1>1, <1>6 DEF Stage, Locked, Front, Returned, Fresh, Up
  <1> QED  BY <1>2, <1>3, <1>5, <1>7 DEF IInv

LEMMA StutterHolds ==
  ASSUME IInv, UNCHANGED vars
  PROVE  IInv'
  <1>1. UNCHANGED <<proc, pending, locker, applied, surprised, task, orphans>>
    BY DEF vars, bootVars
  <1>2. \A p \in Procs : (Stage(p) /\ Locked(p) /\ Front(p) /\ Returned(p) /\ Fresh(p) /\ Up(p))'
    BY <1>1 DEF IInv, Stage, Locked, Front, Returned, Fresh, Up, ToTry, AtHand
  <1> QED  BY <1>1, <1>2, Boots DEF IInv, Shapes

LEMMA NextKeeps ==
  ASSUME IInv, [Next]_vars
  PROVE  IInv'
  <1>1. /\ Last \in Nat /\ Writers \cap Procs = {}
        /\ None \notin Procs /\ "gone" \notin Procs
    BY PostgresAssumption
  <1>2. ASSUME NEW x \in Tasks, Go(x) \/ BreakDeadlock(x) \/ Drop(x)
        PROVE  IInv'
    BY <1>1, <1>2, BeginKeeps, StatementKeeps, CommitStepKeeps, RollbackKeeps, WakeKeeps,
       BreakDeadlockKeeps, DropKeeps DEF Go
  <1>3. ASSUME NEW p \in Procs, Boot(p) \/ Crash(p)
        PROVE  IInv'
    BY <1>1, <1>3, StartKeeps, TakeLockKeeps, ReadAppliedKeeps, ApplyKeeps, MigratedKeeps,
       BootedKeeps, CrashKeeps DEF Boot
  <1>4. CASE UNCHANGED vars
    BY <1>4, StutterHolds
  <1> QED  BY <1>1, <1>2, <1>3, <1>4, WriteKeeps, LockSessionEndsKeeps, SessionEndsKeeps DEF Next

THEOREM Invariance == Spec => []IInv
  <1>1. Init => IInv
    BY InitHolds, PostgresAssumption
  <1>2. IInv /\ [Next]_vars => IInv'
    BY NextKeeps
  <1> QED  BY <1>1, <1>2, PTL DEF Spec

(* A call of transaction() takes effect at most once, through retries, drops in the  *)
(* middle of COMMIT and crashes (postgres.ts); one that returns took effect.         *)
THEOREM CallsTakeEffectOnce == Spec => []AppliedOnce
  <1>1. IInv => AppliedOnce
    BY DEF IInv, Effect, EffectOf, AppliedOnce
  <1> QED  BY <1>1, Invariance, PTL

(* The migrations are applied in the order of their ids and a process serves a      *)
(* complete schema, whichever processes booted and crashed before (migrate.ts).     *)
THEOREM SchemaStaysComplete == Spec => []SchemaComplete
  <1>1. IInv => SchemaComplete
    <2> SUFFICES ASSUME IInv
                 PROVE  SchemaComplete
      OBVIOUS
    <2>1. PICK n \in 0 .. Last : applied = 1 .. n
      BY DEF IInv, Prefix
    <2>2. \A m \in 1 .. n : 1 .. m \subseteq 1 .. n
      BY PostgresAssumption
    <2> QED  BY <2>1, <2>2 DEF IInv, Up, SchemaComplete
  <1> QED  BY <1>1, Invariance, PTL

(* No boot fails on a migration that another applied under the advisory lock, but   *)
(* for one that a process committed from beyond its crash (migrate.ts).             *)
THEOREM BootsTakeTurns == Spec => []BootsInTurn
  <1>1. IInv => BootsInTurn
    BY DEF IInv, Fresh, BootsInTurn
  <1> QED  BY <1>1, Invariance, PTL

-----------------------------------------------------------------------------
(***************************************************************************)
(* The pool.  Its invariant stands on IInv: what the boots and the schema  *)
(* are about does not depend on the connections.                           *)
(***************************************************************************)
Total == SumFunctionOnSet(PoolMax, Procs)

TaskType ==
    [pc : {"idle", "connect", "run", "commit", "rollback", "sleep", "done", "thrown"},
     conn : Conns \cup {0}, stmt : Nat, attempt : 0 .. MaxRetries,
     error : {"none", "deadlock", "lost", "duplicate"}, commits : Nat]

OrphanConns == {o.conn : o \in orphans}

(* The types of what boots keep, and of the pool. *)
BootTypes ==
    /\ pending \in [Procs -> SUBSET (1 .. Last)]
    /\ locker \in Procs \cup {None, "gone"}
    /\ surprised \subseteq Procs

PoolTypes ==
    /\ task \in [Tasks -> TaskType]
    /\ idle \in [Procs -> SUBSET Conns]
    /\ open \subseteq Conns
    /\ locks \in [Keys -> Conns \cup {0}]
    /\ OrphanConns \subseteq Conns
    /\ crashes \in 0 .. MaxCrashes

(* A session is idle in one pool, or one task's, or an orphan. *)
Apart ==
    /\ \A p, q \in Procs : p # q => idle[p] \cap idle[q] = {}
    /\ \A p \in Procs : \A x \in Tasks : task[x].conn \notin idle[p]
    /\ \A x, y \in Tasks : task[x].conn = task[y].conn /\ task[x].conn # 0 => x = y
    /\ \A p \in Procs : idle[p] \cap OrphanConns = {}
    /\ \A x \in Tasks : task[x].conn \notin OrphanConns

(* A transaction has a session from BEGIN to its end, an idle session has none. *)
Working ==
    /\ \A x \in Tasks : /\ task[x].pc \in {"run", "commit"} => task[x].conn \in open
                        /\ task[x].pc \in {"run", "commit", "rollback"} => task[x].conn # 0
    /\ \A p \in Procs : idle[p] \cap open = {}

Within == \A p \in Procs : Cardinality(idle[p]) + Cardinality(InUse(p)) <= PoolMax[p]

(* A crash orphans one pool's sessions at the most. *)
Few == Cardinality(OrphanConns) <= crashes * Total

LocksHeld ==
    \A k \in Keys : locks[k] # 0 =>
        \/ \E x \in Tasks : task[x].conn = locks[k] /\ task[x].pc \in {"run", "commit"}
        \/ locks[k] \in OrphanConns

PInv == PoolTypes /\ Apart /\ Working /\ Within /\ Few /\ LocksHeld

-----------------------------------------------------------------------------
(* The numbers of the pools add up to a number, and so many sessions there may be. *)
LEMMA SessionFacts ==
  /\ Total \in Nat /\ MaxCrashes \in Nat
  /\ \A p \in Procs : PoolMax[p] \in Nat /\ PoolMax[p] <= Total
  /\ Conns \subseteq Nat \ {0} /\ IsFiniteSet(Conns)
  /\ Cardinality(Conns) = Total * (MaxCrashes + 1)
  <1>1. IsFiniteSet(Procs) /\ MaxCrashes \in Nat /\ \A p \in Procs : PoolMax[p] \in Nat
    BY PostgresAssumption
  <1>2. Total \in Nat
    BY <1>1, SumGrows DEF Total
  <1>3. ASSUME NEW p \in Procs
        PROVE  PoolMax[p] <= Total
    <2>1. \A x \in Procs : PoolMax[x] \in Int
      BY <1>1
    <2>2. /\ \A S \in SUBSET Procs : \A x \in S :
                SumFunctionOnSet(PoolMax, S) = PoolMax[x] + SumFunctionOnSet(PoolMax, S \ {x})
          /\ \A S \in SUBSET Procs : SumFunctionOnSet(PoolMax, S) \in Nat
      BY <1>1, <2>1, SumRemoves, SumGrows
    <2>3. Total = PoolMax[p] + SumFunctionOnSet(PoolMax, Procs \ {p})
      BY <2>2 DEF Total
    <2>4. SumFunctionOnSet(PoolMax, Procs \ {p}) \in Nat
      BY <2>2
    <2> QED  BY <1>1, <1>2, <2>3, <2>4
  <1>4. Total * (MaxCrashes + 1) \in Nat
    BY <1>1, <1>2
  <1>5. Conns = 1 .. Total * (MaxCrashes + 1)
    BY DEF Conns, Total
  <1> DEFINE n == Total * (MaxCrashes + 1)
  <1> HIDE DEF n
  <1>6. Conns = 1 .. n /\ n \in Nat
    BY <1>4, <1>5 DEF n
  <1>7. IsFiniteSet(Conns) /\ Cardinality(Conns) = n
    BY <1>6, FS_Interval
  <1>8. Conns \subseteq Nat \ {0}
    BY <1>6
  <1> QED  BY <1>1, <1>2, <1>3, <1>7, <1>8 DEF n

(* Sets within bounds have a union within the sum of the bounds; by the least *)
(* family that has not.                                                       *)
LEMMA UnionBound ==
  ASSUME NEW U, IsFiniteSet(U), NEW F, NEW f,
         \A x \in U : IsFiniteSet(F[x]) /\ f[x] \in Nat /\ Cardinality(F[x]) <= f[x]
  PROVE  \A S \in SUBSET U : /\ IsFiniteSet(UNION {F[x] : x \in S})
                             /\ Cardinality(UNION {F[x] : x \in S}) <= SumFunctionOnSet(f, S)
  <1> DEFINE All(S) == UNION {F[x] : x \in S}
             Good(S) == IsFiniteSet(All(S)) /\ Cardinality(All(S)) <= SumFunctionOnSet(f, S)
             C == {S \in SUBSET U : ~Good(S)}
  <1>1. SUFFICES ASSUME C # {} PROVE FALSE
    OBVIOUS
  <1>2. \A S \in SUBSET U : IsFiniteSet(S)
    BY FS_Subset
  <1>3. PICK S \in C : \A V \in C : Cardinality(S) <= Cardinality(V)
    <2>1. \A V \in C : IsFiniteSet(V)
      BY <1>2
    <2> HIDE DEF C
    <2> QED  BY <1>1, <2>1, SmallestSet
  <1>4. S # {}
    <2>1. All({}) = {}
      OBVIOUS
    <2>2. Good({})
      <3>1. SumFunctionOnSet(f, {}) = 0 /\ IsFiniteSet({}) /\ Cardinality({}) = 0
        BY SumEmpty, FS_EmptySet
      <3> HIDE DEF All
      <3> QED  BY <2>1, <3>1
    <2> QED  BY <1>3, <2>2
  <1>5. PICK x \in S : TRUE
    BY <1>4
  <1>6. S \ {x} \in SUBSET U /\ x \in U /\ S \in SUBSET U
    BY <1>3, <1>5
  <1>7. Good(S \ {x})
    <2>1. ~(Cardinality(S) <= Cardinality(S \ {x}))
      BY <1>2, <1>5, <1>6, OneLess
    <2> HIDE DEF Good
    <2> QED  BY <1>3, <1>6, <2>1
  <1>8. All(S) = All(S \ {x}) \cup F[x]
    BY <1>5
  <1>9. SumFunctionOnSet(f, S) = f[x] + SumFunctionOnSet(f, S \ {x})
        /\ SumFunctionOnSet(f, S \ {x}) \in Nat
    <2>1. \A y \in U : f[y] \in Int
      OBVIOUS
    <2> QED  BY <1>5, <1>6, <2>1, SumRemoves, SumGrows
  <1>10. Good(S)
    <2> DEFINE A == All(S \ {x})
    <2>1. IsFiniteSet(A) /\ Cardinality(A) <= SumFunctionOnSet(f, S \ {x})
      BY <1>7
    <2>2. IsFiniteSet(F[x]) /\ Cardinality(F[x]) <= f[x] /\ f[x] \in Nat
      BY <1>6
    <2> HIDE DEF A, All
    <2>3. /\ IsFiniteSet(A \cup F[x]) /\ IsFiniteSet(A \cap F[x])
          /\ Cardinality(A \cup F[x]) = Cardinality(A) + Cardinality(F[x]) - Cardinality(A \cap F[x])
      BY <2>1, <2>2, FS_Union, FS_Intersection
    <2>4. /\ Cardinality(A) \in Nat /\ Cardinality(F[x]) \in Nat /\ Cardinality(A \cap F[x]) \in Nat
          /\ Cardinality(A \cup F[x]) \in Nat
      BY <2>1, <2>2, <2>3, FS_CardinalityType
    <2>5. Cardinality(A \cup F[x]) <= SumFunctionOnSet(f, S)
      BY <1>9, <2>1, <2>2, <2>3, <2>4
    <2> QED  BY <1>8, <2>3, <2>5 DEF A
  <1> QED  BY <1>3, <1>10

(* A pool's sessions in use are finitely many, and those of its tasks. *)
LEMMA InUseFacts ==
  ASSUME PoolTypes, NEW p \in Procs
  PROVE  /\ InUse(p) \subseteq Conns /\ IsFiniteSet(InUse(p)) /\ Cardinality(InUse(p)) \in Nat
         /\ idle[p] \subseteq Conns /\ IsFiniteSet(idle[p]) /\ Cardinality(idle[p]) \in Nat
         /\ \A c : c \in InUse(p) <=> c # 0 /\ \E x \in Tasks : ProcOf(x) = p /\ task[x].conn = c
  <1>1. \A x \in Tasks : task[x].conn \in Conns \cup {0}
    BY DEF PoolTypes, TaskType
  <1>2. InUse(p) \subseteq Conns
    BY <1>1 DEF InUse
  <1>3. idle[p] \subseteq Conns
    BY DEF PoolTypes
  <1>4. \A c : c \in InUse(p) <=> c # 0 /\ \E x \in Tasks : ProcOf(x) = p /\ task[x].conn = c
    BY DEF InUse
  <1> QED  BY <1>2, <1>3, <1>4, SessionFacts, FS_Subset, FS_CardinalityType

(* Every task belongs to a process. *)
LEMMA HomeFacts ==
  \A x \in Tasks : ProcOf(x) \in Procs
BY PostgresAssumption DEF Tasks, ProcOf

(* A pool with room has a session to give: the server has numbers left, as the pools *)
(* are not all full and the orphans are those of so many crashes.                    *)
LEMMA RoomGives ==
  ASSUME PInv, NEW p \in Procs, HasRoom(p)
  PROVE  /\ Connection(p) \in Conns
         /\ \A q \in Procs \ {p} : Connection(p) \notin idle[q]
         /\ \A x \in Tasks : task[x].conn # Connection(p)
         /\ Connection(p) \notin OrphanConns
         /\ \/ Connection(p) \in idle[p]
            \/ idle[p] = {} /\ Cardinality(InUse(p)) < PoolMax[p]
  <1> USE DEF PInv
  <1>1. CASE idle[p] # {}
    <2>1. Connection(p) \in idle[p]
      <3>1. idle[p] \subseteq Nat
        BY SessionFacts DEF PoolTypes
      <3> QED  BY <1>1, <3>1, MinOf DEF Connection
    <2> QED  BY <2>1 DEF Apart, PoolTypes
  <1>2. CASE idle[p] = {}
    <2> DEFINE F == [q \in Procs |-> idle[q] \cup InUse(q)]
               live == UNION {F[q] : q \in Procs}
               others == UNION {F[q] : q \in Procs \ {p}}
               sum == SumFunctionOnSet(PoolMax, Procs \ {p})
    <2>1. Cardinality(InUse(p)) < PoolMax[p]
      BY <1>2 DEF HasRoom
    <2>2. ASSUME NEW q \in Procs
          PROVE  /\ IsFiniteSet(F[q]) /\ F[q] \subseteq Conns
                 /\ Cardinality(F[q]) <= PoolMax[q] /\ PoolMax[q] \in Nat
      <3>1. /\ IsFiniteSet(idle[q]) /\ IsFiniteSet(InUse(q))
            /\ Cardinality(idle[q]) \in Nat /\ Cardinality(InUse(q)) \in Nat
            /\ idle[q] \subseteq Conns /\ InUse(q) \subseteq Conns
        BY InUseFacts
      <3>2. /\ IsFiniteSet(idle[q] \cup InUse(q)) /\ IsFiniteSet(idle[q] \cap InUse(q))
            /\ Cardinality(idle[q] \cup InUse(q))
                 = Cardinality(idle[q]) + Cardinality(InUse(q)) - Cardinality(idle[q] \cap InUse(q))
        BY <3>1, FS_Union, FS_Intersection
      <3>3. Cardinality(idle[q] \cap InUse(q)) \in Nat /\ Cardinality(idle[q] \cup InUse(q)) \in Nat
        BY <3>2, FS_CardinalityType
      <3>4. Cardinality(idle[q]) + Cardinality(InUse(q)) <= PoolMax[q] /\ PoolMax[q] \in Nat
        BY SessionFacts DEF Within
      <3>5. F[q] = idle[q] \cup InUse(q)
        OBVIOUS
      <3> HIDE DEF F
      <3> QED  BY <3>1, <3>2, <3>3, <3>4, <3>5
    <2>3. IsFiniteSet(others) /\ Cardinality(others) <= sum
      <3>1. IsFiniteSet(Procs) /\ Procs \ {p} \in SUBSET Procs
        BY PostgresAssumption
      <3>2. \A q \in Procs : IsFiniteSet(F[q]) /\ PoolMax[q] \in Nat /\ Cardinality(F[q]) <= PoolMax[q]
        BY <2>2
      <3> HIDE DEF F
      <3>3. \A S \in SUBSET Procs :
               /\ IsFiniteSet(UNION {F[q] : q \in S})
               /\ Cardinality(UNION {F[q] : q \in S}) <= SumFunctionOnSet(PoolMax, S)
        BY <3>1, <3>2, UnionBound
      <3> QED  BY <3>1, <3>3
    <2>4. Total = PoolMax[p] + sum /\ sum \in Nat
      <3>1. IsFiniteSet(Procs) /\ \A q \in Procs : PoolMax[q] \in Nat /\ PoolMax[q] \in Int
        BY PostgresAssumption
      <3>2. /\ \A S \in SUBSET Procs : \A q \in S :
                  SumFunctionOnSet(PoolMax, S) = PoolMax[q] + SumFunctionOnSet(PoolMax, S \ {q})
            /\ \A S \in SUBSET Procs : SumFunctionOnSet(PoolMax, S) \in Nat
        BY <3>1, SumRemoves, SumGrows
      <3> QED  BY <3>2 DEF Total
    <2>5. Sessions = others \cup InUse(p) \cup OrphanConns
      <3>1. Sessions = live \cup OrphanConns
        <4>1. \A q \in Procs : F[q] = idle[q] \cup InUse(q)
          OBVIOUS
        <4> HIDE DEF F
        <4>2. live = UNION {idle[q] \cup InUse(q) : q \in Procs}
          BY <4>1
        <4> HIDE DEF live
        <4> QED  BY <4>2 DEF Sessions, OrphanConns
      <3>2. F[p] = InUse(p)
        BY <1>2
      <3>3. live = others \cup F[p]
        OBVIOUS
      <3> HIDE DEF F
      <3> QED  BY <3>1, <3>2, <3>3
    <2>6. IsFiniteSet(InUse(p)) /\ IsFiniteSet(OrphanConns)
      BY InUseFacts, SessionFacts, FS_Subset DEF PoolTypes
    <2> HIDE DEF F, live, others, sum
    <2>7. IsFiniteSet(Sessions)
          /\ Cardinality(Sessions)
               <= Cardinality(others) + Cardinality(InUse(p)) + Cardinality(OrphanConns)
          /\ Cardinality(Sessions) \in Nat
      <3> DEFINE A == others \cup InUse(p)
      <3>1. /\ IsFiniteSet(A) /\ IsFiniteSet(others \cap InUse(p))
            /\ Cardinality(A) = Cardinality(others) + Cardinality(InUse(p))
                                  - Cardinality(others \cap InUse(p))
        BY <2>3, <2>6, FS_Union, FS_Intersection
      <3>2. Cardinality(others \cap InUse(p)) \in Nat /\ Cardinality(others) \in Nat
            /\ Cardinality(InUse(p)) \in Nat /\ Cardinality(OrphanConns) \in Nat
        BY <2>3, <2>6, <3>1, FS_CardinalityType
      <3>3. Sessions = A \cup OrphanConns
        BY <2>5
      <3> HIDE DEF A
      <3>4. /\ IsFiniteSet(A \cup OrphanConns) /\ IsFiniteSet(A \cap OrphanConns)
            /\ Cardinality(A \cup OrphanConns) = Cardinality(A) + Cardinality(OrphanConns)
                                                   - Cardinality(A \cap OrphanConns)
        BY <2>6, <3>1, FS_Union, FS_Intersection
      <3>5. Cardinality(A \cap OrphanConns) \in Nat /\ Cardinality(A \cup OrphanConns) \in Nat
        BY <3>4, FS_CardinalityType
      <3> QED  BY <3>1, <3>2, <3>3, <3>4, <3>5
    <2>8. Cardinality(Sessions) < Cardinality(Conns)
      <3>1. /\ Cardinality(others) \in Nat /\ Cardinality(InUse(p)) \in Nat
            /\ Cardinality(OrphanConns) \in Nat
        BY <2>3, <2>6, FS_CardinalityType
      <3>2. crashes * Total <= MaxCrashes * Total /\ crashes * Total \in Nat
            /\ MaxCrashes * Total \in Nat
        <4>1. crashes \in 0 .. MaxCrashes /\ Total \in Nat /\ MaxCrashes \in Nat
          BY SessionFacts DEF PoolTypes
        <4>2. \A a \in Nat, b \in Nat, c \in Nat : a <= b => a * c <= b * c
          OBVIOUS
        <4> QED  BY <4>1, <4>2
      <3>3. Cardinality(Conns) = Total + MaxCrashes * Total
        BY SessionFacts
      <3>4. Cardinality(OrphanConns) <= crashes * Total
        BY DEF Few
      <3> DEFINE a == crashes * Total  b == MaxCrashes * Total
      <3>5. a <= b /\ a \in Nat /\ b \in Nat /\ Cardinality(Conns) = Total + b
            /\ Cardinality(OrphanConns) <= a
        BY <3>2, <3>3, <3>4
      <3> HIDE DEF a, b
      <3> QED  BY <2>1, <2>3, <2>4, <2>7, <3>1, <3>5, SessionFacts
    <2>9. Conns \ Sessions # {}
      <3> SUFFICES ASSUME Conns \subseteq Sessions
                   PROVE  FALSE
        OBVIOUS
      <3>1. Cardinality(Conns) <= Cardinality(Sessions)
        BY <2>7, FS_Subset
      <3>2. Cardinality(Conns) \in Nat
        BY SessionFacts, FS_CardinalityType
      <3> QED  BY <2>7, <2>8, <3>1, <3>2
    <2>10. Connection(p) \in Conns \ Sessions
      <3>1. Conns \ Sessions \in SUBSET Nat
        BY SessionFacts
      <3> QED  BY <1>2, <2>9, <3>1, MinOf DEF Connection
    <2>11. /\ \A q \in Procs : Connection(p) \notin idle[q] /\ Connection(p) \notin InUse(q)
           /\ Connection(p) \notin OrphanConns
      <3>1. \A c : c \notin Sessions => /\ \A q \in Procs : c \notin idle[q] /\ c \notin InUse(q)
                                        /\ c \notin OrphanConns
        BY DEF Sessions, OrphanConns
      <3> QED  BY <2>10, <3>1
    <2>12. \A x \in Tasks : task[x].conn # Connection(p)
      <3>1. Connection(p) # 0
        BY <2>10, SessionFacts
      <3> QED  BY <2>11, <3>1, HomeFacts, InUseFacts
    <2> QED  BY <1>2, <2>1, <2>10, <2>11, <2>12
  <1> QED  BY <1>1, <1>2

(***************************************************************************)
(* One task moves.                                                         *)
(***************************************************************************)
LEMMA Takes ==
  ASSUME PoolTypes, NEW x \in Tasks, NEW r \in TaskType, Become(x, r)
  PROVE  /\ task' \in [Tasks -> TaskType]
         /\ task'[x] = r
         /\ \A y \in Tasks \ {x} : task'[y] = task[y]
  BY DEF PoolTypes, Become

(* What one task does with its session alone: it keeps the session or gives it up,   *)
(* and with it the locks.                                                            *)
LEMMA TaskMoves ==
  ASSUME PInv, NEW x \in Tasks, NEW r \in TaskType, Become(x, r),
         r.conn \in {task[x].conn, 0},
         UNCHANGED <<idle, orphans, crashes>>,
         open' \in {open, open \ {task[x].conn}},
         r.pc \in {"run", "commit"} =>
            open' = open /\ task[x].pc \in {"run", "commit"} /\ r.conn = task[x].conn,
         r.pc = "rollback" => r.conn # 0,
         \/ locks' = locks /\ task[x].pc \notin {"run", "commit"}
         \/ locks' = Without(task[x].conn)
         \/ r.pc \in {"run", "commit"} /\ \E k : locks' = [locks EXCEPT ![k] = r.conn]
  PROVE  PInv'
  <1> USE DEF PInv
  <1>1. /\ task' \in [Tasks -> TaskType]
        /\ task'[x] = r
        /\ \A y \in Tasks \ {x} : task'[y] = task[y]
    BY Takes
  <1>2. \A y \in Tasks : task'[y].conn \in {task[y].conn, 0}
    BY <1>1
  <1>3. \A y \in Tasks : task[y].conn \in Conns \cup {0}
    BY DEF PoolTypes, TaskType
  <1>4. OrphanConns' = OrphanConns
    BY DEF OrphanConns
  <1>5. PoolTypes'
    <2>1. open' \subseteq Conns
      BY DEF PoolTypes
    <2>2. locks' \in [Keys -> Conns \cup {0}]
      <3>1. locks \in [Keys -> Conns \cup {0}] /\ r.conn \in Conns \cup {0}
        BY <1>3 DEF PoolTypes
      <3>2. Without(task[x].conn) \in [Keys -> Conns \cup {0}]
        BY <3>1 DEF Without
      <3>3. \A k : [locks EXCEPT ![k] = r.conn] \in [Keys -> Conns \cup {0}]
        BY <3>1
      <3> QED  BY <3>1, <3>2, <3>3
    <2> QED  BY <1>1, <1>4, <2>1, <2>2 DEF PoolTypes
  <1>6. Apart'
    <2>1. \A p \in Procs : 0 \notin idle[p]
      BY SessionFacts DEF PoolTypes
    <2>2. 0 \notin OrphanConns
      BY SessionFacts DEF PoolTypes
    <2> QED  BY <1>2, <1>4, <2>1, <2>2 DEF Apart
  <1>7. Working'
    <2>1. \A y \in Tasks \ {x} : task[y].conn # 0 => task[y].conn # task[x].conn
      BY DEF Apart
    <2> QED  BY <1>1, <2>1 DEF Working
  <1>8. Within'
    <2>1. ASSUME NEW p \in Procs
          PROVE  Cardinality(InUse(p)') <= Cardinality(InUse(p)) /\ Cardinality(InUse(p)') \in Nat
      <3>1. InUse(p)' \subseteq InUse(p)
        BY <1>2 DEF InUse
      <3>2. IsFiniteSet(InUse(p))
        BY InUseFacts
      <3>3. /\ IsFiniteSet(InUse(p)') /\ Cardinality(InUse(p)') <= Cardinality(InUse(p))
        BY <3>1, <3>2, FS_Subset
      <3> QED  BY <3>3, FS_CardinalityType
    <2>2. ASSUME NEW p \in Procs
          PROVE  Cardinality(idle'[p]) + Cardinality(InUse(p)') <= PoolMax[p]
      <3>1. /\ Cardinality(idle[p]) \in Nat /\ Cardinality(InUse(p)) \in Nat /\ PoolMax[p] \in Nat
            /\ Cardinality(idle[p]) + Cardinality(InUse(p)) <= PoolMax[p]
        BY InUseFacts, SessionFacts DEF Within
      <3>2. idle'[p] = idle[p]
        OBVIOUS
      <3>3. Cardinality(idle'[p]) = Cardinality(idle[p])
        BY <3>2
      <3> QED  BY <2>1, <3>1, <3>3
    <2> QED  BY <2>2 DEF Within
  <1>9. Few'
    BY <1>4 DEF Few
  <1>10. LocksHeld'
    <2>1. ASSUME NEW k \in Keys, locks'[k] # 0, locks'[k] = locks[k], locks[k] # task[x].conn
          PROVE  \/ \E y \in Tasks : task'[y].conn = locks'[k] /\ task'[y].pc \in {"run", "commit"}
                 \/ locks'[k] \in OrphanConns'
      BY <1>1, <1>4, <2>1 DEF LocksHeld
    <2>2. ASSUME NEW k \in Keys, locks[k] # 0, locks[k] = task[x].conn
          PROVE  task[x].pc \in {"run", "commit"}
      BY <2>2 DEF LocksHeld, Apart
    <2>3. CASE locks' = locks /\ task[x].pc \notin {"run", "commit"}
      BY <2>1, <2>2, <2>3 DEF LocksHeld
    <2>4. CASE locks' = Without(task[x].conn)
      <3>1. \A k \in Keys : locks'[k] = IF locks[k] = task[x].conn THEN 0 ELSE locks[k]
        BY <2>4 DEF Without
      <3> QED  BY <2>1, <3>1 DEF LocksHeld
    <2>5. CASE r.pc \in {"run", "commit"} /\ \E k : locks' = [locks EXCEPT ![k] = r.conn]
      <3>1. PICK k0 : locks' = [locks EXCEPT ![k0] = r.conn]
        BY <2>5
      <3>2. \A k \in Keys : locks'[k] = locks[k] \/ locks'[k] = r.conn
        BY <3>1 DEF PoolTypes
      <3>3. \E y \in Tasks : task'[y].conn = r.conn /\ task'[y].pc \in {"run", "commit"}
        BY <1>1, <2>5
      <3>4. r.conn = task[x].conn
        BY <2>5
      <3> QED  BY <2>1, <3>2, <3>3, <3>4 DEF LocksHeld
    <2> QED  BY <2>3, <2>4, <2>5
  <1> QED  BY <1>5, <1>6, <1>7, <1>8, <1>9, <1>10

(* A task that has not begun, or is over, has given up its session. *)
LEMMA NoTaskType ==
  /\ NoTask \in TaskType
  /\ [NoTask EXCEPT !.pc = "connect"] \in TaskType
BY PostgresAssumption DEF NoTask, TaskType

(***************************************************************************)
(* The steps of transaction() and of the server.                           *)
(***************************************************************************)

(* A statement locks a key for its own session, or fails and gives up its locks. *)
LEMMA StatementPool ==
  ASSUME PInv, NEW x \in Tasks, Statement(x)
  PROVE  PInv'
  <1> DEFINE r == task[x]
             c == r.conn
             k == Statements(x)[r.stmt]
             refused == [r EXCEPT !.pc = "rollback", !.error = "duplicate"]
             after == IF r.stmt = Len(Statements(x)) THEN "commit" ELSE "run"
             n == r.stmt + 1
             next == [r EXCEPT !.stmt = n, !.pc = after]
  <1>1. r \in TaskType
    BY DEF PInv, PoolTypes
  <1>2. r.pc = "run" /\ c # 0 /\ UNCHANGED <<idle, open, orphans, crashes>>
    BY DEF Statement, PInv, Working
  <1>3. CASE Duplicate(x)
    <2>1. Become(x, refused) /\ locks' = Without(c)
      BY <1>3 DEF Statement
    <2>2. refused \in TaskType /\ refused.conn = c /\ refused.pc = "rollback"
      BY <1>1 DEF TaskType
    <2> HIDE DEF refused
    <2> QED  BY <1>2, <2>1, <2>2, TaskMoves
  <1>4. CASE ~Duplicate(x)
    <2>1. Become(x, next) /\ locks' = [locks EXCEPT ![k] = c]
      BY <1>4 DEF Statement
    <2>2. after \in {"run", "commit"} /\ n \in Nat
      BY <1>1 DEF TaskType
    <2> HIDE DEF after, n, r
    <2>3. next \in TaskType /\ next.conn = r.conn /\ next.pc \in {"run", "commit"}
      BY <1>1, <2>2 DEF TaskType
    <2>4. \E key : locks' = [locks EXCEPT ![key] = c]
      BY <2>1
    <2> HIDE DEF next
    <2>5. r = task[x]
      BY DEF r
    <2> QED  BY <1>2, <2>1, <2>3, <2>4, <2>5, TaskMoves
  <1> QED  BY <1>3, <1>4

(* The transaction that the server aborts gives up its locks. *)
LEMMA BreakDeadlockPool ==
  ASSUME PInv, NEW x \in Tasks, BreakDeadlock(x)
  PROVE  PInv'
  <1> DEFINE r == [task[x] EXCEPT !.pc = "rollback", !.error = "deadlock"]
  <1>1. task[x].pc = "run" /\ task[x].conn # 0
    BY CycleRuns DEF BreakDeadlock, PInv, Working
  <1>2. /\ Become(x, r) /\ locks' = Without(task[x].conn)
        /\ UNCHANGED <<idle, open, orphans, crashes>>
    BY DEF BreakDeadlock
  <1>3. r \in TaskType /\ r.conn = task[x].conn /\ r.pc = "rollback"
    BY DEF PInv, PoolTypes, TaskType
  <1> HIDE DEF r
  <1> QED  BY <1>1, <1>2, <1>3, TaskMoves

(* A dropped connection is no transaction any more, and holds no lock. *)
LEMMA DropPool ==
  ASSUME PInv, NEW x \in Tasks, Drop(x)
  PROVE  PInv'
  <1>1. PICK committed \in BOOLEAN :
          Become(x, [task[x] EXCEPT !.pc = "rollback", !.error = "lost",
                                    !.commits = IF committed THEN @ + 1 ELSE @])
    BY DEF Drop
  <1> DEFINE n == IF committed THEN task[x].commits + 1 ELSE task[x].commits
             r == [task[x] EXCEPT !.pc = "rollback", !.error = "lost", !.commits = n]
  <1>2. task[x].conn # 0
    BY DEF Drop, PInv, Working
  <1>3. /\ open' = open \ {task[x].conn} /\ locks' = Without(task[x].conn)
        /\ UNCHANGED <<idle, orphans, crashes>>
    BY DEF Drop
  <1>4. n \in Nat
    BY DEF PInv, PoolTypes, TaskType
  <1>5. Become(x, r)
    BY <1>1
  <1> HIDE DEF n
  <1>6. r \in TaskType /\ r.conn = task[x].conn /\ r.pc = "rollback"
    BY <1>4 DEF PInv, PoolTypes, TaskType
  <1> HIDE DEF r
  <1> QED  BY <1>2, <1>3, <1>5, <1>6, TaskMoves

(* A backoff that is over takes no session yet. *)
LEMMA WakePool ==
  ASSUME PInv, NEW x \in Tasks, Wake(x)
  PROVE  PInv'
  <1> DEFINE r == [task[x] EXCEPT !.pc = "connect"]
  <1>1. Become(x, r) /\ task[x].pc = "sleep" /\ UNCHANGED <<idle, open, locks, orphans, crashes>>
    BY DEF Wake, poolVars
  <1>2. r \in TaskType /\ r.conn = task[x].conn /\ r.pc = "connect"
    BY DEF PInv, PoolTypes, TaskType
  <1> HIDE DEF r
  <1> QED  BY <1>1, <1>2, TaskMoves

(* A call of transaction(), a migration begun, a migration done with. *)
LEMMA FreshTaskPool ==
  ASSUME PInv, NEW x \in Tasks, task[x].pc \in {"idle", "done"},
         NEW r \in {NoTask, [NoTask EXCEPT !.pc = "connect"]}, Become(x, r),
         UNCHANGED <<poolVars, orphans, crashes>>
  PROVE  PInv'
  <1>1. r \in TaskType /\ r.conn = 0 /\ r.pc \in {"idle", "connect"}
    BY NoTaskType DEF NoTask
  <1>2. UNCHANGED <<idle, open, locks, orphans, crashes>>
    BY DEF poolVars
  <1> QED  BY <1>1, <1>2, TaskMoves

(* The locks of a transaction that is over are given up, those of the others stay held. *)
LEMMA LocksStayHeld ==
  ASSUME LocksHeld, Apart, NEW x \in Tasks, NEW c, c = task[x].conn, DOMAIN task' = Tasks,
         \A y \in Tasks \ {x} : task'[y] = task[y],
         OrphanConns' = OrphanConns,
         locks' = Without(c) \/ (locks' = locks /\ task[x].pc \notin {"run", "commit"})
  PROVE  LocksHeld'
  <1>1. \A k \in Keys : locks'[k] # 0 => locks'[k] = locks[k]
    BY DEF Without
  <1>2. \A k \in Keys : locks'[k] # 0 => locks[k] # c
    <2>1. CASE locks' = Without(c)
      BY <2>1 DEF Without
    <2>2. CASE locks' = locks /\ task[x].pc \notin {"run", "commit"}
      BY <2>2 DEF LocksHeld, Apart
    <2> QED  BY <2>1, <2>2
  <1> QED  BY <1>1, <1>2 DEF LocksHeld

(***************************************************************************)
(* A session goes back to its pool.                                        *)
(***************************************************************************)
LEMMA SessionReturns ==
  ASSUME PInv, NEW x \in Tasks, NEW r \in TaskType, Become(x, r), task[x].conn # 0,
         r.conn = 0, r.pc \notin {"run", "commit", "rollback"},
         idle' = [idle EXCEPT ![ProcOf(x)] = @ \cup {task[x].conn}],
         open' = open \ {task[x].conn},
         locks' = Without(task[x].conn) \/ (locks' = locks /\ task[x].pc \notin {"run", "commit"}),
         UNCHANGED <<orphans, crashes>>
  PROVE  PInv'
  <1> DEFINE c == task[x].conn
             p == ProcOf(x)
  <1> USE DEF PInv
  <1>1. /\ task' \in [Tasks -> TaskType]
        /\ task'[x] = r
        /\ \A y \in Tasks \ {x} : task'[y] = task[y]
    BY Takes
  <1>2. p \in Procs /\ c \in Conns /\ c # 0
    BY HomeFacts DEF PoolTypes, TaskType
  <1>3. /\ idle' \in [Procs -> SUBSET Conns]
        /\ idle'[p] = idle[p] \cup {c}
        /\ \A q \in Procs \ {p} : idle'[q] = idle[q]
    BY <1>2 DEF PoolTypes
  <1>4. OrphanConns' = OrphanConns
    BY DEF OrphanConns
  <1>5. /\ \A q \in Procs : c \notin idle[q] /\ 0 \notin idle[q]
        /\ c \notin OrphanConns /\ 0 \notin OrphanConns
        /\ \A y \in Tasks \ {x} : task[y].conn # c
    BY <1>2, SessionFacts DEF Apart, PoolTypes
  <1> HIDE DEF p
  <1>6. PoolTypes'
    <2>1. open' \subseteq Conns
      BY DEF PoolTypes
    <2>2. locks' \in [Keys -> Conns \cup {0}]
      BY DEF PoolTypes, Without
    <2> QED  BY <1>1, <1>3, <1>4, <2>1, <2>2 DEF PoolTypes
  <1>7. Apart'
    <2>1. \A q, s \in Procs : q # s => idle'[q] \cap idle'[s] = {}
      BY <1>2, <1>3, <1>5 DEF Apart
    <2>2. \A q \in Procs : \A y \in Tasks : task'[y].conn \notin idle'[q]
      <3>1. ASSUME NEW q \in Procs, NEW y \in Tasks \ {x}
            PROVE  task'[y].conn \notin idle'[q]
        BY <1>1, <1>2, <1>3, <1>5, <3>1 DEF Apart
      <3>2. ASSUME NEW q \in Procs
            PROVE  task'[x].conn \notin idle'[q]
        BY <1>1, <1>2, <1>3, <1>5, <3>2
      <3> QED  BY <3>1, <3>2
    <2>3. \A y, z \in Tasks : task'[y].conn = task'[z].conn /\ task'[y].conn # 0 => y = z
      BY <1>1 DEF Apart
    <2>4. \A q \in Procs : idle'[q] \cap OrphanConns' = {}
      BY <1>2, <1>3, <1>4, <1>5 DEF Apart
    <2>5. \A y \in Tasks : task'[y].conn \notin OrphanConns'
      BY <1>1, <1>4, <1>5 DEF Apart
    <2> QED  BY <2>1, <2>2, <2>3, <2>4, <2>5 DEF Apart
  <1>8. Working'
    <2>1. \A y \in Tasks : /\ task'[y].pc \in {"run", "commit"} => task'[y].conn \in open'
                           /\ task'[y].pc \in {"run", "commit", "rollback"} => task'[y].conn # 0
      BY <1>1, <1>5 DEF Working
    <2>2. \A q \in Procs : idle'[q] \cap open' = {}
      BY <1>2, <1>3 DEF Working
    <2> QED  BY <2>1, <2>2 DEF Working
  <1>9. Within'
    <2>1. ASSUME NEW q \in Procs
          PROVE  /\ Cardinality(idle[q]) \in Nat /\ Cardinality(InUse(q)) \in Nat
                 /\ IsFiniteSet(idle[q]) /\ IsFiniteSet(InUse(q)) /\ PoolMax[q] \in Nat
                 /\ Cardinality(idle[q]) + Cardinality(InUse(q)) <= PoolMax[q]
      BY InUseFacts, SessionFacts DEF Within
    <2>2. ASSUME NEW q \in Procs
          PROVE  InUse(q)' \subseteq InUse(q) \ {c}
      BY <1>1, <1>5 DEF InUse
    <2>3. Cardinality(idle'[p]) + Cardinality(InUse(p)') <= PoolMax[p]
      <3>1. c \in InUse(p) /\ c \notin idle[p]
        BY <1>2, <1>5 DEF InUse, p
      <3>2. /\ IsFiniteSet(InUse(p) \ {c})
            /\ Cardinality(InUse(p) \ {c}) = Cardinality(InUse(p)) - 1
        BY <1>2, <2>1, <3>1, FS_RemoveElement
      <3>3. /\ IsFiniteSet(InUse(p)')
            /\ Cardinality(InUse(p)') <= Cardinality(InUse(p) \ {c})
            /\ Cardinality(InUse(p)') \in Nat
        <4>1. InUse(p)' \subseteq InUse(p) \ {c}
          BY <1>2, <2>2
        <4> QED  BY <3>2, <4>1, FS_Subset, FS_CardinalityType
      <3>4. Cardinality(idle[p] \cup {c}) = Cardinality(idle[p]) + 1
        BY <1>2, <2>1, <3>1, FS_AddElement
      <3>5. Cardinality(idle'[p]) = Cardinality(idle[p]) + 1
        BY <1>3, <3>4
      <3> QED  BY <1>2, <2>1, <3>2, <3>3, <3>5
    <2>4. ASSUME NEW q \in Procs \ {p}
          PROVE  Cardinality(idle'[q]) + Cardinality(InUse(q)') <= PoolMax[q]
      <3>1. IsFiniteSet(InUse(q)') /\ Cardinality(InUse(q)') <= Cardinality(InUse(q))
            /\ Cardinality(InUse(q)') \in Nat
        <4>1. InUse(q)' \subseteq InUse(q) /\ IsFiniteSet(InUse(q))
          BY <2>1, <2>2
        <4> QED  BY <4>1, FS_Subset, FS_CardinalityType
      <3>2. idle'[q] = idle[q]
        BY <1>3
      <3>3. Cardinality(idle'[q]) = Cardinality(idle[q])
        BY <3>2
      <3> QED  BY <2>1, <3>1, <3>3
    <2> QED  BY <2>3, <2>4 DEF Within
  <1>10. Few'
    BY <1>4 DEF Few
  <1>11. LocksHeld'
    <2>1. DOMAIN task' = Tasks
      BY <1>1
    <2> QED  BY <1>1, <1>4, <2>1, LocksStayHeld
  <1> QED  BY <1>6, <1>7, <1>8, <1>9, <1>10, <1>11

(* A commit hands its session back. *)
LEMMA CommitPool ==
  ASSUME PInv, NEW x \in Tasks, Commit(x)
  PROVE  PInv'
  <1> DEFINE n == task[x].commits + 1
             r == [task[x] EXCEPT !.pc = "done", !.conn = 0, !.commits = n]
  <1>1. task[x].conn # 0
    BY DEF Commit, PInv, Working
  <1>2. /\ Become(x, r)
        /\ idle' = [idle EXCEPT ![ProcOf(x)] = @ \cup {task[x].conn}]
        /\ open' = open \ {task[x].conn} /\ locks' = Without(task[x].conn)
        /\ UNCHANGED <<orphans, crashes>>
    BY DEF Commit
  <1>3. n \in Nat
    BY DEF PInv, PoolTypes, TaskType
  <1> HIDE DEF n
  <1>4. r \in TaskType /\ r.conn = 0 /\ r.pc = "done"
    BY <1>3 DEF PInv, PoolTypes, TaskType
  <1> HIDE DEF r
  <1> QED  BY <1>1, <1>2, <1>4, SessionReturns

(* A rollback hands its session back, or destroys it. *)
LEMMA RollbackPool ==
  ASSUME PInv, NEW x \in Tasks, Rollback(x)
  PROVE  PInv'
  <1> DEFINE c == task[x].conn
             p == ProcOf(x)
             r == AfterFailure(task[x])
  <1>1. /\ task[x].pc = "rollback" /\ c # 0 /\ Become(x, r)
        /\ UNCHANGED <<locks, orphans, crashes>>
    BY DEF Rollback, PInv, Working
  <1>2. r \in TaskType /\ r.conn = 0 /\ r.pc \in {"sleep", "thrown"}
    <2> DEFINE n == task[x].attempt + 1
    <2>1. task[x] \in TaskType /\ MaxRetries \in Nat
      BY PostgresAssumption DEF PInv, PoolTypes
    <2>2. CASE Retryable(task[x].error) /\ task[x].attempt < MaxRetries
      <3>1. n \in 0 .. MaxRetries
        BY <2>1, <2>2 DEF TaskType
      <3>2. r = [task[x] EXCEPT !.pc = "sleep", !.conn = 0, !.attempt = n, !.error = "none"]
        BY <2>2 DEF AfterFailure
      <3> HIDE DEF n, r
      <3> QED  BY <2>1, <3>1, <3>2 DEF TaskType
    <2>3. CASE ~(Retryable(task[x].error) /\ task[x].attempt < MaxRetries)
      <3>1. r = [task[x] EXCEPT !.pc = "thrown", !.conn = 0]
        BY <2>3 DEF AfterFailure
      <3> HIDE DEF r
      <3> QED  BY <2>1, <3>1 DEF TaskType
    <2> QED  BY <2>2, <2>3
  <1>3. PICK broken \in BOOLEAN :
          /\ idle' = Released(p, c, broken)
          /\ open' = IF c \in idle'[p] /\ broken THEN open ELSE open \ {c}
    BY DEF Rollback
  <1> HIDE DEF r
  <1>4. CASE broken
    <2>1. idle' = idle /\ open' \in {open, open \ {c}}
      BY <1>3, <1>4 DEF Released
    <2> QED  BY <1>1, <1>2, <2>1, TaskMoves
  <1>5. CASE ~broken
    <2>1. /\ idle' = [idle EXCEPT ![p] = @ \cup {c}]
          /\ open' = open \ {c}
      BY <1>3, <1>5 DEF Released
    <2> QED  BY <1>1, <1>2, <2>1, SessionReturns
  <1> QED  BY <1>4, <1>5

(***************************************************************************)
(* BEGIN takes a session that nobody has.                                  *)
(***************************************************************************)
LEMMA BeginPool ==
  ASSUME PInv, NEW x \in Tasks, Begin(x)
  PROVE  PInv'
  <1> DEFINE p == ProcOf(x)
             c == Connection(p)
             r == [task[x] EXCEPT !.pc = "run", !.conn = c, !.stmt = 1]
  <1> USE DEF PInv
  <1>1. p \in Procs /\ HasRoom(p)
    BY HomeFacts DEF Begin
  <1>2. /\ c \in Conns /\ c \notin OrphanConns /\ c # 0
        /\ \A q \in Procs \ {p} : c \notin idle[q]
        /\ \A y \in Tasks : task[y].conn # c
        /\ c \in idle[p] \/ (idle[p] = {} /\ Cardinality(InUse(p)) < PoolMax[p])
    BY <1>1, RoomGives, SessionFacts
  <1>3. /\ task[x].pc = "connect" /\ Become(x, r)
        /\ idle' = [idle EXCEPT ![p] = @ \ {c}]
        /\ open' = open \cup {c}
        /\ UNCHANGED <<locks, orphans, crashes>>
    BY DEF Begin
  <1> HIDE DEF c, p
  <1>4. r \in TaskType /\ r.conn = c /\ r.pc = "run"
    <2>1. task[x] \in TaskType /\ c \in Conns /\ 1 \in Nat
      BY <1>2 DEF PoolTypes
    <2> HIDE DEF PInv
    <2> QED  BY <2>1 DEF TaskType
  <1> HIDE DEF r
  <1>5. /\ task' \in [Tasks -> TaskType]
        /\ task'[x] = r
        /\ \A y \in Tasks \ {x} : task'[y] = task[y]
    BY <1>3, <1>4, Takes
  <1>6. /\ idle' \in [Procs -> SUBSET Conns]
        /\ idle'[p] = idle[p] \ {c}
        /\ \A q \in Procs : idle'[q] \subseteq idle[q] /\ c \notin idle'[q]
        /\ \A q \in Procs \ {p} : idle'[q] = idle[q]
    BY <1>1, <1>2, <1>3 DEF PoolTypes
  <1>7. OrphanConns' = OrphanConns
    BY <1>3 DEF OrphanConns
  <1>8. PoolTypes'
    BY <1>2, <1>3, <1>5, <1>6, <1>7 DEF PoolTypes
  <1>9. Apart'
    <2>1. \A q, s \in Procs : q # s => idle'[q] \cap idle'[s] = {}
      BY <1>6 DEF Apart
    <2>2. \A q \in Procs : \A y \in Tasks : task'[y].conn \notin idle'[q]
      BY <1>4, <1>5, <1>6 DEF Apart
    <2>3. \A y, z \in Tasks : task'[y].conn = task'[z].conn /\ task'[y].conn # 0 => y = z
      BY <1>2, <1>4, <1>5 DEF Apart
    <2>4. \A q \in Procs : idle'[q] \cap OrphanConns' = {}
      BY <1>6, <1>7 DEF Apart
    <2>5. \A y \in Tasks : task'[y].conn \notin OrphanConns'
      BY <1>2, <1>4, <1>5, <1>7 DEF Apart
    <2> QED  BY <2>1, <2>2, <2>3, <2>4, <2>5 DEF Apart
  <1>10. Working'
    <2>1. \A y \in Tasks : /\ task'[y].pc \in {"run", "commit"} => task'[y].conn \in open'
                           /\ task'[y].pc \in {"run", "commit", "rollback"} => task'[y].conn # 0
      BY <1>2, <1>3, <1>4, <1>5 DEF Working
    <2>2. \A q \in Procs : idle'[q] \cap open' = {}
      BY <1>3, <1>6 DEF Working
    <2> QED  BY <2>1, <2>2 DEF Working
  <1>11. Within'
    <2>1. ASSUME NEW q \in Procs
          PROVE  /\ Cardinality(idle[q]) \in Nat /\ Cardinality(InUse(q)) \in Nat
                 /\ IsFiniteSet(idle[q]) /\ IsFiniteSet(InUse(q)) /\ PoolMax[q] \in Nat
                 /\ Cardinality(idle[q]) + Cardinality(InUse(q)) <= PoolMax[q]
      BY InUseFacts, SessionFacts DEF Within
    <2>2. ASSUME NEW q \in Procs
          PROVE  InUse(q)' \subseteq InUse(q) \cup {c}
      BY <1>4, <1>5 DEF InUse
    <2>3. ASSUME NEW q \in Procs \ {p}
          PROVE  InUse(q)' = InUse(q)
      BY <1>5 DEF InUse, p
    <2>4. Cardinality(idle'[p]) + Cardinality(InUse(p)') <= PoolMax[p]
      <3>1. c \notin InUse(p)
        BY <1>2 DEF InUse
      <3>2. /\ IsFiniteSet(InUse(p) \cup {c})
            /\ Cardinality(InUse(p) \cup {c}) = Cardinality(InUse(p)) + 1
        BY <1>1, <2>1, <3>1, FS_AddElement
      <3>3. /\ Cardinality(InUse(p)') <= Cardinality(InUse(p) \cup {c})
            /\ Cardinality(InUse(p)') \in Nat
        <4>1. InUse(p)' \subseteq InUse(p) \cup {c}
          BY <1>1, <2>2
        <4> QED  BY <3>2, <4>1, FS_Subset, FS_CardinalityType
      <3>4. CASE c \in idle[p]
        <4>1. Cardinality(idle[p] \ {c}) = Cardinality(idle[p]) - 1
          BY <1>1, <2>1, <3>4, FS_RemoveElement
        <4>2. Cardinality(idle'[p]) = Cardinality(idle[p]) - 1
          BY <1>6, <4>1
        <4> QED  BY <1>1, <2>1, <3>2, <3>3, <4>2
      <3>5. CASE idle[p] = {} /\ Cardinality(InUse(p)) < PoolMax[p]
        <4>1. idle'[p] = {} /\ Cardinality({}) = 0
          BY <1>6, <3>5, FS_EmptySet
        <4>2. Cardinality(idle'[p]) = 0
          BY <4>1
        <4> QED  BY <1>1, <2>1, <3>2, <3>3, <3>5, <4>2
      <3> QED  BY <1>2, <3>4, <3>5
    <2>5. ASSUME NEW q \in Procs \ {p}
          PROVE  Cardinality(idle'[q]) + Cardinality(InUse(q)') <= PoolMax[q]
      <3>1. idle'[q] = idle[q] /\ InUse(q)' = InUse(q)
        BY <1>6, <2>3
      <3> QED  BY <2>1, <3>1
    <2> QED  BY <2>4, <2>5 DEF Within
  <1>12. Few'
    BY <1>3, <1>7 DEF Few
  <1>13. LocksHeld'
    <2>1. \A k \in Keys : locks[k] # 0 =>
            \/ \E y \in Tasks : task[y].conn = locks[k] /\ task[y].pc \in {"run", "commit"}
            \/ locks[k] \in OrphanConns
      BY DEF LocksHeld
    <2> QED  BY <1>3, <1>5, <1>7, <2>1 DEF LocksHeld
  <1> QED  BY <1>8, <1>9, <1>10, <1>11, <1>12, <1>13

(***************************************************************************)
(* A crash leaves the sessions of one pool behind; the locks they hold are *)
(* held until the server ends them.                                        *)
(***************************************************************************)
LEMMA CrashPool ==
  ASSUME PInv, NEW p \in Procs, Crash(p)
  PROVE  PInv'
  <1> DEFINE lost == {x \in Tasks : ProcOf(x) = p /\ task[x].conn \in open}
             left == {task[x].conn : x \in lost}
  <1> USE DEF PInv
  <1>1. /\ crashes < MaxCrashes /\ crashes' = crashes + 1
        /\ task' = [x \in Tasks |-> IF ProcOf(x) # p THEN task[x] ELSE NoTask]
        /\ idle' = [idle EXCEPT ![p] = {}]
        /\ UNCHANGED <<open, locks>>
    BY DEF Crash
  <1>2. OrphanConns' = OrphanConns \cup left
    <2> DEFINE of(x) == [conn |-> task[x].conn, commit |-> task[x].pc = "commit",
                         applied |-> Applied(x)]
    <2>1. orphans' = orphans \cup {of(x) : x \in lost}
      BY DEF Crash
    <2>2. \A x : of(x).conn = task[x].conn
      OBVIOUS
    <2> HIDE DEF of, lost
    <2>3. \A c : c \in {o.conn : o \in orphans \cup {of(x) : x \in lost}}
                <=> c \in {o.conn : o \in orphans} \/ c \in {task[x].conn : x \in lost}
      BY <2>2
    <2>4. OrphanConns' = {o.conn : o \in orphans \cup {of(x) : x \in lost}}
      BY <2>1 DEF OrphanConns
    <2>5. OrphanConns = {o.conn : o \in orphans}
      BY DEF OrphanConns
    <2> QED  BY <2>3, <2>4, <2>5
  <1>3. /\ left \subseteq InUse(p) /\ 0 \notin left
        /\ \A x \in Tasks : ProcOf(x) = p /\ task[x].conn \in open => task[x].conn \in left
        /\ \A c \in left : \E x \in Tasks : ProcOf(x) = p /\ task[x].conn = c
    BY SessionFacts DEF InUse, PoolTypes
  <1> HIDE DEF left, lost
  <1>4. /\ \A x \in Tasks : ProcOf(x) # p => task'[x] = task[x]
        /\ \A x \in Tasks : ProcOf(x) = p => task'[x] = NoTask
        /\ task' \in [Tasks -> TaskType]
    BY <1>1, NoTaskType DEF PoolTypes
  <1>5. NoTask.conn = 0 /\ NoTask.pc = "idle"
    BY DEF NoTask
  <1>6. /\ idle' \in [Procs -> SUBSET Conns]
        /\ idle'[p] = {}
        /\ \A q \in Procs \ {p} : idle'[q] = idle[q]
    BY <1>1 DEF PoolTypes
  <1>7. \A x \in Tasks : task'[x] = task[x] \/ (task'[x].conn = 0 /\ task'[x].pc = "idle")
    BY <1>4, <1>5
  <1>8. 0 \notin OrphanConns' /\ \A q \in Procs : 0 \notin idle'[q]
    BY <1>2, <1>3, <1>6, SessionFacts DEF PoolTypes
  <1>9. PoolTypes'
    <2>1. crashes' \in 0 .. MaxCrashes
      BY <1>1, SessionFacts DEF PoolTypes
    <2>2. OrphanConns' \subseteq Conns
      BY <1>2, <1>3, InUseFacts DEF PoolTypes
    <2> QED  BY <1>1, <1>4, <1>6, <2>1, <2>2 DEF PoolTypes
  <1>10. Apart'
    <2>1. \A q, s \in Procs : q # s => idle'[q] \cap idle'[s] = {}
      BY <1>6 DEF Apart
    <2>2. \A q \in Procs : \A y \in Tasks : task'[y].conn \notin idle'[q]
      BY <1>6, <1>7, <1>8 DEF Apart
    <2>3. \A y, z \in Tasks : task'[y].conn = task'[z].conn /\ task'[y].conn # 0 => y = z
      BY <1>7 DEF Apart
    <2>4. \A q \in Procs : idle'[q] \cap OrphanConns' = {}
      <3>1. \A q \in Procs : idle[q] \cap left = {}
        BY <1>3 DEF Apart
      <3> QED  BY <1>2, <1>6, <3>1 DEF Apart
    <2>5. \A y \in Tasks : task'[y].conn \notin OrphanConns'
      <3>1. ASSUME NEW y \in Tasks, ProcOf(y) # p
            PROVE  task[y].conn \notin left
        BY <1>3, <3>1 DEF Apart
      <3>2. \A y \in Tasks : ProcOf(y) # p => task'[y].conn \notin OrphanConns'
        BY <1>2, <1>4, <3>1 DEF Apart
      <3>3. \A y \in Tasks : ProcOf(y) = p => task'[y].conn \notin OrphanConns'
        BY <1>4, <1>5, <1>8
      <3> QED  BY <3>2, <3>3
    <2> QED  BY <2>1, <2>2, <2>3, <2>4, <2>5 DEF Apart
  <1>11. Working'
    <2>1. \A y \in Tasks : /\ task'[y].pc \in {"run", "commit"} => task'[y].conn \in open'
                           /\ task'[y].pc \in {"run", "commit", "rollback"} => task'[y].conn # 0
      BY <1>1, <1>7 DEF Working
    <2>2. \A q \in Procs : idle'[q] \cap open' = {}
      BY <1>1, <1>6 DEF Working
    <2> QED  BY <2>1, <2>2 DEF Working
  <1>12. Within'
    <2>1. InUse(p)' = {}
      BY <1>4, <1>5 DEF InUse
    <2>2. ASSUME NEW q \in Procs \ {p}
          PROVE  InUse(q)' = InUse(q)
      BY <1>4 DEF InUse
    <2>3. PoolMax[p] \in Nat /\ Cardinality({}) = 0
      BY SessionFacts, FS_EmptySet
    <2>4. Cardinality(idle'[p]) + Cardinality(InUse(p)') <= PoolMax[p]
      <3>1. Cardinality(idle'[p]) = 0 /\ Cardinality(InUse(p)') = 0
        BY <1>6, <2>1, <2>3
      <3> QED  BY <2>3, <3>1
    <2>5. ASSUME NEW q \in Procs \ {p}
          PROVE  Cardinality(idle'[q]) + Cardinality(InUse(q)') <= PoolMax[q]
      <3>1. idle'[q] = idle[q] /\ InUse(q)' = InUse(q)
        BY <1>6, <2>2
      <3> QED  BY <3>1 DEF Within
    <2> QED  BY <2>4, <2>5 DEF Within
  <1>13. Few'
    <2>1. /\ IsFiniteSet(InUse(p)) /\ Cardinality(InUse(p)) \in Nat /\ PoolMax[p] \in Nat
          /\ Cardinality(idle[p]) \in Nat /\ PoolMax[p] <= Total /\ Total \in Nat
          /\ Cardinality(idle[p]) + Cardinality(InUse(p)) <= PoolMax[p]
      BY InUseFacts, SessionFacts DEF Within
    <2>2. IsFiniteSet(left) /\ Cardinality(left) <= Cardinality(InUse(p)) /\ Cardinality(left) \in Nat
      BY <1>3, <2>1, FS_Subset, FS_CardinalityType
    <2>3. IsFiniteSet(OrphanConns) /\ Cardinality(OrphanConns) \in Nat
      BY SessionFacts, FS_Subset, FS_CardinalityType DEF PoolTypes
    <2>4. /\ IsFiniteSet(OrphanConns \cap left)
          /\ Cardinality(OrphanConns \cup left)
               = Cardinality(OrphanConns) + Cardinality(left) - Cardinality(OrphanConns \cap left)
      BY <2>2, <2>3, FS_Union, FS_Intersection
    <2>5. Cardinality(OrphanConns \cap left) \in Nat
      BY <2>4, FS_CardinalityType
    <2>6. crashes' * Total = crashes * Total + Total /\ crashes * Total \in Nat
      <3>1. crashes \in Nat /\ crashes' = crashes + 1 /\ Total \in Nat
        BY <1>1, <2>1, SessionFacts DEF PoolTypes
      <3>2. \A a \in Nat, b \in Nat : (a + 1) * b = a * b + b /\ a * b \in Nat
        OBVIOUS
      <3>3. (crashes + 1) * Total = crashes * Total + Total /\ crashes * Total \in Nat
        BY <3>1, <3>2
      <3> QED  BY <3>1, <3>3
    <2> DEFINE a == crashes * Total
    <2>7. crashes' * Total = a + Total /\ a \in Nat /\ Cardinality(OrphanConns) <= a
      BY <2>6 DEF Few
    <2>8. Cardinality(OrphanConns') = Cardinality(OrphanConns \cup left)
      BY <1>2
    <2> HIDE DEF a
    <2>9. Cardinality(OrphanConns') <= crashes' * Total
      BY <2>1, <2>2, <2>3, <2>4, <2>5, <2>7, <2>8
    <2>10. Total' = Total
      BY DEF Total
    <2> QED  BY <2>9, <2>10 DEF Few
  <1>14. LocksHeld'
    <2>1. ASSUME NEW y \in Tasks, task[y].pc \in {"run", "commit"}
          PROVE  \/ task'[y] = task[y]
                 \/ task[y].conn \in OrphanConns'
      BY <1>2, <1>3, <1>4, <2>1 DEF Working
    <2> QED  BY <1>1, <1>2, <2>1 DEF LocksHeld
  <1> QED  BY <1>9, <1>10, <1>11, <1>12, <1>13, <1>14

(* The server ends the session of a crashed process: it is nobody's. *)
LEMMA SessionEndsPool ==
  ASSUME PInv, NEW o \in orphans, SessionEnds(o)
  PROVE  PInv'
  <1> USE DEF PInv
  <1>1. /\ orphans' = orphans \ {o} /\ open' = open \ {o.conn} /\ locks' = Without(o.conn)
        /\ UNCHANGED <<task, idle, crashes>>
    BY DEF SessionEnds
  <1>2. /\ OrphanConns' \subseteq OrphanConns /\ o.conn \in OrphanConns
        /\ \A c \in OrphanConns : c # o.conn => c \in OrphanConns'
    BY <1>1 DEF OrphanConns
  <1>3. PoolTypes'
    <2>1. locks' \in [Keys -> Conns \cup {0}]
      BY <1>1 DEF PoolTypes, Without
    <2> QED  BY <1>1, <1>2, <2>1 DEF PoolTypes
  <1>4. Apart'
    BY <1>1, <1>2 DEF Apart
  <1>5. Working'
    BY <1>1, <1>2 DEF Working, Apart
  <1>6. Within'
    <2>1. \A q \in Procs : InUse(q)' = InUse(q) /\ idle'[q] = idle[q]
      BY <1>1 DEF InUse
    <2> QED  BY <2>1 DEF Within
  <1>7. Few'
    <2>1. IsFiniteSet(OrphanConns)
      BY SessionFacts, FS_Subset DEF PoolTypes
    <2>2. /\ IsFiniteSet(OrphanConns') /\ Cardinality(OrphanConns') <= Cardinality(OrphanConns)
      BY <1>2, <2>1, FS_Subset
    <2>3. Cardinality(OrphanConns') \in Nat /\ Cardinality(OrphanConns) \in Nat
      BY <2>1, <2>2, FS_CardinalityType
    <2>4. crashes * Total \in Nat
      <3>1. crashes \in Nat /\ Total \in Nat
        BY SessionFacts DEF PoolTypes
      <3> QED  BY <3>1
    <2>5. crashes' * Total' = crashes * Total
      BY <1>1 DEF Total
    <2> DEFINE a == crashes * Total
    <2>6. Cardinality(OrphanConns) <= a /\ a \in Nat /\ crashes' * Total' = a
      BY <2>4, <2>5 DEF Few
    <2> HIDE DEF a
    <2>7. Cardinality(OrphanConns') <= crashes' * Total'
      BY <2>2, <2>3, <2>6
    <2> QED  BY <2>7 DEF Few
  <1>8. LocksHeld'
    <2>1. \A k \in Keys : locks'[k] # 0 => locks'[k] = locks[k] /\ locks[k] # o.conn
      BY <1>1 DEF Without
    <2> QED  BY <1>1, <1>2, <2>1 DEF LocksHeld
  <1> QED  BY <1>3, <1>4, <1>5, <1>6, <1>7, <1>8

(* A step that leaves the pool, its tasks and the orphans alone. *)
LEMMA PoolRests ==
  ASSUME PInv, UNCHANGED <<task, poolVars, orphans, crashes>>
  PROVE  PInv'
  <1>1. UNCHANGED <<task, idle, open, locks, orphans, crashes>>
    BY DEF poolVars
  <1>2. OrphanConns' = OrphanConns /\ \A p \in Procs : InUse(p)' = InUse(p)
    BY <1>1 DEF OrphanConns, InUse
  <1>3. PoolTypes' /\ Apart' /\ Working' /\ LocksHeld'
    BY <1>1, <1>2 DEF PInv, PoolTypes, Apart, Working, LocksHeld
  <1>4. Within' /\ Few'
    <2>1. Total' = Total
      BY DEF Total
    <2>2. Few'
      BY <1>1, <1>2, <2>1 DEF PInv, Few
    <2>3. Within'
      BY <1>1, <1>2 DEF PInv, Within
    <2> QED  BY <2>2, <2>3
  <1> QED  BY <1>3, <1>4 DEF PInv

(***************************************************************************)
(* The first state, and every step.                                        *)
(***************************************************************************)
LEMMA InitPool ==
  ASSUME Init
  PROVE  PInv /\ BootTypes
  <1>1. /\ task = [x \in Tasks |-> NoTask] /\ idle = [p \in Procs |-> {}] /\ open = {}
        /\ locks = [k \in Keys |-> 0] /\ orphans = {} /\ crashes = 0
        /\ NoTask.conn = 0 /\ NoTask.pc = "idle"
    BY DEF Init, NoTask
  <1>2. OrphanConns = {} /\ \A p \in Procs : InUse(p) = {}
    BY <1>1 DEF OrphanConns, InUse
  <1>3. PoolTypes
    <2>1. crashes \in 0 .. MaxCrashes
      BY <1>1, SessionFacts
    <2> QED  BY <1>1, <1>2, <2>1, NoTaskType DEF PoolTypes
  <1>4. Apart /\ Working /\ LocksHeld
    BY <1>1, <1>2 DEF Apart, Working, LocksHeld
  <1>5. Within
    <2>1. Cardinality({}) = 0
      BY FS_EmptySet
    <2>2. ASSUME NEW p \in Procs
          PROVE  Cardinality(idle[p]) + Cardinality(InUse(p)) <= PoolMax[p]
      <3>1. Cardinality(idle[p]) = 0 /\ Cardinality(InUse(p)) = 0 /\ PoolMax[p] \in Nat
        BY <1>1, <1>2, <2>1, SessionFacts
      <3> QED  BY <3>1
    <2> QED  BY <2>2 DEF Within
  <1>6. Few
    <2>1. Cardinality(OrphanConns) = 0
      BY <1>2, FS_EmptySet
    <2>2. crashes * Total = 0
      <3>1. 0 * Total = 0
        BY SessionFacts
      <3> QED  BY <1>1, <3>1
    <2> QED  BY <2>1, <2>2 DEF Few
  <1>7. BootTypes
    BY DEF Init, BootTypes
  <1> QED  BY <1>3, <1>4, <1>5, <1>6, <1>7 DEF PInv

(* Every step keeps the pool sound ... *)
LEMMA NextPool ==
  ASSUME PInv, Next
  PROVE  PInv'
  <1>1. ASSUME NEW x \in Tasks, Go(x) \/ BreakDeadlock(x) \/ Drop(x)
        PROVE  PInv'
    BY <1>1, BeginPool, StatementPool, CommitPool, RollbackPool, WakePool, BreakDeadlockPool,
       DropPool DEF Go
  <1>2. ASSUME NEW w \in Writers, Write(w)
        PROVE  PInv'
    <2>1. /\ w \in Tasks /\ task[w].pc = "idle" /\ Become(w, [NoTask EXCEPT !.pc = "connect"])
          /\ UNCHANGED <<poolVars, orphans, crashes>>
      BY <1>2 DEF Write, Tasks
    <2> QED  BY <2>1, FreshTaskPool
  <1>3. ASSUME NEW p \in Procs, Boot(p)
        PROVE  PInv'
    <2>1. CASE Start(p) \/ TakeLock(p) \/ ReadApplied(p) \/ Booted(p)
      BY <2>1, PoolRests DEF Start, TakeLock, ReadApplied, Booted
    <2>2. CASE Apply(p)
      <3>1. /\ p \in Tasks /\ task[p].pc = "idle" /\ Become(p, [NoTask EXCEPT !.pc = "connect"])
            /\ UNCHANGED <<poolVars, orphans, crashes>>
        BY <2>2 DEF Apply, Tasks
      <3> QED  BY <3>1, FreshTaskPool
    <2>3. CASE Migrated(p)
      <3>1. /\ p \in Tasks /\ task[p].pc = "done" /\ Become(p, NoTask)
            /\ UNCHANGED <<poolVars, orphans, crashes>>
        BY <2>3 DEF Migrated, Tasks
      <3> QED  BY <3>1, FreshTaskPool
    <2> QED  BY <1>3, <2>1, <2>2, <2>3 DEF Boot
  <1>4. ASSUME LockSessionEnds
        PROVE  PInv'
    BY <1>4, PoolRests DEF LockSessionEnds
  <1> QED  BY <1>1, <1>2, <1>3, <1>4, CrashPool, SessionEndsPool DEF Next

(* ... and the types of what boots keep. *)
LEMMA NextBootTypes ==
  ASSUME BootTypes, Next
  PROVE  BootTypes'
  <1> USE DEF BootTypes
  <1>1. ASSUME NEW x \in Tasks, Go(x) \/ BreakDeadlock(x) \/ Drop(x)
        PROVE  UNCHANGED <<pending, locker, surprised>>
    BY <1>1 DEF Go, Begin, Statement, Commit, Rollback, Wake, BreakDeadlock, Drop, bootVars
  <1>2. ASSUME NEW w \in Writers, Write(w)
        PROVE  UNCHANGED <<pending, locker, surprised>>
    BY <1>2 DEF Write, bootVars
  <1>3. ASSUME NEW p \in Procs, Boot(p)
        PROVE  BootTypes'
    <2>1. CASE Start(p)
      BY <2>1 DEF Start
    <2>2. CASE TakeLock(p)
      BY <2>2 DEF TakeLock
    <2>3. CASE ReadApplied(p)
      BY <2>3 DEF ReadApplied
    <2>4. CASE Apply(p)
      BY <2>4 DEF Apply, bootVars
    <2>5. CASE Migrated(p)
      <3>1. /\ pending' = [pending EXCEPT ![p] = pending[p] \ {AtHand(p)}]
            /\ UNCHANGED <<locker, surprised>>
        BY <2>5 DEF Migrated
      <3>2. pending[p] \ {AtHand(p)} \in SUBSET (1 .. Last)
        OBVIOUS
      <3> QED  BY <3>1, <3>2
    <2>6. CASE Booted(p)
      BY <2>6 DEF Booted
    <2> QED  BY <1>3, <2>1, <2>2, <2>3, <2>4, <2>5, <2>6 DEF Boot
  <1>4. ASSUME NEW p \in Procs, Crash(p)
        PROVE  BootTypes'
    <2>1. /\ pending' = [pending EXCEPT ![p] = {}] /\ locker' \in {locker, "gone"}
          /\ surprised' = surprised
      BY <1>4 DEF Crash
    <2> QED  BY <2>1
  <1>5. ASSUME LockSessionEnds
        PROVE  BootTypes'
    BY <1>5 DEF LockSessionEnds
  <1>6. ASSUME NEW o \in orphans, SessionEnds(o)
        PROVE  BootTypes'
    <2>1. UNCHANGED <<pending, locker>> /\ surprised' \in {surprised, Procs}
      BY <1>6 DEF SessionEnds
    <2> QED  BY <2>1
  <1> QED  BY <1>1, <1>2, <1>3, <1>4, <1>5, <1>6 DEF Next

(* The pool's invariant holds of every behaviour.                                    *)
THEOREM PoolInvariance == Spec => [](PInv /\ BootTypes)
  <1>1. Init => PInv /\ BootTypes
    BY InitPool
  <1>2. PInv /\ BootTypes /\ [Next]_vars => (PInv /\ BootTypes)'
    <2> SUFFICES ASSUME PInv /\ BootTypes, [Next]_vars
                 PROVE  PInv' /\ BootTypes'
      OBVIOUS
    <2>1. CASE Next
      BY <2>1, NextPool, NextBootTypes
    <2>2. CASE UNCHANGED vars
      <3>1. UNCHANGED <<task, poolVars, orphans, crashes>> /\ UNCHANGED <<pending, locker, surprised>>
        BY <2>2 DEF vars, bootVars
      <3> QED  BY <3>1, PoolRests DEF BootTypes
    <2> QED  BY <2>1, <2>2
  <1> QED  BY <1>1, <1>2, PTL DEF Spec

(* Every variable keeps its type, and the connections stay within the numbers the    *)
(* pools and the crashes allow (postgres.ts, the pool; migrate.ts).                  *)
THEOREM TypeCorrect == Spec => []TypeOK
  <1>1. IInv /\ PInv /\ BootTypes => TypeOK
    <2> SUFFICES ASSUME IInv, PInv, BootTypes
                 PROVE  TypeOK
      OBVIOUS
    <2>1. proc \in [Procs -> {"down", "lock", "read", "migrate", "up", "failed"}]
      BY DEF IInv, Shapes
    <2>2. applied \subseteq 1 .. Last
      <3>1. PICK n \in 0 .. Last : applied = 1 .. n
        BY DEF IInv, Prefix
      <3> QED  BY <3>1, PostgresAssumption
    <2>3. PoolTypes
      BY DEF PInv
    <2> QED  BY <2>1, <2>2, <2>3 DEF BootTypes, PoolTypes, TaskType, TypeOK
  <1> QED  BY <1>1, Invariance, PoolInvariance, PTL

(* No connection is handed out in the middle of a transaction or to two callers, the *)
(* pool stays within its maximum, and who waits or backs off holds no row lock       *)
(* (postgres.ts, #attempt and transaction).                                          *)
THEOREM PoolIsSound == Spec => []PoolSound
  <1>1. PInv => PoolSound
    <2> SUFFICES ASSUME PInv
                 PROVE  PoolSound
      OBVIOUS
    <2>1. ASSUME NEW p \in Procs
          PROVE  /\ idle[p] \cap open = {}
                 /\ idle[p] \cap InUse(p) = {}
                 /\ Cardinality(idle[p]) + Cardinality(InUse(p)) <= PoolMax[p]
      <3>1. idle[p] \cap InUse(p) = {}
        BY DEF PInv, Apart, InUse
      <3> QED  BY <3>1 DEF PInv, Working, Within
    <2>2. \A x, y \in Tasks : task[x].conn = task[y].conn /\ task[x].conn # 0 => x = y
      BY DEF PInv, Apart
    <2>3. \A k \in Keys : locks[k] # 0 =>
            \/ \E x \in Tasks : task[x].conn = locks[k] /\ task[x].pc \in {"run", "commit"}
            \/ \E o \in orphans : o.conn = locks[k]
      BY DEF PInv, LocksHeld, OrphanConns
    <2> QED  BY <2>1, <2>2, <2>3 DEF PoolSound
  <1> QED  BY <1>1, PoolInvariance, PTL
=============================================================================
