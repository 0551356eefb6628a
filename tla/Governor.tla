------------------------------ MODULE Governor ------------------------------
(***************************************************************************)
(* The global concurrency governor (src/clio/governor.ts) and the retry    *)
(* loop of the only component that talks to upstream through it            *)
(* (src/clio/client.ts, request).                                          *)
(*                                                                         *)
(* A request is an asynchronous call of ClioClient.request.  An action is  *)
(* what runs between two awaits.  Time is relative: `cooldown` is what     *)
(* remains until cooldownUntil, and a timer holds what it still sleeps.    *)
(***************************************************************************)
EXTENDS Naturals, Sequences, FiniteSets

CONSTANTS
    Requests,       \* the requests of the model, each made over and over
    MaxConcurrent,  \* GovernorOptions.maxConcurrent
    MinBackoff,     \* GovernorOptions.minBackoffMs
    MaxBackoff,     \* GovernorOptions.maxBackoffMs
    BackoffFactor,  \* GovernorOptions.backoffFactor
    MaxRetries,     \* ClioClientOptions.maxRetries
    Saturation      \* bound: penalties counted, enough to reach MaxBackoff

(***************************************************************************)
(* The backoff of the n-th penalty in a row; none before the first.        *)
(***************************************************************************)
Backoff(n) ==
    LET step == MinBackoff * BackoffFactor ^ (n - 1) IN
    IF n = 0 THEN 0 ELSE IF step <= MaxBackoff THEN step ELSE MaxBackoff

(***************************************************************************)
(* The constructor refuses maxConcurrent < 1.  A backoff is never zero and *)
(* never shortens as penalties add up; Saturation of them reach the top.   *)
(***************************************************************************)
ASSUME GovernorAssumption ==
    /\ IsFiniteSet(Requests)
    /\ MaxConcurrent \in Nat \ {0}
    /\ MaxRetries \in Nat
    /\ Saturation \in Nat \ {0}
    /\ \A n \in 1 .. Saturation : Backoff(n) \in Nat \ {0}
    /\ \A m, n \in 0 .. Saturation : m <= n => Backoff(m) <= Backoff(n)
    /\ Backoff(Saturation) = MaxBackoff

VARIABLES
    pc,             \* where each request is
    sleep,          \* what its backoff timer has left
    attempt,        \* retries it has made
    inFlight,       \* #inFlight
    waiters,        \* #waiters, the queued requests
    cooldown,       \* max(0, #cooldownUntil - now)
    consecutive     \* #consecutivePenalties

slots == <<inFlight, waiters>>
penalties == <<cooldown, consecutive>>
vars == <<pc, sleep, attempt, slots, penalties>>

(***************************************************************************)
(* A slot is held from the moment it is granted until it is released.      *)
(***************************************************************************)
HoldsSlot == {"granted", "sent", "reconnect"}

Init ==
    /\ pc = [p \in Requests |-> "idle"]
    /\ sleep = [p \in Requests |-> 0]
    /\ attempt = [p \in Requests |-> 0]
    /\ inFlight = 0 /\ waiters = <<>>
    /\ cooldown = 0 /\ consecutive = 0

-----------------------------------------------------------------------------
(***************************************************************************)
(* A slot too many: the limit compared with <=.                            *)
(***************************************************************************)
TakeSlotOffByOne(p) ==
    /\ pc[p] = "take"
    /\ IF inFlight <= MaxConcurrent
       THEN /\ inFlight' = inFlight + 1
            /\ pc' = [pc EXCEPT ![p] = "granted"]
            /\ UNCHANGED waiters
       ELSE /\ waiters' = Append(waiters, p)
            /\ pc' = [pc EXCEPT ![p] = "queued"]
            /\ UNCHANGED inFlight
    /\ UNCHANGED <<sleep, attempt, penalties>>

(***************************************************************************)
(* takeSlot: the request is granted a free slot or joins the waiters.      *)
(***************************************************************************)
TakeSlot(p) ==
    /\ pc[p] = "take"
    /\ IF inFlight < MaxConcurrent
       THEN /\ inFlight' = inFlight + 1
            /\ pc' = [pc EXCEPT ![p] = "granted"]
            /\ UNCHANGED waiters
       ELSE /\ waiters' = Append(waiters, p)
            /\ pc' = [pc EXCEPT ![p] = "queued"]
            /\ UNCHANGED inFlight
    /\ UNCHANGED <<sleep, attempt, penalties>>

(***************************************************************************)
(* Three ways to release a slot wrongly: handed on and freed as well; freed *)
(* with nobody woken; handed to the newest waiter.                         *)
(***************************************************************************)
ReleaseSlotTwice(p, label) ==
    /\ inFlight' = inFlight - 1
    /\ IF waiters # <<>>
       THEN /\ pc' = [pc EXCEPT ![p] = label, ![Head(waiters)] = "granted"]
            /\ waiters' = Tail(waiters)
       ELSE /\ pc' = [pc EXCEPT ![p] = label]
            /\ UNCHANGED waiters

ReleaseSlotSilently(p, label) ==
    /\ pc' = [pc EXCEPT ![p] = label]
    /\ inFlight' = inFlight - 1
    /\ UNCHANGED waiters

ReleaseSlotToNewest(p, label) ==
    IF waiters # <<>>
    THEN /\ pc' = [pc EXCEPT ![p] = label, ![waiters[Len(waiters)]] = "granted"]
         /\ waiters' = SubSeq(waiters, 1, Len(waiters) - 1)
         /\ UNCHANGED inFlight
    ELSE /\ pc' = [pc EXCEPT ![p] = label]
         /\ inFlight' = inFlight - 1
         /\ UNCHANGED waiters

(***************************************************************************)
(* releaseSlot, by request p which goes on to `label`: the slot passes to  *)
(* the next waiter, if there is one, without becoming free.                *)
(***************************************************************************)
ReleaseSlot(p, label) ==
    IF waiters # <<>>
    THEN /\ pc' = [pc EXCEPT ![p] = label, ![Head(waiters)] = "granted"]
         /\ waiters' = Tail(waiters)
         /\ UNCHANGED inFlight
    ELSE /\ pc' = [pc EXCEPT ![p] = label]
         /\ inFlight' = inFlight - 1
         /\ UNCHANGED waiters

(***************************************************************************)
(* penalize: one more penalty in a row; the longest cooldown wins.         *)
(***************************************************************************)
Penalize ==
    LET n == IF consecutive < Saturation THEN consecutive + 1 ELSE consecutive IN
    /\ consecutive' = n
    /\ cooldown' = IF Backoff(n) > cooldown THEN Backoff(n) ELSE cooldown

(***************************************************************************)
(* Any success ends the escalation.                                        *)
(***************************************************************************)
RewardAlways ==
    /\ consecutive' = 0
    /\ UNCHANGED cooldown

(***************************************************************************)
(* reward: a success ends the escalation, unless a cooldown is on.         *)
(***************************************************************************)
Reward ==
    /\ consecutive' = IF cooldown = 0 THEN 0 ELSE consecutive
    /\ UNCHANGED cooldown

-----------------------------------------------------------------------------
(***************************************************************************)
(* A request is made: it enters acquire with no retry behind it.           *)
(***************************************************************************)
Start(p) ==
    /\ pc[p] = "idle"
    /\ pc' = [pc EXCEPT ![p] = "cool"]
    /\ attempt' = [attempt EXCEPT ![p] = 0]
    /\ UNCHANGED <<sleep, slots, penalties>>

(***************************************************************************)
(* waitForCooldown: sleep for what remains and look again, as the cooldown *)
(* may have been extended meanwhile.                                       *)
(***************************************************************************)
WaitForCooldown(p) ==
    /\ pc[p] \in {"cool", "asleep"}
    /\ sleep[p] = 0
    /\ IF cooldown > 0
       THEN /\ pc' = [pc EXCEPT ![p] = "asleep"]
            /\ sleep' = [sleep EXCEPT ![p] = cooldown]
       ELSE /\ pc' = [pc EXCEPT ![p] = "take"]
            /\ UNCHANGED sleep
    /\ UNCHANGED <<attempt, slots, penalties>>

(***************************************************************************)
(* A slot granted under a fresh penalty and not handed back.               *)
(***************************************************************************)
AdmitKeepingSlot(p) ==
    /\ pc[p] = "granted"
    /\ pc' = [pc EXCEPT ![p] = IF cooldown > 0 THEN "cool" ELSE "sent"]
    /\ UNCHANGED <<slots, sleep, attempt, penalties>>

(***************************************************************************)
(* The end of acquire's loop: a slot granted under a fresh penalty is      *)
(* handed back; otherwise the request is sent.                             *)
(***************************************************************************)
Admit(p) ==
    /\ pc[p] = "granted"
    /\ IF cooldown > 0
       THEN ReleaseSlot(p, "cool")
       ELSE /\ pc' = [pc EXCEPT ![p] = "sent"]
            /\ UNCHANGED slots
    /\ UNCHANGED <<sleep, attempt, penalties>>

(***************************************************************************)
(* Upstream answers.                                                       *)
(***************************************************************************)
Succeed(p) ==
    /\ pc[p] = "sent"
    /\ Reward
    /\ ReleaseSlot(p, "idle")
    /\ UNCHANGED <<sleep, attempt>>

(***************************************************************************)
(* Upstream refuses the request: a genuine error, neither load nor success *)
(***************************************************************************)
Refuse(p) ==
    /\ pc[p] = "sent"
    /\ ReleaseSlot(p, "idle")
    /\ UNCHANGED <<sleep, attempt, penalties>>

(***************************************************************************)
(* A load signal: everyone backs off.  With retries left the request goes  *)
(* round again, after a reconnect (with its slot) if the socket dropped.   *)
(***************************************************************************)
Shed(p) ==
    /\ pc[p] = "sent"
    /\ Penalize
    /\ \/ /\ attempt[p] >= MaxRetries
          /\ ReleaseSlot(p, "idle")
          /\ UNCHANGED attempt
       \/ /\ attempt[p] < MaxRetries
          /\ attempt' = [attempt EXCEPT ![p] = attempt[p] + 1]
          /\ \/ ReleaseSlot(p, "cool")
             \/ pc' = [pc EXCEPT ![p] = "reconnect"] /\ UNCHANGED slots
    /\ UNCHANGED sleep

(***************************************************************************)
(* The reconnect is over, whether or not it worked.                        *)
(***************************************************************************)
Reconnected(p) ==
    /\ pc[p] = "reconnect"
    /\ ReleaseSlot(p, "cool")
    /\ UNCHANGED <<sleep, attempt, penalties>>

(***************************************************************************)
(* Time passes.                                                            *)
(***************************************************************************)
Less(n) == IF n > 0 THEN n - 1 ELSE 0

Tick ==
    /\ cooldown > 0 \/ \E p \in Requests : sleep[p] > 0
    /\ cooldown' = Less(cooldown)
    /\ sleep' = [p \in Requests |-> Less(sleep[p])]
    /\ UNCHANGED <<pc, attempt, slots, consecutive>>

Answer(p) == Succeed(p) \/ Refuse(p) \/ Shed(p)
Work(p) == WaitForCooldown(p) \/ TakeSlot(p) \/ Admit(p) \/ Answer(p) \/ Reconnected(p)

Next == Tick \/ \E p \in Requests : Start(p) \/ Work(p)

Spec == Init /\ [][Next]_vars

(***************************************************************************)
(* Timers run, promises settle, and every request sent is answered or      *)
(* times out (a load signal), as is every reconnect.                       *)
(***************************************************************************)
Fairness == WF_vars(Tick) /\ \A p \in Requests : WF_vars(Work(p))

LiveSpec == Spec /\ Fairness

-----------------------------------------------------------------------------
(***************************************************************************)
(* Properties.                                                             *)
(***************************************************************************)
PC == {"idle", "cool", "asleep", "take", "queued"} \cup HoldsSlot

(***************************************************************************)
(* The counters stay in their ranges and the waiters are requests.         *)
(***************************************************************************)
TypeOK ==
    /\ pc \in [Requests -> PC]
    /\ sleep \in [Requests -> Nat]
    /\ attempt \in [Requests -> 0 .. MaxRetries]
    /\ inFlight \in 0 .. MaxConcurrent
    /\ waiters \in Seq(Requests)
    /\ cooldown \in Nat
    /\ consecutive \in 0 .. Saturation

(***************************************************************************)
(* The counter is right: as many slots are in flight as requests hold one, *)
(* however slots were handed on, back and around (governor.ts 144-151,     *)
(* 215-233).                                                               *)
(***************************************************************************)
Holders == {p \in Requests : pc[p] \in HoldsSlot}
SlotsConserved == inFlight = Cardinality(Holders)

(***************************************************************************)
(* No wakeup is lost: whoever is queued is among the waiters, once, and    *)
(* nobody waits while a slot is free.                                      *)
(***************************************************************************)
NoLostWakeup ==
    /\ \A p \in Requests : pc[p] = "queued" <=> \E n \in DOMAIN waiters : waiters[n] = p
    /\ \A m, n \in DOMAIN waiters : waiters[m] = waiters[n] => m = n
    /\ waiters # <<>> => inFlight = MaxConcurrent

(***************************************************************************)
(* The escalation outlives the cooldown it caused: "a success from a       *)
(* request that slipped out before a penalty landed cannot reset" it       *)
(* (governor.ts 183-193).  So what remains of the cooldown never exceeds   *)
(* the current backoff, and no timer sleeps past the cooldown.             *)
(***************************************************************************)
EscalationHeld ==
    /\ cooldown <= Backoff(consecutive)
    /\ \A p \in Requests : sleep[p] <= cooldown

(***************************************************************************)
(* Whoever waits for a slot gets one.                                      *)
(***************************************************************************)
QueuedServed ==
    \A p \in Requests : pc[p] = "queued" ~> pc[p] = "granted"

(***************************************************************************)
(* Once upstream stops shedding load, every request ends.                  *)
(***************************************************************************)
EveryRequestEnds ==
    <>[](cooldown = 0) => \A p \in Requests : pc[p] # "idle" ~> pc[p] = "idle"

(***************************************************************************)
(* The governor's slots are fair slots: the semaphore it is meant to be.   *)
(***************************************************************************)
Fair == INSTANCE FairSlots WITH
            Clients <- Requests, Slots <- MaxConcurrent,
            holding <- Holders, queue <- waiters

SlotsAreFair == Fair!FairSpec
=============================================================================
