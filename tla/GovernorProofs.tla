--------------------------- MODULE GovernorProofs ---------------------------
(***************************************************************************)
(* Proofs about Governor, for any number of requests, slots and retries.   *)
(***************************************************************************)
EXTENDS Governor, FiniteSetTheorems, SequenceTheorems, TLAPS

(***************************************************************************)
(* The inductive invariant: the four invariants support each other.  The   *)
(* count of slots needs the waiters to be exactly the queued requests, so  *)
(* that handing a slot on moves it to a request that held none.            *)
(***************************************************************************)
IInv == TypeOK /\ SlotsConserved /\ NoLostWakeup /\ EscalationHeld

(***************************************************************************)
(* Backoffs are natural numbers that grow up to MaxBackoff.                *)
(***************************************************************************)
LEMMA BackoffFacts ==
    /\ Backoff(0) = 0
    /\ \A n \in 0 .. Saturation : Backoff(n) \in Nat
    /\ \A n \in 0 .. Saturation - 1 : Backoff(n) <= Backoff(n + 1)
    /\ \A n \in 1 .. Saturation : Backoff(n) \in Nat \ {0}
    /\ Saturation \in Nat \ {0}
<1>1. Backoff(0) = 0  BY Zenon DEF Backoff
<1>2. GovernorAssumption!4 /\ GovernorAssumption!5 /\ GovernorAssumption!6
  BY GovernorAssumption DEF GovernorAssumption
<1>3. \A n \in 0 .. Saturation : n = 0 \/ n \in 1 .. Saturation  BY <1>2
<1>4. \A n \in 0 .. Saturation : Backoff(n) \in Nat  BY <1>1, <1>2, <1>3
<1>5. \A n \in 0 .. Saturation - 1 : Backoff(n) <= Backoff(n + 1)
  <2> TAKE n \in 0 .. Saturation - 1
  <2>1. n \in 0 .. Saturation /\ n + 1 \in 0 .. Saturation /\ n <= n + 1  BY <1>2
  <2> QED  BY <1>2, <2>1
<1> QED  BY <1>1, <1>2, <1>4, <1>5

(***************************************************************************)
(* The holders of a slot are finitely many: they can be counted.           *)
(***************************************************************************)
LEMMA HoldersFinite == IsFiniteSet(Holders) /\ Cardinality(Holders) \in Nat
<1>1. Holders \in SUBSET Requests /\ IsFiniteSet(Requests)
  BY GovernorAssumption DEF GovernorAssumption, Holders
<1>2. IsFiniteSet(Holders)  BY <1>1, FS_Subset
<1> QED  BY <1>2, FS_CardinalityType

(***************************************************************************)
(* The instance of FairSlots has its own copy of FiniteSets.               *)
(***************************************************************************)
LEMMA SameCardinality == \A S : Fair!Cardinality(S) = Cardinality(S)
BY Zenon DEF Fair!Cardinality, Cardinality

(***************************************************************************)
(* A nonempty queue has a head among the requests, and a tail.             *)
(***************************************************************************)
LEMMA WaitersFacts ==
    ASSUME TypeOK
    PROVE  /\ DOMAIN waiters = 1 .. Len(waiters) /\ Len(waiters) \in Nat
           /\ \A n \in 1 .. Len(waiters) : waiters[n] \in Requests
           /\ waiters # <<>> => Len(waiters) >= 1 /\ Head(waiters) = waiters[1]
<1>1. waiters \in Seq(Requests)  BY DEF TypeOK
<1> QED  BY <1>1, LenProperties, EmptySeq, ElementOfSeq

-----------------------------------------------------------------------------
(***************************************************************************)
(* A step that grants, queues and releases nobody keeps the slots right.   *)
(***************************************************************************)
LEMMA SlotsKept ==
    ASSUME IInv, UNCHANGED slots,
           \A p \in Requests : /\ pc'[p] \in HoldsSlot <=> pc[p] \in HoldsSlot
                               /\ pc'[p] = "queued" <=> pc[p] = "queued"
    PROVE  SlotsConserved' /\ NoLostWakeup' /\ UNCHANGED <<Holders, waiters>>
<1>1. Holders' = Holders  BY DEF Holders
<1>2. inFlight' = inFlight /\ waiters' = waiters  BY DEF slots
<1> QED  BY <1>1, <1>2 DEF IInv, SlotsConserved, NoLostWakeup

(***************************************************************************)
(* takeSlot.                                                               *)
(***************************************************************************)
LEMMA TakeKeepsSlots ==
    ASSUME IInv, NEW p \in Requests, TakeSlot(p)
    PROVE  /\ TypeOK' /\ SlotsConserved' /\ NoLostWakeup'
           /\ Fair!Ask(p)
<1> USE DEF IInv
<1>1. /\ p \notin Holders
      /\ \A n \in DOMAIN waiters : waiters[n] # p
      /\ MaxConcurrent \in Nat \ {0}
      /\ waiters \in Seq(Requests) /\ inFlight \in 0 .. MaxConcurrent
      /\ inFlight = Cardinality(Holders)
  BY GovernorAssumption
     DEF GovernorAssumption, TypeOK, TakeSlot, Holders, HoldsSlot, NoLostWakeup, SlotsConserved
<1>2. CASE inFlight < MaxConcurrent
  <2>1. Holders' = Holders \cup {p}
    BY <1>2 DEF TakeSlot, Holders, HoldsSlot, TypeOK
  <2>2. /\ inFlight' = inFlight + 1 /\ waiters' = waiters
        /\ \A q \in Requests : pc'[q] = "queued" <=> pc[q] = "queued"
    BY <1>2 DEF TakeSlot, TypeOK
  <2>3. SlotsConserved'
    BY <1>1, <2>1, <2>2, HoldersFinite, FS_AddElement DEF SlotsConserved
  <2>4. waiters = <<>>  BY <1>1, <1>2 DEF NoLostWakeup
  <2>5. NoLostWakeup'  BY <2>2, <2>4 DEF NoLostWakeup
  <2>6. TypeOK'
    <3>1. inFlight' \in 0 .. MaxConcurrent  BY <1>1, <1>2, <2>2
    <3>2. pc' \in [Requests -> PC]
      BY <1>2 DEF TypeOK, TakeSlot, PC, HoldsSlot
    <3> QED  BY <2>2, <3>1, <3>2 DEF TypeOK, TakeSlot, penalties
  <2>7. Fair!Ask(p)
    BY <1>1, <1>2, <2>1, <2>2, SameCardinality DEF Fair!Ask
  <2> QED  BY <2>3, <2>5, <2>6, <2>7
<1>3. CASE ~(inFlight < MaxConcurrent)
  <2>1. /\ inFlight' = inFlight /\ waiters' = Append(waiters, p)
        /\ pc' = [pc EXCEPT ![p] = "queued"] /\ inFlight = MaxConcurrent
    BY <1>1, <1>3 DEF TakeSlot
  <2>2. Holders' = Holders
    BY <2>1 DEF TakeSlot, Holders, HoldsSlot, TypeOK
  <2>3. SlotsConserved'  BY <1>1, <2>1, <2>2 DEF SlotsConserved
  <2>4. TypeOK'
    <3>1. Append(waiters, p) \in Seq(Requests)  BY <1>1, AppendProperties
    <3> QED  BY <2>1, <3>1 DEF TypeOK, TakeSlot, PC, HoldsSlot, penalties
  <2>5. NoLostWakeup'
    <3> DEFINE k == Len(waiters)
    <3>1. /\ k \in Nat /\ DOMAIN waiters = 1 .. k /\ DOMAIN waiters' = 1 .. k + 1
          /\ \A n \in 1 .. k : waiters'[n] = waiters[n]
          /\ waiters'[k + 1] = p
      <4>1. Append(waiters, p) \in Seq(Requests)  BY <1>1, AppendProperties
      <4> QED  BY <1>1, <2>1, <4>1, AppendProperties, LenProperties
    <3>2. \A q \in Requests : pc'[q] = "queued" <=> q = p \/ pc[q] = "queued"
      BY <2>1 DEF TypeOK
    <3>3. ASSUME NEW q \in Requests
          PROVE  pc'[q] = "queued" <=> \E n \in 1 .. k + 1 : waiters'[n] = q
      <4>1. pc[q] = "queued" <=> \E n \in 1 .. k : waiters[n] = q
        BY <3>1 DEF NoLostWakeup
      <4> QED  BY <3>1, <3>2, <4>1
    <3>4. ASSUME NEW m \in 1 .. k + 1, NEW n \in 1 .. k + 1, waiters'[m] = waiters'[n]
          PROVE  m = n
      <4>1. \A i, j \in 1 .. k : waiters[i] = waiters[j] => i = j
        BY <3>1 DEF NoLostWakeup
      <4>2. \A i \in 1 .. k : waiters[i] # p  BY <1>1, <3>1
      <4> QED  BY <3>1, <3>4, <4>1, <4>2
    <3> QED  BY <2>1, <3>1, <3>3, <3>4 DEF NoLostWakeup
  <2>6. Fair!Ask(p)
    BY <1>1, <2>1, <2>2, SameCardinality DEF Fair!Ask
  <2> QED  BY <2>3, <2>4, <2>5, <2>6
<1> QED  BY <1>2, <1>3

(***************************************************************************)
(* releaseSlot: the slot changes hands or becomes free.                    *)
(***************************************************************************)
LEMMA ReleaseKeepsSlots ==
    ASSUME IInv, NEW p \in Requests, pc[p] \in HoldsSlot,
           NEW label \in {"idle", "cool"}, ReleaseSlot(p, label)
    PROVE  /\ pc' \in [Requests -> PC] /\ inFlight' \in 0 .. MaxConcurrent
           /\ waiters' \in Seq(Requests)
           /\ SlotsConserved' /\ NoLostWakeup'
           /\ Fair!GiveUp(p)
<1> USE DEF IInv
<1>1. /\ p \in Holders
      /\ MaxConcurrent \in Nat \ {0}
      /\ waiters \in Seq(Requests) /\ inFlight \in 0 .. MaxConcurrent
      /\ inFlight = Cardinality(Holders) /\ pc \in [Requests -> PC]
      /\ label \in PC /\ label \notin HoldsSlot /\ label # "queued" /\ "granted" \in PC
  BY GovernorAssumption
     DEF GovernorAssumption, TypeOK, Holders, HoldsSlot, SlotsConserved, PC
<1>2. CASE waiters = <<>>
  <2>1. pc' = [pc EXCEPT ![p] = label] /\ inFlight' = inFlight - 1 /\ waiters' = waiters
    BY <1>2 DEF ReleaseSlot
  <2>2. Holders' = Holders \ {p}
    BY <1>1, <2>1 DEF Holders
  <2>3. Cardinality(Holders \ {p}) = Cardinality(Holders) - 1 /\ Cardinality(Holders \ {p}) \in Nat
    <3>1. IsFiniteSet(Holders \ {p}) /\ Cardinality(Holders \ {p}) = Cardinality(Holders) - 1
      BY <1>1, HoldersFinite, FS_RemoveElement
    <3> QED  BY <3>1, FS_CardinalityType
  <2>4. SlotsConserved' /\ inFlight' \in 0 .. MaxConcurrent
    BY <1>1, <2>1, <2>2, <2>3 DEF SlotsConserved
  <2>5. NoLostWakeup'
    <3>1. \A q \in Requests : pc'[q] = "queued" <=> pc[q] = "queued"
      BY <1>1, <2>1 DEF HoldsSlot
    <3> QED  BY <1>2, <2>1, <3>1 DEF NoLostWakeup
  <2>6. Fair!GiveUp(p)
    BY <1>1, <1>2, <2>1, <2>2 DEF Fair!GiveUp
  <2> QED  BY <1>1, <2>1, <2>4, <2>5, <2>6
<1>3. CASE waiters # <<>>
  <2> DEFINE next == Head(waiters)
  <2>1. /\ pc' = [pc EXCEPT ![p] = label, ![next] = "granted"]
        /\ inFlight' = inFlight /\ waiters' = Tail(waiters)
    BY <1>3 DEF ReleaseSlot
  <2> DEFINE k == Len(waiters)
  <2>2. /\ k \in Nat /\ k >= 1 /\ DOMAIN waiters = 1 .. k /\ next = waiters[1]
        /\ \A n \in 1 .. k : waiters[n] \in Requests
    BY <1>3, WaitersFacts
  <2>3. /\ waiters' \in Seq(Requests) /\ DOMAIN waiters' = 1 .. k - 1
        /\ \A n \in 1 .. k - 1 : waiters'[n] = waiters[n + 1]
    <3>1. Tail(waiters) \in Seq(Requests)  BY <1>1, <1>3, HeadTailProperties
    <3> QED  BY <1>1, <1>3, <2>1, <3>1, HeadTailProperties, LenProperties
  <2>4. next \in Requests /\ pc[next] = "queued" /\ next # p /\ next \notin Holders
    <3>1. next \in Requests /\ pc[next] = "queued"
      BY <2>2 DEF NoLostWakeup
    <3> QED  BY <3>1 DEF HoldsSlot, Holders
  <2>5. \A q \in Requests : pc'[q] = IF q = next THEN "granted" ELSE IF q = p THEN label ELSE pc[q]
    BY <1>1, <2>1, <2>4
  <2>6. pc' \in [Requests -> PC]
    BY <1>1, <2>1, <2>4
  <2>7. Holders' = (Holders \ {p}) \cup {next}
    BY <1>1, <2>4, <2>5 DEF Holders, HoldsSlot
  <2>8. Cardinality(Holders') = Cardinality(Holders)
    <3>1. /\ IsFiniteSet(Holders \ {p}) /\ Cardinality(Holders \ {p}) = Cardinality(Holders) - 1
      BY <1>1, HoldersFinite, FS_RemoveElement
    <3>2. Cardinality((Holders \ {p}) \cup {next}) = Cardinality(Holders \ {p}) + 1
      BY <2>4, <3>1, FS_AddElement
    <3> QED  BY <2>7, <3>1, <3>2, HoldersFinite
  <2>9. SlotsConserved'  BY <1>1, <2>1, <2>8 DEF SlotsConserved
  <2>10. \A i, j \in 1 .. k : waiters[i] = waiters[j] => i = j
    BY <2>2 DEF NoLostWakeup
  <2>11. ASSUME NEW q \in Requests
         PROVE  pc'[q] = "queued" <=> \E n \in 1 .. k - 1 : waiters'[n] = q
    <3>1. pc[q] = "queued" <=> \E n \in 1 .. k : waiters[n] = q
      BY <2>2 DEF NoLostWakeup
    <3>2. pc'[q] = "queued" <=> q # next /\ pc[q] = "queued"
      BY <1>1, <2>4, <2>5 DEF HoldsSlot
    <3>3. ASSUME NEW n \in 1 .. k, waiters[n] = q, q # next
          PROVE  \E m \in 1 .. k - 1 : waiters'[m] = q
      <4>1. n - 1 \in 1 .. k - 1 /\ waiters'[n - 1] = q  BY <2>2, <2>3, <3>3
      <4> QED  BY <4>1
    <3>4. ASSUME NEW m \in 1 .. k - 1, waiters'[m] = q
          PROVE  q # next /\ \E n \in 1 .. k : waiters[n] = q
      <4>1. m + 1 \in 1 .. k /\ waiters[m + 1] = q /\ m + 1 # 1 /\ 1 \in 1 .. k
        BY <2>2, <2>3, <3>4
      <4> QED  BY <2>2, <2>10, <4>1
    <3> QED  BY <3>1, <3>2, <3>3, <3>4
  <2>12. ASSUME NEW m \in 1 .. k - 1, NEW n \in 1 .. k - 1, waiters'[m] = waiters'[n]
         PROVE  m = n
    <3>1. m + 1 \in 1 .. k /\ n + 1 \in 1 .. k /\ waiters[m + 1] = waiters[n + 1]
      BY <2>2, <2>3, <2>12
    <3>2. m + 1 = n + 1  BY <2>10, <3>1
    <3> QED  BY <2>2, <3>2
  <2>13. NoLostWakeup'
    BY <1>3, <2>1, <2>3, <2>11, <2>12 DEF NoLostWakeup
  <2>14. Fair!GiveUp(p)
    BY <1>1, <1>3, <2>1, <2>7 DEF Fair!GiveUp
  <2> QED  BY <1>1, <2>1, <2>3, <2>6, <2>9, <2>13, <2>14
<1> QED  BY <1>2, <1>3

-----------------------------------------------------------------------------
(***************************************************************************)
(* penalize and reward.                                                    *)
(***************************************************************************)
LEMMA PenalizeFacts ==
    ASSUME TypeOK, EscalationHeld, Penalize
    PROVE  /\ cooldown' \in Nat /\ consecutive' \in 0 .. Saturation
           /\ cooldown <= cooldown' /\ cooldown' <= Backoff(consecutive')
<1>1. /\ consecutive \in 0 .. Saturation /\ cooldown \in Nat
      /\ cooldown <= Backoff(consecutive)
  BY DEF TypeOK, EscalationHeld
<1>2. /\ consecutive' \in 0 .. Saturation
      /\ Backoff(consecutive) <= Backoff(consecutive')
  BY <1>1, BackoffFacts DEF Penalize
<1>3. cooldown' = IF Backoff(consecutive') > cooldown THEN Backoff(consecutive') ELSE cooldown
  BY DEF Penalize
<1>4. Backoff(consecutive) \in Nat /\ Backoff(consecutive') \in Nat
  BY <1>1, <1>2, BackoffFacts
<1> QED  BY <1>1, <1>2, <1>3, <1>4

(***************************************************************************)
(* A reward keeps the counters typed and escalation ahead.                 *)
(***************************************************************************)
LEMMA RewardFacts ==
    ASSUME TypeOK, EscalationHeld, Reward
    PROVE  /\ cooldown' = cooldown /\ consecutive' \in 0 .. Saturation
           /\ cooldown' <= Backoff(consecutive')
BY BackoffFacts DEF TypeOK, EscalationHeld, Reward

(***************************************************************************)
(* The escalation is held while timers stand still and penalties only rise *)
(* or fall as penalize and reward make them.                               *)
(***************************************************************************)
LEMMA EscalationKept ==
    ASSUME IInv, UNCHANGED sleep,
           cooldown' \in Nat, cooldown <= cooldown', cooldown' <= Backoff(consecutive')
    PROVE  EscalationHeld'
BY DEF IInv, TypeOK, EscalationHeld

(***************************************************************************)
(* A request is retried at most MaxRetries times.                          *)
(***************************************************************************)
LEMMA ShedAttempts ==
    ASSUME TypeOK, NEW p \in Requests, Shed(p)
    PROVE  attempt' \in [Requests -> 0 .. MaxRetries]
<1>1. MaxRetries \in Nat /\ attempt \in [Requests -> 0 .. MaxRetries]
  BY GovernorAssumption DEF GovernorAssumption, TypeOK
<1>2. CASE attempt' = attempt
  BY <1>1, <1>2
<1>3. CASE attempt[p] < MaxRetries /\ attempt' = [attempt EXCEPT ![p] = attempt[p] + 1]
  <2>1. attempt[p] + 1 \in 0 .. MaxRetries  BY <1>1, <1>3
  <2> QED  BY <1>1, <1>3, <2>1
<1> QED  BY <1>2, <1>3 DEF Shed

-----------------------------------------------------------------------------
(***************************************************************************)
(* The steps that leave every slot where it is.                            *)
(***************************************************************************)
LEMMA QuietStep ==
    ASSUME IInv, NEW p \in Requests,
           \/ Start(p) \/ WaitForCooldown(p)
           \/ Admit(p) /\ cooldown = 0
           \/ Shed(p) /\ pc' = [pc EXCEPT ![p] = "reconnect"] /\ UNCHANGED slots
    PROVE  IInv' /\ UNCHANGED <<Holders, waiters>>
<1> USE DEF IInv
<1>1. UNCHANGED slots
  BY DEF Start, WaitForCooldown, Admit, TypeOK
<1>2. \A q \in Requests : /\ pc'[q] \in HoldsSlot <=> pc[q] \in HoldsSlot
                          /\ pc'[q] = "queued" <=> pc[q] = "queued"
  BY DEF Start, WaitForCooldown, Admit, Shed, HoldsSlot, TypeOK
<1>3. SlotsConserved' /\ NoLostWakeup' /\ UNCHANGED <<Holders, waiters>>
  BY <1>1, <1>2, SlotsKept
<1>4. pc' \in [Requests -> PC]
  <2>1. \E label \in PC : pc' = [pc EXCEPT ![p] = label]
    BY DEF Start, WaitForCooldown, Admit, HoldsSlot, PC, TypeOK
  <2> QED  BY <2>1 DEF TypeOK
<1>5. CASE Start(p)
  <2>1. TypeOK'
    BY <1>1, <1>4, <1>5, GovernorAssumption DEF Start, TypeOK, penalties, slots, GovernorAssumption
  <2>2. EscalationHeld'
    BY <1>5 DEF Start, EscalationHeld, penalties
  <2> QED  BY <1>3, <2>1, <2>2
<1>6. CASE WaitForCooldown(p)
  <2>1. cooldown \in Nat /\ sleep \in [Requests -> Nat] /\ UNCHANGED <<attempt, cooldown, consecutive>>
    BY <1>6 DEF WaitForCooldown, TypeOK, penalties
  <2>2. sleep' \in [Requests -> Nat] /\ \A q \in Requests : sleep'[q] <= cooldown
    BY <1>6, <2>1 DEF WaitForCooldown, EscalationHeld
  <2> QED  BY <1>1, <1>3, <1>4, <2>1, <2>2 DEF TypeOK, EscalationHeld, slots
<1>7. CASE Admit(p)
  <2>1. UNCHANGED <<sleep, attempt, cooldown, consecutive>>
    BY <1>7 DEF Admit, penalties
  <2> QED  BY <1>1, <1>3, <1>4, <2>1 DEF TypeOK, EscalationHeld, slots
<1>8. CASE Shed(p)
  <2>1. Penalize /\ UNCHANGED sleep  BY <1>8 DEF Shed
  <2>2. EscalationHeld' /\ cooldown' \in Nat /\ consecutive' \in 0 .. Saturation
    BY <2>1, PenalizeFacts, EscalationKept
  <2>3. attempt' \in [Requests -> 0 .. MaxRetries]
    BY <1>8, ShedAttempts
  <2> QED  BY <1>1, <1>3, <1>4, <2>1, <2>2, <2>3 DEF TypeOK, slots
<1> QED  BY <1>5, <1>6, <1>7, <1>8

(***************************************************************************)
(* The steps that end with a release.                                      *)
(***************************************************************************)
LEMMA ReleaseStep ==
    ASSUME IInv, NEW p \in Requests, NEW label \in {"idle", "cool"}, ReleaseSlot(p, label),
           \/ Admit(p) \/ Succeed(p) \/ Refuse(p) \/ Shed(p) \/ Reconnected(p)
    PROVE  IInv' /\ Fair!GiveUp(p)
<1> USE DEF IInv
<1>1. pc[p] \in HoldsSlot
  BY DEF Admit, Succeed, Refuse, Shed, Reconnected, HoldsSlot
<1>2. /\ pc' \in [Requests -> PC] /\ inFlight' \in 0 .. MaxConcurrent
      /\ waiters' \in Seq(Requests) /\ SlotsConserved' /\ NoLostWakeup' /\ Fair!GiveUp(p)
  BY <1>1, ReleaseKeepsSlots
<1>3. UNCHANGED sleep
  BY DEF Admit, Succeed, Refuse, Shed, Reconnected
<1>4. attempt' \in [Requests -> 0 .. MaxRetries]
  <2>1. CASE Shed(p)  BY <2>1, ShedAttempts
  <2>2. CASE ~Shed(p)
    BY <2>2 DEF Admit, Succeed, Refuse, Reconnected, TypeOK
  <2> QED  BY <2>1, <2>2
<1>5. EscalationHeld' /\ cooldown' \in Nat /\ consecutive' \in 0 .. Saturation
  <2>1. CASE Shed(p)
    BY <1>3, <2>1, PenalizeFacts, EscalationKept DEF Shed
  <2>2. CASE Succeed(p)
    BY <1>3, <2>2, RewardFacts, EscalationKept DEF Succeed, TypeOK
  <2>3. CASE Admit(p) \/ Refuse(p) \/ Reconnected(p)
    BY <1>3, <2>3 DEF Admit, Refuse, Reconnected, penalties, TypeOK, EscalationHeld
  <2> QED  BY <2>1, <2>2, <2>3
<1> QED  BY <1>2, <1>3, <1>4, <1>5 DEF TypeOK

(***************************************************************************)
(* Time passing keeps the invariant and no slot moves.                     *)
(***************************************************************************)
LEMMA TickStep ==
    ASSUME IInv, Tick
    PROVE  IInv' /\ UNCHANGED <<Holders, waiters>>
<1> USE DEF IInv
<1>1. UNCHANGED <<pc, attempt, slots, consecutive>>  BY DEF Tick
<1>2. SlotsConserved' /\ NoLostWakeup' /\ UNCHANGED <<Holders, waiters>>
  BY <1>1, SlotsKept
<1>3. /\ cooldown \in Nat /\ sleep \in [Requests -> Nat]
      /\ cooldown' = Less(cooldown) /\ sleep' = [q \in Requests |-> Less(sleep[q])]
  BY DEF Tick, TypeOK
<1>4. TypeOK'
  BY <1>1, <1>3 DEF TypeOK, slots, Less
<1>5. EscalationHeld'
  <2>1. consecutive \in 0 .. Saturation  BY DEF TypeOK
  <2>2. Backoff(consecutive) \in Nat  BY <2>1, BackoffFacts
  <2> QED  BY <1>1, <1>3, <2>2 DEF EscalationHeld, Less
<1> QED  BY <1>2, <1>4, <1>5

-----------------------------------------------------------------------------
(***************************************************************************)
(* The invariant is inductive, and every step is a step of the fair slots. *)
(***************************************************************************)
LEMMA InitInv == Init => IInv /\ Fair!FairInit
<1> SUFFICES ASSUME Init PROVE IInv /\ Fair!FairInit
  OBVIOUS
<1>1. Holders = {} /\ waiters = <<>>  BY DEF Init, Holders, HoldsSlot
<1>2. TypeOK
  BY GovernorAssumption DEF Init, TypeOK, PC, GovernorAssumption
<1>3. SlotsConserved  BY <1>1, FS_EmptySet DEF Init, SlotsConserved
<1>4. NoLostWakeup  BY DEF Init, NoLostWakeup
<1>5. EscalationHeld  BY BackoffFacts DEF Init, EscalationHeld
<1>6. Fair!FairInit  BY <1>1 DEF Fair!FairInit
<1> QED  BY <1>2, <1>3, <1>4, <1>5, <1>6 DEF IInv

(***************************************************************************)
(* Every step keeps the invariant, and is a step of fair slots or none.    *)
(***************************************************************************)
LEMMA NextInv ==
    IInv /\ [Next]_vars => IInv' /\ [Fair!FairNext]_(Fair!slotVars)
<1> SUFFICES ASSUME IInv, [Next]_vars
             PROVE  IInv' /\ [Fair!FairNext]_(Fair!slotVars)
  OBVIOUS
<1>1. CASE UNCHANGED vars
  <2>1. UNCHANGED <<Holders, waiters>>
    BY <1>1 DEF vars, slots, Holders
  <2>2. IInv'
    BY <1>1 DEF IInv, vars, slots, penalties, TypeOK, SlotsConserved, Holders, NoLostWakeup,
                EscalationHeld
  <2> QED  BY <2>1, <2>2 DEF Fair!slotVars
<1>2. CASE Tick
  BY <1>2, TickStep DEF Fair!slotVars
<1>3. ASSUME NEW p \in Requests, Start(p) \/ Work(p)
      PROVE  IInv' /\ [Fair!FairNext]_(Fair!slotVars)
  <2>1. CASE TakeSlot(p)
    <3>1. EscalationHeld'  BY <2>1 DEF IInv, TakeSlot, EscalationHeld, penalties
    <3>2. IInv' /\ Fair!Ask(p)  BY <2>1, <3>1, TakeKeepsSlots DEF IInv
    <3> QED  BY <3>2 DEF Fair!FairNext
  <2>2. CASE \/ Start(p) \/ WaitForCooldown(p)
             \/ Admit(p) /\ cooldown = 0
             \/ Shed(p) /\ pc' = [pc EXCEPT ![p] = "reconnect"] /\ UNCHANGED slots
    BY <2>2, QuietStep DEF Fair!slotVars
  <2>3. CASE \/ Admit(p) /\ ReleaseSlot(p, "cool")
             \/ Succeed(p) \/ Refuse(p) \/ Reconnected(p)
             \/ Shed(p) /\ (ReleaseSlot(p, "idle") \/ ReleaseSlot(p, "cool"))
    <3>1. \E label \in {"idle", "cool"} : ReleaseSlot(p, label)
      BY <2>3 DEF Succeed, Refuse, Reconnected
    <3>2. IInv' /\ Fair!GiveUp(p)  BY <2>3, <3>1, ReleaseStep
    <3> QED  BY <3>2 DEF Fair!FairNext
  <2>4. Admit(p) => cooldown = 0 \/ ReleaseSlot(p, "cool")
    BY DEF Admit, IInv, TypeOK
  <2>5. Shed(p) => \/ ReleaseSlot(p, "idle") \/ ReleaseSlot(p, "cool")
                   \/ pc' = [pc EXCEPT ![p] = "reconnect"] /\ UNCHANGED slots
    BY DEF Shed
  <2> QED  BY <1>3, <2>1, <2>2, <2>3, <2>4, <2>5 DEF Work, Answer
<1> QED  BY <1>1, <1>2, <1>3 DEF Next

(***************************************************************************)
(* So the invariant holds in every reachable state.                        *)
(***************************************************************************)
LEMMA Invariance == Spec => []IInv
BY InitInv, NextInv, PTL DEF Spec

(***************************************************************************)
(* Counters and queue keep their types: #inFlight never leaves             *)
(* 0 .. maxConcurrent (governor.ts takeSlot, releaseSlot).                 *)
(***************************************************************************)
THEOREM TypeCorrect == Spec => []TypeOK
<1>1. IInv => TypeOK  BY DEF IInv
<1> QED  BY <1>1, Invariance, PTL

(***************************************************************************)
(* #inFlight counts the requests that hold a slot, exactly.                *)
(***************************************************************************)
THEOREM SlotAccounting == Spec => []SlotsConserved
<1>1. IInv => SlotsConserved  BY DEF IInv
<1> QED  BY <1>1, Invariance, PTL

(***************************************************************************)
(* Nobody is queued and forgotten, and nobody is queued while a slot is    *)
(* free (governor.ts takeSlot, releaseSlot).                               *)
(***************************************************************************)
THEOREM NoWakeupLost == Spec => []NoLostWakeup
<1>1. IInv => NoLostWakeup  BY DEF IInv
<1> QED  BY <1>1, Invariance, PTL

(***************************************************************************)
(* No success resets the escalation under a running cooldown, and no timer *)
(* sleeps past it (governor.ts penalize, reward, waitForCooldown).         *)
(***************************************************************************)
THEOREM Escalation == Spec => []EscalationHeld
<1>1. IInv => EscalationHeld  BY DEF IInv
<1> QED  BY <1>1, Invariance, PTL

(***************************************************************************)
(* The governor implements fair slots: handing a slot straight to the next *)
(* waiter, back after a fresh penalty, or on after an answer, is never     *)
(* more than a first-come-first-served semaphore does.                     *)
(***************************************************************************)
THEOREM ImplementsFairSlots == Spec => SlotsAreFair
BY InitInv, NextInv, Invariance, PTL DEF Spec, SlotsAreFair, Fair!FairSpec
=============================================================================
