----------------------------- MODULE FairSlots -----------------------------
(***************************************************************************)
(* What the governor promises of its slots: at most Slots holders at a     *)
(* time, and whoever has to wait is served first come, first served.       *)
(***************************************************************************)
EXTENDS Naturals, Sequences, FiniteSets

CONSTANTS Clients, Slots

VARIABLES
    holding,    \* the clients that hold a slot
    queue       \* those that wait for one, in order of arrival

slotVars == <<holding, queue>>

FairInit == holding = {} /\ queue = <<>>

(***************************************************************************)
(* A client outside asks for a slot: it gets a free one, or waits.         *)
(***************************************************************************)
Ask(c) ==
    /\ c \notin holding
    /\ \A n \in DOMAIN queue : queue[n] # c
    /\ \/ /\ Cardinality(holding) < Slots
          /\ holding' = holding \cup {c}
          /\ UNCHANGED queue
       \/ /\ Cardinality(holding) = Slots
          /\ queue' = Append(queue, c)
          /\ UNCHANGED holding

(***************************************************************************)
(* A holder gives its slot up: to the head of the queue, if there is one.  *)
(***************************************************************************)
GiveUp(c) ==
    /\ c \in holding
    /\ \/ /\ queue = <<>>
          /\ holding' = holding \ {c}
          /\ UNCHANGED queue
       \/ /\ queue # <<>>
          /\ holding' = (holding \ {c}) \cup {Head(queue)}
          /\ queue' = Tail(queue)

FairNext == \E c \in Clients : Ask(c) \/ GiveUp(c)

FairSpec == FairInit /\ [][FairNext]_slotVars
=============================================================================
