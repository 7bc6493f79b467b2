-------------------------- MODULE DeliveryRegister --------------------------
(***************************************************************************)
(* What the delivery journals of the cron outbox promise, without files,   *)
(* tokens, clocks or crashes: the right to deliver an event is leased one  *)
(* generation after the other, at most one generation is ever accepted,    *)
(* and an event that left the retained window is never leased again.       *)
(***************************************************************************)
EXTENDS Naturals

CONSTANT Event

VARIABLES generation,   \* how often the event was leased
          winner,       \* the generation that delivered it, 0 for none yet
          retired       \* the events below the retained floor

register == <<generation, winner, retired>>

Init ==
    /\ generation = [e \in Event |-> 0]
    /\ winner = [e \in Event |-> 0]
    /\ retired = {}

Grant(e) ==
    /\ e \notin retired
    /\ winner[e] = 0
    /\ generation' = [generation EXCEPT ![e] = @ + 1]
    /\ UNCHANGED <<winner, retired>>

\* Only the newest lease delivers.
Accept(e) ==
    /\ e \notin retired
    /\ winner[e] = 0
    /\ generation[e] > 0
    /\ winner' = [winner EXCEPT ![e] = generation[e]]
    /\ UNCHANGED <<generation, retired>>

\* The history of a retired event is forgotten, never its retirement.
Retire(S) ==
    /\ retired' = retired \cup S
    /\ generation' = [e \in Event |-> IF e \in retired' THEN 0 ELSE generation[e]]
    /\ winner' = [e \in Event |-> IF e \in retired' THEN 0 ELSE winner[e]]

Next ==
    \/ \E e \in Event : Grant(e) \/ Accept(e)
    \/ \E S \in SUBSET Event : Retire(S)

Spec == Init /\ [][Next]_register

=============================================================================
