---------------------------- MODULE AtLeastOnce ----------------------------
(***************************************************************************)
(* At-least-once delivery: an item, once accepted, is delivered, possibly  *)
(* more than once; an item that was not accepted never is.                 *)
(***************************************************************************)
EXTENDS Naturals

CONSTANT Item

VARIABLES accepted, times

delivery == <<accepted, times>>

DeliveryInit ==
  /\ accepted = {}
  /\ times = [i \in Item |-> 0]

Accept(i) ==
  /\ i \notin accepted
  /\ accepted' = accepted \cup {i}
  /\ UNCHANGED times

Deliver(i) ==
  /\ i \in accepted
  /\ times' = [times EXCEPT ![i] = @ + 1]
  /\ UNCHANGED accepted

DeliveryNext == \E i \in Item : Accept(i) \/ Deliver(i)

DeliverySpec == DeliveryInit /\ [][DeliveryNext]_delivery

\* Every accepted item is delivered at least once.
LiveSpec ==
  /\ DeliverySpec
  /\ \A i \in Item : WF_delivery(Deliver(i) /\ times[i] = 0)
=============================================================================
