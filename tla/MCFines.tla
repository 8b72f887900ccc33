------------------------------ MODULE MCFines ------------------------------
(***************************************************************************)
(* Instances of Fines for TLC.                                             *)
(***************************************************************************)
EXTENDS Fines, TLC

\* Two stages: the first does not set the status the second does.
MCStageAction == <<"warning", "court">>
MCStageAge    == <<1, 2>>
\* One stage, for the runs about payments.
MCOneAction   == <<"seize">>
MCOneAge      == <<1>>

SafetySymmetry == Permutations(Fine) \cup Permutations(Payment)
                   \cup Permutations(Intent) \cup Permutations(Dispute)
                   \cup Permutations(Replica)

\* Bounds of the safety run: either everybody is about one fine, whose vehicle
\* is unknown, or two fines on a vehicle meet one pay request or dispute, one
\* cancellation and one sweep at a time.
AtMostOne(S) == Cardinality(S) <= 1

AboutOneFine ==
  /\ AtMostOne({f \in Fine : status[f] # "none"})
  /\ \A f \in Fine : subject[f] = NoVehicle

AboutTwoFines ==
  /\ \A f \in Fine : status[f] # "none" => subject[f] # NoVehicle
  /\ AtMostOne({p \in Payment : pay[p] # "none"} \cup
               {d \in Dispute : dispute[d] # "none"})
  /\ AtMostOne({f \in Fine \cup {NoFine} : outbox.cancelled[f] > 0})
  /\ AtMostOne({r \in Replica : batch[r] # {}})

OneFineOrTwo == AboutOneFine \/ AboutTwoFines
=============================================================================
