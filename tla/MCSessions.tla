----------------------------- MODULE MCSessions -----------------------------
(***************************************************************************)
(* An instance, for TLC, of two small systems side by side: the sessions   *)
(* of the auth service, with the seeded roles that matter here, and the    *)
(* reaper of the fines service, with all the evidence of one fine.  They   *)
(* share neither a row nor a lock, so no behaviour needs steps of both:    *)
(* each of them moves in behaviours of its own, in which the other rests   *)
(* and owes nothing.                                                       *)
(***************************************************************************)
EXTENDS Sessions, Retention

VARIABLE part

MCRolePermissions ==
  [r \in Role |-> CASE r = "admin"   -> {"registry:write", "fines:cancel"}
                   [] r = "officer" -> {"fines:create"}
                   [] OTHER         -> {}]

MCGrant == {{"officer"}, {"admin"}}

MCFineOf == [e \in Evidence |-> CHOOSE f \in Fine : TRUE]

MCInit ==
  /\ part \in {"sessions", "evidence"}
  /\ Init
  /\ part = "evidence" => \A u \in User : account[u].password = CHOOSE p \in Password : TRUE
  /\ RetentionInit

MCNext ==
  \/ part = "sessions" /\ Next /\ UNCHANGED <<part, retentionVars>>
  \/ part = "evidence" /\ RetentionNext /\ UNCHANGED <<part, vars>>

MCSpec ==
  /\ MCInit /\ [][MCNext]_<<part, vars, retentionVars>>
  /\ Fairness /\ RetentionFairness
=============================================================================
