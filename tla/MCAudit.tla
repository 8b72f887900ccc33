------------------------------ MODULE MCAudit ------------------------------
(***************************************************************************)
(* An instance of the audit service for TLC.  The chain and the statistics *)
(* share neither a row nor a lock, so no behaviour needs steps of both:    *)
(* each of them moves in behaviours of its own.                            *)
(***************************************************************************)
EXTENDS AuditChain, Rollup

VARIABLE part

AuditInit ==
  /\ part \in {"chain", "statistics"}
  /\ Init
  /\ part = "statistics" => content \in [Write -> {CHOOSE c \in Content : TRUE}]
  /\ RollupInit

AuditNext ==
  \/ part = "chain" /\ Next /\ UNCHANGED <<part, rollupVars>>
  \/ part = "statistics" /\ RollupNext /\ UNCHANGED <<part, vars>>

AuditSpec ==
  /\ AuditInit /\ [][AuditNext]_<<part, vars, rollupVars>>
  /\ part = "statistics" => RollupFairness
=============================================================================
