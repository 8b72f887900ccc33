-------------------------- MODULE MCNotifications --------------------------
(***************************************************************************)
(* An instance of Notifications for TLC: a fine on a vehicle that changes  *)
(* hands, and an event nobody is told of.                                  *)
(***************************************************************************)
EXTENDS Notifications

CONSTANTS seller, buyer

MCKindOf  == <<"vehicle", "other">>
MCPartyOf == <<seller, buyer>>
=============================================================================
