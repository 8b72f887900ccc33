------------------------------ MODULE Registry ------------------------------
(***************************************************************************)
(* The vehicle registry: vehicles and their flags, owners, and the         *)
(* transfer of a vehicle from its owner (the seller) to whoever enters the *)
(* code of an open transfer (the buyer).  A code is unique among the open  *)
(* transfers, so the transfer stands for its code.  start and accept are   *)
(* cut between the reads that decide and the commit.                       *)
(***************************************************************************)
CONSTANTS
  Vehicle, Owner,
  Transfer,   \* start requests, and the rows of vehicle_transfers they insert
  Accept,     \* concurrent accept requests
  NoVehicle, NoOwner, NoTransfer

ASSUME RegistryAssumption ==
  /\ NoVehicle \notin Vehicle
  /\ NoOwner \notin Owner
  /\ NoTransfer \notin Transfer

VARIABLES
  listed,     \* vehicles
  profile,    \* owners
  owner,      \* vehicles.owner_id
  flagged,    \* vehicles.is_stolen OR is_seized OR is_wanted
  state,      \* vehicle_transfers.status; "read" while the request is open
  about,      \* vehicle_transfers.vehicle_id
  seller,     \* vehicle_transfers.from_owner
  buyer,      \* vehicle_transfers.to_owner
  late,       \* expires_at has passed
  accepting,  \* the transfer whose row an accept request has locked
  caller,     \* the owner that request is for
  events,     \* committed rows of event_outbox
  stale,      \* history: the title went elsewhere while the request was open,
              \* or staff gave it away since
  raised      \* history: a flag was raised while the accept was open

titleVars    == <<listed, profile, owner>>
transferVars == <<state, about, seller, buyer, late>>
acceptVars   == <<accepting, caller>>
vars == <<titleVars, flagged, transferVars, acceptVars, events, stale, raised>>

Event == {"created"} \X Vehicle
           \cup {"flagged"} \X Vehicle \X BOOLEAN
           \cup {"transferred"} \X Transfer \X Owner

TypeOK ==
  /\ listed \subseteq Vehicle
  /\ profile \subseteq Owner
  /\ owner \in [Vehicle -> profile \cup {NoOwner}]
  /\ flagged \in [Vehicle -> BOOLEAN]
  /\ state \in [Transfer -> {"none", "read", "pending", "accepted", "cancelled",
                             "expired"}]
  /\ about \in [Transfer -> Vehicle \cup {NoVehicle}]
  /\ seller \in [Transfer -> profile \cup {NoOwner}]
  /\ buyer \in [Transfer -> profile \cup {NoOwner}]
  /\ late \in [Transfer -> BOOLEAN]
  /\ accepting \in [Accept -> Transfer \cup {NoTransfer}]
  /\ caller \in [Accept -> profile \cup {NoOwner}]
  /\ events \subseteq Event
  /\ stale \in [Transfer -> BOOLEAN]
  /\ raised \in [Transfer -> BOOLEAN]

Init ==
  /\ listed = {}
  /\ profile = {}
  /\ owner = [v \in Vehicle |-> NoOwner]
  /\ flagged = [v \in Vehicle |-> FALSE]
  /\ state = [t \in Transfer |-> "none"]
  /\ about = [t \in Transfer |-> NoVehicle]
  /\ seller = [t \in Transfer |-> NoOwner]
  /\ buyer = [t \in Transfer |-> NoOwner]
  /\ late = [t \in Transfer |-> FALSE]
  /\ accepting = [a \in Accept |-> NoTransfer]
  /\ caller = [a \in Accept |-> NoOwner]
  /\ events = {}
  /\ stale = [t \in Transfer |-> FALSE]
  /\ raised = [t \in Transfer |-> FALSE]

----------------------------------------------------------------------------
Open(v) == {t \in Transfer : state[t] = "pending" /\ about[t] = v}
Requested(v) == {t \in Transfer : state[t] = "read" /\ about[t] = v}
Locked(t) == \E a \in Accept : accepting[a] = t

(***************************************************************************)
(* Vehicles and owners.                                                    *)
(***************************************************************************)
\* createOwner, by staff.
CreateOwner(o) ==
  /\ o \notin profile
  /\ profile' = profile \cup {o}
  /\ UNCHANGED <<listed, owner, flagged, transferVars, acceptVars, events,
                 stale, raised>>

\* selfClaimOwner, by the citizen: an upsert.
SelfClaimOwner(o) ==
  /\ profile' = profile \cup {o}
  /\ UNCHANGED <<listed, owner, flagged, transferVars, acceptVars, events,
                 stale, raised>>

\* create, with an owner or without one.
Create(v, o) ==
  /\ v \notin listed
  /\ listed' = listed \cup {v}
  /\ owner' = [owner EXCEPT ![v] = o]
  /\ events' = events \cup {<<"created", v>>}
  /\ UNCHANGED <<profile, flagged, transferVars, acceptVars, stale, raised>>

SetFlags(v, f) ==
  /\ v \in listed
  /\ flagged' = [flagged EXCEPT ![v] = f]
  /\ events' = events \cup {<<"flagged", v, f>>}
  /\ raised' = [t \in Transfer |->
                  raised[t] \/ (f /\ about[t] = v /\ Locked(t))]
  /\ UNCHANGED <<titleVars, transferVars, acceptVars, stale>>

\* Staff give the title to another owner, whatever transfer is open.
GiveTitle(v, o) ==
  /\ v \in listed /\ o \in profile
  /\ owner' = [owner EXCEPT ![v] = o]
  /\ stale' = [t \in Transfer |-> stale[t] \/ t \in Open(v) \cup Requested(v)]
  /\ UNCHANGED <<listed, profile, flagged, transferVars, acceptVars, events,
                 raised>>

LinkVehicle(v, o) == GiveTitle(v, o)
UpdateVehicle(v, o) == GiveTitle(v, o)

(***************************************************************************)
(* Transfers.                                                              *)
(***************************************************************************)
\* startTransfer reads that its caller owns the vehicle and no flag is up.
StartRead(t, v) ==
  /\ state[t] = "none"
  /\ v \in listed /\ owner[v] # NoOwner
  /\ ~flagged[v]
  /\ state' = [state EXCEPT ![t] = "read"]
  /\ about' = [about EXCEPT ![t] = v]
  /\ seller' = [seller EXCEPT ![t] = owner[v]]
  /\ UNCHANGED <<titleVars, flagged, buyer, late, acceptVars, events, stale,
                 raised>>

\* Mutant: neither the query nor the unique index keeps a second one out.
StartCommitAgain(t) ==
  /\ state[t] = "read"
  /\ state' = [state EXCEPT ![t] = "pending"]
  /\ UNCHANGED <<titleVars, flagged, about, seller, buyer, late, acceptVars,
                 events, stale, raised>>

\* From the query for an open transfer to the commit: the unique index makes
\* concurrent inserts wait for each other and fail.
StartCommit(t) ==
  /\ state[t] = "read" /\ Open(about[t]) = {}
  /\ state' = [state EXCEPT ![t] = "pending"]
  /\ UNCHANGED <<titleVars, flagged, about, seller, buyer, late, acceptVars,
                 events, stale, raised>>

StartFails(t) ==
  /\ state[t] = "read"
  /\ state' = [state EXCEPT ![t] = "none"]
  /\ about' = [about EXCEPT ![t] = NoVehicle]
  /\ seller' = [seller EXCEPT ![t] = NoOwner]
  /\ stale' = [stale EXCEPT ![t] = FALSE]
  /\ UNCHANGED <<titleVars, flagged, buyer, late, acceptVars, events, raised>>

SevenDays(t) ==
  /\ state[t] = "pending" /\ ~late[t]
  /\ late' = [late EXCEPT ![t] = TRUE]
  /\ UNCHANGED <<titleVars, flagged, state, about, seller, buyer, acceptVars,
                 events, stale, raised>>

\* Mutant: the row is found without FOR UPDATE.
Unlocked(t) == state[t] = "pending"

\* A row an accept holds is not free.
Free(t) == state[t] = "pending" /\ ~Locked(t)

End(t, ending) ==
  /\ Free(t)
  /\ state' = [state EXCEPT ![t] = ending]
  /\ UNCHANGED <<titleVars, flagged, about, seller, buyer, late, acceptVars,
                 events, stale, raised>>

CancelTransfer(t) == End(t, "cancelled")

\* Accepts that end the transfer instead: too late, or a flag is up.
AcceptLate(t, o) == o \in profile /\ late[t] /\ End(t, "expired")

AcceptRefused(t, o) ==
  /\ Free(t)
  /\ o \in profile \ {seller[t]}
  /\ ~late[t] /\ flagged[about[t]]
  /\ End(t, "cancelled")

\* Mutant: the flags are not read again.
AcceptReadOnly(a, t, o) ==
  /\ accepting[a] = NoTransfer
  /\ Free(t)
  /\ o \in profile \ {seller[t]}
  /\ ~late[t]
  /\ accepting' = [accepting EXCEPT ![a] = t]
  /\ caller' = [caller EXCEPT ![a] = o]
  /\ UNCHANGED <<titleVars, flagged, transferVars, events, stale, raised>>

\* The buyer's request locks the row and reads the flags, not locking those.
AcceptRead(a, t, o) ==
  /\ accepting[a] = NoTransfer
  /\ Free(t)
  /\ o \in profile \ {seller[t]}
  /\ ~late[t] /\ ~flagged[about[t]]
  /\ accepting' = [accepting EXCEPT ![a] = t]
  /\ caller' = [caller EXCEPT ![a] = o]
  /\ UNCHANGED <<titleVars, flagged, transferVars, events, stale, raised>>

EndAccept(a) ==
  /\ accepting' = [accepting EXCEPT ![a] = NoTransfer]
  /\ caller' = [caller EXCEPT ![a] = NoOwner]

AcceptCommit(a) ==
  LET t == accepting[a]
      o == caller[a]
      v == about[t]
  IN  /\ t # NoTransfer
      /\ owner' = [owner EXCEPT ![v] = o]
      /\ state' = [state EXCEPT ![t] = "accepted"]
      /\ buyer' = [buyer EXCEPT ![t] = o]
      /\ events' = events \cup {<<"transferred", t, o>>}
      /\ stale' = [u \in Transfer |-> stale[u] \/ u \in Requested(v)]
      /\ EndAccept(a)
      /\ UNCHANGED <<listed, profile, flagged, about, seller, late, raised>>

AcceptRollback(a) ==
  LET t == accepting[a]
  IN  /\ t # NoTransfer
      /\ raised' = [raised EXCEPT ![t] = FALSE]
      /\ EndAccept(a)
      /\ UNCHANGED <<titleVars, flagged, transferVars, events, stale>>

----------------------------------------------------------------------------
Staff(v) ==
  \/ \E o \in profile \cup {NoOwner} : Create(v, o)
  \/ \E f \in BOOLEAN : SetFlags(v, f)
  \/ \E o \in Owner : LinkVehicle(v, o) \/ UpdateVehicle(v, o)

Selling(t) ==
  \/ \E v \in Vehicle : StartRead(t, v)
  \/ StartCommit(t) \/ StartFails(t)
  \/ SevenDays(t) \/ CancelTransfer(t)
  \/ \E o \in Owner : AcceptLate(t, o) \/ AcceptRefused(t, o)

Buying(a) ==
  \/ \E t \in Transfer, o \in Owner : AcceptRead(a, t, o)
  \/ AcceptCommit(a) \/ AcceptRollback(a)

Next ==
  \/ \E o \in Owner : CreateOwner(o) \/ SelfClaimOwner(o)
  \/ \E v \in Vehicle : Staff(v)
  \/ \E t \in Transfer : Selling(t)
  \/ \E a \in Accept : Buying(a)

Spec == Init /\ [][Next]_vars

----------------------------------------------------------------------------
(***************************************************************************)
(* Properties.                                                             *)
(***************************************************************************)
\* The seller of an open transfer holds the title, unless staff gave it away
\* or another transfer was accepted between startTransfer's check and its
\* insert: of the transfers that are open, none can take it from the other.
SellerHoldsTitle == \A t \in Transfer :
  state[t] = "pending" /\ ~stale[t] => owner[about[t]] = seller[t]

\* A code is single-use: the events of a transfer name the one buyer that got
\* the title for it, and only an accepted transfer has any.
CodeIsSingleUse == \A t \in Transfer :
  {o \in Owner : <<"transferred", t, o>> \in events}
    = IF state[t] = "accepted" THEN {buyer[t]} ELSE {}

\* A flagged vehicle changes hands only if its flag went up while the accept
\* was open, after acceptTransfer had read the flags.
FlagStopsTransfer == [][\A t \in Transfer :
  state[t] = "pending" /\ state'[t] = "accepted" /\ flagged[about[t]]
    => raised[t]]_vars
=============================================================================
