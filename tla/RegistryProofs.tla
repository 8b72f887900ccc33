--------------------------- MODULE RegistryProofs ---------------------------
(***************************************************************************)
(* Theorems about Registry, for every number of vehicles, owners, transfers*)
(* and requests.                                                           *)
(***************************************************************************)
EXTENDS Registry, TLAPS

\* A request or row names a vehicle of the registry.
RowsNamed == \A t \in Transfer :
  /\ state[t] # "none" => about[t] \in listed
  /\ state[t] = "none" => about[t] = NoVehicle

\* An accept holds the row of an open transfer, and no other accept does.
LocksHeld == \A a \in Accept, t \in Transfer : accepting[a] = t =>
  /\ state[t] = "pending"
  /\ caller[a] \in profile
  /\ \A b \in Accept : accepting[b] = t => a = b

\* The unique index: one open transfer per vehicle.
OneOpen == \A t, u \in Transfer :
  state[t] = "pending" /\ state[u] = "pending" /\ about[t] = about[u] => t = u

\* An accept has seen no flag, so that one that is up was raised since.
FlagsSeen == \A a \in Accept, t \in Transfer, v \in Vehicle :
  accepting[a] = t /\ about[t] = v /\ flagged[v] => raised[t]

\* The same of a request that has read the title and not inserted its row.
ReaderHoldsTitle == \A t \in Transfer :
  state[t] = "read" /\ ~stale[t] => owner[about[t]] = seller[t]

IInv == /\ TypeOK /\ RowsNamed /\ LocksHeld /\ OneOpen /\ FlagsSeen
        /\ ReaderHoldsTitle /\ SellerHoldsTitle /\ CodeIsSingleUse

----------------------------------------------------------------------------
\* Vehicles, flags and owners: transfers are open in whatever number.
LEMMA StaffStep ==
  ASSUME IInv,
         \/ \E o \in Owner : CreateOwner(o) \/ SelfClaimOwner(o)
         \/ \E v \in Vehicle : Staff(v)
  PROVE  IInv'
<1> USE RegistryAssumption DEF IInv, TypeOK, Event, ReaderHoldsTitle, RowsNamed, LocksHeld, OneOpen,
        FlagsSeen, SellerHoldsTitle, CodeIsSingleUse, transferVars, acceptVars,
        titleVars
<1>1. ASSUME NEW o \in Owner, CreateOwner(o) \/ SelfClaimOwner(o)
      PROVE  IInv'
  BY <1>1 DEF CreateOwner, SelfClaimOwner
<1>2. ASSUME NEW v \in Vehicle, NEW o \in profile \cup {NoOwner}, Create(v, o)
      PROVE  IInv'
  BY <1>2 DEF Create
<1>3. ASSUME NEW v \in Vehicle, NEW f \in BOOLEAN, SetFlags(v, f)
      PROVE  IInv'
  BY <1>3 DEF SetFlags, Locked
<1>4. ASSUME NEW v \in Vehicle, NEW o \in Owner, GiveTitle(v, o)
      PROVE  IInv'
  <2>1. /\ owner' = [owner EXCEPT ![v] = o]
        /\ v \in Vehicle /\ o \in profile
        /\ \A t \in Transfer : ~stale'[t] => ~stale[t] /\
             (state[t] \in {"pending", "read"} => about[t] # v)
        /\ stale' \in [Transfer -> BOOLEAN]
        /\ UNCHANGED <<listed, profile, flagged, state, about, seller, buyer, late,
                        accepting, caller, events, raised>>
    BY <1>4 DEF GiveTitle, Open, Requested
  <2>2. SellerHoldsTitle' /\ ReaderHoldsTitle'
    BY <2>1
  <2> QED
    BY <2>1, <2>2
<1> QED
  BY <1>1, <1>2, <1>3, <1>4 DEF Staff, LinkVehicle, UpdateVehicle

\* The start request, and the ways an open transfer ends without a buyer.
LEMMA SellingStep ==
  ASSUME IInv, NEW t \in Transfer, Selling(t)
  PROVE  IInv'
<1> USE RegistryAssumption DEF IInv, TypeOK, Event, ReaderHoldsTitle, RowsNamed, LocksHeld, OneOpen,
        FlagsSeen, SellerHoldsTitle, CodeIsSingleUse, transferVars, acceptVars,
        titleVars
<1>1. ASSUME NEW v \in Vehicle, StartRead(t, v)
      PROVE  IInv'
  BY <1>1 DEF StartRead
<1>2. CASE StartCommit(t)
  BY <1>2 DEF StartCommit, Open
<1>3. CASE StartFails(t)
  BY <1>3 DEF StartFails
<1>4. CASE SevenDays(t)
  BY <1>4 DEF SevenDays
<1>5. ASSUME NEW ending \in {"cancelled", "expired"}, End(t, ending)
      PROVE  IInv'
  BY <1>5 DEF End, Free, Locked
<1> QED
  BY <1>1, <1>2, <1>3, <1>4, <1>5 DEF Selling, CancelTransfer, AcceptLate, AcceptRefused

\* The buyer's request.
LEMMA BuyingStep ==
  ASSUME IInv, NEW a \in Accept, Buying(a)
  PROVE  IInv'
<1> USE RegistryAssumption DEF IInv, TypeOK, Event, ReaderHoldsTitle, RowsNamed, LocksHeld, OneOpen,
        FlagsSeen, SellerHoldsTitle, CodeIsSingleUse, transferVars, acceptVars,
        titleVars
<1>1. ASSUME NEW t \in Transfer, NEW o \in Owner, AcceptRead(a, t, o)
      PROVE  IInv'
  BY <1>1 DEF AcceptRead, Free, Locked
<1>2. CASE AcceptCommit(a)
  <2> DEFINE t == accepting[a]
             o == caller[a]
             v == about[t]
  <2>1. /\ t \in Transfer /\ o \in profile /\ o \in Owner /\ v \in Vehicle
        /\ state[t] = "pending"
    BY <1>2 DEF AcceptCommit
  <2>2. \A b \in Accept \ {a} : accepting[b] # t
    BY <2>1
  <2>3. \A u \in Transfer : state[u] = "pending" /\ about[u] = v => u = t
    BY <2>1
  <2>4. /\ owner' = [owner EXCEPT ![v] = o]
        /\ state' = [state EXCEPT ![t] = "accepted"]
        /\ buyer' = [buyer EXCEPT ![t] = o]
        /\ events' = events \cup {<<"transferred", t, o>>}
        /\ stale' = [u \in Transfer |-> stale[u] \/ u \in Requested(v)]
        /\ accepting' = [accepting EXCEPT ![a] = NoTransfer]
        /\ caller' = [caller EXCEPT ![a] = NoOwner]
        /\ UNCHANGED <<listed, profile, flagged, about, seller, late, raised>>
    BY <1>2 DEF AcceptCommit, EndAccept
  <2> HIDE DEF t, o, v
  <2>5. TypeOK'
    BY <2>1, <2>4
  <2>6. RowsNamed' /\ LocksHeld' /\ OneOpen' /\ FlagsSeen'
    BY <2>1, <2>2, <2>4
  <2>7. SellerHoldsTitle' /\ ReaderHoldsTitle'
    <3>1. \A u \in Transfer : ~stale'[u] => ~stale[u] /\
            (state[u] = "read" => about[u] # v)
      BY <2>4 DEF Requested
    <3>2. \A u \in Transfer :
            /\ state'[u] = "read" => state[u] = "read"
            /\ state'[u] = "pending" => state[u] = "pending" /\ about[u] # v
      BY <2>1, <2>3, <2>4
    <3>3. \A w \in Vehicle \ {v} : owner'[w] = owner[w]
      BY <2>1, <2>4
    <3> QED
      BY <2>4, <3>1, <3>2, <3>3
  <2>8. CodeIsSingleUse'
    BY <2>1, <2>4
  <2> QED
    BY <2>5, <2>6, <2>7, <2>8
<1>3. CASE AcceptRollback(a)
  <2>1. \A b \in Accept \ {a} : accepting[b] # accepting[a]
    BY <1>3 DEF AcceptRollback
  <2> QED
    BY <1>3, <2>1 DEF AcceptRollback, EndAccept
<1> QED
  BY <1>1, <1>2, <1>3 DEF Buying

\* The invariant holds in every reachable state.
LEMMA Invariant == Spec => []IInv
<1>1. Init => IInv
  BY RegistryAssumption DEF Init, IInv, TypeOK, Event, ReaderHoldsTitle, RowsNamed, LocksHeld, OneOpen,
     FlagsSeen, SellerHoldsTitle, CodeIsSingleUse
<1>2. IInv /\ [Next]_vars => IInv'
  <2>1. CASE UNCHANGED vars
    BY <2>1 DEF vars, IInv, TypeOK, Event, ReaderHoldsTitle, RowsNamed, LocksHeld, OneOpen, FlagsSeen,
       SellerHoldsTitle, CodeIsSingleUse, titleVars, transferVars, acceptVars
  <2> QED
    BY <2>1, StaffStep, SellingStep, BuyingStep DEF Next
<1> QED
  BY <1>1, <1>2, PTL DEF Spec

----------------------------------------------------------------------------
\* Type correctness, and the foreign keys of vehicles and vehicle_transfers.
THEOREM TypeCorrect == Spec => []TypeOK
  BY Invariant, PTL DEF IInv

\* The seller of an open transfer holds the title but for staff and the race
\* of start with accept.
THEOREM SellerHoldsTitleHolds == Spec => []SellerHoldsTitle
  BY Invariant, PTL DEF IInv

\* "The code is short-lived, single-use": one buyer and one event for it.
THEOREM CodeIsSingleUseHolds == Spec => []CodeIsSingleUse
  BY Invariant, PTL DEF IInv

\* Only a flag raised while acceptTransfer was under way fails to stop it.
THEOREM FlagStopsTransferHolds == Spec => FlagStopsTransfer
<1>1. IInv /\ [Next]_vars =>
        [\A t \in Transfer :
           state[t] = "pending" /\ state'[t] = "accepted" /\ flagged[about[t]]
             => raised[t]]_vars
  <2> SUFFICES ASSUME IInv, Next, NEW t \in Transfer, state[t] = "pending",
                      state'[t] = "accepted", flagged[about[t]]
               PROVE  raised[t]
    BY DEF vars
  <2> USE DEF IInv, TypeOK, RowsNamed
  <2>1. \E a \in Accept : accepting[a] = t
    <3>1. state' # state /\ t \in Transfer
      OBVIOUS
    <3>2. ASSUME NEW u \in Transfer, Selling(u)
          PROVE  FALSE
      BY <3>2 DEF Selling, StartRead, StartCommit, StartFails, SevenDays, End,
         CancelTransfer, AcceptLate, AcceptRefused
    <3>3. ASSUME NEW v \in Vehicle, Staff(v)
          PROVE  FALSE
      BY <3>1, <3>3 DEF Staff, Create, SetFlags, LinkVehicle, UpdateVehicle, GiveTitle,
         transferVars
    <3>4. ASSUME NEW o \in Owner, CreateOwner(o) \/ SelfClaimOwner(o)
          PROVE  FALSE
      BY <3>1, <3>4 DEF CreateOwner, SelfClaimOwner, transferVars
    <3>5. PICK a \in Accept : Buying(a)
      BY <3>2, <3>3, <3>4 DEF Next
    <3> QED
      BY <3>1, <3>5 DEF Buying, AcceptRead, AcceptCommit, AcceptRollback, transferVars
  <2> QED
    BY <2>1 DEF FlagsSeen
<1> QED
  BY <1>1, Invariant, PTL DEF Spec, FlagStopsTransfer
=============================================================================
