\* Three owners, three start requests and two accept requests for one vehicle.
CONSTANTS
  Vehicle = {v1}
  Owner = {o1, o2, o3}
  Transfer = {t1, t2, t3}
  Accept = {a1, a2}
  NoVehicle = NoVehicle
  NoOwner = NoOwner
  NoTransfer = NoTransfer
SPECIFICATION Spec
SYMMETRY Symmetry
INVARIANTS
  SellerHoldsTitle
  CodeIsSingleUse
PROPERTIES
  FlagStopsTransfer
CHECK_DEADLOCK FALSE
