SPECIFICATION Spec
CONSTANTS
  k1 = k1
  k2 = k2
  u1 = u1
  Requests = {r1, r2, r3}
  Users <- MCUsers
  Keys <- MCKeys
  InactiveKeys <- MCInactiveKeys
  MockKeys <- MCMockKeys
  MasterKey = master
  None = None
  UserOf <- MCUserOf
  MaxCost = 2
  StartBalance = 1
  MaxDeductions = 1
  MaxRows = 1
SYMMETRY Symmetry
INVARIANTS
  TypeOK
  BoundedOverdraft
  LoggedIsCharged
