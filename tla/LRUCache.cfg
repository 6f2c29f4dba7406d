\* Every sequence of calls on four keys, capacities 0 to 5.
CONSTANTS
  Keys = {k1, k2, k3, k4}
  Capacities <- MCCapacities
SPECIFICATION Spec
INVARIANTS
  TypeOK
  ListAndMapAgree
PROPERTIES
  EvictionsReported
  OldestLeaveFirst
  ImplementsRecencyOrder
