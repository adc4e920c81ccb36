SPECIFICATION Spec
CONSTANTS
  Endpoint = {e1, e2, e3, e4}
  None = None
  Never = Never
  FreshAge = 2
  FailoverAfter = 3
  WarmAge = 8
INVARIANTS TypeOK DeviceIsActive
PROPERTIES SwitchOnlyFromStale NewEndpointWaitsForCold ImplementsPeerTable
SYMMETRY EndpointSymmetry
