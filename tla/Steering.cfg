SPECIFICATION Spec
CONSTANTS
  Requests = {"D", "N", "R"}
  LightCommands = {"LEFT", "RIGHT", "HAZARD", "OFF"}
INVARIANTS TypeOK BusFollowsWheel
PROPERTIES BitsAreLostOnlyInStores SafeRequestsAreServed
