SPECIFICATION Spec
CONSTANTS
  Size = 2
  Slots = 1
  Datagrams <- MCDatagrams
  Parts <- MCParts
  LastBytes <- MCLastBytes
  MaxPackets = 4
INVARIANTS TypeOK CountIsBehind InOrderDelivery
PROPERTIES ReaderCatchesUp EverythingArrives
CHECK_DEADLOCK FALSE
