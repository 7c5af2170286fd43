SPECIFICATION Spec
CONSTANTS
  Byte = 4
  TagWords <- MCTagWords
  L2Offsets = {0, 50}
  AddrBytes <- MCAddrBytes
  Segments <- MCSegments
  IP_PROTOCOL_TCP = 3
  None = None
INVARIANTS
  TypeOK
  HeaderFound
  ResetInVlan
  FlowsOfOneVlan
  ReceiverAccepts
