SPECIFICATION Spec
CONSTANTS
  ThreadCounts = {0, 3}
  Protocols <- MCProtocols
  FLOW_TABLE_MAX_FLOWS = 7
  None = None
  Interfaces = {eth0, eth1}
  Garbled = Garbled
  MaxWords = 2
  MaxEnables = 2
  MaxRefusals = 2
  Unspecified = Unspecified
SYMMETRY InterfaceSymmetry
INVARIANTS
  TypeOK
  OwnHandler
  TableForEveryPacket
  PreBeforeInput
  ApartByRefusals
PROPERTIES
  SwitchedAsAsked
