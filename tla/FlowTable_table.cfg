SPECIFICATION Spec
CONSTANTS
  A = A
  B = B
  C = C
  TCPProto = TCPProto
  UDPProto = UDPProto
  None = None
  NoHandle = NoHandle
  Addrs <- MCAddrs
  Ports <- MCPorts
  Protocols <- MCProtocols
  TCP = TCPProto
  Vlans = {0}
  Interfaces = {1, 2}
  SeqNos = {0}
  MaxFlows = 2
  Handles = {1, 2}
  Timeout = 1
  MaxFreed = 1
  Buffers = {b1, b2}
  Packets <- AckMCPackets
  HashVals <- UsedKeys
  FlowHash <- InjectiveHash
  GrowAt = 4
SYMMETRY BufferPeerSymmetry
PROPERTIES
  Isolation
  TimerSpec
INVARIANTS
  TypeOK
  EntriesMirror
  OneFlowPerKey
  KeysResolve
  BufferNamesItsFlow
  TableSound
