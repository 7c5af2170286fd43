SPECIFICATION FairSpec
CONSTANTS
  A = A
  B = B
  C = C
  TCPProto = TCPProto
  UDPProto = UDPProto
  None = None
  NoHandle = NoHandle
  Addrs <- MCAddrs
  Ports <- MCPorts
  Protocols <- MCProtocols
  TCP = TCPProto
  Vlans = {0}
  Interfaces = {1, 2}
  SeqNos = {0}
  MaxFlows = 1
  Handles = {1}
  Timeout = 1
  MaxFreed = 1
  Buffers = {b1}
  Packets <- AckMCPackets
  HashVals <- UsedKeys
  FlowHash <- InjectiveHash
  GrowAt = 9
PROPERTIES
  IdleFlowsExpire
