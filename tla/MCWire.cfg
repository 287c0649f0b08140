CONSTANTS
  Types <- MCTypes
  Xids <- MCXids
  Ports <- MCPorts
  Counters <- MCCounters
  Unset = Unset
SPECIFICATION Spec
INVARIANTS
  TypeOK
  LayoutAsAsserted
  ReadAsMeant
